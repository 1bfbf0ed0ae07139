SPECIFICATION Spec
CONSTANTS
  Files <- MCFiles
  TestFiles <- MCTestFiles
  Entries <- MCEntries
  Locks = {"lock"}
  Migrations = {"sql"}
  Flawed = {"lock", "sql"}
  Texts <- MCTexts
  Broken = {"broken"}
  Flagged <- MCFlagged
  Names = {"case"}
  Skipped <- MCSkipped
  Seen <- MCSeen
  Imports <- MCImports
  Base <- MCBase
  Gone = "Gone"
  None = None
  MaxWrites = 2
INVARIANTS
  DiffAnswersTree
  NewlyDeadTold
  NewlyHonest
  CapKeepsBlockers
