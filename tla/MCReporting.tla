---------------------------- MODULE MCReporting ----------------------------
(* A test file, the file it imports and a third that imports the second in  *)
(* some texts; every text is at most one of broken, flagged and skipping.   *)
EXTENDS Reporting

MCFiles == {"a", "b", "c"}
MCTestFiles == {"a"}
MCEntries == {"a"}
MCTexts == {"plain", "skips", "broken", "uses"}
MCFlagged == {"uses"}
MCSkipped == [t \in MCTexts |-> IF t \in {"skips", "broken"} THEN {"case"} ELSE {}]
MCSeen == [t \in MCTexts |-> IF t = "skips" THEN {"case"} ELSE {}]
MCImports == [t \in MCTexts |-> IF t = "uses" THEN {"b"} ELSE IF t = "skips" THEN {"c"} ELSE {}]
MCBase == [f \in MCFiles |-> IF f = "a" THEN "skips" ELSE IF f = "c" THEN "plain" ELSE "Gone"]
=============================================================================
