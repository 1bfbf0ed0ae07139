-------------------------------- MODULE Parts --------------------------------
(* What the parts of Answers and MCAnswers share.                            *)

VARIABLES
  part,   \* whose behavior this is
  input   \* the input of a function, which has no steps
=============================================================================
