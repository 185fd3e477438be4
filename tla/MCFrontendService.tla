------------------------- MODULE MCFrontendService -------------------------
(***************************************************************************)
(* The instance of FrontendService TLC checks.                             *)
(***************************************************************************)
EXTENDS FrontendService, TLC

CONSTANTS a, b  \* simulation files

TheFiles == a :> [shown |-> 1, hidden |-> 1] @@ b :> [shown |-> 1, hidden |-> 1]

TheEdits == {[shown |-> 2, hidden |-> 1], [shown |-> 1, hidden |-> 2]}

TheOverrides == {[shown |-> None, hidden |-> None], [shown |-> 2, hidden |-> None]}

============================================================================
