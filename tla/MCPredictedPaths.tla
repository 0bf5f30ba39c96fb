--------------------------- MODULE MCPredictedPaths ---------------------------
(***************************************************************************)
(* Instances of PredictedPaths for TLC: two boxes that undo each other's   *)
(* change of colour, so that a line may come back to one in either colour. *)
(***************************************************************************)
EXTENDS PredictedPaths

RedAndGreen ==
  [b \in Boxes |-> IF b = 1 THEN [left |-> "red", right |-> "green"]
                            ELSE [left |-> "green", right |-> "red"]]
=============================================================================
