---------------------------- MODULE MCGlobalLevels ----------------------------
(***************************************************************************)
(* Instances of GlobalLevels for TLC.                                      *)
(***************************************************************************)
EXTENDS GlobalLevels
=============================================================================
