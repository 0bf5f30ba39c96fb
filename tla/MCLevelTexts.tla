---------------------------- MODULE MCLevelTexts ----------------------------
(***************************************************************************)
(* LevelTexts for TLC: three texts give two to start with and a chain      *)
(* behind one of them, or a chain of three.                                *)
(***************************************************************************)
EXTENDS LevelTexts

ThreeTexts == 1 .. 3
=============================================================================
