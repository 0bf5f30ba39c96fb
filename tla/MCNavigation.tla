---------------------------- MODULE MCNavigation ----------------------------
(***************************************************************************)
(* Navigation for TLC: up to three level or editor views at once.          *)
(***************************************************************************)
EXTENDS Navigation
=============================================================================
