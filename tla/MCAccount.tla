----------------------------- MODULE MCAccount -----------------------------
(***************************************************************************)
(* Account for TLC: two accounts, two requests at once.                    *)
(***************************************************************************)
EXTENDS Account
=============================================================================
