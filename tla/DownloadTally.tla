---------------------------- MODULE DownloadTally ----------------------------
(***************************************************************************)
(* What a download counter promises, told without shards or devices: a     *)
(* number that starts at zero, goes up by one for a download and, as long  *)
(* as one call created the counter, never goes down.                       *)
(***************************************************************************)
EXTENDS Naturals

VARIABLES
  tally,
  contested   \* several calls took the counter for missing

vars == <<tally, contested>>

Init == tally = 0 /\ contested = FALSE

CountDownload == tally' = tally + 1 /\ UNCHANGED contested

Contest == contested' = TRUE /\ UNCHANGED tally

Lose == contested /\ tally' \in 0 .. tally - 1 /\ UNCHANGED contested

Spec == Init /\ [][CountDownload \/ Contest \/ Lose]_vars
=============================================================================
