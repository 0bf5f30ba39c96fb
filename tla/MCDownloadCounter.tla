------------------------- MODULE MCDownloadCounter -------------------------
(***************************************************************************)
(* DownloadCounter for TLC: three downloads of one level, two of them on   *)
(* the same device.                                                        *)
(***************************************************************************)
EXTENDS DownloadCounter

CONSTANTS c1, c2, c3, d1, d2

Together == [c \in Calls |-> IF c = c3 THEN d2 ELSE d1]
=============================================================================
