------------------------- MODULE MCCampaignProgress -------------------------
(***************************************************************************)
(* Instances of CampaignProgress for TLC: three campaign levels, numbered  *)
(* one after the other, or four of which two carry the same number.        *)
(***************************************************************************)
EXTENDS CampaignProgress

CONSTANTS l1, l2, l3, l4

Consecutive == [l \in Levels |-> IF l = l1 THEN 1 ELSE IF l = l2 THEN 2 ELSE 3]

WithTwins == [l \in Levels |-> IF l = l1 THEN 1 ELSE IF l = l4 THEN 3 ELSE 2]
=============================================================================
