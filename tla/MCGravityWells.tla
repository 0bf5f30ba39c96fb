--------------------------- MODULE MCGravityWells ---------------------------
(***************************************************************************)
(* GravityWells for TLC: three wells of two shapes.                        *)
(***************************************************************************)
EXTENDS GravityWells
=============================================================================
