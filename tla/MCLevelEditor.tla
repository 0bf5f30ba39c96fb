--------------------------- MODULE MCLevelEditor ---------------------------
(***************************************************************************)
(* LevelEditor for TLC: lines at two places, boxes at one.  The velocities *)
(* and knobs are as the code computes them: the blank line's velocity puts *)
(* the knob farther out than a drag can, and whatever the knob was put for *)
(* it is read as nearly the largest velocity.                              *)
(***************************************************************************)
EXTENDS LevelEditor

CONSTANTS here, there, blank, new, full, beyond, near

LinesMove == [k \in Kinds |-> IF k = "line" THEN {here, there} ELSE {here}]
VelocitySet == {blank, new, full}
KnobSet == {beyond, near}
KnobsShown == [v \in VelocitySet |-> IF v = blank THEN beyond ELSE near]
VelocitiesRead == [n \in KnobSet |-> full]
=============================================================================
