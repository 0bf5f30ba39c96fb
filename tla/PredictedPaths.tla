---------------------------- MODULE PredictedPaths ----------------------------
(***************************************************************************)
(* The path a line is predicted to take (getPredictedPaths in              *)
(* LevelView.swift) and the colour boxes it meets on the way               *)
(* (handleColorBoxesForLine, ColorBox.swift).  A box has two sides and a   *)
(* middle; a line that comes to one side from the other, in the colour of  *)
(* that other side, takes the colour of the side it comes to.              *)
(*                                                                         *)
(* The prediction is made anew, for the same line and boxes, whenever the  *)
(* gravity wells change, and as each well is created when a level is       *)
(* shown, before there are any boxes.  Where the forces carry the line is  *)
(* left open: each move puts it at any place of each box (boxes may        *)
(* overlap), and it may collide with any of the wells.  A box keeps what   *)
(* it knows of a line in lineStates[uuid].step1; step2 is set and consumed *)
(* within one call, so it is FALSE in every state here.                    *)
(***************************************************************************)
EXTENDS Integers, Sequences, FiniteSets

CONSTANTS
  Colors,
  NumBoxes,         \* the boxes, in the order of scaledColorBoxes
  sideColor,        \* the colour of each side of each box
  startColor,
  startThickness,   \* how often startThickness can be taken 1 from
  NumWells,
  MaxMoves          \* bound on the moves in one prediction

Boxes  == 1 .. NumBoxes
Sides  == {"left", "right"}
Places == Sides \cup {"middle", "out"}

ASSUME ConstantsAssumption ==
  /\ NumBoxes \in Nat \ {0}
  /\ sideColor \in [Boxes -> [Sides -> Colors]]
  /\ startColor \in Colors
  /\ startThickness \in Nat
  /\ NumWells \in Nat
  /\ MaxMoves \in Nat

VARIABLES
  made,          \* the level's boxes have been created
  pc,            \* "idle", at the head of the "loop", or among the "boxes"
  box,           \* among the boxes: the next one to handle
  color,         \* lineColor
  thickness,     \* lineThickness; below 1 when it is 0
  where,         \* in which part of each box the last point was found
  step1,         \* step1 of the line's state in each box
  currentLine,   \* the layer being drawn
  layers,        \* linesForLine
  path,          \* what the line looked like at each move (history)
  origin,        \* the side of each box where the line, in its present
                 \*   stay, last had that side's colour, or "none" (history)
  crossed,       \* boxes that have changed the line in its stay (history)
  disturbed      \* boxes whose step1 is of an earlier prediction, or whose
                 \*   line was recoloured by another box (history)

drawing == <<currentLine, layers, path>>
history == <<origin, crossed, disturbed>>
vars    == <<made, pc, box, color, thickness, where, step1, drawing, history>>

Look  == [color : Colors, thickness : Nat]
Layer == [color : Colors, thickness : Nat, points : Nat]

Opposite(s) == IF s = "left" THEN "right" ELSE "left"

Nowhere == [b \in Boxes |-> "out"]
NoSide  == [b \in Boxes |-> "none"]

DummyLine == [color |-> startColor, thickness |-> startThickness, points |-> 0]

-----------------------------------------------------------------------------
Init ==
  /\ made = FALSE
  /\ pc = "idle" /\ box = 1
  /\ color = startColor /\ thickness = startThickness
  /\ where = Nowhere
  /\ step1 = [b \in Boxes |-> FALSE]
  /\ currentLine = DummyLine /\ layers = <<>> /\ path = <<>>
  /\ origin = NoSide /\ crossed = {} /\ disturbed = {}

(* The level's wells come before its boxes.                                *)
CreateColorBoxesFromLevel ==
  /\ pc = "idle" /\ ~made
  /\ made' = TRUE
  /\ UNCHANGED <<pc, box, color, thickness, where, step1, drawing, history>>

(* A new prediction: line.reset() restores the line, but no box forgets it.*)
GetPredictedPaths ==
  /\ pc = "idle"
  /\ pc' = "loop"
  /\ color' = startColor
  /\ thickness' = startThickness
  /\ where' = Nowhere
  /\ currentLine' = DummyLine /\ layers' = <<>> /\ path' = <<>>
  /\ origin' = NoSide
  /\ crossed' = {}
  /\ disturbed' = {b \in Boxes : step1[b]}
  /\ UNCHANGED <<made, box, step1>>

(* A variant that looks at the colour only.                                *)
LooksDifferent_ColorOnly == color # currentLine.color

LooksDifferent ==
  color # currentLine.color \/ thickness # currentLine.thickness

(* A change of look ends the layer, and the next one starts where it ended.*)
Draw ==
  IF LooksDifferent
  THEN /\ layers' = Append(layers, currentLine)
       /\ currentLine' = [color |-> color, thickness |-> thickness, points |-> 1]
  ELSE /\ currentLine' = [currentLine EXCEPT !.points = @ + 1]
       /\ UNCHANGED layers

(* Each well the line collides with takes 1, as long as there is 1.        *)
Collided(t) == {u \in 0 .. t : t - u <= NumWells}

Move ==
  /\ pc = "loop"
  /\ thickness >= 1
  /\ Len(path) < MaxMoves
  /\ Draw
  /\ path' = Append(path, [color |-> color, thickness |-> thickness])
  /\ thickness' \in Collided(thickness)
  /\ \/ made /\ pc' = "boxes" /\ where' \in [Boxes -> Places]
     \/ ~made /\ UNCHANGED <<pc, where>>
  /\ box' = 1
  /\ UNCHANGED <<made, color, step1, history>>

(* The line is gone, or has travelled the distance it is predicted for.    *)
Finish ==
  /\ pc = "loop"
  /\ pc' = "idle"
  /\ layers' = Append(layers, currentLine)
  /\ UNCHANGED <<made, box, color, thickness, where, step1, currentLine, path,
                 history>>

NextBox ==
  /\ box' = IF box = NumBoxes THEN 1 ELSE box + 1
  /\ pc' = IF box = NumBoxes THEN "loop" ELSE "boxes"
  /\ UNCHANGED <<made, thickness, where, drawing>>

(* A variant that does not forget a line that leaves the box.              *)
Outside_Remembers ==
  /\ pc = "boxes" /\ where[box] = "out"
  /\ origin' = [origin EXCEPT ![box] = "none"]
  /\ crossed' = crossed \ {box}
  /\ disturbed' = disturbed \ {box}
  /\ NextBox
  /\ UNCHANGED <<color, step1>>

Outside ==
  /\ pc = "boxes" /\ where[box] = "out"
  /\ step1' = [step1 EXCEPT ![box] = FALSE]
  /\ origin' = [origin EXCEPT ![box] = "none"]
  /\ crossed' = crossed \ {box}
  /\ disturbed' = disturbed \ {box}
  /\ NextBox
  /\ UNCHANGED color

(* A variant that forgets the line in the middle.                          *)
InTheMiddle_Forgets ==
  /\ pc = "boxes" /\ where[box] = "middle"
  /\ step1' = [step1 EXCEPT ![box] = FALSE]
  /\ NextBox
  /\ UNCHANGED <<color, history>>

InTheMiddle ==
  /\ pc = "boxes" /\ where[box] = "middle"
  /\ NextBox
  /\ UNCHANGED <<color, step1, history>>

(* step2: the line was seen here before and has the other side's colour.   *)
ComingAcross(b, s) == step1[b] /\ color = sideColor[b][Opposite(s)]

OnASide(s) ==
  /\ pc = "boxes" /\ where[box] = s
  /\ \/ /\ ComingAcross(box, s)
        /\ color' = sideColor[box][s]
        /\ step1' = [step1 EXCEPT ![box] = FALSE]
        /\ crossed' = crossed \cup {box}
        /\ disturbed' = IF color' = color THEN disturbed
                        ELSE disturbed \cup {b \in Boxes \ {box} : origin[b] # "none"}
     \/ /\ ~ComingAcross(box, s)
        /\ step1' = [step1 EXCEPT ![box] = @ \/ color = sideColor[box][s]]
        /\ UNCHANGED <<color, crossed, disturbed>>
  /\ origin' = IF color' = sideColor[box][s]
               THEN [origin EXCEPT ![box] = s] ELSE origin
  /\ NextBox

Next ==
  \/ CreateColorBoxesFromLevel
  \/ GetPredictedPaths
  \/ Move
  \/ Finish
  \/ Outside
  \/ InTheMiddle
  \/ \E s \in Sides : OnASide(s)

Spec == Init /\ [][Next]_vars
-----------------------------------------------------------------------------
(* Properties *)

TypeOK ==
  /\ made \in BOOLEAN
  /\ pc \in {"idle", "loop", "boxes"}
  /\ box \in Boxes
  /\ color \in Colors /\ thickness \in Nat
  /\ where \in [Boxes -> Places]
  /\ step1 \in [Boxes -> BOOLEAN]
  /\ currentLine \in Layer /\ layers \in Seq(Layer) /\ path \in Seq(Look)
  /\ origin \in [Boxes -> Sides \cup {"none"}]
  /\ crossed \subseteq Boxes /\ disturbed \subseteq Boxes

(* The points of the first i lines, which are drawn one after the other.   *)
PointsOf(lines, i) == UNION {{j} \X (1 .. lines[j].points) : j \in 1 .. i}
UpTo(lines, i) == Cardinality(PointsOf(lines, i))

LookOf(line) == [color |-> line.color, thickness |-> line.thickness]

(* The lines, one after the other, have the points of p and their looks.   *)
Shows(lines, p) ==
  /\ Len(p) = UpTo(lines, Len(lines))
  /\ \A i \in 1 .. Len(lines) : \A n \in 1 .. lines[i].points :
        p[UpTo(lines, i - 1) + n] = LookOf(lines[i])

(* What is drawn is the path: put one after the other, the layers show the *)
(* line, at every point, as it looked when it moved there.                 *)
LayersAreThePath == (pc = "idle" /\ layers # <<>>) => Shows(layers, path)

(* A box changes the colour of a line only when the line came, within its  *)
(* present stay, from the other side and in that side's colour: nothing a  *)
(* box remembers outlives the stay, except over a new prediction.          *)
NoChangeWithoutCrossing ==
  [][\A b \in Boxes, s \in Sides :
        (pc = "boxes" /\ box = b /\ where[b] = s /\ color' # color
           /\ b \notin disturbed)
        => origin[b] = Opposite(s) /\ color = sideColor[b][origin[b]]]_vars

(* Coming to a side from the other, in the other's colour, and what the    *)
(* line then has to look like.                                             *)
Crosses(b, s) ==
  /\ pc = "boxes" /\ box = b /\ where[b] = s
  /\ origin[b] = Opposite(s)
  /\ b \notin disturbed

(* The first crossing in a stay changes the colour, however long the line  *)
(* was in the middle and wherever in the box it came in.  Not so a second  *)
(* one: a line that turns back after a single point on the new side is no  *)
(* longer known to the box, and keeps its colour.                          *)
FirstCrossingChanges ==
  [][\A b \in Boxes, s \in Sides :
        (Crosses(b, s) /\ b \notin crossed) => color' = sideColor[b][s]]_vars
=============================================================================
