------------------------ MODULE PredictedPaths_proofs ------------------------
(***************************************************************************)
(* Proofs about PredictedPaths, for any number of boxes, in any colours    *)
(* and overlapping or not, and for any number of wells, moves and          *)
(* predictions.                                                            *)
(***************************************************************************)
EXTENDS PredictedPaths, SequenceTheorems, FiniteSetTheorems, TLAPS

(* What step1 of an undisturbed box means: the line still has the colour   *)
(* of the side it last had the colour of; and until the first crossing of  *)
(* the stay step1 does not miss that.                                      *)
Carries(b) == origin[b] \in Sides /\ color = sideColor[b][origin[b]]

Step1Means ==
  \A b \in Boxes \ disturbed :
     /\ step1[b] => Carries(b)
     /\ (b \notin crossed /\ origin[b] \in Sides) => step1[b] /\ Carries(b)

IInv == TypeOK /\ Step1Means

(* Facts about the constants that every step uses.                         *)
LEMMA SideFacts ==
  /\ \A s \in Sides : Opposite(s) \in Sides /\ Opposite(s) # s
  /\ \A s \in Sides, t \in Sides : t # s => t = Opposite(s)
  /\ "none" \notin Sides
  /\ \A b \in Boxes, s \in Sides : sideColor[b][s] \in Colors
  /\ startColor \in Colors /\ startThickness \in Nat /\ 1 \in Boxes
BY ConstantsAssumption DEF Sides, Opposite, Boxes

(* A blank layer, and one of any look, is a Layer.                         *)
LEMMA LayerFacts ==
  /\ DummyLine \in Layer
  /\ \A c \in Colors, t \in Nat :
        [color |-> c, thickness |-> t, points |-> 1] \in Layer
  /\ \A l \in Layer : [l EXCEPT !.points = @ + 1] \in Layer
BY SideFacts DEF DummyLine, Layer

(* Going to the next box, or back to the loop, keeps pc and box in range.  *)
LEMMA NextBoxType ==
  ASSUME TypeOK, NextBox
  PROVE  /\ box' \in Boxes /\ pc' \in {"idle", "loop", "boxes"}
         /\ made' \in BOOLEAN
         /\ thickness' \in Nat /\ where' \in [Boxes -> Places]
         /\ currentLine' \in Layer /\ layers' \in Seq(Layer)
         /\ path' \in Seq(Look)
BY ConstantsAssumption DEF TypeOK, NextBox, Boxes, drawing

(* Every step keeps the types.                                             *)
LEMMA TypeStep == TypeOK /\ [Next]_vars => TypeOK'
<1> SUFFICES ASSUME TypeOK, [Next]_vars PROVE TypeOK'
  OBVIOUS
<1>1. CASE GetPredictedPaths
  <2>1. Nowhere \in [Boxes -> Places] /\ NoSide \in [Boxes -> Sides \cup {"none"}]
    BY DEF Nowhere, NoSide, Places
  <2> QED
    BY <1>1, <2>1, SideFacts, LayerFacts DEF TypeOK, GetPredictedPaths
<1>2. CASE Move
  <2>1. layers' \in Seq(Layer) /\ currentLine' \in Layer
    <3>1. Draw /\ currentLine \in Layer /\ layers \in Seq(Layer)
             /\ color \in Colors /\ thickness \in Nat
      BY <1>2 DEF Move, TypeOK
    <3>2. CASE LooksDifferent
      <4>1. /\ layers' = Append(layers, currentLine)
            /\ currentLine' = [color |-> color, thickness |-> thickness,
                               points |-> 1]
        BY <3>1, <3>2 DEF Draw
      <4> QED
        BY <3>1, <4>1, LayerFacts
    <3>3. CASE ~LooksDifferent
      <4>1. /\ currentLine' = [currentLine EXCEPT !.points = @ + 1]
            /\ layers' = layers
        BY <3>1, <3>3 DEF Draw
      <4> QED
        BY <3>1, <4>1, LayerFacts
    <3> QED
      BY <3>2, <3>3
  <2>2. path' \in Seq(Look)
    BY <1>2 DEF TypeOK, Move, Look
  <2>3. thickness' \in Nat
    BY <1>2 DEF TypeOK, Move, Collided
  <2>4. pc' \in {"idle", "loop", "boxes"} /\ where' \in [Boxes -> Places]
    BY <1>2 DEF TypeOK, Move
  <2> QED
    BY <1>2, <2>1, <2>2, <2>3, <2>4, SideFacts DEF TypeOK, Move, history
<1>3. CASE Finish
  BY <1>3 DEF TypeOK, Finish, history
<1>4. CASE Outside
  <2>1. origin' \in [Boxes -> Sides \cup {"none"}] /\ step1' \in [Boxes -> BOOLEAN]
    BY <1>4 DEF TypeOK, Outside
  <2> QED
    BY <1>4, <2>1, NextBoxType DEF TypeOK, Outside
<1>5. CASE InTheMiddle
  BY <1>5, NextBoxType DEF TypeOK, InTheMiddle, history
<1>6. ASSUME NEW s \in Sides, OnASide(s) PROVE TypeOK'
  <2>1. color' \in Colors
    BY <1>6, SideFacts DEF TypeOK, OnASide
  <2>2. step1' \in [Boxes -> BOOLEAN]
    <3>1. CASE ComingAcross(box, s)
      BY <1>6, <3>1 DEF TypeOK, OnASide
    <3>2. CASE ~ComingAcross(box, s)
      <4> DEFINE seen == step1[box] \/ color = sideColor[box][s]
      <4>1. step1' = [step1 EXCEPT ![box] = seen]
        BY <1>6, <3>2 DEF OnASide, TypeOK
      <4>2. seen \in BOOLEAN
        OBVIOUS
      <4> HIDE DEF seen
      <4> QED
        BY <4>1, <4>2 DEF TypeOK
    <3> QED
      BY <3>1, <3>2
  <2>3. origin' \in [Boxes -> Sides \cup {"none"}]
    BY <1>6 DEF TypeOK, OnASide
  <2>4. crossed' \subseteq Boxes /\ disturbed' \subseteq Boxes
    BY <1>6 DEF TypeOK, OnASide
  <2>5. NextBox
    BY <1>6 DEF OnASide
  <2> QED
    BY <2>1, <2>2, <2>3, <2>4, <2>5, NextBoxType DEF TypeOK
<1>7. CASE UNCHANGED vars
  BY <1>7 DEF TypeOK, vars, drawing, history
<1>8. CASE CreateColorBoxesFromLevel
  BY <1>8 DEF TypeOK, CreateColorBoxesFromLevel, drawing, history
<1> QED
  BY <1>1, <1>2, <1>3, <1>4, <1>5, <1>6, <1>7, <1>8 DEF Next

-----------------------------------------------------------------------------
(* What a box remembers *)

(* Every step keeps the meaning of step1.                                  *)
LEMMA Step1Step == IInv /\ [Next]_vars => Step1Means'
<1> SUFFICES ASSUME IInv, [Next]_vars,
                    NEW b \in Boxes, b \notin disturbed'
             PROVE  /\ step1'[b] => Carries(b)'
                    /\ (b \notin crossed' /\ origin'[b] \in Sides)
                          => step1'[b] /\ Carries(b)'
  BY DEF Step1Means
<1> USE DEF IInv, TypeOK, Step1Means, Carries
<1>1. CASE GetPredictedPaths
  BY <1>1, SideFacts DEF GetPredictedPaths, NoSide
<1>2. CASE UNCHANGED <<color, step1, history>>
  BY <1>2 DEF history
<1>3. CASE Outside
  <2>1. CASE b = box
    BY <1>3, <2>1, SideFacts DEF Outside
  <2>2. CASE b # box
    BY <1>3, <2>2 DEF Outside
  <2> QED
    BY <2>1, <2>2
<1>4. ASSUME NEW s \in Sides, OnASide(s), ComingAcross(box, s)
      PROVE  /\ step1'[b] => Carries(b)'
             /\ (b \notin crossed' /\ origin'[b] \in Sides)
                   => step1'[b] /\ Carries(b)'
  <2>1. /\ color' = sideColor[box][s]
        /\ step1' = [step1 EXCEPT ![box] = FALSE]
        /\ crossed' = crossed \cup {box}
        /\ disturbed' = IF color' = color THEN disturbed
                        ELSE disturbed \cup {c \in Boxes \ {box} : origin[c] # "none"}
        /\ origin' = [origin EXCEPT ![box] = s]
    BY <1>4 DEF OnASide
  <2>2. CASE b = box
    BY <2>1, <2>2
  <2>3. CASE b # box /\ color' = color
    BY <2>1, <2>3
  <2>4. CASE b # box /\ color' # color
    <3>1. b \notin disturbed /\ origin[b] = "none"
      BY <2>1, <2>4
    <3>2. origin[b] \notin Sides
      BY <3>1, SideFacts
    <3>3. step1'[b] = step1[b] /\ origin'[b] = origin[b]
      BY <2>1, <2>4
    <3> QED
      BY <3>1, <3>2, <3>3
  <2> QED
    BY <2>2, <2>3, <2>4
<1>5. ASSUME NEW s \in Sides, OnASide(s), ~ComingAcross(box, s)
      PROVE  /\ step1'[b] => Carries(b)'
             /\ (b \notin crossed' /\ origin'[b] \in Sides)
                   => step1'[b] /\ Carries(b)'
  <2>1. /\ color' = color /\ crossed' = crossed /\ disturbed' = disturbed
        /\ step1' = [step1 EXCEPT ![box] = @ \/ color = sideColor[box][s]]
        /\ origin' = IF color = sideColor[box][s]
                     THEN [origin EXCEPT ![box] = s] ELSE origin
    BY <1>5 DEF OnASide
  <2>2. CASE b # box
    BY <2>1, <2>2
  <2>3. CASE b = box /\ color = sideColor[box][s]
    <3>1. step1'[b] = TRUE
      BY <2>1, <2>3
    <3>2. origin'[b] = s
      BY <2>1, <2>3
    <3> QED
      BY <2>1, <2>3, <3>1, <3>2
  <2>4. CASE b = box /\ color # sideColor[box][s]
    <3>1. step1'[b] = step1[b]
      BY <2>1, <2>4
    <3>2. origin' = origin
      BY <2>1, <2>4
    <3>3. b \notin disturbed
      BY <2>1
    <3> QED
      BY <2>1, <3>1, <3>2, <3>3
  <2> QED
    BY <2>2, <2>3, <2>4
<1> QED
  <2>1. CASE \/ CreateColorBoxesFromLevel \/ Move \/ Finish \/ InTheMiddle
             \/ UNCHANGED vars
    <3>1. UNCHANGED <<color, step1, history>>
      BY <2>1 DEF CreateColorBoxesFromLevel, Move, Finish, InTheMiddle, vars
    <3> QED
      BY <3>1, <1>2
  <2> QED
    BY <2>1, <1>1, <1>3, <1>4, <1>5 DEF Next

(* The inductive invariant.                                                *)
THEOREM Invariance == Spec => []IInv
<1>1. Init => IInv
  <2> SUFFICES ASSUME Init PROVE IInv
    OBVIOUS
  <2>1. Nowhere \in [Boxes -> Places] /\ NoSide \in [Boxes -> Sides \cup {"none"}]
    BY DEF Nowhere, NoSide, Places
  <2>2. TypeOK
    <3>1. made \in BOOLEAN /\ step1 \in [Boxes -> BOOLEAN]
      BY DEF Init
    <3>2. /\ pc \in {"idle", "loop", "boxes"} /\ box \in Boxes
          /\ color \in Colors /\ thickness \in Nat
          /\ where \in [Boxes -> Places]
          /\ origin \in [Boxes -> Sides \cup {"none"}]
          /\ crossed \subseteq Boxes /\ disturbed \subseteq Boxes
      BY <2>1, ConstantsAssumption DEF Init, Boxes
    <3>3. currentLine \in Layer /\ layers \in Seq(Layer) /\ path \in Seq(Look)
      BY LayerFacts DEF Init
    <3> QED
      BY <3>1, <3>2, <3>3 DEF TypeOK
  <2>3. Step1Means
    BY SideFacts DEF Init, Step1Means, NoSide
  <2> QED
    BY <2>2, <2>3 DEF IInv
<1>2. IInv /\ [Next]_vars => IInv'
  BY TypeStep, Step1Step DEF IInv
<1> QED
  BY <1>1, <1>2, PTL DEF Spec

(* Types: thickness never falls below zero, whatever the collisions.       *)
THEOREM TypeCorrect == Spec => []TypeOK
<1>1. IInv => TypeOK
  BY DEF IInv
<1> QED
  BY <1>1, Invariance, PTL

-----------------------------------------------------------------------------
(* What a box does *)

(* A box recolours only a line that came across, from the other side.      *)
THEOREM ChangesAreCrossings == Spec => NoChangeWithoutCrossing
<1> DEFINE A == \A b \in Boxes, s \in Sides :
                   (pc = "boxes" /\ box = b /\ where[b] = s /\ color' # color
                      /\ b \notin disturbed)
                   => origin[b] = Opposite(s) /\ color = sideColor[b][origin[b]]
<1>1. IInv /\ [Next]_vars => [A]_vars
  <2> SUFFICES ASSUME IInv, [Next]_vars,
                      NEW b \in Boxes, NEW s \in Sides,
                      pc = "boxes", box = b, where[b] = s, color' # color,
                      b \notin disturbed
               PROVE  origin[b] = Opposite(s) /\ color = sideColor[b][origin[b]]
    OBVIOUS
  <2>1. PICK t \in Sides : OnASide(t)
    BY DEF Next, vars, CreateColorBoxesFromLevel, GetPredictedPaths, Move, Finish,
           Outside, InTheMiddle
  <2>2. t = s
    BY <2>1 DEF OnASide
  <2>3. ComingAcross(b, s) /\ color' = sideColor[b][s]
    BY <2>1, <2>2 DEF OnASide
  <2>4. origin[b] \in Sides /\ color = sideColor[b][origin[b]]
    BY <2>3 DEF IInv, Step1Means, Carries, ComingAcross
  <2>5. origin[b] # s
    BY <2>3, <2>4
  <2> QED
    BY <2>4, <2>5, SideFacts
<1> HIDE DEF A
<1>2. Spec => [][A]_vars
  BY <1>1, Invariance, PTL DEF Spec
<1> QED
  BY <1>2 DEF NoChangeWithoutCrossing, A

(* The first crossing of a stay recolours the line.                        *)
THEOREM FirstCrossings == Spec => FirstCrossingChanges
<1> DEFINE A == \A b \in Boxes, s \in Sides :
                   (Crosses(b, s) /\ b \notin crossed) => color' = sideColor[b][s]
<1>1. IInv /\ [Next]_vars => [A]_vars
  <2> SUFFICES ASSUME IInv, [Next]_vars, vars' # vars,
                      NEW b \in Boxes, NEW s \in Sides,
                      Crosses(b, s), b \notin crossed
               PROVE  color' = sideColor[b][s]
    OBVIOUS
  <2>1. step1[b] /\ color = sideColor[b][Opposite(s)]
    BY SideFacts DEF Crosses, IInv, Step1Means, Carries
  <2>2. PICK t \in Sides : OnASide(t)
    BY DEF Next, Crosses, CreateColorBoxesFromLevel, GetPredictedPaths, Move,
           Finish, Outside, InTheMiddle, Sides
  <2>3. t = s
    BY <2>2 DEF OnASide, Crosses
  <2> QED
    BY <2>1, <2>2, <2>3 DEF OnASide, ComingAcross, Crosses
<1> HIDE DEF A
<1>2. Spec => [][A]_vars
  BY <1>1, Invariance, PTL DEF Spec
<1> QED
  BY <1>2 DEF FirstCrossingChanges, A

-----------------------------------------------------------------------------
(* What is drawn *)

Countable(lines) == IsFiniteSet(PointsOf(lines, Len(lines)))

(* The points of one line more.                                            *)
LEMMA OneLineMore ==
  ASSUME NEW lines \in Seq(Layer), NEW i \in 1 .. Len(lines),
         IsFiniteSet(PointsOf(lines, i - 1))
  PROVE  /\ IsFiniteSet(PointsOf(lines, i))
         /\ UpTo(lines, i - 1) \in Nat
         /\ UpTo(lines, i) = UpTo(lines, i - 1) + lines[i].points
<1> DEFINE before == PointsOf(lines, i - 1)
           here == {i} \X (1 .. lines[i].points)
<1>1. lines[i].points \in Nat
  <2>1. lines[i] \in Layer
    BY ElementOfSeq
  <2> QED
    BY <2>1 DEF Layer
<1>2. IsFiniteSet(here) /\ Cardinality(here) = lines[i].points
  <2>1. /\ IsFiniteSet(1 .. lines[i].points)
        /\ Cardinality(1 .. lines[i].points) = lines[i].points
    <3> DEFINE n == lines[i].points
    <3>1. n \in Nat
      BY <1>1
    <3> HIDE DEF n
    <3>2. 1 \in Int /\ n \in Int
      BY <3>1
    <3>3. /\ IsFiniteSet(1 .. n)
          /\ Cardinality(1 .. n) = IF 1 > n THEN 0 ELSE n - 1 + 1
      BY <3>2, FS_Interval, Zenon
    <3>4. Cardinality(1 .. n) = n
      BY <3>1, <3>3
    <3> QED
      BY <3>3, <3>4 DEF n
  <2>2. IsFiniteSet({i}) /\ Cardinality({i}) = 1
    BY FS_Singleton
  <2>3. /\ IsFiniteSet(here)
        /\ Cardinality(here) = Cardinality({i}) * Cardinality(1 .. lines[i].points)
    BY <2>1, <2>2, FS_Product
  <2> QED
    BY <1>1, <2>1, <2>2, <2>3
<1>3. PointsOf(lines, i) = before \cup here
  <2>1. 1 .. i = (1 .. i - 1) \cup {i}
    OBVIOUS
  <2> QED
    BY <2>1 DEF PointsOf
<1>4. before \cap here = {}
  <2>1. ASSUME NEW u \in before, u \in here PROVE FALSE
    <3>1. PICK j \in 1 .. i - 1 : u \in {j} \X (1 .. lines[j].points)
      BY <2>1 DEF PointsOf
    <3>2. j = i
      BY <2>1, <3>1
    <3> QED
      BY <3>1, <3>2
  <2> QED
    BY <2>1
<1> HIDE DEF before, here
<1>5. /\ IsFiniteSet(before \cup here)
      /\ Cardinality(before \cup here) =
           Cardinality(before) + Cardinality(here) - Cardinality(before \cap here)
  BY <1>2, FS_Union DEF before
<1>6. Cardinality(before \cap here) = 0 /\ Cardinality(before) \in Nat
  BY <1>4, FS_EmptySet, FS_CardinalityType DEF before
<1> QED
  BY <1>1, <1>2, <1>3, <1>5, <1>6 DEF UpTo, before

(* Every line's points are among those of all.                             *)
LEMMA PointsAreWithin ==
  ASSUME NEW lines \in Seq(Layer), Countable(lines), NEW i \in 1 .. Len(lines)
  PROVE  /\ UpTo(lines, i - 1) \in Nat /\ UpTo(lines, Len(lines)) \in Nat
         /\ lines[i].points \in Nat
         /\ UpTo(lines, i - 1) + lines[i].points <= UpTo(lines, Len(lines))
<1>1. /\ PointsOf(lines, i - 1) \subseteq PointsOf(lines, Len(lines))
      /\ PointsOf(lines, i) \subseteq PointsOf(lines, Len(lines))
  <2>1. 1 .. i - 1 \subseteq 1 .. Len(lines) /\ 1 .. i \subseteq 1 .. Len(lines)
    OBVIOUS
  <2> QED
    BY <2>1 DEF PointsOf
<1>2. /\ IsFiniteSet(PointsOf(lines, i - 1)) /\ UpTo(lines, Len(lines)) \in Nat
      /\ UpTo(lines, i) <= UpTo(lines, Len(lines))
  BY <1>1, FS_Subset, FS_CardinalityType DEF Countable, UpTo
<1>3. lines[i].points \in Nat
  <2>1. lines[i] \in Layer
    BY ElementOfSeq
  <2> QED
    BY <2>1 DEF Layer
<1> QED
  BY <1>2, <1>3, OneLineMore

(* A line appended leaves the points of the others where they were.        *)
LEMMA LineAppended ==
  ASSUME NEW lines \in Seq(Layer), Countable(lines), NEW l \in Layer
  PROVE  LET m == Append(lines, l)
         IN  /\ m \in Seq(Layer) /\ Len(m) = Len(lines) + 1 /\ Countable(m)
             /\ m[Len(lines) + 1] = l
             /\ \A i \in 1 .. Len(lines) : m[i] = lines[i]
             /\ \A i \in 0 .. Len(lines) : UpTo(m, i) = UpTo(lines, i)
             /\ UpTo(lines, Len(lines)) \in Nat
             /\ UpTo(m, Len(m)) = UpTo(lines, Len(lines)) + l.points
<1> DEFINE m == Append(lines, l)
<1>1. /\ m \in Seq(Layer) /\ Len(lines) \in Nat /\ Len(m) = Len(lines) + 1
      /\ m[Len(lines) + 1] = l
      /\ \A i \in 1 .. Len(lines) : m[i] = lines[i]
  BY AppendProperties
<1> HIDE DEF m
<1>2. ASSUME NEW i \in 0 .. Len(lines)
      PROVE  PointsOf(m, i) = PointsOf(lines, i)
  <2>1. \A j \in 1 .. i : m[j] = lines[j]
    BY <1>1
  <2> QED
    BY <2>1 DEF PointsOf
<1>3. \A i \in 0 .. Len(lines) : UpTo(m, i) = UpTo(lines, i)
  BY <1>2 DEF UpTo
<1>4. IsFiniteSet(PointsOf(m, Len(m) - 1)) /\ Len(m) \in 1 .. Len(m)
  BY <1>1, <1>2 DEF Countable
<1>5. /\ IsFiniteSet(PointsOf(m, Len(m)))
      /\ UpTo(m, Len(m) - 1) \in Nat
      /\ UpTo(m, Len(m)) = UpTo(m, Len(m) - 1) + l.points
  BY <1>1, <1>4, OneLineMore
<1>6. UpTo(m, Len(m) - 1) = UpTo(lines, Len(lines))
  BY <1>1, <1>3
<1> QED
  BY <1>1, <1>3, <1>5, <1>6 DEF m, Countable

(* A new line of one point shows the path's next point.                    *)
LEMMA LineBegun ==
  ASSUME NEW lines \in Seq(Layer), Countable(lines), NEW p \in Seq(Look),
         Shows(lines, p), NEW l \in Layer, l.points = 1
  PROVE  Shows(Append(lines, l), Append(p, LookOf(l)))
<1> DEFINE m == Append(lines, l)
           q == Append(p, LookOf(l))
<1>1. /\ m \in Seq(Layer) /\ Len(m) = Len(lines) + 1 /\ Len(lines) \in Nat
      /\ m[Len(lines) + 1] = l
      /\ \A i \in 1 .. Len(lines) : m[i] = lines[i]
      /\ \A i \in 0 .. Len(lines) : UpTo(m, i) = UpTo(lines, i)
      /\ UpTo(lines, Len(lines)) \in Nat
      /\ UpTo(m, Len(m)) = UpTo(lines, Len(lines)) + 1
  BY LineAppended
<1>2. /\ Len(p) = UpTo(lines, Len(lines))
      /\ \A i \in 1 .. Len(lines) : \A n \in 1 .. lines[i].points :
           p[UpTo(lines, i - 1) + n] = LookOf(lines[i])
  BY DEF Shows
<1>3. /\ Len(p) \in Nat /\ Len(q) = Len(p) + 1 /\ q[Len(p) + 1] = LookOf(l)
      /\ \A j \in 1 .. Len(p) : q[j] = p[j]
  <2>1. LookOf(l) \in Look
    BY DEF LookOf, Layer, Look
  <2> QED
    BY <2>1, AppendProperties
<1> HIDE DEF m, q
<1>4. ASSUME NEW i \in 1 .. Len(m), NEW n \in 1 .. m[i].points
      PROVE  q[UpTo(m, i - 1) + n] = LookOf(m[i])
  <2>1. CASE i = Len(m)
    <3>1. m[i] = l /\ n = 1 /\ i - 1 = Len(lines)
      BY <1>1, <2>1
    <3>2. UpTo(m, i - 1) = Len(p)
      BY <1>1, <1>2, <3>1
    <3> QED
      BY <1>3, <3>1, <3>2
  <2>2. CASE i # Len(m)
    <3>1. i \in 1 .. Len(lines) /\ i - 1 \in 0 .. Len(lines)
      BY <1>1, <2>2
    <3>2. m[i] = lines[i] /\ UpTo(m, i - 1) = UpTo(lines, i - 1)
      BY <1>1, <3>1
    <3>3. UpTo(lines, i - 1) + n \in 1 .. Len(p)
      BY <1>2, <3>1, <3>2, PointsAreWithin
    <3>4. p[UpTo(lines, i - 1) + n] = LookOf(lines[i])
      BY <1>2, <3>1, <3>2
    <3> QED
      BY <1>3, <3>2, <3>3, <3>4
  <2> QED
    BY <2>1, <2>2
<1>5. Len(q) = UpTo(m, Len(m))
  BY <1>1, <1>2, <1>3
<1> QED
  BY <1>4, <1>5 DEF Shows, m, q

(* The last line's next point shows the path's, in the look it has.        *)
LEMMA LineContinued ==
  ASSUME NEW lines \in Seq(Layer), Countable(lines), NEW p \in Seq(Look),
         NEW l \in Layer, Shows(Append(lines, l), p)
  PROVE  Shows(Append(lines, [l EXCEPT !.points = @ + 1]), Append(p, LookOf(l)))
<1> DEFINE k == [l EXCEPT !.points = @ + 1]
           m == Append(lines, l)
           r == Append(lines, k)
           q == Append(p, LookOf(l))
           L == Len(lines)
<1>1. /\ k \in Layer /\ k.points = l.points + 1 /\ LookOf(k) = LookOf(l)
      /\ l.points \in Nat
  <2>1. l.points \in Nat /\ l.color \in Colors /\ l.thickness \in Nat
    BY DEF Layer
  <2>2. k.points = l.points + 1
    BY DEF Layer
  <2>3. k.color = l.color /\ k.thickness = l.thickness
    BY DEF Layer
  <2>4. k \in Layer
    BY LayerFacts
  <2> HIDE DEF k
  <2> QED
    BY <2>1, <2>2, <2>3, <2>4 DEF LookOf
<1> HIDE DEF k
<1>2. /\ m \in Seq(Layer) /\ L \in Nat /\ Len(m) = L + 1 /\ m[L + 1] = l
      /\ \A i \in 1 .. L : m[i] = lines[i]
      /\ \A i \in 0 .. L : UpTo(m, i) = UpTo(lines, i)
      /\ UpTo(lines, L) \in Nat
      /\ UpTo(m, Len(m)) = UpTo(lines, L) + l.points
  BY LineAppended
<1>3. /\ r \in Seq(Layer) /\ Len(r) = L + 1 /\ r[L + 1] = k
      /\ \A i \in 1 .. L : r[i] = lines[i]
      /\ \A i \in 0 .. L : UpTo(r, i) = UpTo(lines, i)
      /\ UpTo(r, Len(r)) = UpTo(lines, L) + k.points
  BY <1>1, LineAppended
<1>4. /\ Len(p) = UpTo(m, Len(m))
      /\ \A i \in 1 .. Len(m) : \A n \in 1 .. m[i].points :
           p[UpTo(m, i - 1) + n] = LookOf(m[i])
  BY DEF Shows
<1>5. /\ Len(p) \in Nat /\ Len(q) = Len(p) + 1 /\ q[Len(p) + 1] = LookOf(l)
      /\ \A j \in 1 .. Len(p) : q[j] = p[j]
  <2>1. LookOf(l) \in Look
    BY DEF LookOf, Layer, Look
  <2> QED
    BY <2>1, AppendProperties
<1> HIDE DEF m, r, q, L
<1>6. ASSUME NEW i \in 1 .. Len(r), NEW n \in 1 .. r[i].points
      PROVE  q[UpTo(r, i - 1) + n] = LookOf(r[i])
  <2>1. CASE i = L + 1
    <3>1. r[i] = k /\ m[i] = l /\ i - 1 = L /\ i \in 1 .. Len(m)
      BY <1>2, <1>3, <2>1
    <3>2. UpTo(r, i - 1) = UpTo(lines, L) /\ UpTo(m, i - 1) = UpTo(lines, L)
      BY <1>2, <1>3, <3>1
    <3>3. CASE n = l.points + 1
      <4>1. UpTo(r, i - 1) + n = Len(p) + 1
        BY <1>1, <1>2, <1>4, <3>2, <3>3
      <4> QED
        BY <1>1, <1>5, <3>1, <4>1
    <3>4. CASE n # l.points + 1
      <4>1. n \in 1 .. m[i].points
        BY <1>1, <3>1, <3>4
      <4>2. p[UpTo(lines, L) + n] = LookOf(l)
        BY <1>4, <3>1, <3>2, <4>1
      <4>3. UpTo(lines, L) + n \in 1 .. Len(p)
        BY <1>1, <1>2, <1>4, <3>1, <4>1
      <4> QED
        BY <1>1, <1>5, <3>1, <3>2, <4>2, <4>3
    <3> QED
      BY <3>3, <3>4
  <2>2. CASE i # L + 1
    <3>1. i \in 1 .. L /\ i - 1 \in 0 .. L /\ i \in 1 .. Len(m)
      BY <1>2, <1>3, <2>2
    <3>2. /\ r[i] = lines[i] /\ UpTo(r, i - 1) = UpTo(lines, i - 1)
          /\ m[i] = lines[i] /\ UpTo(m, i - 1) = UpTo(lines, i - 1)
      BY <1>2, <1>3, <3>1
    <3>3. /\ UpTo(lines, i - 1) \in Nat
          /\ UpTo(lines, i - 1) + lines[i].points <= UpTo(lines, L)
          /\ lines[i].points \in Nat
      BY <3>1, PointsAreWithin DEF L
    <3>4. UpTo(lines, i - 1) + n \in 1 .. Len(p)
      <4>1. n \in 1 .. lines[i].points
        BY <3>2
      <4>2. Len(p) = UpTo(lines, L) + l.points
        BY <1>2, <1>4
      <4>3. UpTo(lines, L) \in Nat /\ l.points \in Nat
        BY <1>1, <1>2
      <4> DEFINE u == UpTo(lines, i - 1)
                 here == lines[i].points
                 all == UpTo(lines, L)
      <4>4. u \in Nat /\ here \in Nat /\ all \in Nat /\ u + here <= all
        BY <3>3, <4>3
      <4>5. n \in 1 .. here /\ Len(p) = all + l.points
        BY <4>1, <4>2
      <4> HIDE DEF u, here, all
      <4>6. u + n \in 1 .. Len(p)
        BY <4>3, <4>4, <4>5
      <4> QED
        BY <4>6 DEF u
    <3>5. p[UpTo(lines, i - 1) + n] = LookOf(lines[i])
      BY <1>4, <3>1, <3>2
    <3> QED
      BY <1>5, <3>2, <3>4, <3>5
  <2> QED
    BY <2>1, <2>2
<1>7. Len(q) = UpTo(r, Len(r))
  BY <1>1, <1>2, <1>3, <1>4, <1>5
<1> QED
  BY <1>6, <1>7 DEF Shows, r, q, k

(* The layers, with the one being drawn, show the path at every moment.    *)
Drawn ==
  /\ Countable(layers)
  /\ pc = "idle" /\ layers # <<>> => Shows(layers, path)
  /\ pc # "idle" => Shows(Append(layers, currentLine), path)

LEMMA NothingDrawn ==
  /\ Countable(<<>>) /\ UpTo(<<>>, 0) = 0
  /\ Shows(Append(<<>>, DummyLine), <<>>)
<1>1. PointsOf(<<>>, 0) = {}
  BY DEF PointsOf
<1>2. Countable(<<>>) /\ UpTo(<<>>, 0) = 0
  BY <1>1, FS_EmptySet DEF Countable, UpTo
<1> DEFINE m == Append(<<>>, DummyLine)
<1>3. DummyLine.points = 0
  BY DEF DummyLine
<1>4. Len(m) = 1 /\ m[1] = DummyLine /\ UpTo(m, Len(m)) = 0
  <2> DEFINE e == <<>>
  <2>1. /\ e \in Seq(Layer) /\ Len(e) = 0 /\ DummyLine \in Layer
        /\ Countable(e) /\ UpTo(e, 0) = 0 /\ m = Append(e, DummyLine)
    BY <1>2, LayerFacts
  <2> HIDE DEF e, m
  <2>2. /\ Len(m) = Len(e) + 1 /\ m[Len(e) + 1] = DummyLine
        /\ UpTo(m, Len(m)) = UpTo(e, Len(e)) + DummyLine.points
    BY <2>1, LineAppended
  <2> QED
    BY <1>3, <2>1, <2>2
<1> HIDE DEF m
<1>5. Shows(m, <<>>)
  BY <1>3, <1>4 DEF Shows
<1> QED
  BY <1>2, <1>5 DEF m

(* A move draws the point the path gains.                                  *)
LEMMA MoveDraws ==
  ASSUME TypeOK, Drawn, Move
  PROVE  Drawn'
<1>1. /\ pc = "loop" /\ pc' # "idle" /\ Draw
      /\ path' = Append(path, [color |-> color, thickness |-> thickness])
  BY DEF Move
<1>2. /\ layers \in Seq(Layer) /\ currentLine \in Layer /\ path \in Seq(Look)
      /\ color \in Colors /\ thickness \in Nat
  BY DEF TypeOK
<1>3. Countable(layers) /\ Shows(Append(layers, currentLine), path)
  BY <1>1 DEF Drawn
<1>4. CASE LooksDifferent
  <2> DEFINE l == [color |-> color, thickness |-> thickness, points |-> 1]
  <2>1. layers' = Append(layers, currentLine) /\ currentLine' = l
    BY <1>1, <1>4 DEF Draw
  <2>2. /\ l \in Layer /\ l.points = 1
        /\ LookOf(l) = [color |-> color, thickness |-> thickness]
    BY <1>2, LayerFacts DEF LookOf
  <2> HIDE DEF l
  <2>3. layers' \in Seq(Layer) /\ Countable(layers')
    BY <1>2, <1>3, <2>1, LineAppended
  <2>4. Shows(layers', path)
    BY <1>3, <2>1
  <2>5. Shows(Append(layers', l), Append(path, LookOf(l)))
    BY <1>2, <2>2, <2>3, <2>4, LineBegun
  <2>6. Shows(Append(layers', currentLine'), path')
    BY <1>1, <2>1, <2>2, <2>5
  <2> QED
    BY <1>1, <2>3, <2>6 DEF Drawn, Countable, Shows, UpTo, PointsOf, LookOf
<1>5. CASE ~LooksDifferent
  <2>1. /\ layers' = layers /\ currentLine' = [currentLine EXCEPT !.points = @ + 1]
        /\ LookOf(currentLine) = [color |-> color, thickness |-> thickness]
    BY <1>1, <1>5 DEF Draw, LooksDifferent, LookOf
  <2>2. Shows(Append(layers, [currentLine EXCEPT !.points = @ + 1]),
              Append(path, LookOf(currentLine)))
    BY <1>2, <1>3, LineContinued
  <2>3. Shows(Append(layers', currentLine'), path') /\ Countable(layers')
    BY <1>1, <1>3, <2>1, <2>2
  <2> QED
    BY <1>1, <2>3 DEF Drawn, Countable, Shows, UpTo, PointsOf, LookOf
<1> QED
  BY <1>4, <1>5

LEMMA DrawnStep == TypeOK /\ Drawn /\ [Next]_vars => Drawn'
<1> SUFFICES ASSUME TypeOK, Drawn, [Next]_vars PROVE Drawn'
  OBVIOUS
<1>1. CASE GetPredictedPaths
  <2>1. pc' = "loop" /\ layers' = <<>> /\ path' = <<>> /\ currentLine' = DummyLine
    BY <1>1 DEF GetPredictedPaths
  <2>2. Countable(layers') /\ Shows(Append(layers', currentLine'), path')
    BY <2>1, NothingDrawn
  <2> QED
    BY <2>1, <2>2 DEF Drawn, Countable, Shows, UpTo, PointsOf, LookOf
<1>2. CASE Move
  BY <1>2, MoveDraws
<1>3. CASE Finish
  <2>1. /\ pc = "loop" /\ pc' = "idle" /\ path' = path
        /\ layers' = Append(layers, currentLine)
    BY <1>3 DEF Finish
  <2>2. Countable(layers) /\ Shows(layers', path')
    BY <2>1 DEF Drawn
  <2>3. Countable(layers')
    BY <2>1, <2>2, LineAppended DEF TypeOK
  <2> QED
    BY <2>1, <2>2, <2>3 DEF Drawn, Countable, Shows, UpTo, PointsOf, LookOf
<1>4. CASE Outside \/ InTheMiddle \/ \E s \in Sides : OnASide(s)
  <2>1. pc = "boxes" /\ NextBox
    BY <1>4 DEF Outside, InTheMiddle, OnASide
  <2>2. /\ pc' # "idle" /\ layers' = layers /\ path' = path
        /\ currentLine' = currentLine
    BY <2>1 DEF NextBox, drawing
  <2>3. Countable(layers) /\ Shows(Append(layers, currentLine), path)
    BY <2>1 DEF Drawn
  <2>4. Countable(layers') /\ Shows(Append(layers', currentLine'), path')
    BY <2>2, <2>3
  <2> QED
    BY <2>2, <2>4 DEF Drawn, Countable, Shows, UpTo, PointsOf, LookOf
<1>5. CASE CreateColorBoxesFromLevel \/ UNCHANGED vars
  <2>1. /\ pc' = pc /\ layers' = layers /\ path' = path
        /\ currentLine' = currentLine
    BY <1>5 DEF CreateColorBoxesFromLevel, vars, drawing
  <2>2. /\ Countable(layers')
        /\ pc' = "idle" /\ layers' # <<>> => Shows(layers', path')
        /\ pc' # "idle" => Shows(Append(layers', currentLine'), path')
    BY <2>1 DEF Drawn
  <2> QED
    BY <2>2 DEF Drawn, Countable, Shows, UpTo, PointsOf, LookOf
<1> QED
  BY <1>1, <1>2, <1>3, <1>4, <1>5 DEF Next

(* Whatever the boxes and wells do to the line, and however often it is    *)
(* predicted anew, the layers returned are the path, point by point.       *)
THEOREM LayersShowThePath == Spec => []LayersAreThePath
<1>1. Init => Drawn
  <2> SUFFICES ASSUME Init PROVE Drawn
    OBVIOUS
  <2>1. pc = "idle" /\ layers = <<>>
    BY DEF Init
  <2> QED
    BY <2>1, NothingDrawn DEF Drawn
<1>2. TypeOK /\ Drawn /\ [Next]_vars => Drawn'
  BY DrawnStep
<1>3. Drawn => LayersAreThePath
  BY DEF Drawn, LayersAreThePath
<1> QED
  BY <1>1, <1>2, <1>3, TypeCorrect, PTL DEF Spec
=============================================================================
