--------------------------- MODULE LevelView_proofs ---------------------------
(***************************************************************************)
(* Proofs about the two parts of LevelView.swift that a finger reaches:    *)
(* GravityWells, for any number of wells and any shapes, and LevelTexts,   *)
(* for any texts and any links between them.                               *)
(***************************************************************************)
EXTENDS GravityWells, LevelTexts, FiniteSetTheorems, TLAPS

(* The well being made is listed, unless a second finger deleted it.       *)
MadeIsListed == press = "down" => current \in listed \/ other

(* The touch of a press finds justCreatedWell set, unless a second finger  *)
(* reset it.                                                               *)
LiftedIsFlagged == press = "lifted" => justCreated = "true" \/ other

IInv ==
  /\ TypeOK /\ InvisibleOnlyInPress /\ DrawnForTheWells /\ TrapNeedsSecondFinger
  /\ MadeIsListed /\ LiftedIsFlagged

(* The invariant holds at first.                                           *)
LEMMA InitHolds == Init => IInv
<1> SUFFICES ASSUME Init PROVE IInv
  OBVIOUS
<1>1. \A w \in listed : shape[w] \in Shapes /\ shape[w] # Invisible
  BY WellsAssumption DEF Init, Invisible
<1>2. 1 \in Wells
  BY WellsAssumption DEF Wells
<1>3. TypeOK
  BY <1>1, <1>2 DEF Init, TypeOK
<1> QED
  BY <1>1, <1>3 DEF Init, IInv, InvisibleOnlyInPress, Visible, DrawnForTheWells,
     TrapNeedsSecondFinger, MadeIsListed, LiftedIsFlagged

(* A prediction is for exactly the wells there are.                        *)
LEMMA PredictionFacts ==
  ASSUME NEW wells \in SUBSET Wells,
         NEW shapes \in [Wells -> Shapes \cup {Invisible}],
         UpdatePredictPath(wells, shapes)
  PROVE  /\ predicted' \in [wells -> Shapes \cup {Invisible}]
         /\ drawn' = TRUE /\ resized' = {}
         /\ \A w \in wells : predicted'[w] = shapes[w]
BY DEF UpdatePredictPath

(* Deleting a well, at once followed by a prediction.                      *)
LEMMA RemovalFacts ==
  ASSUME TypeOK, NEW w \in Wells, RemoveGravityWell(w)
  PROVE  /\ listed' = listed \ {w} /\ drawn' = TRUE /\ resized' = {}
         /\ predicted' \in [listed' -> Shapes \cup {Invisible}]
         /\ \A v \in listed' : predicted'[v] = shape[v]
<1>1. listed' = listed \ {w} /\ UpdatePredictPath(listed', shape)
  BY DEF RemoveGravityWell
<1>2. listed' \in SUBSET Wells /\ shape \in [Wells -> Shapes \cup {Invisible}]
  BY <1>1 DEF TypeOK
<1> QED
  BY <1>1, <1>2, PredictionFacts

(* A touch deletes its well or leaves all as it is.                        *)
LEMMA TouchedFacts ==
  ASSUME TypeOK, DrawnForTheWells, drawn, NEW w \in Wells, Touched(w),
         shape' = shape
  PROVE  /\ drawn' = TRUE
         /\ listed' \subseteq listed /\ justCreated' = "false"
         /\ justCreated # "false" => listed' = listed
         /\ predicted' \in [listed' -> Shapes \cup {Invisible}]
         /\ resized' \subseteq Wells
         /\ DrawnForTheWells'
<1>1. CASE justCreated = "false"
  BY <1>1, RemovalFacts DEF Touched, DrawnForTheWells
<1>2. CASE justCreated # "false"
  BY <1>2 DEF Touched, TypeOK, DrawnForTheWells
<1> QED
  BY <1>1, <1>2

(* A well of no size is made; it is the one under the press from now on.   *)
LEMMA PressBeganStep ==
  IInv /\ (\E view \in Wells \cup {Stage} : PressBegan(view)) => IInv'
<1> SUFFICES ASSUME IInv, NEW view \in Wells \cup {Stage}, PressBegan(view)
             PROVE  IInv'
  OBVIOUS
<1>1. PICK w \in Wells \ listed :
         /\ current' = w /\ listed' = listed \cup {w}
         /\ shape' = [shape EXCEPT ![w] = Invisible]
         /\ UpdatePredictPath(listed', shape')
         /\ abandoned' = abandoned \ {w}
  BY DEF PressBegan
<1>2. /\ press = "none" /\ press' = "down" /\ under' = view /\ other' = FALSE
      /\ justCreated' = justCreated
  BY DEF PressBegan
<1>3. listed' \in SUBSET Wells /\ shape' \in [Wells -> Shapes \cup {Invisible}]
  BY <1>1 DEF IInv, TypeOK
<1>4. /\ predicted' \in [listed' -> Shapes \cup {Invisible}]
      /\ drawn' = TRUE /\ resized' = {}
      /\ \A v \in listed' : predicted'[v] = shape'[v]
  BY <1>1, <1>3, PredictionFacts
<1>5. TypeOK'
  BY <1>1, <1>2, <1>3, <1>4 DEF IInv, TypeOK
<1>6. InvisibleOnlyInPress'
  BY <1>1, <1>2 DEF IInv, TypeOK, InvisibleOnlyInPress, Visible
<1>7. DrawnForTheWells' /\ TrapNeedsSecondFinger' /\ MadeIsListed' /\ LiftedIsFlagged'
  BY <1>1, <1>2, <1>4 DEF DrawnForTheWells, TrapNeedsSecondFinger, MadeIsListed,
                          LiftedIsFlagged
<1> QED
  BY <1>5, <1>6, <1>7 DEF IInv

(* Only the well being made changes, and it is marked resized.             *)
LEMMA PressChangedStep ==
  IInv /\ (\E s \in Shapes \cup {Invisible} : PressChanged(s)) => IInv'
<1> SUFFICES ASSUME IInv, NEW s \in Shapes \cup {Invisible}, PressChanged(s)
             PROVE  IInv'
  OBVIOUS
<1>1. TypeOK'
  BY DEF IInv, TypeOK, PressChanged
<1>2. InvisibleOnlyInPress' /\ DrawnForTheWells'
  BY DEF IInv, TypeOK, PressChanged, InvisibleOnlyInPress, DrawnForTheWells, Visible
<1>3. TrapNeedsSecondFinger' /\ MadeIsListed' /\ LiftedIsFlagged'
  BY DEF IInv, PressChanged, TrapNeedsSecondFinger, MadeIsListed, LiftedIsFlagged
<1> QED
  BY <1>1, <1>2, <1>3 DEF IInv

(* The well is large enough, is deleted, or is not there to delete.        *)
LEMMA PressEndedStep == IInv /\ PressEnded => IInv'
<1> SUFFICES ASSUME IInv, PressEnded PROVE IInv'
  OBVIOUS
<1>1. /\ press = "down" /\ justCreated' = "true"
      /\ UNCHANGED <<shape, current, under, other, abandoned>>
  BY DEF PressEnded
<1>2. CASE /\ shape[current] # Invisible /\ press' = "lifted"
           /\ UNCHANGED <<listed, drawn, predicted, resized>>
  BY <1>1, <1>2 DEF IInv, TypeOK, InvisibleOnlyInPress, DrawnForTheWells, Visible,
                    TrapNeedsSecondFinger, MadeIsListed, LiftedIsFlagged
<1>3. CASE /\ current \in listed /\ press' = "lifted"
           /\ RemoveGravityWell(current)
  <2>1. /\ listed' = listed \ {current} /\ drawn' = TRUE /\ resized' = {}
        /\ predicted' \in [listed' -> Shapes \cup {Invisible}]
        /\ \A v \in listed' : predicted'[v] = shape[v]
    BY <1>3, RemovalFacts DEF IInv, TypeOK
  <2>2. TypeOK' /\ DrawnForTheWells'
    BY <1>1, <1>3, <2>1 DEF IInv, TypeOK, DrawnForTheWells
  <2> QED
    BY <1>1, <1>3, <2>1, <2>2 DEF IInv, InvisibleOnlyInPress, Visible,
       TrapNeedsSecondFinger, MadeIsListed, LiftedIsFlagged
<1>4. CASE /\ current \notin listed /\ press' = "trapped"
           /\ UNCHANGED <<listed, drawn, predicted, resized>>
  BY <1>1, <1>4 DEF IInv, TypeOK, InvisibleOnlyInPress, DrawnForTheWells, Visible,
                    TrapNeedsSecondFinger, MadeIsListed, LiftedIsFlagged
<1> QED
  BY <1>2, <1>3, <1>4 DEF PressEnded

(* A cancelled press abandons its well as it is.                           *)
LEMMA PressCancelledStep == IInv /\ PressCancelled => IInv'
BY DEF PressCancelled, IInv, TypeOK, InvisibleOnlyInPress, DrawnForTheWells,
       Visible, TrapNeedsSecondFinger, MadeIsListed, LiftedIsFlagged

(* The pressing finger's touch.                                            *)
LEMMA PressTouchEndsStep == IInv /\ PressTouchEnds => IInv'
<1> SUFFICES ASSUME IInv, PressTouchEnds PROVE IInv'
  OBVIOUS
<1>1. /\ press = "lifted" /\ press' = "none"
      /\ UNCHANGED <<shape, current, under, other, abandoned>>
  BY DEF PressTouchEnds
<1>2. CASE under # Stage /\ Touched(under)
  <2>1. under \in Wells /\ drawn
    BY <1>1, <1>2 DEF IInv, TypeOK, DrawnForTheWells
  <2>2. /\ listed' \subseteq listed /\ justCreated' = "false" /\ drawn' = TRUE
        /\ predicted' \in [listed' -> Shapes \cup {Invisible}]
        /\ resized' \subseteq Wells /\ DrawnForTheWells'
    BY <1>1, <1>2, <2>1, TouchedFacts DEF IInv
  <2>3. TypeOK'
    BY <1>1, <2>2 DEF IInv, TypeOK
  <2> QED
    BY <1>1, <2>2, <2>3 DEF IInv, InvisibleOnlyInPress, Visible,
       TrapNeedsSecondFinger, MadeIsListed, LiftedIsFlagged
<1>3. CASE UNCHANGED <<listed, drawn, predicted, resized, justCreated>>
  BY <1>1, <1>3 DEF IInv, TypeOK, InvisibleOnlyInPress, DrawnForTheWells, Visible,
                    TrapNeedsSecondFinger, MadeIsListed, LiftedIsFlagged
<1> QED
  BY <1>2, <1>3 DEF PressTouchEnds

(* Another finger's touch; during a press it is the second finger.         *)
LEMMA TapStep == IInv /\ (\E w \in Wells : Tap(w)) => IInv'
<1> SUFFICES ASSUME IInv, NEW w \in Wells, Tap(w) PROVE IInv'
  OBVIOUS
<1>1. /\ press \in {"none", "down", "lifted"} /\ press' = press
      /\ other' = (press # "none" \/ other) /\ Touched(w)
      /\ UNCHANGED <<shape, current, under, abandoned>>
  BY DEF Tap
<1>0. w \in listed /\ drawn
  BY DEF Tap, Visible, IInv, DrawnForTheWells
<1>2. /\ listed' \subseteq listed /\ justCreated' = "false" /\ drawn' = TRUE
      /\ predicted' \in [listed' -> Shapes \cup {Invisible}]
      /\ resized' \subseteq Wells /\ DrawnForTheWells'
  BY <1>0, <1>1, TouchedFacts DEF IInv
<1>3. TypeOK'
  BY <1>1, <1>2 DEF IInv, TypeOK
<1> QED
  BY <1>1, <1>2, <1>3 DEF IInv, InvisibleOnlyInPress, Visible,
     TrapNeedsSecondFinger, MadeIsListed, LiftedIsFlagged

(* Pans and pinches move or resize wells that can be seen, outside any     *)
(* press, and leave them visible.                                          *)
LEMMA PanPinchStep ==
  IInv /\ (\E w \in Wells, s \in Shapes : Pan(w, s) \/ Pinch(w, s)) => IInv'
<1>1. ASSUME IInv, NEW w \in Wells, NEW s \in Shapes, Pan(w, s) PROVE IInv'
  <2>1. /\ press = "none" /\ shape' = [shape EXCEPT ![w] = s]
        /\ UpdatePredictPath(listed, shape')
        /\ UNCHANGED <<listed, justCreated, press, current, under, other, abandoned>>
    BY <1>1 DEF Pan
  <2>2. listed \in SUBSET Wells /\ shape' \in [Wells -> Shapes \cup {Invisible}]
    BY <1>1, <2>1 DEF IInv, TypeOK
  <2>3. /\ predicted' \in [listed -> Shapes \cup {Invisible}]
        /\ drawn' = TRUE /\ resized' = {}
        /\ \A v \in listed : predicted'[v] = shape'[v]
    BY <2>1, <2>2, PredictionFacts
  <2>4. TypeOK' /\ DrawnForTheWells'
    BY <1>1, <2>1, <2>2, <2>3 DEF IInv, TypeOK, DrawnForTheWells
  <2>5. InvisibleOnlyInPress'
    BY <1>1, <2>1, WellsAssumption
       DEF IInv, TypeOK, InvisibleOnlyInPress, Visible, Invisible
  <2> QED
    BY <1>1, <2>1, <2>4, <2>5
       DEF IInv, TrapNeedsSecondFinger, MadeIsListed, LiftedIsFlagged
<1>2. ASSUME IInv, NEW w \in Wells, NEW s \in Shapes, Pinch(w, s) PROVE IInv'
  BY <1>2, WellsAssumption
     DEF Pinch, IInv, TypeOK, InvisibleOnlyInPress, DrawnForTheWells, Visible,
         Invisible, TrapNeedsSecondFinger, MadeIsListed, LiftedIsFlagged
<1> QED
  BY <1>1, <1>2

(* The inductive invariant holds in every state.                           *)
THEOREM Invariance == Spec => []IInv
<1>1. IInv /\ Next => IInv'
  BY PressBeganStep, PressChangedStep, PressEndedStep, PressCancelledStep,
     PressTouchEndsStep, TapStep, PanPinchStep DEF Next
<1>2. IInv /\ UNCHANGED vars => IInv'
  BY DEF vars, IInv, TypeOK, InvisibleOnlyInPress, DrawnForTheWells, Visible,
         TrapNeedsSecondFinger, MadeIsListed, LiftedIsFlagged
<1> QED
  BY <1>1, <1>2, InitHolds, PTL DEF Spec

(* Every variable keeps its type; a prediction is of the wells there are.  *)
THEOREM TypeCorrect == Spec => []TypeOK
BY Invariance, PTL DEF IInv

(* A well of no size is being made or was abandoned.                       *)
THEOREM NoOtherInvisibleWell == Spec => []InvisibleOnlyInPress
BY Invariance, PTL DEF IInv

(* Every creation, deletion and move of a well is in the paths drawn, and  *)
(* where none are drawn yet there is no well.                              *)
THEOREM PathsAreCurrent == Spec => []DrawnForTheWells
BY Invariance, PTL DEF IInv

(* index(of:)! traps only when a second finger deleted the well.           *)
THEOREM OneFingerNeverTraps == Spec => []TrapNeedsSecondFinger
BY Invariance, PTL DEF IInv

(* The touch that ends a press deletes no well, whatever was done before,  *)
(* unless a second finger tapped a well during it.                         *)
THEOREM WellUnderIsSpared == Spec => PressSparesTheWellUnder
<1> DEFINE A == press = "lifted" /\ press' = "none" /\ ~other => listed' = listed
<1>1. IInv /\ [Next]_vars => [A]_vars
  <2> SUFFICES ASSUME IInv, Next, press = "lifted", press' = "none", ~other
               PROVE  listed' = listed
    BY DEF vars
  <2>1. justCreated = "true"
    BY DEF IInv, LiftedIsFlagged
  <2>2. PressTouchEnds
    BY DEF Next, PressBegan, PressChanged, PressEnded, PressCancelled, Tap, Pan,
           Pinch
  <2> QED
    BY <2>1, <2>2 DEF PressTouchEnds, Touched
<1> HIDE DEF A
<1>2. Spec => [][A]_vars
  BY <1>1, Invariance, PTL DEF Spec
<1> QED
  BY <1>2 DEF PressSparesTheWellUnder, A
-----------------------------------------------------------------------------
(* A text waits for the label only while the label moves out, and it is    *)
(* the current one.                                                        *)
OnlyCurrentWaits == due \subseteq {currentText} /\ (label.in => due = {})

(* Before setupLevelTexts nothing has happened.                            *)
NothingYet == completedText = {} /\ shown = {} /\ due = {} /\ ~label.in

(* The texts shown are those completed and the current one, unless it      *)
(* waits; a current text that waits or is on the label is not completed,   *)
(* so it was not shown before.  The successor of a completed text was      *)
(* shown or waits, and the first text is behind every other.               *)
ChainFollowed ==
  /\ again = {}
  /\ currentText = None => NothingYet
  /\ currentText # None =>
       /\ FirstTexts \subseteq completedText \cup {currentText}
       /\ shown = completedText \cup ({currentText} \ due)
       /\ label.in \/ due # {} => currentText \notin completedText
       /\ label.in \/ due # {} \/ Following \subseteq shown
       /\ \A t \in completedText : WithId(texts[t].nextText) \subseteq shown \cup due

TextsInvariant ==
  /\ TextsTypeOK /\ LabelShowsCurrent /\ OnlyCurrentWaits
  /\ OneChain => ChainFollowed

(* What a step that leaves the texts as they are cannot change.            *)
LEMMA SameTexts ==
  ASSUME texts' = texts
  PROVE  /\ FirstTexts' = FirstTexts /\ (OneChain' <=> OneChain)
         /\ currentText' = currentText => Following' = Following
BY DEF FirstTexts, OneChain, Following

(* Only a text is followed, and by the text it names.                      *)
LEMMA FollowingFacts ==
  ASSUME NEW t \in Following
  PROVE  /\ t \in Ids /\ currentText # None
         /\ Following = {t} /\ Following = WithId(texts[currentText].nextText)
<1>1. currentText # None /\ t \in WithId(texts[currentText].nextText)
  BY DEF Following
<1>2. WithId(texts[currentText].nextText) = {t} /\ t \in Ids
  BY <1>1 DEF WithId
<1> QED
  BY <1>1, <1>2 DEF Following

(* In a chain one text is the first, and it has a successor.               *)
LEMMA OneChainFacts ==
  ASSUME OneChain
  PROVE  \E f \in Ids : FirstTexts = {f} /\ WithId(texts[f].nextText) # {}
<1>1. IsFiniteSet(FirstTexts)
  BY FS_Subset, TextsAssumption DEF FirstTexts
<1>2. PICK f : FirstTexts = {f}
  BY <1>1, FS_Singleton DEF OneChain
<1>3. f \in Ids
  BY <1>2 DEF FirstTexts
<1> QED
  BY <1>2, <1>3 DEF OneChain

(* The label goes out, or a text takes it.                                 *)
LEMMA LabelFacts ==
  ASSUME TextsTypeOK
  PROVE  /\ LevelTextsAllComplete => label'.in = FALSE /\ label'.text = label.text
         /\ \A t : UpdateLevelText(t) => label'.in = TRUE /\ label'.text = t
<1>1. label \in [text: Ids \cup {None}, in: BOOLEAN]
  BY DEF TextsTypeOK
<1> QED
  BY <1>1 DEF LevelTextsAllComplete, UpdateLevelText

(* The invariant holds at first.                                           *)
LEMMA TextsInitHolds == TextsInit => TextsInvariant
<1> SUFFICES ASSUME TextsInit PROVE TextsInvariant
  OBVIOUS
<1>1. TextsTypeOK
  BY DEF TextsInit, TextsTypeOK
<1>2. ~label.in
  BY DEF TextsInit
<1>3. ChainFollowed
  BY <1>2 DEF TextsInit, ChainFollowed, NothingYet
<1> QED
  BY <1>1, <1>2, <1>3 DEF TextsInit, TextsInvariant, LabelShowsCurrent, OnlyCurrentWaits

(* A text that takes the label at once, or waits for the old one to leave  *)
(* it, is the current one and the only one that waits.                     *)
LEMMA ShowStep ==
  ASSUME TextsInvariant, due = {}, NEW t \in Ids, NEW out \in BOOLEAN, Show(t, out),
         UNCHANGED texts, completedText' \subseteq Ids
  PROVE  /\ TextsTypeOK' /\ LabelShowsCurrent' /\ OnlyCurrentWaits'
         /\ currentText' = t /\ currentText' # None
         /\ \/ /\ label'.in /\ due' = {} /\ shown' = shown \cup {t}
               /\ again' = again \cup ({t} \cap shown)
            \/ /\ ~label'.in /\ due' = {t} /\ shown' = shown
               /\ again' = again
<1>1. TextsTypeOK /\ label \in [text: Ids \cup {None}, in: BOOLEAN]
  BY DEF TextsInvariant, TextsTypeOK
<1>2. currentText' = t /\ t # None
  BY TextsAssumption DEF Show
<1>3. CASE UpdateLevelText(t) /\ UNCHANGED due
  <2>1. /\ label' = [text |-> t, in |-> TRUE] /\ label'.in /\ label'.text = t
        /\ due' = {} /\ shown' = shown \cup {t}
        /\ again' = again \cup ({t} \cap shown)
    BY <1>3 DEF UpdateLevelText
  <2>2. TextsTypeOK'
    BY <1>1, <1>2, <2>1 DEF TextsTypeOK
  <2> QED
    BY <1>2, <2>1, <2>2 DEF LabelShowsCurrent, OnlyCurrentWaits
<1>4. CASE /\ label' = [label EXCEPT !.in = FALSE]
           /\ due' = due \cup {t} /\ UNCHANGED <<shown, again>>
  <2>1. /\ label' \in [text: Ids \cup {None}, in: BOOLEAN] /\ ~label'.in
        /\ due' = {t} /\ shown' = shown /\ again' = again
    BY <1>1, <1>4
  <2>2. TextsTypeOK'
    BY <1>1, <1>2, <2>1 DEF TextsTypeOK
  <2> QED
    BY <1>2, <2>1, <2>2 DEF LabelShowsCurrent, OnlyCurrentWaits
<1> QED
  BY <1>3, <1>4 DEF Show

(* The label goes out for good.                                            *)
LEMMA AllCompleteStep ==
  ASSUME TextsInvariant, due = {}, LevelTextsAllComplete, UNCHANGED texts,
         completedText' \subseteq Ids
  PROVE  TextsTypeOK' /\ LabelShowsCurrent' /\ OnlyCurrentWaits'
<1>1. TextsTypeOK /\ label \in [text: Ids \cup {None}, in: BOOLEAN]
  BY DEF TextsInvariant, TextsTypeOK
<1>2. label' \in [text: Ids \cup {None}, in: BOOLEAN] /\ ~label'.in
  BY <1>1 DEF LevelTextsAllComplete
<1>3. UNCHANGED <<currentText, due, shown, again>>
  BY DEF LevelTextsAllComplete
<1>4. TextsTypeOK'
  BY <1>1, <1>2, <1>3 DEF TextsTypeOK
<1> QED
  BY <1>2, <1>3, <1>4 DEF LabelShowsCurrent, OnlyCurrentWaits

(* A tap with a successor: the old text is completed, the successor shown  *)
(* unless it was completed.                                                *)
LEMMA NextTextStep ==
  ASSUME TextsInvariant, label.in, NextText, UNCHANGED texts
  PROVE  TextsInvariant'
<1>1. PICK t \in Following :
        IF t \in completedText' THEN LevelTextsAllComplete
        ELSE Show(t, texts[currentText].animateOut)
  BY DEF NextText
<1>2. completedText' = completedText \cup {currentText}
  BY DEF NextText
<1>3. /\ t \in Ids /\ currentText # None
      /\ Following = {t} /\ Following = WithId(texts[currentText].nextText)
  BY FollowingFacts
<1>4. TextsTypeOK /\ currentText \in Ids /\ due = {} /\ completedText' \subseteq Ids
  BY <1>2, <1>3 DEF TextsInvariant, OnlyCurrentWaits, TextsTypeOK
<1>5. CASE t \in completedText'
  <2>1. /\ LevelTextsAllComplete /\ ~label'.in
        /\ UNCHANGED <<currentText, due, shown, again>>
    BY <1>1, <1>4, <1>5, LabelFacts DEF LevelTextsAllComplete
  <2>2. TextsTypeOK' /\ LabelShowsCurrent' /\ OnlyCurrentWaits'
    BY <1>4, <2>1, AllCompleteStep
  <2>3. ASSUME OneChain' PROVE ChainFollowed'
    <3>1. OneChain /\ FirstTexts' = FirstTexts /\ Following' = Following
      BY <2>1, <2>3, SameTexts
    <3>2. ChainFollowed
      BY <3>1 DEF TextsInvariant
    <3>3. shown = completedText' /\ Following \subseteq shown
      BY <1>2, <1>3, <1>4, <1>5, <3>2 DEF ChainFollowed
    <3>4. \A u \in completedText' : WithId(texts[u].nextText) \subseteq shown
      BY <1>2, <1>3, <1>4, <3>2, <3>3 DEF ChainFollowed
    <3> QED
      BY <1>2, <1>3, <1>4, <2>1, <3>1, <3>2, <3>3, <3>4 DEF ChainFollowed
  <2> QED
    BY <2>2, <2>3 DEF TextsInvariant
<1>6. CASE t \notin completedText'
  <2>1. Show(t, texts[currentText].animateOut) /\ texts[currentText].animateOut \in BOOLEAN
    BY <1>1, <1>4, <1>6 DEF TextsTypeOK, LevelText
  <2>2. /\ TextsTypeOK' /\ LabelShowsCurrent' /\ OnlyCurrentWaits'
        /\ currentText' = t /\ currentText' # None
        /\ \/ /\ label'.in /\ due' = {} /\ shown' = shown \cup {t}
              /\ again' = again \cup ({t} \cap shown)
           \/ /\ ~label'.in /\ due' = {t} /\ shown' = shown
              /\ again' = again
    BY <1>3, <1>4, <2>1, ShowStep
  <2>3. ASSUME OneChain' PROVE ChainFollowed'
    <3>1. OneChain /\ FirstTexts' = FirstTexts
      BY <2>3, SameTexts
    <3>2. ChainFollowed
      BY <3>1 DEF TextsInvariant
    <3>3. shown = completedText' /\ FirstTexts' \subseteq completedText'
      BY <1>2, <1>3, <1>4, <3>1, <3>2 DEF ChainFollowed
    <3>4. again' = {} /\ shown' = completedText' \cup ({t} \ due')
      BY <1>6, <2>2, <3>2, <3>3 DEF ChainFollowed
    <3>5. \A u \in completedText' : WithId(texts[u].nextText) \subseteq shown' \cup due'
      <4> SUFFICES ASSUME NEW u \in completedText'
                   PROVE  WithId(texts[u].nextText) \subseteq shown' \cup due'
        OBVIOUS
      <4>1. CASE u = currentText
        BY <1>3, <2>2, <4>1
      <4>2. CASE u \in completedText
        BY <1>3, <1>4, <2>2, <3>2, <4>2 DEF ChainFollowed
      <4> QED
        BY <1>2, <4>1, <4>2
    <3> QED
      BY <1>6, <2>2, <3>3, <3>4, <3>5 DEF ChainFollowed
  <2> QED
    BY <2>2, <2>3 DEF TextsInvariant
<1> QED
  BY <1>5, <1>6

(* The start, or a tap without a successor: in a chain the first text is   *)
(* shown once, before every other.                                         *)
LEMMA NextFirstTextStep ==
  ASSUME TextsInvariant, Following = {}, currentText = None \/ label.in,
         NextFirstText, UNCHANGED texts
  PROVE  TextsInvariant'
<1>1. TextsTypeOK /\ completedText' = completedText /\ completedText' \subseteq Ids
  BY DEF TextsInvariant, TextsTypeOK, NextFirstText
<1>2. due = {}
  BY <1>1, TextsAssumption DEF TextsInvariant, OnlyCurrentWaits, TextsTypeOK
<1>3. CASE LevelTextsAllComplete /\ (FirstTexts = {} \/ FirstTexts \cap completedText # {})
  <2>1. ~label'.in /\ UNCHANGED <<currentText, due, shown, again>>
    BY <1>1, <1>3, LabelFacts DEF LevelTextsAllComplete
  <2>2. TextsTypeOK' /\ LabelShowsCurrent' /\ OnlyCurrentWaits'
    BY <1>1, <1>2, <1>3, AllCompleteStep
  <2>3. ASSUME OneChain' PROVE ChainFollowed'
    <3>1. OneChain /\ FirstTexts' = FirstTexts /\ Following' = Following
      BY <2>1, <2>3, SameTexts
    <3>2. ChainFollowed
      BY <3>1 DEF TextsInvariant
    <3> QED
      BY <1>1, <1>2, <2>1, <3>1, <3>2 DEF ChainFollowed, NothingYet
  <2> QED
    BY <2>2, <2>3 DEF TextsInvariant
<1>4. ASSUME NEW t \in FirstTexts, t \notin completedText, Show(t, FALSE)
      PROVE  TextsInvariant'
  <2>1. t \in Ids
    BY DEF FirstTexts
  <2>2. /\ TextsTypeOK' /\ LabelShowsCurrent' /\ OnlyCurrentWaits'
        /\ currentText' = t /\ currentText' # None
    BY <1>1, <1>2, <1>4, <2>1, ShowStep
  <2>3. /\ UpdateLevelText(t) /\ due' = {} /\ label'.in
        /\ shown' = shown \cup {t} /\ again' = again \cup ({t} \cap shown)
    BY <1>1, <1>2, <1>4, LabelFacts DEF Show, UpdateLevelText
  <2>4. ASSUME OneChain' PROVE ChainFollowed'
    <3>1. OneChain /\ FirstTexts' = FirstTexts
      BY <2>4, SameTexts
    <3>2. ChainFollowed
      BY <3>1 DEF TextsInvariant
    <3>3. FirstTexts = {t} /\ WithId(texts[t].nextText) # {}
      BY <3>1, OneChainFacts
    <3>4. currentText = None
      <4>1. SUFFICES ASSUME currentText # None PROVE FALSE
        OBVIOUS
      <4>2. t = currentText
        BY <1>4, <3>2, <3>3, <4>1 DEF ChainFollowed
      <4> QED
        BY <3>3, <4>1, <4>2 DEF Following
    <3>5. completedText = {} /\ shown = {} /\ again = {}
      BY <3>2, <3>4 DEF ChainFollowed, NothingYet
    <3> QED
      BY <1>1, <2>2, <2>3, <3>1, <3>3, <3>5 DEF ChainFollowed
  <2> QED
    BY <2>2, <2>4 DEF TextsInvariant
<1> QED
  BY <1>3, <1>4 DEF NextFirstText

(* The text that waited takes the label.                                   *)
LEMMA ShowDueStep ==
  ASSUME TextsInvariant, NEW t \in Ids, ShowDue(t)
  PROVE  TextsInvariant'
<1>1. /\ TextsTypeOK /\ due = {t} /\ currentText = t /\ ~label.in /\ t # None
  BY TextsAssumption DEF ShowDue, TextsInvariant, OnlyCurrentWaits, TextsTypeOK
<1>2. /\ due' = {} /\ UpdateLevelText(t)
      /\ UNCHANGED <<texts, currentText, completedText>>
  BY <1>1 DEF ShowDue
<1>3. /\ label' = [text |-> t, in |-> TRUE] /\ label'.in /\ label'.text = t
      /\ shown' = shown \cup {t} /\ again' = again \cup ({t} \cap shown)
  BY <1>2 DEF UpdateLevelText
<1>4. TextsTypeOK'
  BY <1>1, <1>2, <1>3 DEF TextsTypeOK
<1>5. LabelShowsCurrent' /\ OnlyCurrentWaits'
  BY <1>1, <1>2, <1>3 DEF LabelShowsCurrent, OnlyCurrentWaits
<1>6. ASSUME OneChain' PROVE ChainFollowed'
  <2>1. OneChain /\ FirstTexts' = FirstTexts /\ Following' = Following
    BY <1>2, <1>6, SameTexts
  <2>2. ChainFollowed
    BY <2>1 DEF TextsInvariant
  <2>3. again' = {} /\ shown = completedText /\ t \notin completedText
    BY <1>1, <1>3, <2>2 DEF ChainFollowed
  <2>4. shown' \cup due' = shown \cup due
    BY <1>1, <1>2, <1>3
  <2> QED
    BY <1>1, <1>2, <1>3, <2>1, <2>2, <2>3, <2>4 DEF ChainFollowed
<1> QED
  BY <1>4, <1>5, <1>6 DEF TextsInvariant

(* The invariant of the texts holds in every state.                        *)
THEOREM TextsInvariance == TextsSpec => []TextsInvariant
<1>1. TextsInvariant /\ TextsNext => TextsInvariant'
  <2> SUFFICES ASSUME TextsInvariant, TextsNext PROVE TextsInvariant'
    OBVIOUS
  <2>1. CASE SetupLevelTexts
    <3>1. currentText = None /\ Following = {} /\ UNCHANGED texts
      BY <2>1 DEF SetupLevelTexts, LevelTextTriggerOccurred, Following
    <3>2. NextFirstText
      BY <2>1, <3>1 DEF SetupLevelTexts, LevelTextTriggerOccurred
    <3> QED
      BY <3>1, <3>2, NextFirstTextStep
  <2>2. CASE TapText
    <3>1. label.in /\ UNCHANGED texts /\ (NextText \/ (Following = {} /\ NextFirstText))
      BY <2>2 DEF TapText, LevelTextTriggerOccurred
    <3> QED
      BY <3>1, NextTextStep, NextFirstTextStep
  <2>3. CASE \E t \in Ids : ShowDue(t)
    BY <2>3, ShowDueStep
  <2> QED
    BY <2>1, <2>2, <2>3 DEF TextsNext
<1>2. TextsInvariant /\ UNCHANGED textsVars => TextsInvariant'
  BY DEF textsVars, TextsInvariant, TextsTypeOK, LabelShowsCurrent, OnlyCurrentWaits,
         OneChain, FirstTexts, ChainFollowed, NothingYet, Following
<1> QED
  BY <1>1, <1>2, TextsInitHolds, PTL DEF TextsSpec

(* The label and the queue of blocks hold texts of the level.              *)
THEOREM TextsTypeCorrect == TextsSpec => []TextsTypeOK
BY TextsInvariance, PTL DEF TextsInvariant

(* The label shows the text whose successor a tap will ask for, however    *)
(* late the block runs that changes it.                                    *)
THEOREM LabelIsCurrent == TextsSpec => []LabelShowsCurrent
BY TextsInvariance, PTL DEF TextsInvariant

(* In a chain no text comes twice and none is passed over.                 *)
THEOREM ChainIsShownOnce == TextsSpec => []ChainShownOnce
<1>1. TextsInvariant => ChainShownOnce
  <2> SUFFICES ASSUME TextsInvariant, OneChain
               PROVE  /\ again = {}
                      /\ Gone => \A t \in shown : WithId(texts[t].nextText) \subseteq shown
    BY DEF ChainShownOnce
  <2>1. ChainFollowed
    BY DEF TextsInvariant
  <2>2. ASSUME Gone, NEW t \in shown
        PROVE  WithId(texts[t].nextText) \subseteq shown
    <3>1. currentText # None /\ due = {} /\ ~label.in
      BY <2>1, <2>2 DEF Gone, ChainFollowed, NothingYet
    <3>2. Following = WithId(texts[currentText].nextText)
      BY <3>1 DEF Following
    <3> QED
      BY <2>1, <3>1, <3>2 DEF ChainFollowed
  <2> QED
    BY <2>1, <2>2 DEF ChainFollowed
<1> QED
  BY <1>1, TextsInvariance, PTL
=============================================================================
