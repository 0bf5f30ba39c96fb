----------------------------- MODULE LevelTexts -----------------------------
(***************************************************************************)
(* The texts of a level (LevelView.swift, LevelTextsLabel.swift): one      *)
(* label shows them, each names its successor, and a tap on the label asks *)
(* for the next.  Nothing but the start and a tap is ever a trigger.       *)
(*                                                                         *)
(* Ids are distinct and none is -1; a text without trigger that no other   *)
(* names is as good as absent.  A touch finds the label where its          *)
(* animation ends, so a label on its way out cannot be tapped.             *)
(***************************************************************************)
EXTENDS FiniteSets, Naturals

CONSTANTS
  Ids,    \* ids of the level's texts
  None    \* no text; also a nextText that no text has

ASSUME TextsAssumption == IsFiniteSet(Ids) /\ None \notin Ids

Triggers == {"none", "start", "tap", "pressPlay"}

VARIABLES
  texts,          \* the level's, by id
  currentText,
  completedText,  \* the ids in it
  label,          \* the text of the label, and whether it is on the screen
  due,            \* texts whose block waits for the label to move out
  shown,          \* texts the label has shown (history)
  again           \* texts it has shown again (history)

textsVars == <<texts, currentText, completedText, label, due, shown, again>>

LevelText == [triggerOn: Triggers, nextText: Ids \cup {None}, animateOut: BOOLEAN]

TextsInit ==
  /\ texts \in [Ids -> LevelText]
  /\ currentText = None
  /\ completedText = {}
  /\ label = [text |-> None, in |-> FALSE]
  /\ due = {}
  /\ shown = {} /\ again = {}
-----------------------------------------------------------------------------
(* getLevelTextWithId; one among the texts, or none.                       *)
WithId(id) == {id} \cap Ids

(* The text after currentText.                                             *)
Following == IF currentText = None THEN {} ELSE WithId(texts[currentText].nextText)

(* A variant that does not look whether there is a first text.             *)
FirstTexts_Unchecked ==
  LET firsts == {t \in Ids : texts[t].triggerOn = "start"}
  IN  IF firsts = {} THEN {None} ELSE firsts

(* getFirstText picks one of these at random.                              *)
FirstTexts == {t \in Ids : texts[t].triggerOn = "start"}

(* updateLevelText and animateIn.                                          *)
UpdateLevelText(t) ==
  /\ label' = [text |-> t, in |-> TRUE]
  /\ shown' = shown \cup {t}
  /\ again' = again \cup ({t} \cap shown)

LevelTextsAllComplete ==
  /\ label' = [label EXCEPT !.in = FALSE]
  /\ UNCHANGED <<currentText, due, shown, again>>

(* A new text takes the label at once, or waits until the old one is out.  *)
Show(t, animateOut) ==
  /\ currentText' = t
  /\ \/ /\ ~animateOut
        /\ UpdateLevelText(t)
        /\ UNCHANGED due
     \/ /\ animateOut
        /\ label' = [label EXCEPT !.in = FALSE]
        /\ due' = due \cup {t}
        /\ UNCHANGED <<shown, again>>

(* A variant that completes the new text instead of the old one.           *)
NextText_CompletesNew ==
  /\ completedText' = completedText \cup Following
  /\ \E t \in Following :
       IF t \in completedText THEN LevelTextsAllComplete
       ELSE Show(t, texts[currentText].animateOut)

(* nextText(oldText: currentText), which has a successor.                  *)
NextText ==
  /\ completedText' = completedText \cup {currentText}
  /\ \E t \in Following :
       IF t \in completedText' THEN LevelTextsAllComplete
       ELSE Show(t, texts[currentText].animateOut)

(* nextText(oldText: nil): nothing is completed, and the texts begin again *)
(* unless the first text picked was completed.                             *)
NextFirstText ==
  /\ UNCHANGED completedText
  /\ \/ FirstTexts = {} /\ LevelTextsAllComplete
     \/ \E t \in FirstTexts :
          IF t \in completedText THEN LevelTextsAllComplete ELSE Show(t, FALSE)

LevelTextTriggerOccurred(trigger) ==
  /\ \/ \E t \in Following : texts[t].triggerOn = trigger /\ NextText
     \/ Following = {} /\ NextFirstText
  /\ UNCHANGED texts

(* setupLevelTexts; where no text is a first one it leaves no trace.       *)
SetupLevelTexts == currentText = None /\ LevelTextTriggerOccurred("start")

(* A variant that lets a label on its way out be tapped.                   *)
TapText_OnItsWay ==
  /\ label.in \/ due # {}
  /\ LevelTextTriggerOccurred("tap")

TapText == label.in /\ LevelTextTriggerOccurred("tap")

(* The block run when the old text is out.                                 *)
ShowDue(t) ==
  /\ t \in due
  /\ due' = due \ {t}
  /\ UpdateLevelText(t)
  /\ UNCHANGED <<texts, currentText, completedText>>

TextsNext == SetupLevelTexts \/ TapText \/ \E t \in Ids : ShowDue(t)

TextsSpec == TextsInit /\ [][TextsNext]_textsVars
-----------------------------------------------------------------------------
(* Properties *)

TextsTypeOK ==
  /\ texts \in [Ids -> LevelText]
  /\ currentText \in Ids \cup {None}
  /\ completedText \subseteq Ids
  /\ label \in [text: Ids \cup {None}, in: BOOLEAN]
  /\ due \subseteq Ids
  /\ again \subseteq shown /\ shown \subseteq Ids

(* The block of a text that waited reads self.currentText again: what the  *)
(* label shows is the text whose successor the next tap will ask for.      *)
LabelShowsCurrent == label.in => label.text = currentText

Gone == ~label.in /\ due = {} /\ shown # {}

(* One text to start with, and one to follow it.                           *)
OneChain ==
  /\ Cardinality(FirstTexts) = 1
  /\ \A t \in FirstTexts : WithId(texts[t].nextText) # {}

(* completedText makes every text of a chain appear once: none comes       *)
(* again, and when the label leaves, each text shown has been followed by  *)
(* its successor.  A text alone is different: it is never completed.  And  *)
(* with two texts to start with, one of them may never be shown.           *)
ChainShownOnce ==
  OneChain =>
    /\ again = {}
    /\ Gone => \A t \in shown : WithId(texts[t].nextText) \subseteq shown
=============================================================================
