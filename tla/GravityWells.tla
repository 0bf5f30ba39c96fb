---------------------------- MODULE GravityWells ----------------------------
(***************************************************************************)
(* Gravity wells under the player's fingers (LevelView.swift,              *)
(* GravityWell.swift): a long press makes a well and sizes it, a tap       *)
(* deletes one, a pan moves one, a pinch resizes one, and the paths drawn  *)
(* are those predicted for the wells at the last prediction.  A level      *)
(* without wells is shown without one.                                     *)
(*                                                                         *)
(* A finger lifting is one event that goes to the long press recognizer    *)
(* first and to the touched views after it, in any order among them.       *)
(* The long press excludes pans and pinches, but not the touches of a      *)
(* second finger (cancelsTouchesInView is false).                          *)
(***************************************************************************)
EXTENDS Naturals

CONSTANTS
  MaxWells,   \* bound: wells alive at once
  Shapes,     \* where a well that can be seen is, and how large
  Stage       \* what a finger touches that touches no well

ASSUME WellsAssumption ==
  /\ MaxWells \in Nat \ {0}
  /\ 0 \notin Shapes
  /\ Stage \notin 1 .. MaxWells

Wells == 1 .. MaxWells
Invisible == 0   \* the shape of a well of no size: no point is inside it

VARIABLES
  listed,       \* scaledGravityWells, which are also the stage's subviews
  shape,        \* of each well
  justCreated,  \* justCreatedWell, nil at first
  press,        \* the long press: none, down, lifted (its touch not yet), trapped
  current,      \* currentGravityWellCreated
  under,        \* the view under the pressing finger
  drawn,        \* a path was predicted since the level was shown
  predicted,    \* the shapes the drawn paths were predicted for
  resized,      \* the wells resized since that prediction (history)
  other,        \* a second finger tapped a well during the press (history)
  abandoned     \* the wells whose long press was cancelled (history)

vars == <<listed, shape, justCreated, press, current, under, drawn, predicted,
          resized, other, abandoned>>

Visible == {w \in listed : shape[w] # Invisible}

(* updatePredictPath for wells of these shapes.                            *)
UpdatePredictPath(wells, shapes) ==
  /\ drawn' = TRUE
  /\ predicted' = [w \in wells |-> shapes[w]]
  /\ resized' = {}

(* createGravityWellsFromLevel: each well of the level is made, and each   *)
(* time the paths are predicted; without wells nothing is.                 *)
Init ==
  /\ listed \in SUBSET Wells
  /\ shape \in [Wells -> Shapes]
  /\ justCreated = "nil"
  /\ press = "none" /\ current = 1 /\ under = Stage
  /\ drawn = (listed # {})
  /\ predicted = [w \in listed |-> shape[w]]
  /\ resized = {} /\ other = FALSE /\ abandoned = {}
-----------------------------------------------------------------------------
(* removeGravityWell of a well that is listed.                             *)
RemoveGravityWell(w) ==
  /\ listed' = listed \ {w}
  /\ UpdatePredictPath(listed', shape)

(* createGravityWell, of no size, where the press was recognized.          *)
PressBegan(view) ==
  /\ press = "none"
  /\ view \in Visible \cup {Stage}
  /\ press' = "down" /\ under' = view /\ other' = FALSE
  /\ \E w \in Wells \ listed :
       /\ \A v \in Wells \ listed : w <= v
       /\ current' = w
       /\ listed' = listed \cup {w}
       /\ shape' = [shape EXCEPT ![w] = Invisible]
       /\ UpdatePredictPath(listed', shape')
       /\ abandoned' = abandoned \ {w}
  /\ UNCHANGED justCreated

(* A variant that removes the well as soon as its size is nothing.         *)
PressChanged_RemovesAtOnce(s) ==
  /\ press = "down"
  /\ shape' = [shape EXCEPT ![current] = s]
  /\ IF s = Invisible
     THEN RemoveGravityWell(current)
     ELSE /\ resized' = resized \cup {current}
          /\ UNCHANGED <<listed, drawn, predicted>>
  /\ UNCHANGED <<justCreated, press, current, under, other, abandoned>>

(* The size follows the finger; close to where it went down it is nothing. *)
PressChanged(s) ==
  /\ press = "down"
  /\ shape' = [shape EXCEPT ![current] = s]
  /\ resized' = resized \cup {current}
  /\ UNCHANGED <<listed, justCreated, press, current, under, drawn, predicted,
                 other, abandoned>>

(* Variants: the flag is not set; a well of no size stays.                 *)
PressEnded_NoFlag ==
  /\ press = "down"
  /\ press' = "lifted"
  /\ IF shape[current] = Invisible /\ current \in listed
     THEN RemoveGravityWell(current)
     ELSE UNCHANGED <<listed, drawn, predicted, resized>>
  /\ UNCHANGED <<shape, justCreated, current, under, other, abandoned>>

PressEnded_Keeps ==
  /\ press = "down"
  /\ justCreated' = "true"
  /\ press' = "lifted"
  /\ UNCHANGED <<listed, shape, current, under, drawn, predicted, resized, other,
                 abandoned>>

PressEnded ==
  /\ press = "down"
  /\ justCreated' = "true"
  /\ \/ /\ shape[current] # Invisible
        /\ press' = "lifted"
        /\ UNCHANGED <<listed, drawn, predicted, resized>>
     \/ /\ shape[current] = Invisible /\ current \in listed
        /\ press' = "lifted"
        /\ RemoveGravityWell(current)
     \/ /\ shape[current] = Invisible /\ current \notin listed
        /\ press' = "trapped"              \* index(of:)! of a well not there
        /\ UNCHANGED <<listed, drawn, predicted, resized>>
  /\ UNCHANGED <<shape, current, under, other, abandoned>>

(* cancelled is not handled: the well stays as it is.                      *)
PressCancelled ==
  /\ press = "down"
  /\ press' = "none"
  /\ abandoned' = abandoned \cup ({current} \cap listed)
  /\ UNCHANGED <<listed, shape, justCreated, current, under, drawn, predicted,
                 resized, other>>

(* touched of well w.                                                      *)
Touched(w) ==
  /\ IF justCreated = "false"
     THEN RemoveGravityWell(w)
     ELSE UNCHANGED <<listed, drawn, predicted, resized>>
  /\ justCreated' = "false"

(* touchesEnded of the finger that pressed; it may have left the well.     *)
PressTouchEnds ==
  /\ press = "lifted"
  /\ press' = "none"
  /\ \/ under # Stage /\ Touched(under)
     \/ UNCHANGED <<listed, drawn, predicted, resized, justCreated>>
  /\ UNCHANGED <<shape, current, under, other, abandoned>>

(* touchesEnded of any other finger, which went down on w and lifts there. *)
Tap(w) ==
  /\ press \in {"none", "down", "lifted"}
  /\ w \in Visible
  /\ press # "none" => w # under
  /\ other' = (press # "none" \/ other)
  /\ Touched(w)
  /\ UNCHANGED <<shape, press, current, under, abandoned>>

(* A variant that does not predict again.                                  *)
Pan_NotPredicted(w, s) ==
  /\ press = "none"
  /\ w \in Visible
  /\ shape' = [shape EXCEPT ![w] = s]
  /\ UNCHANGED <<listed, justCreated, press, current, under, drawn, predicted,
                 resized, other, abandoned>>

(* handlePan: the well moves, and the paths with it.                       *)
Pan(w, s) ==
  /\ press = "none"
  /\ w \in Visible
  /\ shape' = [shape EXCEPT ![w] = s]
  /\ UpdatePredictPath(listed, shape')
  /\ UNCHANGED <<listed, justCreated, press, current, under, other, abandoned>>

(* handlePinch: the well is resized, the paths stay.                       *)
Pinch(w, s) ==
  /\ press = "none"
  /\ w \in Visible
  /\ shape' = [shape EXCEPT ![w] = s]
  /\ resized' = resized \cup {w}
  /\ UNCHANGED <<listed, justCreated, press, current, under, drawn, predicted,
                 other, abandoned>>

Next ==
  \/ \E view \in Wells \cup {Stage} : PressBegan(view)
  \/ \E s \in Shapes \cup {Invisible} : PressChanged(s)
  \/ PressEnded
  \/ PressCancelled
  \/ PressTouchEnds
  \/ \E w \in Wells : Tap(w)
  \/ \E w \in Wells, s \in Shapes : Pan(w, s) \/ Pinch(w, s)

Spec == Init /\ [][Next]_vars
-----------------------------------------------------------------------------
(* Properties *)

TypeOK ==
  /\ listed \subseteq Wells
  /\ shape \in [Wells -> Shapes \cup {Invisible}]
  /\ justCreated \in {"nil", "true", "false"}
  /\ press \in {"none", "down", "lifted", "trapped"}
  /\ current \in Wells
  /\ under \in Wells \cup {Stage}
  /\ drawn \in BOOLEAN
  /\ predicted \in [listed -> Shapes \cup {Invisible}]
  /\ resized \subseteq Wells
  /\ other \in BOOLEAN
  /\ abandoned \subseteq Wells

(* A well nobody can see, which bends paths all the same and which no      *)
(* touch can delete, is the one being made, or its press was cancelled.    *)
InvisibleOnlyInPress ==
  \A w \in listed \ Visible :
     w \in abandoned \/ (press = "down" /\ w = current)

(* The paths drawn are those for the wells there are, as they are, but for *)
(* wells resized since by a press or a pinch: no creation, deletion or     *)
(* move goes undrawn.  As long as nothing is drawn no finger has made a    *)
(* well or deleted one.                                                    *)
DrawnForTheWells ==
  /\ ~drawn => listed = {} /\ press = "none" /\ justCreated = "nil"
  /\ DOMAIN predicted = listed
  /\ \A w \in listed : predicted[w] = shape[w] \/ w \in resized

(* LevelView.swift:676, "if a well was just created over another well, do  *)
(* not delete the well under it": the touch of a press deletes nothing,    *)
(* unless a second finger tapped a well during that press.                 *)
PressSparesTheWellUnder ==
  [][press = "lifted" /\ press' = "none" /\ ~other => listed' = listed]_vars

(* Deleting the well of no size finds it listed, unless a second finger    *)
(* deleted it while it was being made.                                     *)
TrapNeedsSecondFinger == press = "trapped" => other
=============================================================================
