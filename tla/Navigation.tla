------------------------------ MODULE Navigation ------------------------------
(***************************************************************************)
(* Switching between the app's screens (ViewController.swift, 96-185).     *)
(*                                                                         *)
(* switchToView animates the old view out, removes it when a timer fires,  *)
(* and puts the new view in front at once.  Most views are made once and   *)
(* used again; a LevelView or CreateLevelView is made for every visit.     *)
(* A button does nothing when it has moved away from the finger, and takes *)
(* no touch while it moves in; the controls in Staying do not move when    *)
(* their view is left, so a second finger on one of them still counts      *)
(* until the view is gone.                                                 *)
(***************************************************************************)
EXTENDS Naturals

CONSTANTS
  MaxCopies,   \* bound: views of one kind on the screen at once
  NoControl    \* no second finger

ASSUME CopiesAssumption == MaxCopies \in Nat \ {0}

Made == {"LevelPlay", "LevelCreate"}
Kept == {"Menu", "Account", "PlaySelect", "CampaignLevelSelect",
         "CreateSelect", "GLS"}
View == Made \cup Kept

Instance == (Kept \X {0}) \cup (Made \X (1 .. MaxCopies))

(* The controls that lead from one view to another.  Home leads from       *)
(* LevelPlay to its parentView, next to another level.                     *)
Leads ==
  {<<"Menu", "play", "PlaySelect">>, <<"Menu", "create", "CreateSelect">>,
   <<"Menu", "account", "Account">>, <<"Account", "back", "Menu">>,
   <<"PlaySelect", "back", "Menu">>,
   <<"PlaySelect", "campaign", "CampaignLevelSelect">>,
   <<"PlaySelect", "global", "GLS">>,
   <<"CampaignLevelSelect", "back", "PlaySelect">>,
   <<"CampaignLevelSelect", "campaignTile", "LevelPlay">>,
   <<"GLS", "back", "PlaySelect">>, <<"GLS", "playLevel", "LevelPlay">>,
   <<"CreateSelect", "back", "Menu">>, <<"CreateSelect", "new", "LevelCreate">>,
   <<"CreateSelect", "tile", "LevelCreate">>,
   <<"LevelCreate", "test", "LevelPlay">>,
   <<"LevelCreate", "yes", "CreateSelect">>,
   <<"LevelCreate", "no", "CreateSelect">>}

Tiles == {"campaignTile", "tile"}                     \* always there to touch
Staying == Tiles \cup {"playLevel", "yes", "no", "beatHome", "next"}

VARIABLES
  currentView,
  parentView,      \* levelView.parentView, of the LevelView made last
  campaignLevel,   \* levelView.campaignLevel
  beaten,          \* the LevelBeatView is over that LevelView
  shown,           \* the subviews of the controller's view
  leaving,         \* those a timer will remove
  latest,          \* the copy menuView, levelView, ... refer to
  moving,          \* the buttons of the current view still move in
  second,          \* [on, control]: what a second finger holds
  overlapped       \* a control of a view left was released (history)

navVars == <<currentView, parentView, campaignLevel, beaten, shown, leaving,
             latest, moving, second, overlapped>>

Current == <<currentView, latest[currentView]>>

(* viewDidLoad.                                                            *)
NavInit ==
  /\ currentView = "Menu"
  /\ parentView = "Menu" /\ campaignLevel = FALSE /\ beaten = FALSE
  /\ latest = [v \in View |-> 0]
  /\ shown = {<<"Menu", 0>>}
  /\ leaving = {}
  /\ moving = TRUE
  /\ second = NoControl
  /\ overlapped = FALSE
-----------------------------------------------------------------------------
(* A view of this kind to put in front: the one kept, or a new one.        *)
Fresh(v) ==
  IF v \in Kept THEN {0}
  ELSE {n \in 1 .. MaxCopies :
          /\ <<v, n>> \notin shown
          /\ \A m \in 1 .. n - 1 : <<v, m>> \in shown}

(* A variant that does not remove a view replaced by one of its kind.      *)
SwitchToView_SameKind(v, parent, campaign) ==
  \E n \in Fresh(v) :
    /\ currentView' = v
    /\ latest' = [latest EXCEPT ![v] = n]
    /\ shown' = shown \cup {<<v, n>>}
    /\ leaving' = IF v = currentView THEN leaving ELSE leaving \cup {Current}
    /\ moving' = TRUE
    /\ IF v = "LevelPlay"
       THEN parentView' = parent /\ campaignLevel' = campaign /\ beaten' = FALSE
       ELSE UNCHANGED <<parentView, campaignLevel, beaten>>

(* switchToView; parent and campaign are for a LevelView it makes.         *)
SwitchToView(v, parent, campaign) ==
  \E n \in Fresh(v) :
    /\ currentView' = v
    /\ latest' = [latest EXCEPT ![v] = n]
    /\ shown' = shown \cup {<<v, n>>}
    /\ leaving' = leaving \cup {Current}
    /\ moving' = TRUE
    /\ IF v = "LevelPlay"
       THEN parentView' = parent /\ campaignLevel' = campaign /\ beaten' = FALSE
       ELSE UNCHANGED <<parentView, campaignLevel, beaten>>

(* level_pressMenu, from the level's own button or the LevelBeatView's.    *)
LevelPressMenu == SwitchToView(parentView, currentView, FALSE)

(* A variant that does not force the parent.                               *)
LevelNextLevel_NotForced == SwitchToView("LevelPlay", currentView, TRUE)

(* level_nextLevel; nothing happens when there is no next level.           *)
LevelNextLevel == SwitchToView("LevelPlay", "CampaignLevelSelect", TRUE)

(* The delegate method of control c.                                       *)
Pressed(c) ==
  \/ c \in {"home", "beatHome"} /\ LevelPressMenu
  \/ c = "next" /\ LevelNextLevel
  \/ \E way \in Leads :
       /\ way[2] = c /\ (c \in Staying \/ way[1] = currentView)
       /\ SwitchToView(way[3], currentView, c = "campaignTile")

(* The controls of the current view that a finger can be on.               *)
Controls ==
  {way[2] : way \in {w \in Leads : w[1] = currentView}} \cup
  (IF currentView # "LevelPlay" THEN {}
   ELSE {"home"} \cup (IF beaten THEN {"beatHome"} ELSE {})
                 \cup (IF beaten /\ campaignLevel THEN {"next"} ELSE {}))

(* A finger lifts from control c; another may be on one that stays.        *)
Press(c) ==
  /\ c \in Controls
  /\ moving => c \in Tiles
  /\ second = NoControl
  /\ Pressed(c)
  /\ second' \in {NoControl} \cup
       {[on |-> Current, control |-> other] :
          other \in (Controls \cap Staying) \ ({c} \ Tiles)}
  /\ UNCHANGED overlapped

(* The second finger lifts, from a control of a view already left.         *)
ReleaseSecond ==
  /\ second # NoControl
  /\ Pressed(second.control)
  /\ second' = NoControl
  /\ overlapped' = TRUE

(* A variant that looks up the view to remove when the timer fires.        *)
RemoveView_ByName(i) ==
  /\ i \in leaving
  /\ shown' = shown \ {<<i[1], latest[i[1]]>>}
  /\ leaving' = leaving \ {i}
  /\ second' = IF second # NoControl /\ second.on = i THEN NoControl ELSE second
  /\ UNCHANGED <<currentView, parentView, campaignLevel, beaten, latest, moving,
                 overlapped>>

(* The timer of removeView.                                                *)
RemoveView(i) ==
  /\ i \in leaving
  /\ shown' = shown \ {i}
  /\ leaving' = leaving \ {i}
  /\ second' = IF second # NoControl /\ second.on = i THEN NoControl ELSE second
  /\ UNCHANGED <<currentView, parentView, campaignLevel, beaten, latest, moving,
                 overlapped>>

(* The buttons have moved in.  They set out after the timers of the same   *)
(* switch were set, and take no less time.                                 *)
MovedIn ==
  /\ moving /\ leaving = {}
  /\ moving' = FALSE
  /\ UNCHANGED <<currentView, parentView, campaignLevel, beaten, shown, leaving,
                 latest, second, overlapped>>

(* didBeatLevel shows the LevelBeatView.                                   *)
Beat ==
  /\ currentView = "LevelPlay" /\ ~beaten
  /\ beaten' = TRUE
  /\ UNCHANGED <<currentView, parentView, campaignLevel, shown, leaving, latest,
                 moving, second, overlapped>>

NavNext ==
  \/ \E c \in Controls : Press(c)
  \/ ReleaseSecond
  \/ \E i \in Instance : RemoveView(i)
  \/ MovedIn
  \/ Beat

NavSpec == NavInit /\ [][NavNext]_navVars
-----------------------------------------------------------------------------
(* Properties *)

NavTypeOK ==
  /\ currentView \in View /\ parentView \in View
  /\ campaignLevel \in BOOLEAN /\ beaten \in BOOLEAN
  /\ shown \subseteq Instance /\ leaving \subseteq Instance
  /\ latest \in [View -> 0 .. MaxCopies]
  /\ moving \in BOOLEAN /\ overlapped \in BOOLEAN
  /\ second \in {NoControl} \cup [on : Instance, control : Staying]

(* The current view is on the screen and no timer will take it away,       *)
(* however soon it is entered again, unless a control of a view already    *)
(* left was released.                                                      *)
CurrentStays == ~overlapped => Current \in shown \ leaving

(* Views do not pile up: whatever the fingers did, every view on the       *)
(* screen is the current one or is about to be removed.                    *)
NothingLingers == shown \ leaving \subseteq {Current}

(* Home leads from a level to the screen it was chosen on, and a campaign  *)
(* level, the only one with a next button, goes back to the campaign, also *)
(* from any number of next levels; with the same exception.                *)
HomeIsWhereItWasChosen ==
  currentView = "LevelPlay" /\ ~overlapped =>
    /\ parentView \in {"CampaignLevelSelect", "GLS", "LevelCreate"}
    /\ campaignLevel <=> parentView = "CampaignLevelSelect"
=============================================================================
