--------------------------- MODULE Navigation_proofs ---------------------------
(***************************************************************************)
(* Proofs about Navigation, for any number of copies of a view and any     *)
(* sequence of presses.                                                    *)
(***************************************************************************)
EXTENDS Navigation, TLAPS

(* The current view refers to a view that was made.                        *)
LatestIsMade ==
  /\ \A v \in Kept : latest[v] = 0
  /\ currentView \in Made => latest[currentView] # 0

(* No timer of a switch is pending once the buttons have moved in.         *)
StillMeansGone == ~moving => leaving = {}

(* What leaves is still on the screen, with one finger at a time.          *)
LeavingIsShown == ~overlapped => leaving \subseteq shown

IInv ==
  /\ NavTypeOK /\ CurrentStays /\ NothingLingers /\ HomeIsWhereItWasChosen
  /\ LatestIsMade /\ StillMeansGone /\ LeavingIsShown

(* The invariant holds at first.                                           *)
LEMMA InitHolds == NavInit => IInv
<1> SUFFICES ASSUME NavInit PROVE IInv
  OBVIOUS
<1>1. 0 \in 0 .. MaxCopies /\ <<"Menu", 0>> \in Instance
  BY CopiesAssumption DEF Instance, Kept
<1>2. latest \in [View -> 0 .. MaxCopies] /\ \A v \in View : latest[v] = 0
  BY <1>1 DEF NavInit
<1>3. "Menu" \in View /\ "Menu" \in Kept /\ "Menu" \notin Made
  BY DEF View, Kept, Made
<1>4. Current = <<"Menu", 0>>
  BY <1>2, <1>3 DEF NavInit, Current
<1>5. NavTypeOK
  BY <1>1, <1>2, <1>3 DEF NavInit, NavTypeOK
<1>6. LatestIsMade
  BY <1>2, <1>3 DEF NavInit, LatestIsMade, View
<1> QED
  BY <1>4, <1>5, <1>6
     DEF NavInit, IInv, CurrentStays, NothingLingers, HomeIsWhereItWasChosen,
         StillMeansGone, LeavingIsShown

(* What switchToView leaves behind, whatever view it was in.               *)
LEMMA SwitchFacts ==
  ASSUME IInv, NEW v \in View, NEW parent \in View, NEW campaign \in BOOLEAN,
         SwitchToView(v, parent, campaign)
  PROVE  /\ currentView' = v /\ moving' = TRUE
         /\ currentView' \in View /\ parentView' \in View
         /\ campaignLevel' \in BOOLEAN /\ beaten' \in BOOLEAN
         /\ shown' \subseteq Instance /\ leaving' \subseteq Instance
         /\ latest' \in [View -> 0 .. MaxCopies]
         /\ LatestIsMade' /\ NothingLingers'
         /\ Current \in Instance
         /\ leaving' = leaving \cup {Current}
         /\ shown' = shown \cup {Current'}
         /\ v \in Made => Current' \notin shown
         /\ v \in Kept => Current' = <<v, 0>>
         /\ v = "LevelPlay" => parentView' = parent /\ campaignLevel' = campaign
<1>1. PICK n \in Fresh(v) :
         /\ currentView' = v /\ latest' = [latest EXCEPT ![v] = n]
         /\ shown' = shown \cup {<<v, n>>}
         /\ leaving' = leaving \cup {Current} /\ moving' = TRUE
         /\ IF v = "LevelPlay"
            THEN parentView' = parent /\ campaignLevel' = campaign /\ beaten' = FALSE
            ELSE UNCHANGED <<parentView, campaignLevel, beaten>>
  BY DEF SwitchToView
<1>2. /\ v \in Kept \/ v \in Made
      /\ v \in Kept => n = 0 /\ v \notin Made
      /\ v \in Made => n \in 1 .. MaxCopies /\ <<v, n>> \notin shown /\ v \notin Kept
  BY DEF Fresh, View, Kept, Made
<1>3. n \in 0 .. MaxCopies /\ <<v, n>> \in Instance
  BY <1>2, CopiesAssumption DEF Instance
<1>4. Current' = <<v, n>>
  BY <1>1 DEF Current, IInv, NavTypeOK
<1>5. Current \in Instance
  <2>1. CASE currentView \in Kept
    BY <2>1 DEF IInv, LatestIsMade, Current, Instance
  <2>2. CASE currentView \in Made
    BY <2>2 DEF IInv, LatestIsMade, NavTypeOK, Current, Instance, View
  <2> QED
    BY <2>1, <2>2 DEF IInv, NavTypeOK, View
<1>6. latest' \in [View -> 0 .. MaxCopies]
  BY <1>1, <1>3 DEF IInv, NavTypeOK
<1>7. LatestIsMade'
  BY <1>1, <1>2, <1>6 DEF IInv, LatestIsMade, NavTypeOK, View
<1>8. NothingLingers'
  BY <1>1, <1>4 DEF IInv, NothingLingers
<1>9. /\ parentView' \in View /\ campaignLevel' \in BOOLEAN /\ beaten' \in BOOLEAN
  BY <1>1 DEF IInv, NavTypeOK
<1>10. shown' \subseteq Instance /\ leaving' \subseteq Instance
  BY <1>1, <1>3, <1>5 DEF IInv, NavTypeOK
<1> QED
  BY <1>1, <1>2, <1>4, <1>5, <1>6, <1>7, <1>8, <1>9, <1>10

(* Where the control of any view leads.                                    *)
LEMMA LeadsFacts ==
  ASSUME NEW way \in Leads
  PROVE  /\ way[1] \in View /\ way[3] \in View /\ way[1] # way[3]
         /\ way[1] # "LevelPlay" /\ way[2] \notin {"home", "beatHome", "next"}
         /\ way[2] \in Tiles => way[3] \in Made
         /\ way[3] = "LevelPlay" =>
              /\ way[1] \in {"CampaignLevelSelect", "GLS", "LevelCreate"}
              /\ way[2] = "campaignTile" <=> way[1] = "CampaignLevelSelect"
<1>1. way[1] \in View /\ way[3] \in View /\ way[1] # way[3]
  BY DEF Leads, View, Kept, Made
<1>2. way[1] # "LevelPlay" /\ way[2] \notin {"home", "beatHome", "next"}
  BY DEF Leads
<1>3. way[2] \in Tiles => way[3] \in Made
  BY DEF Leads, Tiles, Made
<1>4. way[3] = "LevelPlay" =>
        /\ way[1] \in {"CampaignLevelSelect", "GLS", "LevelCreate"}
        /\ way[2] = "campaignTile" <=> way[1] = "CampaignLevelSelect"
  BY DEF Leads
<1> QED
  BY <1>1, <1>2, <1>3, <1>4

(* A control that stays belongs to one view only.                          *)
LEMMA StayingIsOfOneView ==
  ASSUME NEW way \in Leads, NEW twin \in Leads,
         way[2] \in Staying, twin[2] = way[2]
  PROVE  twin[1] = way[1]
<1>1. \A w \in Leads :
        /\ w[2] = "campaignTile" => w[1] = "CampaignLevelSelect"
        /\ w[2] = "tile" => w[1] = "CreateSelect"
        /\ w[2] = "playLevel" => w[1] = "GLS"
        /\ w[2] \in {"yes", "no"} => w[1] = "LevelCreate"
        /\ w[2] \notin {"beatHome", "next"}
  BY DEF Leads
<1> QED
  BY <1>1 DEF Staying, Tiles

(* The delegate method of a control of the current view calls switchToView *)
(* for another view, and for a level with what it was chosen on.           *)
LEMMA PressedFacts ==
  ASSUME NavTypeOK, NEW c \in Controls, Pressed(c)
  PROVE  \E v \in View, parent \in View, campaign \in BOOLEAN :
           /\ SwitchToView(v, parent, campaign)
           /\ c \in Tiles => v \in Made
           /\ v = currentView => v = "LevelPlay"
           /\ v = "LevelPlay" =>
                \/ currentView = "LevelPlay" /\ parentView = "LevelPlay"
                \/ /\ parent \in {"CampaignLevelSelect", "GLS", "LevelCreate"}
                   /\ campaign <=> parent = "CampaignLevelSelect"
<1>1. \/ /\ currentView = "LevelPlay" /\ c \in {"home", "beatHome", "next"}
      \/ \E way \in Leads : way[1] = currentView /\ way[2] = c
  BY DEF Controls
<1>2. CASE c \in {"home", "beatHome"} /\ LevelPressMenu
  <2>1. currentView = "LevelPlay"
    BY <1>1, <1>2, LeadsFacts
  <2>2. SwitchToView(parentView, currentView, FALSE)
    BY <1>2 DEF LevelPressMenu
  <2>3. c \notin Tiles
    BY <1>2 DEF Tiles
  <2>4. parentView \in View /\ currentView \in View
    BY DEF NavTypeOK
  <2> QED
    BY <2>1, <2>2, <2>3, <2>4
<1>3. CASE c = "next" /\ LevelNextLevel
  <2>1. currentView = "LevelPlay" /\ c \notin Tiles
    BY <1>1, <1>3, LeadsFacts DEF Tiles
  <2>2. SwitchToView("LevelPlay", "CampaignLevelSelect", TRUE)
    BY <1>3 DEF LevelNextLevel
  <2>3. "LevelPlay" \in View /\ "CampaignLevelSelect" \in View
    BY DEF View, Made, Kept
  <2> QED
    BY <2>1, <2>2, <2>3
<1>4. ASSUME NEW way \in Leads, way[2] = c, c \in Staying \/ way[1] = currentView,
             SwitchToView(way[3], currentView, c = "campaignTile")
      PROVE  \E v \in View, parent \in View, campaign \in BOOLEAN :
               /\ SwitchToView(v, parent, campaign)
               /\ c \in Tiles => v \in Made
               /\ v = currentView => v = "LevelPlay"
               /\ v = "LevelPlay" =>
                    \/ currentView = "LevelPlay" /\ parentView = "LevelPlay"
                    \/ /\ parent \in {"CampaignLevelSelect", "GLS", "LevelCreate"}
                       /\ campaign <=> parent = "CampaignLevelSelect"
  <2>1. way[1] = currentView
    BY <1>1, <1>4, LeadsFacts, StayingIsOfOneView
  <2>2. way[3] \in View /\ way[3] # currentView /\ (c \in Tiles => way[3] \in Made)
    BY <1>4, <2>1, LeadsFacts
  <2>3. way[3] = "LevelPlay" =>
          /\ currentView \in {"CampaignLevelSelect", "GLS", "LevelCreate"}
          /\ (c = "campaignTile") <=> currentView = "CampaignLevelSelect"
    BY <1>4, <2>1, LeadsFacts
  <2>4. currentView \in View /\ (c = "campaignTile") \in BOOLEAN
    BY DEF NavTypeOK
  <2> QED
    BY <1>4, <2>2, <2>3, <2>4
<1> QED
  BY <1>2, <1>3, <1>4 DEF Pressed
(* A press: with one finger at a time the view entered is not leaving.     *)
LEMMA PressStep == IInv /\ (\E c \in Controls : Press(c)) => IInv'
<1> SUFFICES ASSUME IInv, NEW c \in Controls, Press(c) PROVE IInv'
  OBVIOUS
<1>1. /\ moving => c \in Tiles
      /\ Pressed(c) /\ overlapped' = overlapped
      /\ second' \in {NoControl} \cup
           {[on |-> Current, control |-> other] :
              other \in (Controls \cap Staying) \ ({c} \ Tiles)}
  BY DEF Press
<1>2. PICK v \in View, parent \in View, campaign \in BOOLEAN :
        /\ SwitchToView(v, parent, campaign)
        /\ c \in Tiles => v \in Made
        /\ v = currentView => v = "LevelPlay"
        /\ v = "LevelPlay" =>
             \/ currentView = "LevelPlay" /\ parentView = "LevelPlay"
             \/ /\ parent \in {"CampaignLevelSelect", "GLS", "LevelCreate"}
                /\ campaign <=> parent = "CampaignLevelSelect"
  BY <1>1, PressedFacts DEF IInv
<1>3. /\ currentView' = v /\ moving' = TRUE
      /\ currentView' \in View /\ parentView' \in View
      /\ campaignLevel' \in BOOLEAN /\ beaten' \in BOOLEAN
      /\ shown' \subseteq Instance /\ leaving' \subseteq Instance
      /\ latest' \in [View -> 0 .. MaxCopies]
      /\ LatestIsMade' /\ NothingLingers'
      /\ Current \in Instance
      /\ leaving' = leaving \cup {Current}
      /\ shown' = shown \cup {Current'}
      /\ v \in Made => Current' \notin shown
      /\ v \in Kept => Current' = <<v, 0>>
      /\ v = "LevelPlay" => parentView' = parent /\ campaignLevel' = campaign
  BY <1>2, SwitchFacts
<1>4. second' \in {NoControl} \cup [on : Instance, control : Staying]
  BY <1>1, <1>3
<1>5. NavTypeOK'
  BY <1>1, <1>3, <1>4 DEF IInv, NavTypeOK
<1>6. HomeIsWhereItWasChosen'
  BY <1>1, <1>2, <1>3 DEF IInv, HomeIsWhereItWasChosen
<1>7. CurrentStays' /\ LeavingIsShown'
  <2> SUFFICES ASSUME ~overlapped
               PROVE  Current' \in shown' \ leaving' /\ leaving' \subseteq shown'
    BY <1>1 DEF CurrentStays, LeavingIsShown
  <2>1. Current \in shown \ leaving /\ leaving \subseteq shown
    BY DEF IInv, CurrentStays, LeavingIsShown
  <2>2. CASE v \in Made
    BY <1>3, <2>1, <2>2
  <2>3. CASE v \in Kept
    <3>1. leaving = {}
      BY <1>1, <1>2, <2>3 DEF IInv, StillMeansGone, Made, Kept
    <3>2. v # currentView
      BY <1>2, <2>3 DEF Kept
    <3>3. Current' # Current
      BY <1>3, <2>3, <3>2 DEF Current
    <3> QED
      BY <1>3, <2>1, <3>1, <3>3
  <2> QED
    BY <2>2, <2>3 DEF View
<1>8. StillMeansGone'
  BY <1>3 DEF StillMeansGone
<1> QED
  BY <1>3, <1>5, <1>6, <1>7, <1>8 DEF IInv

(* After a second finger's release only the types are known, and that      *)
(* nothing lingers.                                                        *)
LEMMA ReleaseSecondStep == IInv /\ ReleaseSecond => IInv'
<1> SUFFICES ASSUME IInv, ReleaseSecond PROVE IInv'
  OBVIOUS
<1>1. second' = NoControl /\ overlapped' = TRUE /\ Pressed(second.control)
  BY DEF ReleaseSecond
<1>2. PICK v \in View, parent \in View, campaign \in BOOLEAN :
        SwitchToView(v, parent, campaign)
  <2>1. \A way \in Leads : way[3] \in View
    BY LeadsFacts
  <2>2. "LevelPlay" \in View /\ "CampaignLevelSelect" \in View
    BY DEF View, Made, Kept
  <2>3. currentView \in View /\ parentView \in View
    BY DEF IInv, NavTypeOK
  <2> QED
    BY <1>1, <2>1, <2>2, <2>3 DEF Pressed, LevelPressMenu, LevelNextLevel
<1>3. /\ moving' = TRUE
      /\ currentView' \in View /\ parentView' \in View
      /\ campaignLevel' \in BOOLEAN /\ beaten' \in BOOLEAN
      /\ shown' \subseteq Instance /\ leaving' \subseteq Instance
      /\ latest' \in [View -> 0 .. MaxCopies]
      /\ LatestIsMade' /\ NothingLingers'
  BY <1>2, SwitchFacts
<1> QED
  BY <1>1, <1>3 DEF IInv, NavTypeOK, CurrentStays, HomeIsWhereItWasChosen,
                    StillMeansGone, LeavingIsShown

(* A timer removes exactly the view it was set for.                        *)
LEMMA RemoveViewStep == IInv /\ (\E i \in Instance : RemoveView(i)) => IInv'
<1> SUFFICES ASSUME IInv, NEW i \in Instance, RemoveView(i) PROVE IInv'
  OBVIOUS
<1>1. /\ i \in leaving /\ shown' = shown \ {i} /\ leaving' = leaving \ {i}
      /\ second' = NoControl \/ second' = second
      /\ UNCHANGED <<currentView, parentView, campaignLevel, beaten, latest, moving,
                     overlapped>>
  BY DEF RemoveView
<1>2. Current' = Current
  BY <1>1 DEF Current
<1>3. NavTypeOK'
  BY <1>1 DEF IInv, NavTypeOK
<1>4. CurrentStays' /\ NothingLingers' /\ LeavingIsShown' /\ StillMeansGone'
  BY <1>1, <1>2 DEF IInv, CurrentStays, NothingLingers, LeavingIsShown, StillMeansGone
<1>5. HomeIsWhereItWasChosen' /\ LatestIsMade'
  BY <1>1 DEF IInv, HomeIsWhereItWasChosen, LatestIsMade
<1> QED
  BY <1>3, <1>4, <1>5 DEF IInv

(* The inductive invariant holds in every state.                           *)
THEOREM Invariance == NavSpec => []IInv
<1>1. IInv /\ NavNext => IInv'
  <2>1. ASSUME IInv, MovedIn PROVE IInv'
    <3>1. NavTypeOK' /\ StillMeansGone'
      BY <2>1 DEF MovedIn, IInv, NavTypeOK, StillMeansGone
    <3>2. CurrentStays' /\ NothingLingers' /\ HomeIsWhereItWasChosen'
      BY <2>1 DEF MovedIn, IInv, CurrentStays, NothingLingers, Current,
                  HomeIsWhereItWasChosen
    <3>3. LatestIsMade' /\ LeavingIsShown'
      BY <2>1 DEF MovedIn, IInv, LatestIsMade, LeavingIsShown
    <3> QED
      BY <3>1, <3>2, <3>3 DEF IInv
  <2>2. IInv /\ Beat => IInv'
    BY DEF Beat, IInv, NavTypeOK, CurrentStays, NothingLingers, Current,
           HomeIsWhereItWasChosen, LatestIsMade, StillMeansGone, LeavingIsShown
  <2> QED
    BY <2>1, <2>2, PressStep, ReleaseSecondStep, RemoveViewStep DEF NavNext
<1>2. IInv /\ UNCHANGED navVars => IInv'
  BY DEF navVars, IInv, NavTypeOK, CurrentStays, NothingLingers, Current,
         HomeIsWhereItWasChosen, LatestIsMade, StillMeansGone, LeavingIsShown
<1> QED
  BY <1>1, <1>2, InitHolds, PTL DEF NavSpec

(* Every variable keeps its type.                                          *)
THEOREM TypeCorrect == NavSpec => []NavTypeOK
BY Invariance, PTL DEF IInv

(* With one finger at a time the view in front is never removed by the     *)
(* timer of an earlier switch, however often and soon views are reused.    *)
THEOREM CurrentIsKept == NavSpec => []CurrentStays
BY Invariance, PTL DEF IInv

(* Every view on the screen is the current one or is about to be removed,  *)
(* whatever the fingers do.                                                *)
THEOREM NoViewLingers == NavSpec => []NothingLingers
BY Invariance, PTL DEF IInv

(* Home leads back to the screen a level was chosen on, through any number *)
(* of next levels, with one finger at a time.                              *)
THEOREM HomeIsRight == NavSpec => []HomeIsWhereItWasChosen
BY Invariance, PTL DEF IInv
=============================================================================
