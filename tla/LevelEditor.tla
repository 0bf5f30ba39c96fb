----------------------------- MODULE LevelEditor -----------------------------
(***************************************************************************)
(* The level editor (CreateLevelView.swift): the lists of items of the     *)
(* level being edited, the views that show them, and the level's file.     *)
(*                                                                         *)
(* An item is an object.  The level lists objects, every view holds the    *)
(* object it was made for, and a view that moves looks for its object in   *)
(* the list BY VALUE, removes what it finds, changes its object and        *)
(* appends it.  Writing a level and reading it back keeps which entries    *)
(* of a list are one object (uniqueTables in FlatBuffersBuilder.swift,     *)
(* objectPool in LevelFB2.swift), so an entry is modelled by the           *)
(* identity of its object.                                                 *)
(*                                                                         *)
(* A line's start velocity is shown and set by a knob, and the way from    *)
(* the velocity to the knob is not the inverse of the way back: an opened  *)
(* line has its knob a little off, and any drag of the line reads the      *)
(* velocity anew from the knob.                                            *)
(***************************************************************************)
EXTENDS Naturals, Sequences, FiniteSets

CONSTANTS
  Places,     \* where an item of each kind can be
  NewPlace,   \* where the toolbox puts a new item
  Velocities, BlankVelocity, NewVelocity,   \* a line's start velocity
  Knobs,      \* where a line's knob can be
  Reach,      \* where a drag can put it
  KnobOf,     \* the knob for a velocity
  VelocityOf, \* the velocity read from a knob
  MaxItems,   \* bound: items of all kinds in the level
  None        \* no file yet

Kinds == {"box", "line"}
Looks == {"template", "blue", "black"}   \* an item's colours
Place == UNION {Places[k] : k \in Kinds}
Value == [place : Place, velocity : Velocities, look : Looks]
Item == 1 .. MaxItems
View == [object : Item, place : Place, knob : Knobs]
Entry == [item : Item, value : Value]

ASSUME ConstantsAssumption ==
  /\ \A k \in Kinds : NewPlace \in Places[k]
  /\ {BlankVelocity, NewVelocity} \subseteq Velocities
  /\ Reach \subseteq Knobs
  /\ KnobOf \in [Velocities -> Knobs] /\ VelocityOf \in [Knobs -> Velocities]
  /\ MaxItems \in Nat \ {0}
  /\ None \notin [Kinds -> Seq(Value)] /\ None \notin [Kinds -> Seq(Entry)]

VARIABLES
  screen,   \* what is in front of the user
  object,   \* the data of each object; a box's velocity means nothing
  list,     \* levelData.colorBoxData and lineData
  views,    \* the views of each kind: the object held, what is shown
  disk      \* the level's file, or None

vars == <<screen, object, list, views, disk>>
level == <<object, list>>

(* The screens on which the editor's own views can still be dragged: an    *)
(* overlay takes new touches, but not the fingers already down.            *)
Editing == {"editor", "menu", "confirm", "publish"}
Screens == Editing \cup {"select", "play"}

Listed(k) == {list[k][i] : i \in 1 .. Len(list[k])}
Held(k) == {views[k][i].object : i \in 1 .. Len(views[k])}

Unused == [place |-> NewPlace, velocity |-> NewVelocity, look |-> "template"]
-----------------------------------------------------------------------------
(* BlankLevel: a blue line and a box of two colours.                       *)
BlankPlace ==
  [k \in Kinds |-> IF Places[k] = {NewPlace} THEN NewPlace
                   ELSE CHOOSE p \in Places[k] : p # NewPlace]

BlankSpeed ==
  [k \in Kinds |-> IF k = "line" THEN BlankVelocity ELSE NewVelocity]

BlankLook == [k \in Kinds |-> IF k = "line" THEN "blue" ELSE "template"]

Blank == [k \in Kinds |->
            <<[item |-> 1, value |-> [place    |-> BlankPlace[k],
                                      velocity |-> BlankSpeed[k],
                                      look     |-> BlankLook[k]]]>>]

(* A level's content as it is encoded and decoded.                         *)
Content ==
  [k \in Kinds |-> [i \in 1 .. Len(list[k]) |->
     [item |-> list[k][i], value |-> object[k][list[k][i]]]]]

Decoded(content, k, o) ==
  IF \E i \in 1 .. Len(content[k]) : content[k][i].item = o
  THEN content[k][CHOOSE i \in 1 .. Len(content[k]) : content[k][i].item = o].value
  ELSE Unused

(* The view made for object o with data d: a line's knob is put where its  *)
(* velocity calls for it.                                                  *)
ViewFor(o, d) == [object |-> o, place |-> d.place, knob |-> KnobOf[d.velocity]]

(* A variant that sets the velocity from the knob when a level is shown.   *)
ShowLevel_ReadsKnobs(content) ==
  /\ screen' = "editor"
  /\ object' = [k \in Kinds |-> [o \in Item |->
                  [Decoded(content, k, o) EXCEPT !.velocity = VelocityOf[KnobOf[@]]]]]
  /\ list' = [k \in Kinds |-> [i \in 1 .. Len(content[k]) |-> content[k][i].item]]
  /\ views' = [k \in Kinds |-> [i \in 1 .. Len(content[k]) |->
                 ViewFor(content[k][i].item, content[k][i].value)]]

(* CreateLevelView.init: one view for every entry of the lists.            *)
ShowLevel(content) ==
  /\ screen' = "editor"
  /\ object' = [k \in Kinds |-> [o \in Item |-> Decoded(content, k, o)]]
  /\ list' = [k \in Kinds |-> [i \in 1 .. Len(content[k]) |-> content[k][i].item]]
  /\ views' = [k \in Kinds |-> [i \in 1 .. Len(content[k]) |->
                 ViewFor(content[k][i].item, content[k][i].value)]]

Init ==
  /\ screen = "select"
  /\ object = [k \in Kinds |-> [o \in Item |-> Unused]]
  /\ list = [k \in Kinds |-> <<>>]
  /\ views = [k \in Kinds |-> <<>>]
  /\ disk = None

(* The level leaves the screen and memory.                                 *)
Close ==
  /\ screen' = "select"
  /\ object' = [k \in Kinds |-> [o \in Item |-> Unused]]
  /\ list' = [k \in Kinds |-> <<>>]
  /\ views' = [k \in Kinds |-> <<>>]
-----------------------------------------------------------------------------
(* createNew, or a tile of the list read from disk when it was shown.      *)
OpenLevel ==
  /\ screen = "select"
  /\ ShowLevel(IF disk = None THEN Blank ELSE disk)
  /\ UNCHANGED disk

(* A new line is black; a new box has the colour of the first line.        *)
NewLook(k) ==
  IF k = "line" THEN "black" ELSE object["line"][list["line"][1]].look

NewItem(k) ==
  [place |-> NewPlace, velocity |-> NewVelocity, look |-> NewLook(k)]

(* A toolbox button: the view is made, then the object appended.           *)
AddItem(k) ==
  /\ screen = "editor"
  /\ Len(list["box"]) + Len(list["line"]) < MaxItems
  /\ list["line"] # <<>>
  /\ \E o \in Item \ Held(k) :
        /\ \A other \in Item \ Held(k) : o <= other
        /\ object' = [object EXCEPT ![k][o] = NewItem(k)]
        /\ list' = [list EXCEPT ![k] = Append(@, o)]
        /\ views' = [views EXCEPT ![k] = Append(@, ViewFor(o, NewItem(k)))]
  /\ UNCHANGED <<screen, disk>>

(* The entries of a list whose value is that of object o.                  *)
Alike(k, o) == {i \in 1 .. Len(list[k]) : object[k][list[k][i]] = object[k][o]}

Without(s, i) == [j \in 1 .. Len(s) - 1 |-> IF j < i THEN s[j] ELSE s[j + 1]]

(* A variant that leaves a line's velocity alone.                          *)
Dragged_PlaceOnly(k, d, p, n) == [d EXCEPT !.place = p]

(* The data d of an item whose view is now at place p, and whose knob at n: *)
(* a line's velocity is read from the knob, whatever was dragged.          *)
Dragged(k, d, p, n) ==
  [d EXCEPT !.place = p, !.velocity = IF k = "line" THEN VelocityOf[n] ELSE @]

(* A variant that removes every entry of equal value.                      *)
FrameChanged_RemovesAll(k, v, p, n) ==
  LET o == views[k][v].object
  IN  /\ list' = [list EXCEPT ![k] = Append(SelectSeq(list[k],
                     LAMBDA e : object[k][e] # object[k][o]), o)]
      /\ object' = [object EXCEPT ![k][o] = Dragged(k, object[k][o], p, n)]

(* frameChanged of view v, which a gesture has put at place p and its knob *)
(* at n: the first entry of equal value makes way for the view's own       *)
(* object; without such an entry nothing is listed anew.                   *)
FrameChanged(k, v, p, n) ==
  LET o == views[k][v].object
  IN  \/ /\ Alike(k, o) = {}
         /\ UNCHANGED level
      \/ \E i \in Alike(k, o) :
           /\ \A j \in Alike(k, o) : i <= j
           /\ list' = [list EXCEPT ![k] = Append(Without(@, i), o)]
           /\ object' = [object EXCEPT ![k][o] = Dragged(k, @, p, n)]

(* A pan, a pinch or a rotation.                                           *)
MoveItem(k, v, p) ==
  /\ screen \in Editing
  /\ v \in 1 .. Len(views[k])
  /\ views' = [views EXCEPT ![k][v].place = p]
  /\ FrameChanged(k, v, p, views[k][v].knob)
  /\ UNCHANGED <<screen, disk>>

(* A pan of a line's knob.                                                 *)
MoveKnob(v, n) ==
  /\ screen \in Editing
  /\ v \in 1 .. Len(views["line"])
  /\ views' = [views EXCEPT !["line"][v].knob = n]
  /\ FrameChanged("line", v, views["line"][v].place, n)
  /\ UNCHANGED <<screen, disk>>
-----------------------------------------------------------------------------
(* saveLevel: an error is caught and printed, and the old file stays.      *)
SaveLevel == disk' = Content \/ UNCHANGED disk

PressPlay ==
  /\ screen = "editor"
  /\ SaveLevel
  /\ screen' = "play"
  /\ UNCHANGED <<object, list, views>>

(* level_pressMenu: back to an editor made anew for the level in memory.   *)
PressHome ==
  /\ screen = "play"
  /\ ShowLevel(Content)
  /\ UNCHANGED disk

PressMenu ==
  /\ screen = "editor"
  /\ screen' = "menu"
  /\ UNCHANGED <<object, list, views, disk>>

(* publishPressed saves first, then asks whether anyone is signed in.      *)
PressPublish ==
  /\ screen = "menu"
  /\ SaveLevel
  /\ screen' \in {"menu", "publish"}
  /\ UNCHANGED <<object, list, views>>

(* createLevelView_publishLv saves again, with the thumbnail.              *)
PublishLv ==
  /\ screen = "publish"
  /\ SaveLevel
  /\ UNCHANGED <<screen, object, list, views>>

(* resume; menu's home; cancel of the confirmation and of publishing.      *)
Turn ==
  /\ \E turn \in {<<"menu", "editor">>, <<"menu", "confirm">>,
                  <<"confirm", "menu">>, <<"publish", "menu">>} :
        screen = turn[1] /\ screen' = turn[2]
  /\ UNCHANGED <<object, list, views, disk>>

Confirm == screen = "confirm" /\ SaveLevel /\ Close

Deny == screen = "confirm" /\ Close /\ UNCHANGED disk

(* The process ends; it starts again with what is on disk.                 *)
Kill == screen # "select" /\ Close /\ UNCHANGED disk

Next ==
  \/ OpenLevel
  \/ \E k \in Kinds : AddItem(k)
  \/ \E k \in Kinds : \E v \in Item, p \in Places[k] : MoveItem(k, v, p)
  \/ \E v \in Item, n \in Reach : MoveKnob(v, n)
  \/ PressPlay \/ PressHome \/ PressMenu \/ PressPublish \/ PublishLv
  \/ Turn \/ Confirm \/ Deny \/ Kill

Spec == Init /\ [][Next]_vars
-----------------------------------------------------------------------------
(* Properties *)

TypeOK ==
  /\ screen \in Screens
  /\ object \in [Kinds -> [Item -> Value]]
  /\ list \in [Kinds -> Seq(Item)]
  /\ views \in [Kinds -> Seq(View)]
  /\ disk \in {None} \cup [Kinds -> Seq(Entry)]

(* However items are confused, none is gained or lost by number, and the   *)
(* first line, whose colour a new box takes, is there: lineData[0] in the  *)
(* toolbox never traps.                                                    *)
NothingVanishes ==
  screen # "select" =>
    /\ \A k \in Kinds : Len(list[k]) = Len(views[k])
    /\ list["line"] # <<>>

(* No object is listed twice.                                              *)
Distinct(k) == \A i, j \in 1 .. Len(list[k]) : list[k][i] = list[k][j] => i = j

InStep(k, d, view) ==
  /\ d.place = view.place
  /\ k = "line" =>
       view.knob = KnobOf[d.velocity] \/ d.velocity = VelocityOf[view.knob]

(* As long as no object is listed twice (an edit of one of two equal items *)
(* may list it twice, and drop the other), every view shows its object     *)
(* where the level has it, and the level lists exactly the objects shown.  *)
(* A line's knob is the one for its velocity, as it was opened or made, or *)
(* its velocity the one for its knob, since the last drag: seldom both.    *)
ShownIsListed ==
  \A k \in Kinds : Distinct(k) =>
    /\ Held(k) = Listed(k)
    /\ \A v \in 1 .. Len(views[k]) :
         InStep(k, object[k][views[k][v].object], views[k][v])

(* The board: an item is where its view is, with the data's velocity and   *)
(* look (the knob is only a hint of the velocity and promises nothing),    *)
(* and the items a content holds.                                          *)
Board ==
  [k \in Kinds |-> [i \in 1 .. Len(views[k]) |->
     [object[k][views[k][i].object] EXCEPT !.place = views[k][i].place]]]

ItemsOf(content) ==
  [k \in Kinds |-> [i \in 1 .. Len(content[k]) |-> content[k][i].value]]

Repeats(content) ==
  \E k \in Kinds : \E i, j \in 1 .. Len(content[k]) :
     i # j /\ content[k][i].item = content[k][j].item

Shown == IF screen = "select" THEN None ELSE Board
Saved == IF disk = None THEN None ELSE ItemsOf(disk)
MixedUp == (\E k \in Kinds : ~Distinct(k)) \/ (disk # None /\ Repeats(disk))

(* What the user sees on the board is what saving writes, what leaving     *)
(* without saving forgets and what opening shows, through kills and failed *)
(* saves, until one object is listed for two items.                        *)
Promise == INSTANCE LevelBoard WITH
  Nothing <- None,
  Blank   <- ItemsOf(Blank),
  board   <- Shown,
  file    <- Saved,
  mixedUp <- MixedUp

ImplementsBoard == Promise!Spec
=============================================================================
