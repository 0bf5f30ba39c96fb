# Arthius: a verification project

Arthius is an iOS puzzle game (Swift, `src/Arthius/Arthius/`). A player bends the
paths of lines with gravity wells, recolours them in colour boxes, works through a
campaign whose levels unlock one after the other, builds levels in an editor,
publishes them to Firebase and plays the levels of others. This directory holds
TLA+ models of the parts of the game whose behaviour depends on the order of events,
the TLC configurations that check them, and theorems about them checked by TLAPS.

Paths below are relative to `src/Arthius/Arthius/` unless they say otherwise. The
`Disk` library and the Firebase SDK are vendored; what the models need to know of
them is taken from how the game calls them and, for Firestore, from its headers, and
marked external in `PROJECT.json`.

## 1. Inventory

### 1.1 Components

**Campaign progress** (`CampaignHandler.swift`, `File.swift`,
`CampaignLevelSelector.swift`, `CampaignLevelSelectView.swift`, `LevelView.swift`
865-923, `ViewController.swift`).
State: the level files in the app bundle and in the documents directory, the progress
file, `CampaignLevelHandler.allLevels`, `ProgressHandler.progress`, the tiles with the
progress they captured, the campaign level being played and its `beatLevel`.
Operations: launch (copy, load levels, load progress), show the campaign, press a
tile, menu and next, beat a level, record it, unlock the next one, four places that
save. Hard: every save is an atomic file write, and the process may end between two of
them; failed writes are caught and forgotten; a file that cannot be read counts as no file,
and the next save writes over it; copying stops at the first failure;
directory order decides which level is first; tiles decide by captured progress; a
replay overwrites entries. Correct when: no level has two entries, levels unlock in
order, the file never runs ahead of memory, nothing unlocked is lost unless the file could
not be read, no locked level is played, and replaying repairs what was cut off.

**Level files** (`File.swift`, `Disk/Disk+Data.swift`). State: the documents
directory. Operations: copy the campaign at launch, list and decode levels of one kind,
save a level, load and save the progress. Hard: partial copies, unreadable files. Its
campaign half is part of the campaign model.

**Download counter** (`FirebaseHandler.swift`). State: one counter document and its
shard documents on the server, each device's queue of writes, what each call of
`addDownloadCounterTo` waits for. Operations: look, create (document, then six shards),
increment a random shard in a transaction, sum the shards. Hard: looking and creating
are not one transaction; a failed look is taken for a missing counter; creation
overwrites; increments force-cast a shard that may not be there; loop bounds differ by
one. Correct when: it never overcounts, a counter created once loses nothing, a counter
begun is completed if the process creating it lives, a creator finds the shards it may pick.

**Global levels and publishing** (`ViewController.swift` 236-500,
`GlobalLevelSelectView.swift`, `GLSLevelSelector.swift`). State: level documents in
Firestore and level files in Storage; per load the query's documents, the files and the
counts that came; the tiles, the open detail view, two flags. Operations: publish
(document, then file), list, fetch each file, fetch each count, show, open and close the
detail, play. Hard: answers in any order, lists overlapping, errors ignored at both
steps of publishing, a callback never called. Correct when: what is shown is whole, the
detail view is of a listed level, no file is orphaned, what is listed gets its file, no
complete list is overlooked.

**Level play** (`LevelView.swift`, `ColorBox.swift`, `GravityWell.swift`,
`LevelTextsLabel.swift`). State: the lines, the wells, what each colour box remembers
of each line, the predicted layers, the level texts, the display link. Operations:
predict paths, long press, tap, pan and pinch of wells, texts triggered by taps and
events, play and reset. Hard: the colour-box protocol across predictions, touch
sequences (`justCreatedWell`), text triggers. Correct when: a line is recoloured
exactly when it crosses a box, what is drawn is the predicted path, touches delete only
the well that was touched, every text is shown once.

**Level editor** (`CreateLevelView.swift`, `EditableColorBox.swift`, `LineStart.swift`,
`PublishLevelView.swift`, `LevelLeaveConfirmation.swift`). State: the level being
edited, the views of its items. Operations: add, move, recolour, save, leave, publish.
Hard: an item is found again in the list by value (`CreateLevelView.swift:229`), so
equal items are confused; a line's velocity and its knob are converted into each other by
functions that are not inverse; saves may fail and the process may end before one. Correct
when: no item vanishes, the board is what the level lists, what is saved is what was on
the board and what is opened is what was saved.

**Account** (`AccountView.swift`). State: the signed-in user, the subview shown, the
snapshot listeners. Operations: sign up, sign in, sign out, update. Hard: each update
adds a listener that is never removed; answers arrive after sign-out or off the screen; a
failed sign-up is force-unwrapped; the process may end between an account and its
document, whose write nobody waits for and the server may reject. Correct when: the subview
shown is that of the signed-in user, the labels are theirs, and the screen traps only for
an account whose document was lost.

**Navigation** (`ViewController.swift` 96-185, `Button.swift`). State: the current view
and the reused ones, the `parentView` of the level being played. Operations:
`switchToView`, called by every button that leads elsewhere. Hard: the old view is
removed by a timer that cannot be cancelled, and may be entered again before; buttons
take no touch while they move in, but tiles and overlays do not move and stay touchable
until their view is gone, so a second finger can start a transition inside another.
Correct when: the current view is on the screen and stays there, no other view lingers,
and home leads to where a level was chosen.

**Level list screens, widgets and layout, level data and serialisation, stubs.** Tiles
that forward a press, drawing, generated FlatBuffers code, empty classes. They keep no
state whose order of changes matters.

### 1.2 How they interact

The app runs on the main thread. Views call `ViewController` through delegates, and it
switches views, loads files (`File`) and calls Firebase; answers come back as callbacks
on the main thread, one at a time. `LevelView` reports a beaten level straight to
`ProgressHandler`, which saves through `File`. Playing a global level counts a download
(`DownloadCounter`). The editor saves a level through `File`; publishing then writes its
document and, in the callback, its file. Devices share only Firestore and Storage.

### 1.3 What is hard

`PROJECT.json` lists each hazard at its line with the properties that would catch it
going wrong. In short: the end of the process between two writes, failures that are
swallowed, races between devices on one counter, answers in any order, state captured
earlier than it is used, and long legal sequences of touches.

## 2. Modules

| module | models | extends or implements |
| --- | --- | --- |
| `UnlockLedger` | abstract: the durable set of unlocked levels | |
| `CampaignProgress` | campaign progress and level files | implements `UnlockLedger` |
| `CampaignProgress_proofs` | its theorems | `CampaignProgress`, TLAPS |
| `DownloadTally` | abstract: a count that goes down only when contested | |
| `DownloadCounter` | the sharded counter | implements `DownloadTally` |
| `DownloadCounter_proofs` | its theorems | `DownloadCounter`, TLAPS |
| `GlobalLevels` | publishing and listing | |
| `GlobalLevels_proofs` | its theorems | `GlobalLevels`, TLAPS |
| `PredictedPaths` | path prediction and colour boxes | |
| `PredictedPaths_proofs` | its theorems | `PredictedPaths`, TLAPS |
| `LevelBoard` | abstract: what the editor promises its user | |
| `LevelEditor` | the level editor and its file | implements `LevelBoard` |
| `LevelEditor_proofs` | its theorems | `LevelEditor`, TLAPS |
| `GravityWells` | wells under the player's fingers | |
| `LevelTexts` | the texts of a level | |
| `LevelView_proofs` | the theorems of these two parts of `LevelView.swift` | `GravityWells`, `LevelTexts`, TLAPS |
| `Navigation` | switching between screens | |
| `Navigation_proofs` | its theorems | `Navigation`, TLAPS |
| `Account` | signing up, in and out | |
| `Account_proofs` | its theorems | `Account`, TLAPS |
| `MC...` | instances for TLC | the module they name |

Each module also holds a few operators named `X_Something` beside an operator `X`:
variants of `X` with a bug such code could have. `PROJECT.json` lists, for every
property, the variant under which TLC must find it violated. No specification uses them.

### 2.1 `CampaignProgress`

| code | model |
| --- | --- |
| app bundle, documents directory, progress file | `bundle`, `documents`, `disk` |
| `CampaignLevelHandler.allLevels`, `ProgressHandler.progress` | `allLevels`, `progress` |
| shown screen; tiles that react; level played; its `beatLevel` | `screen`, `pressable`, `playing`, `beatLevel` |
| position inside `didBeatLevel` | `pc`, `current` |
| `viewDidLoad` with `copyLevelsFromBundleToDocuments`, `getAllLevels`, `loadProgress` | `ViewDidLoad` |
| tile, back, menu and next buttons | `PressLevel`, `PressBack`, `PressMenu`, `PressNextLevel` |
| `didBeatLevel` to the first save | `BeatLevel`, `BeatUserLevel` |
| `completedLevel`, `completedCampaignLevel` and their saves | `SaveCompletion`, `UnlockNext`, `SaveUnlock`, `SaveLast` |
| end of the process, app update | `Kill`, `UpdateApp` |

`loadProgress` takes any error of `Disk.retrieve` for a missing file (`File.swift:139`), so
`LoadProgress` has two outcomes when there is a file and reads may fail: the file, or the
starting data. The starting data is then in memory only, and the next save that succeeds
writes it over the file. `misread` is the history variable of that time: from such a launch to
that save or to the end of the process. `DiskIsPrefix`, `UnlockedForever` and the ledger name it:
an app that has not read its file promises nothing of it. (A file that is read and does not
decode ends in a forced unwrapping at every launch, lines 136-138, and is no state of the
model.)

A handler runs to its end on the main thread, so no other event comes between its steps;
only `Kill` does. That is why each atomic write (`Disk/Disk+Data.swift:37`) is a step of
its own. An entry keeps `completed` and `locked`: at this commit the line motion in
`LevelView.update` (786-847) is commented out, so the only levels that can be beaten
are those without lines, where `testAllLines` holds vacuously, with time and distance 0
and three stars; these fields follow from `completed`. `BeatUserLevel` needs no screen,
because the previews in `GLSLevelSelector.swift:172` and `PublishLevelView.swift:37` are
`LevelView`s with a running display link. The branches for a nil `progress` are left
out: `viewDidLoad` loads it before any view exists. `cut` is another history variable: the
levels a completion of which was cut off before its successor was saved, until a later
completion of the same level repairs it.

### 2.2 `DownloadCounter`

| code | model |
| --- | --- |
| counter document, shard documents | `counter`, `shards` |
| Firestore's pending writes of a device | `queue` |
| where a call of `addDownloadCounterTo` is, its `num` | `call`, `acks` |
| `getDocument`, its two outcomes | `GetExisting`, `CreateCounter` |
| acknowledged `setData` and its callback | `Acknowledge` |
| `runTransaction` of `incrementCounter` | `IncrementCounter`, `TransactionFails`, `ForcedCastFails` |

Firestore, as its headers describe it: writes are visible on the device at once, are sent
in order, survive the process, and call back unless the process ended; a transaction
is atomic and sees the server. A write reaching the server and its acknowledgement are
one step, and the retries inside a transaction are abstracted to its success or failure.
Two history variables: `creators`, the calls that took the counter for missing, and
`broken`, those of them a write of which was rejected or whose process was gone when its
shards were due. The tally is contested once there are two creators.

### 2.3 `GlobalLevels`

| code | model |
| --- | --- |
| Firestore documents, Storage files | `docs`, `files` |
| pending document writes, running uploads | `writes`, `uploads` |
| the local variables of one `globalLevelSelect_getLevels` call | `loads[i]` |
| files saved as `.PublicMade` | `saved` |
| `GLSLevelSelector`: tiles, detail view, flags | `tiles`, `detail`, `showingDetailView`, `startedLoadingLevel` |
| `createLevelView_publishLv`, `uploadCustomMadeFile` | `PublishLv`, `DocumentSet`, `Uploaded` |
| answers of the query, of `getLevelFile`, of `getCount` | `QueryArrives`, `FileArrives`, `CountArrives` |
| buttons and tiles | `PressTile`, `TouchDetail`, `PressPlay`, `PressBack`, `PressMenu`, `PressGlobalLevelSelect` |

Author and reader are separate devices. The publish view stays open, so a level can be
published again and again. `startedLoadingLevel` is set and reset within one call, since
play calls `animateOut` at once. A level that was fetched is listed whether or not it could be
saved on the device (`ViewController.swift:320`, fault `save`), so `WholeListShown` speaks of
files fetched, and `saved` is under no promise. A load's slot is used again once nothing of it is
outstanding. A level file that cannot be saved before its upload counts as a failed
upload. The content of files is not told apart, so which of two versions the server
keeps is not asked. `cutShort` is a history variable: the levels some step of whose
publishing failed.

### 2.4 `PredictedPaths`

| code | model |
| --- | --- |
| `lineColor`, `lineThickness` of the line | `color`, `thickness` |
| `lineStates[uuid].step1` of each box | `step1` |
| `currentLine`, `linesForLine` | `currentLine`, `layers` |
| `getPredictedPaths` up to its loop, `line.reset` | `GetPredictedPaths` |
| one round of the loop up to the boxes | `Move` |
| `createColorBoxesFromLevel`, once the wells are made | `CreateColorBoxesFromLevel` |
| `handleColorBoxesForLine`, box by box | `OnASide`, `InTheMiddle`, `Outside` |
| end of the loop | `Finish` |

One line is enough: the boxes key their states by line, and lines do not affect each
other. Forces, velocities and geometry are replaced by an arbitrary choice of the part of
each box the next point falls in (boxes may overlap) and of the wells it collides with;
every real path is among those. The predictions made while a level's wells are created meet no
boxes, which are created afterwards (`LevelView.swift:647`): until `made` is set a move goes
back to the head of the loop. In the code one prediction is one call; the model takes
it in steps only to say what each step does. `step2` is set and consumed in the same
visit and is FALSE in every state. `where` records a choice; `path`, `origin`,
`crossed` and `disturbed` are history variables.

### 2.5 `LevelEditor`

| code | model |
| --- | --- |
| `levelData.colorBoxData`, `lineData` | `list` (entries are objects), `object` (their data) |
| the editable views, each holding the `data` it was made for | `views`, one `ViewFor` an object |
| a line's `startVelocity`; `frameChangeKnob` | `velocity`; `knob` |
| `getKnobPointFromVector`; `getCurrentKnobVectorNormalized` | the constants `KnobOf`; `VelocityOf` |
| the level's file | `disk` |
| editor, menu, confirmation, publish view, test, list of levels | `screen` |
| toolbox buttons | `AddItem` |
| a gesture and `frameChanged` | `MoveItem`, or `MoveKnob` for a line's knob, with `FrameChanged` and `Dragged` |
| `File.saveLevel`, which catches its error | `SaveLevel` |
| play and back, menu, publish, confirm, deny | `PressPlay`, `PressHome`, `PressMenu`, `PressPublish`, `PublishLv`, `Turn`, `Confirm`, `Deny` |
| opening a level, a new level | `OpenLevel` |

`ColorBoxData` and `LineData` are classes, so a list entry is a reference: an edit changes
the object also where it is listed a second time, and the FlatBuffers writer and reader
keep that sharing (`uniqueTables`, `objectPool`). That is why entries are object
identities and not values. `FrameChanged` removes the first entry with an EQUAL value and
appends its own object. If another item was equal, it is that item's entry that goes: the
object dragged is then listed twice and the other one not at all, though it is still on
the board. The model reaches this; `ShownIsListed` and the promise are stated for levels
where no object is listed twice. A place stands for a box's frame and rotation or a line's
position, which the view and the data convert without loss. New items of one kind all get
`NewPlace` and `NewVelocity`, as in the toolbox, which is how equal items come about.

A line's velocity is not converted without loss. Showing a line puts the knob where
`getKnobPointFromVector` says (`LineStart.swift:171`, "SLIGHTLY OFF" in its own words), and every
drag, of the knob or of the line, sets the velocity to what
`getCurrentKnobVectorNormalized` (155) reads from it (`CreateLevelView.swift:263`). The two are
arbitrary functions here, and nothing is assumed of one undoing the other. So panning a line
that was just opened rewrites its velocity, as in the code. What remains true, and is stated, is
that a line's knob is the one for its velocity or its velocity the one for its knob
(`InStep`), and that opening and saving alone change no velocity: the board that `LevelBoard` speaks of has
the velocities of the data, and an edit may change all of the one item it edits.

 One level is edited at a time; the editor's list is read from disk when
it is shown, so leaving and opening is `Close` and `OpenLevel`.

The confirmation's buttons do not move away: with two fingers, yes and no can both be
released. The second `pressMenu` then removes the list of levels it has just shown. That
case belongs to `Navigation`, which has it; here a level closes once.

### 2.6 `GravityWells`

| code | model |
| --- | --- |
| `scaledGravityWells` and the stage's subviews | `listed`, `shape` |
| `justCreatedWell` (an implicitly unwrapped Bool, nil at first) | `justCreated` |
| the long press, `currentGravityWellCreated` | `press`, `current`, `under` |
| `drawLines` | `drawn`: a path was ever predicted; `predicted`: the wells the drawn paths were computed for |
| `handleTap` began, changed, ended; cancelled, which it does not handle | `PressBegan`, `PressChanged`, `PressEnded`, `PressCancelled` |
| `touchesEnded` of a well and its `touched` closure | `Tap`, `PressTouchEnds`, `Touched` |
| `handlePan`, `handlePinch` | `Pan`, `Pinch` |

The gesture recognizer sees a touch before the view does, and with `cancelsTouchesInView`
false the view sees it too; so the end of a long press is two steps, `PressEnded` and then
`PressTouchEnds`, between which only the touches of another finger that lifts in the same
event can come. `resized`, `other` and `abandoned` are history variables.
Only making, deleting or moving a well predicts (`LevelView.swift:725`), so a level without
wells is shown with no path at all, until the first well is made: `DrawnForTheWells` says so.
The comparison with `justCreatedWell` is three-valued: nil is not false, so the very first
tap on a well deletes nothing.

### 2.7 `Navigation`

| code | model |
| --- | --- |
| `currentView`, `levelView.parentView`, `campaignLevel` | the variables of these names |
| subviews of the controller's view, those a timer will remove | `shown`, `leaving` |
| `levelView`, `createLevelView` and the views made once | `latest` |
| `switchToView`, its nested `removeView` | `SwitchToView`, `RemoveView` |
| delegate methods | `Leads`, `Pressed` |
| `Button.touchesEnded`, `touchInBtn`, `animateIn` | `Press`, `MovedIn` |
| a second finger | `second`, `ReleaseSecond` |
| `didBeatLevel`'s `LevelBeatView` | `Beat` |

A button counts only if the finger is inside its frame when it lifts, and a frame is at its
destination as soon as an animation starts. So buttons that move away cannot be pressed
twice, and one that moves in is not touched until it is there; the timers of a switch were set
before its animations and run no longer. Controls in `Staying` do not move. A second finger that went
down on one before the switch and lifts after it calls the delegate method of a view
already left. Two of these cases are worth knowing: two campaign tiles make the second
level's `parentView` the first level, and a tile with the back button leaves a level whose
home is the wrong screen. `overlapped` is the history variable that says such a release
happened; `CurrentStays` and `HomeIsWhereItWasChosen` are stated without it,
`NothingLingers` holds all the same. That the buttons have moved in only once nothing is
leaving (`MovedIn`) is an assumption about time: the removal is scheduled first and takes no
longer than the animation.

### 2.8 `Account`

| code | model |
| --- | --- |
| `Auth.auth().currentUser`, the accounts, the collection `users` | `user`, `account`, `document` |
| the document that `setData` queued on the device; its answer | `writing`; `WriteAnswered` |
| the subview shown, the labels of `SignedInView` | `subview`, `label` |
| snapshot listeners added by `update` | `listening`, `due` |
| `createUser` and `signIn` under way | `request` |
| `updateView` | `UpdateView` |
| buttons | `PressSignOut`, `ShowSignIn`, `PressSignUp`, `PressSignIn` |
| completions | `SignInAnswered`, `SignedUp`, `SignUpRefused` |
| snapshots, `document.data()!` | `Snapshot`, `SnapshotError`, `DocumentChanges` |
| end of the process and next launch | `Restart` |

An answer changes `currentUser` before its completion runs, as two events. A listener told
twice of one document writes the same labels twice, so `due` is a set. `trap` records
that a forced unwrapping ended the process, after which only `Restart` is possible.
The document of a sign-up is queued by a `setData` without completion
(`AccountView.swift:255`). It outlives the process; until the server answers, the device's
listeners see it; if the server rejects it, they see it go, and `document.data()!` traps.
That Firestore sends a user's writes only while that user is signed in is its own affair and
left out. `seen`, `deaf`, `rejected` and `cutOff` are history variables; they are the exceptions
the properties name. The server-side change of statistics by a download is `DocumentChanges`.

### 2.9 `LevelTexts`

| code | model |
| --- | --- |
| `level.levelData.texts` | `texts` |
| `currentText`, `completedText` | the variables of these names |
| `currentTextsLabel`: its text, and whether it is at `inPos` | `label` |
| blocks of `asyncAfter` not yet run | `due` |
| `setupLevelTexts`, `LevelTextsLabel.touchesBegan` | `SetupLevelTexts`, `TapText` |
| `levelTextTriggerOccured`, `nextText(oldText:)` | `LevelTextTriggerOccurred`; `NextText` with an old text, `NextFirstText` with nil |
| the block | `ShowDue` |

Which texts a level has is chosen at first. `pressPlay` is a trigger that
nothing ever raises, so a text that waits for it blocks the ones after it, as one without a
trigger does; that is why the run may deadlock. A label moving out is off the screen
for touches at once, since its frame is where its animation ends; `LabelShowsCurrent` depends
on it. Left out: a level with a text of id -1, for which `getLevelTextWithId`
(`LevelView.swift:620`) makes up an empty text whatever is looked for, since it compares the
list's id and not the one asked for; no level of that kind is in the repository. `shown`
and `again` are history variables.

## 3. Runs

| run | constants | asks |
| --- | --- | --- |
| `progress_faults` | 3 campaign levels, 1 other, every fault | what survives everything: `UniqueUUIDs`, `ContiguousUnlock`, `DiskIsPrefix`, `PlayedIsUnlocked`, `CompletionRepairs`, `UnlockedForever`, `ImplementsLedger` |
| `progress_kill` | 4 campaign levels, 2 of them with one number, kills and failed reads, fair | `SavedWhenIdle`, the chain of unlocked levels has a hole only after a completion that was cut off (`CompletedUnlocksNext`), and every completion reaches the file unless the process ends (`CompletionIsSaved`) |
| `progress_replay` | no fault | violation of `OnlyReplaceIfBetter` |
| `counter` | 3 calls, 2 of them on one device, every fault, fair | `NeverOvercounts`, `SoleCreatorLosesNothing`, `CreatorFindsShards`, `ImplementsTally`, `CounterCompleted`, `CallEnds` |
| `global_levels` | 2 levels, 2 loads, every fault | `WholeListShown`, `DetailIsListed`, `NoOrphanFile`, `ListedGetsFile`, `NoForgottenList` |
| `global_listing` | 2 levels, 1 load, no fault, fair | violation of `ListReturned` |
| `paths` | 2 boxes, 2 wells, 5 moves | `LayersAreThePath`, `NoChangeWithoutCrossing`, `FirstCrossingChanges` |
| `editor` | 4 items, lines at 2 places, 3 velocities, 2 knobs | `NothingVanishes`, `ShownIsListed`, `ImplementsBoard` |
| `wells` | 3 wells, 2 shapes | `InvisibleOnlyInPress`, `DrawnForTheWells`, `TrapNeedsSecondFinger`, `PressSparesTheWellUnder` |
| `texts` | 3 texts | `TextsTypeOK`, `LabelShowsCurrent`, `ChainShownOnce` |
| `navigation` | 3 copies of a remade view | `CurrentStays`, `NothingLingers`, `HomeIsWhereItWasChosen` |
| `account` | 2 users, 2 requests at once | `ShownIsSignedIn`, `LabelsAreOfTheUser`, `TrapNeedsLostDocument` |

The type invariants are theorems (Section 4) and take no place in the runs, except
`TextsTypeOK`: it is what breaks when the label is given a text the level does not have.

What the two violations show:

* `progress_replay`: beating level n writes a blank entry over that of level n+1
  (`CampaignHandler.swift:90`), so a replay erases a completed successor, although
  the comment at `CampaignHandler.swift:128` says what it should do instead: "TODO only replace
  if stats are better".
* `global_listing`: a list queried between a level's document and its file is never
  shown, because `getLevelFile` calls back only with a file
  (`ViewController.swift:261`), although the comment at 285 says "return data once
  everything is downloaded".

Other things met on the way are no runs of their own, but the properties are worded by
them. Two devices may create the same counter, and the
zeros of the later creation wipe a counted download (`FirebaseHandler.swift:25`, 70):
`SoleCreatorLosesNothing` and the contested tally say that nothing else loses one. A device
that finds the counter document before its shards are there increments a missing shard,
and the cast at `FirebaseHandler.swift:94` traps (`ForcedCastFails`): `CreatorFindsShards`
says that a creator never does, `CounterCompleted` that the time in which another device
can passes, if the process of the creator lives. A progress file that cannot be read once is
replaced by a blank one (`File.swift:139`). A line that is opened and moved a little has another
velocity than before (`LineStart.swift:175`). The level texts end as soon as the first text picked at random was completed,
though another first text was never shown, and a text alone comes back at every tap
(`LevelView.swift:545`); `ChainShownOnce` is about levels with one chain. Of two
equal items in the editor the wrong one is lost on the next save
(`CreateLevelView.swift:229`). A cancelled long press leaves an invisible well, and a second
finger can delete the well being made, so that `index(of:)!` traps (`LevelView.swift:732`).
Listeners of an earlier account go on writing the labels (`AccountView.swift:180`), a refused
sign-up traps (255), and a sign-up that is cut off leaves an account whose screen traps for
ever (253, 185), as does one whose document the server rejected (255). A progress file first written while no campaign
level was loaded has no starting level, and the campaign stays locked; the comment at
`File.swift:149` says so itself. And a line that turns back after a single point on the
new side of a colour box keeps its colour, since the box has forgotten it
(`LevelView.swift:966`, 988); `FirstCrossingChanges` states what does hold.

### Bounds

* Three campaign levels give a first, a middle and a last one, and a successor that is
  itself completed; a fourth repeats the middle. One level outside the campaign is
  enough, since such levels touch only their own entry. Nothing else is bounded: any
  number of launches, replays, kills, failed reads and updates. `progress_kill` has four
  campaign levels and none outside: a first one, two of the second number, of which the
  order of the directory at each launch makes one the next level, and one after them.
* `NumShards = 2` stands for five. What matters is kept: more than one shard used, and
  the one extra shard written (`0...N`). Three calls allow two creators and a bystander.
* Two levels and two overlapping loads give every order of two files and two counts of
  two lists; `MaxWrites = 1` pending document write bounds the queue, and publishing may
  be repeated without end.
* Four items: the line and the box of a new level and two from the toolbox, of either kind.
  Lines have two places, so that two may coincide or differ; boxes, whose edits take the
  same steps as a line's and have no velocity, have one, and two of one colour are equal from
  the start. The three velocities are the blank level's, a new line's and the largest; the knob for the blank one is farther out than a drag can put it, and
  the one a drag reaches is read as the largest velocity, as most are, so that both conversions
  change something and neither undoes the other. Moves, saves and visits are unbounded.
* Three wells: one being made, one under it, one tapped. Two shapes are enough to tell a
  changed well from an unchanged one. The wells of one level are not bounded in number of
  presses.
* Three texts give two first texts with a chain behind one of them, or a chain of three,
  linked in every way; taps are unbounded.
* A third copy of a remade view is on the screen only while two are leaving; transitions
  follow one another without end.
* Two users and two requests: one account shown, another answered late. Sign-ins, sign-outs
  and restarts are unbounded.
* Two boxes that undo each other's change; five moves let a line enter, cross, leave
  and come back; `startThickness = 2` lets it shrink once and vanish. Predictions
  follow one another without end.

### Fairness

* `CampaignProgress`: weak fairness of the steps of a completion. A handler on the main
  thread runs to its end unless the process ends, and `Kill` disables the steps.
* `DownloadCounter`: weak fairness of `SendQueue` (a device on which a call is under way, whose
  process therefore lives, sends its queue) and of each call's next step (a request is
  answered). Nothing is assumed of a device whose process has died: its queue is sent if
  the app is started again, and that may never be. `CounterCompleted` is therefore about creations
  neither broken nor cut off.
* `GlobalLevels`: weak fairness of the answers and the uploads (a request is answered,
  if only by an error). Nothing is assumed of the player.

Deadlock is checked everywhere except in `counter`, where the calls do end and a stuck one
is what `CallEnds` is about, in `wells`, where the trap of `LevelView.swift:732` ends
the process, and in the runs of `LevelTexts`, where the texts come to an end. The editor, the wells, the texts, the navigation and the account state no fairness: what
happens there is up to the player.

## 4. Theorems

All proofs are for any values of the constants that satisfy the module's assumption. Beyond
the types of the constants, it says that sets the code keeps in arrays are finite, that
bounds are positive, and that a value that stands for "none" is none of the values it
stands beside. All specifications are without fairness. Every safety invariant, action
property and refinement that a passing run checks is a theorem.

**`CampaignProgress_proofs`.** The inductive invariant `IInv` adds to `TypeOK`: both the
list in memory and the one on disk are well formed (`ListOK`: unique entries, reached in
order, none locked), the file's levels are the first ones of memory's unless the file was
not read, a file that exists is not empty, the tiles and the level played are of loaded and unlocked levels, and the
steps of a completion find the entry they work on. It is needed because a written list
is only known to be good if the one in memory was, and what memory holds after a launch
is only known from the file. From it: `TypeCorrect`, `UniqueEntries`, `UnlockedInOrder`,
`FileIsPrefix`, `NeverPlaysLocked`, `ReplayRepairs`, `UnlockedLevelsStay`, and
`LedgerImplemented`, by which every step of the code is a step of `UnlockLedger` or leaves
its set alone. `FileIsCurrent` needs no more than `SavedWhenIdle` itself. `ChainHasNoHole`
needs `KillInv`: with kills and failed reads as the only faults the bundle's levels are all
loaded, in memory and on disk the chain has holes at most after levels of `cut`, and between any two steps
also after the completed level being recorded.
The lemmas on `setProgressForUUID` (it keeps uuids, order, well-formedness and the chain)
carry most of it.

**`GlobalLevels_proofs`.** `IInv` is `TypeOK` with `ServerOK` (files and uploads are of
levels with a document or with a failed step behind them, and a document has its file, an
upload or such a failure),
`LoadsOK` (a load's files are on the server, its counts are of its files,
and a load that has all of them is no longer loading) and the two properties of the
list. `Completes` compares sizes; the proof turns that into equality of sets by the
finiteness of `Levels`. From it: `TypeCorrect`, `ListsAreWhole`, `DetailsAreListed`,
`NoFileIsOrphaned`, `ListedLevelsGetFiles`, `NoListIsForgotten`.

**`PredictedPaths_proofs`.** `IInv` is `TypeOK` with `Step1Means`: a box not disturbed by an
earlier prediction or by another box that knows the line does so because the line still
has the colour of the side it last matched, and until the first crossing it does know it. From it: `TypeCorrect`,
`ChangesAreCrossings`, `FirstCrossings`, for any number of boxes, colours and moves.
That the layers show the path (`LayersShowThePath`) needs a second invariant, `Drawn`: while a
prediction is under way it is the layers *with the line being drawn* that show the path, point
for point. A drawn point either lengthens the last line or begins another
(`LineContinued`, `LineBegun`); the layers alone show it only at the end. Which point of the
path a point of a layer is depends on how many points precede it, which `UpTo` counts as the
cardinality of a set, so that adding a point is adding an element.

**`DownloadCounter_proofs`.** `IInv` relates what a call has queued (`Queued`), what was
acknowledged and where the call is: in a queue the writes of one call are its counter's
alone or its shards' in ascending order (`InOrder`); a creation whose process lives has
exactly the shards from `acks` on still queued (`Awaited`); of an unbroken creation every
shard is queued or written (`Written`). Three lemmas say what taking the head, appending
and concatenating do to such queues. From it: `TypeCorrect`; `CreatorsFindTheirShards`, the
reason that waiting for one acknowledgement too few is harmless; and
`SoleCreatorWipesNothing`, the reason behind `SoleCreatorLosesNothing`.
The count itself is the cardinality of the set of units in the shards, and what was counted
that of a set of calls, so a transaction adds one element to each. Every step is then one
of four (`CountStepNext`): it leaves both sets alone, adds to both, makes a creator, or wipes
units of a counter several calls created; the last is where `SoleCreatorWipesNothing` is
used, since only then may the two numbers part. The invariant `Tallied` follows from the four cases, and from it
`NothingIsOvercounted`, `SoleCreatorKeepsTheCount` and the refinement `CounterImplementsTally`.

**`LevelEditor_proofs`.** `IInv` is `TypeOK`, `SameNumber` (as many entries as views, and a
line at least), `ListedIsHeld` (what is listed is shown) and `AloneIsInPlace` (a listed object
held by one view is in step with it: at its place, and with the knob its velocity was turned
into or the velocity its knob was read as). Nothing is assumed of the two conversions. The step that needs work
is `FrameChanged`: if the entry removed was another object's, the object dragged is now
listed twice, which needs a pigeonhole argument on two lists of the same length
(`FS_Injection`). From it: `TypeCorrect`, `ItemsStay`, `ViewsShowTheLevel`.
The refinement of `LevelBoard` (`EditorKeepsItsPromise`) compares the board, in the order of
the views, with the file, in the order of the list, which every edit permutes. The bridge
is `ContentIsShown`: while no object is listed twice, views and list hold the same objects,
each once, so some bijection between their positions matches equal items, and there are
equally many of each (`EquallyOften`). From there one lemma per kind of step: a save writes the
items shown, opening and coming home from play show the items of a content (`ContentIsOpened`),
adding appends one item, a move changes one, leaving forgets.

**`LevelView_proofs`.** For the wells, `IInv` adds to the properties that the well being made is listed
(`MadeIsListed`) and that a lifted press finds `justCreated` set (`LiftedIsFlagged`), both
unless a second finger tapped. From it: `TypeCorrect`,
`NoOtherInvisibleWell`, `PathsAreCurrent`, `OneFingerNeverTraps`, and the action property
`WellUnderIsSpared`. For the texts, `TextsInvariant` adds `OnlyCurrentWaits` (only the current
text ever waits for the label, and only while the label moves out, which is why a late block
still shows the right text) and, in a chain, `ChainFollowed`: the texts shown are those completed and
the current one unless it waits, a text on the label or waiting is not completed, the successor of a completed
text was shown or waits, and the first text is behind every other. From it:
`TextsTypeCorrect`, `LabelIsCurrent`, `ChainIsShownOnce`, for any finite set of texts and any
links.

**`Navigation_proofs`.** `IInv` adds to the properties that a current remade view was made and
a kept one has a single copy (`LatestIsMade`), that no removal is pending once the buttons have
moved in (`StillMeansGone`) and, with one finger at a time, that what leaves is still shown
(`LeavingIsShown`).
From it: `TypeCorrect`, `CurrentIsKept`, `NoViewLingers`, `HomeIsRight`, for any number of
copies.

**`Account_proofs`.** `IInv` adds that an answer is of an account (`AnsweredHasAccount`), that
the subview is that of the user unless an answer waits (`ShownIsCurrent`), that listeners and
users were seen since launch (`SeenFirst`), and for a user who is the only one seen that the
signed-in view listens to them (`OnlyUserIsHeard`) and the labels are or will be theirs
(`OnlyUserIsShown`), and that an account has its document, has it queued, or is signing up, cut
off or rejected (`DocumentFollows`). From it: `TypeCorrect`, `ViewIsOfTheUser`, `LabelsFollow`,
`TrapsNeedLostDocuments`, for any users and any number of requests.

Only model-checked: the liveness properties (`CompletionIsSaved`, `CounterCompleted`,
`CallEnds`, and the refuted `ListReturned`), since liveness under fairness is out of the
prover's reach. Sums and concatenations would need folds, and folds induction over data,
which the installed provers cannot instantiate; they are therefore defined by cardinalities
of sets (`GetCount`, `UpTo`, `SameItems`), which the theorems on finite sets can reason about.

## 5. Not modelled

* Forces, velocities and geometry: floating point on continuous data. Only their
  outcomes (where a point falls) enter `PredictedPaths`. Whether the prediction's loop
  ends (`LevelView.swift:420`) depends on them.
* The content and versions of level files: whether the server keeps the newer of two
  uploads is not asked.
* Snapshots while offline without a cached document (`Account`): a look at another account's
  screen would trap there too.
* Publishing from the editor and listing are separate modules: `LevelEditor` ends with the
  file saved, `GlobalLevels` begins with it. A press of play on a global level is a step of
  `GlobalLevels`, of `Navigation` and a call of `DownloadCounter`; they share no variable.
* Level list screens, widgets, generated serialisation and stubs: no ordering of state
  changes.
* Everything under `src/Arthius/Pods/`: third-party libraries (BoringSSL, gRPC, Protobuf,
  nanopb, leveldb, the Firebase SDK), which are most of the repository by size and all of
  its C, C++ and Objective-C. The game itself is the Swift under `src/Arthius/Arthius/`.
  Line counts that leave Swift out therefore show none of what is modelled. The models take
  from the libraries only what the game's calls rely on.

## 6. Plan

Done, in this order because progress is what a player loses, then what devices share,
then what a level shows, then the screens: `CampaignProgress` with `UnlockLedger`,
`DownloadCounter` with `DownloadTally`, `GlobalLevels`, `PredictedPaths`, `LevelEditor` with
`LevelBoard`, `GravityWells`, `Navigation`, `Account`, `LevelTexts`, and the proofs of all nine.

What is left:

1. File versions in `GlobalLevels`: the file is read when the document's write is
   acknowledged (`ViewController.swift:482`), and two uploads of one level race.
2. Composition: `GlobalLevels` with `DownloadCounter` and with `CampaignProgress` (a global
   level beaten is recorded), `Navigation` with `Account`.
3. `LevelEditor` with several levels and the list that is read when it is shown.
