-------------------------- MODULE CampaignProgress --------------------------
(***************************************************************************)
(* The player's progress through the campaign: the level files loaded at   *)
(* launch (CampaignLevelHandler), the progress list in memory and its file *)
(* (ProgressHandler, File), the tiles of the campaign screen, and the      *)
(* steps by which beating a level is recorded and the next one unlocked.   *)
(*                                                                         *)
(* Everything runs on the main thread, so a handler is interrupted by no   *)
(* other event of the app.  It can be cut short by the end of the process  *)
(* (a kill by the system, a crash), which keeps only what was written to   *)
(* the documents directory; each atomic file write is therefore a step of  *)
(* its own.                                                                *)
(*                                                                         *)
(* An entry keeps `completed' and `locked'; stars, time and distance are   *)
(* functions of `completed' in the code at this commit (a beaten level is  *)
(* recorded with three stars and no distance, an unlocked one with zeros)  *)
(* and are left out.                                                       *)
(***************************************************************************)
EXTENDS Naturals, FiniteSets, SequencesExt

CONSTANTS
  Levels,       \* uuids of campaign levels
  UserLevels,   \* uuids of the other levels that can be beaten
  number,       \* levelMetadata.levelNumber of each campaign level
  Faults,       \* which of FaultKinds may happen
  NoLevel,      \* nil, for a level
  NoFile        \* the progress file does not exist

FaultKinds == {"kill",     \* the process ends in the middle of a handler
               "save",     \* a write of the progress file fails
               "read",     \* the progress file is there but cannot be read
               "copy",     \* copying the bundle's levels stops half-way
               "decode",   \* a level file cannot be read at launch
               "update"}   \* an app update ships another set of levels

Uuids == Levels \cup UserLevels

Entry == [uuid : Uuids, completed : BOOLEAN, locked : BOOLEAN]

ASSUME ConstantsAssumption ==
  /\ IsFiniteSet(Levels)
  /\ Levels \cap UserLevels = {}
  /\ number \in [Levels -> Nat]
  /\ Faults \subseteq FaultKinds
  /\ NoLevel \notin Uuids
  /\ NoFile \notin Seq(Entry)

VARIABLES
  bundle,     \* campaign levels inside the installed app
  documents,  \* campaign level files in the documents directory
  disk,       \* the progress file: a sequence of entries, or NoFile
  pc,         \* what the main thread is doing; "down" when no process runs
  allLevels,  \* CampaignLevelHandler.allLevels
  progress,   \* ProgressHandler.progress.progressData
  screen,     \* "select" (campaign tiles), "play" (campaign level), "other"
  pressable,  \* levels whose tile forwards a press
  playing,    \* the level of the campaign LevelView shown, or NoLevel
  beatLevel,  \* that view's beatLevel
  current,    \* the level whose completion is being recorded, or NoLevel
  misread,    \* progress was started afresh although there is a file, and
              \* was not written over it yet (history)
  cut         \* levels recorded as completed whose successor was not, when
              \* the process ended, and not completed since (history)

files  == <<bundle, documents>>
view   == <<screen, pressable, playing, beatLevel>>
vars   == <<files, disk, misread, pc, allLevels, progress, view, current, cut>>

-----------------------------------------------------------------------------
(* The progress list *)

Blank(u)     == [uuid |-> u, completed |-> FALSE, locked |-> FALSE]
Completed(u) == [uuid |-> u, completed |-> TRUE,  locked |-> FALSE]
Locked(u)    == [uuid |-> u, completed |-> FALSE, locked |-> TRUE]

HasEntry(p, u) == \E i \in 1 .. Len(p) : p[i].uuid = u

EntryIndex(p, u) == SelectInSeq(p, LAMBDA e : e.uuid = u)

(* Variants of setProgressForUUID with a bug: no search for an earlier     *)
(* entry; the replaced entry moved to the end; the earlier entry kept.     *)
SetProgressForUUID_AlwaysAppend(p, e) == Append(p, e)

SetProgressForUUID_MovesToEnd(p, e) ==
  Append(SelectSeq(p, LAMBDA f : f.uuid # e.uuid), e)

SetProgressForUUID_KeepsOld(p, e) ==
  IF HasEntry(p, e.uuid) THEN p ELSE Append(p, e)

(* setProgressForUUID: replace the first entry of that uuid, or append.    *)
SetProgressForUUID(p, e) ==
  IF HasEntry(p, e.uuid) THEN [p EXCEPT ![EntryIndex(p, e.uuid)] = e]
                         ELSE Append(p, e)

(* getCurrentProgressForUUID, with the locked default of the tiles.        *)
GetCurrentProgressForUUID(p, u) ==
  IF HasEntry(p, u) THEN p[EntryIndex(p, u)] ELSE Locked(u)

-----------------------------------------------------------------------------
(* The campaign levels *)

(* A variant that skips over missing numbers.                              *)
LevelIndex_AtLeast(n) == SelectInSeq(allLevels, LAMBDA l : number[l] >= n)

LevelIndex(n) == SelectInSeq(allLevels, LAMBDA l : number[l] = n)

(* A variant that takes the number for a position in the list.             *)
GetLevelFromLevelNumber_ByIndex(n) ==
  IF n \in 1 .. Len(allLevels) THEN allLevels[n] ELSE NoLevel

GetLevelFromLevelNumber(n) ==
  IF LevelIndex(n) = 0 THEN NoLevel ELSE allLevels[LevelIndex(n)]

(* contentsOfDirectory lists a directory in no particular order.           *)
DirectoryListings(S) ==
  {s \in [1 .. Cardinality(S) -> S] : ToSet(s) = S}

CopyOutcomes ==
  IF "copy" \in Faults THEN {documents \cup S : S \in SUBSET bundle}
                       ELSE {documents \cup bundle}

ReadableSubsets(S) == IF "decode" \in Faults THEN SUBSET S ELSE {S}

(* The starting data: the first level of the list, unlocked.               *)
FreshProgress(levels) ==
  IF levels = <<>> THEN <<>> ELSE <<Blank(levels[1])>>

(* loadProgress: the file; or starting data, when there is no file or it   *)
(* cannot be read (a file that is read but does not decode traps: no start *)
(* at all).                                                                *)
LoadProgress(levels) ==
  \/ disk # NoFile /\ progress' = disk /\ misread' = FALSE
  \/ /\ disk = NoFile \/ "read" \in Faults
     /\ progress' = FreshProgress(levels)
     /\ misread' = (disk # NoFile)

(* A variant in which every tile can be pressed.                           *)
UpdateLevels_IgnoresLocks(levels, p) == ToSet(levels)

(* The tiles whose captured progress is not locked.                        *)
UpdateLevels(levels, p) ==
  {l \in ToSet(levels) : ~GetCurrentProgressForUUID(p, l).locked}

-----------------------------------------------------------------------------
Idle == pc = "idle"

Init ==
  /\ bundle \in SUBSET Levels
  /\ documents = {}
  /\ disk = NoFile
  /\ pc = "down"
  /\ allLevels = <<>>
  /\ progress = <<>>
  /\ screen = "other"
  /\ pressable = {}
  /\ playing = NoLevel
  /\ beatLevel = FALSE
  /\ current = NoLevel
  /\ misread = FALSE
  /\ cut = {}

(* viewDidLoad: copy the bundle's levels, load them, load the progress,    *)
(* build the campaign screen and show the menu.                            *)
ViewDidLoad ==
  /\ pc = "down"
  /\ documents' \in CopyOutcomes
  /\ \E readable \in ReadableSubsets(documents') :
        allLevels' \in DirectoryListings(readable)
  /\ LoadProgress(allLevels')
  /\ pressable' = UpdateLevels(allLevels', progress')
  /\ pc' = "idle"
  /\ UNCHANGED <<bundle, disk, screen, playing, beatLevel, current, cut>>

(* The campaign screen slides in and rebuilds its tiles.                   *)
ShowCampaign ==
  /\ screen' = "select"
  /\ pressable' = UpdateLevels(allLevels, progress)
  /\ playing' = NoLevel
  /\ beatLevel' = FALSE

PressCampaign ==
  /\ Idle /\ screen = "other"
  /\ ShowCampaign
  /\ UNCHANGED <<files, disk, misread, pc, allLevels, progress, current, cut>>

PressBack ==
  /\ Idle /\ screen = "select"
  /\ screen' = "other"
  /\ UNCHANGED <<files, disk, misread, pc, allLevels, progress, pressable,
                 playing, beatLevel, current, cut>>

(* A new LevelView for l replaces whatever is shown.                       *)
ShowLevel(l) ==
  /\ screen' = "play"
  /\ playing' = l
  /\ beatLevel' = FALSE
  /\ UNCHANGED pressable

PressLevel(l) ==
  /\ Idle /\ screen = "select"
  /\ l \in pressable
  /\ ShowLevel(l)
  /\ UNCHANGED <<files, disk, misread, pc, allLevels, progress, current, cut>>

(* Home, on the level or on the overlay shown once it is beaten.           *)
PressMenu ==
  /\ Idle /\ screen = "play"
  /\ ShowCampaign
  /\ UNCHANGED <<files, disk, misread, pc, allLevels, progress, current, cut>>

(* Next, on the overlay; nothing happens when there is no next level.      *)
PressNextLevel ==
  /\ Idle /\ screen = "play" /\ beatLevel
  /\ LET next == GetLevelFromLevelNumber(number[playing] + 1)
     IN  next # NoLevel /\ ShowLevel(next)
  /\ UNCHANGED <<files, disk, misread, pc, allLevels, progress, current, cut>>

(* didBeatLevel up to the first write: the entry replaces any earlier one. *)
RecordCompletion(l) ==
  /\ progress' = SetProgressForUUID(progress, Completed(l))
  /\ current' = l
  /\ pc' = "save"

BeatLevel ==
  /\ Idle /\ screen = "play" /\ ~beatLevel
  /\ beatLevel' = TRUE
  /\ RecordCompletion(playing)
  /\ UNCHANGED <<files, disk, misread, allLevels, screen, pressable, playing,
                 cut>>

(* A level outside the campaign is beaten: played from the list of public  *)
(* levels or from the editor, or merely previewed in a tile of that list.  *)
BeatUserLevel(u) ==
  /\ Idle
  /\ RecordCompletion(u)
  /\ UNCHANGED <<files, disk, misread, allLevels, view, cut>>

(* Variants: an existing file is not overwritten; a failed write leaves no *)
(* file, as without the atomic option.                                     *)
SaveProgress_NoOverwrite ==
  /\ IF disk = NoFile THEN disk' = progress ELSE UNCHANGED disk
  /\ misread' = FALSE

SaveProgress_NotAtomic ==
  \/ disk' = progress /\ misread' = FALSE
  \/ "save" \in Faults /\ disk' = NoFile /\ misread' = FALSE

(* saveProgress: an atomic write, whose failure is caught and forgotten.   *)
SaveProgress ==
  \/ disk' = progress /\ misread' = FALSE
  \/ "save" \in Faults /\ UNCHANGED <<disk, misread>>

SaveCompletion ==
  /\ pc = "save"
  /\ SaveProgress
  /\ pc' = IF current \in Levels THEN "unlock" ELSE "saveLast"
  /\ UNCHANGED <<files, allLevels, progress, view, current, cut>>

(* A variant whose new entry is still locked.                              *)
UnlockNext_StaysLocked ==
  /\ pc = "unlock"
  /\ LET next == GetLevelFromLevelNumber(number[current] + 1)
     IN  progress' = IF next = NoLevel THEN progress
                     ELSE SetProgressForUUID(progress, Locked(next))
  /\ pc' = "saveNext"
  /\ UNCHANGED <<files, disk, misread, allLevels, view, current, cut>>

(* completedCampaignLevel: a blank entry unlocks the next level, whatever  *)
(* entry that level had.                                                   *)
UnlockNext ==
  /\ pc = "unlock"
  /\ LET next == GetLevelFromLevelNumber(number[current] + 1)
     IN  \/ /\ next # NoLevel
            /\ progress' = SetProgressForUUID(progress, Blank(next))
            /\ pc' = "saveNext"
         \/ /\ next = NoLevel
            /\ pc' = "saveLast"
            /\ UNCHANGED progress
  /\ UNCHANGED <<files, disk, misread, allLevels, view, current, cut>>

SaveUnlock ==
  /\ pc = "saveNext"
  /\ SaveProgress
  /\ pc' = "saveLast"
  /\ UNCHANGED <<files, allLevels, progress, view, current, cut>>

SaveLast ==
  /\ pc = "saveLast"
  /\ SaveProgress
  /\ pc' = "idle"
  /\ current' = NoLevel
  /\ cut' = cut \ {current}
  /\ UNCHANGED <<files, allLevels, progress, view>>

(* The process ends.  Between events that is the player's doing.           *)
Kill ==
  /\ Idle \/ (pc # "down" /\ "kill" \in Faults)
  /\ pc' = "down"
  /\ allLevels' = <<>>
  /\ progress' = <<>>
  /\ screen' = "other"
  /\ pressable' = {}
  /\ playing' = NoLevel
  /\ beatLevel' = FALSE
  /\ current' = NoLevel
  /\ misread' = FALSE
  /\ cut' = IF pc \in {"unlock", "saveNext"} THEN cut \cup {current} ELSE cut
  /\ UNCHANGED <<files, disk>>

UpdateApp ==
  /\ pc = "down" /\ "update" \in Faults
  /\ bundle' \in SUBSET Levels
  /\ UNCHANGED <<documents, disk, misread, pc, allLevels, progress, view,
                 current, cut>>

Completion == SaveCompletion \/ UnlockNext \/ SaveUnlock \/ SaveLast

Next ==
  \/ ViewDidLoad
  \/ PressCampaign
  \/ PressBack
  \/ \E l \in Levels : PressLevel(l)
  \/ PressMenu
  \/ PressNextLevel
  \/ BeatLevel
  \/ \E u \in UserLevels : BeatUserLevel(u)
  \/ SaveCompletion
  \/ UnlockNext
  \/ SaveUnlock
  \/ SaveLast
  \/ Kill
  \/ UpdateApp

Spec == Init /\ [][Next]_vars

(* A handler, once entered, runs to its end unless the process ends.       *)
FairSpec == Spec /\ WF_vars(Completion)
-----------------------------------------------------------------------------
(* Properties *)

Running == pc # "down"

DiskEntries == IF disk = NoFile THEN <<>> ELSE disk

TypeOK ==
  /\ bundle \in SUBSET Levels
  /\ documents \in SUBSET Levels
  /\ disk \in Seq(Entry) \cup {NoFile}
  /\ pc \in {"down", "idle", "save", "unlock", "saveNext", "saveLast"}
  /\ allLevels \in Seq(Levels)
  /\ progress \in Seq(Entry)
  /\ screen \in {"select", "play", "other"}
  /\ pressable \in SUBSET Levels
  /\ playing \in Levels \cup {NoLevel}
  /\ beatLevel \in BOOLEAN
  /\ current \in Uuids \cup {NoLevel}
  /\ misread \in BOOLEAN
  /\ cut \in SUBSET Levels

(* No level ever has two entries, in memory or on disk: every reader takes *)
(* the first match, so a second entry would be progress nobody sees.       *)
UniqueIn(p) == \A i, j \in 1 .. Len(p) : p[i].uuid = p[j].uuid => i = j

UniqueUUIDs == UniqueIn(progress) /\ UniqueIn(DiskEntries)

(* A campaign level gets an entry only after the level before it: whatever *)
(* is unlocked was reached level by level from the starting level, which   *)
(* is the first entry of the list; with another level there, there is no   *)
(* campaign entry at all.                                                  *)
Follows(m, l) == number[l] = number[m] + 1

CampaignEntry(p, i) == p[i].uuid \in Levels

ReachedInOrder(p) ==
  \A i \in 1 .. Len(p) : CampaignEntry(p, i) =>
     /\ CampaignEntry(p, 1)
     /\ i = 1 \/ \E j \in 1 .. i - 1 :
                    CampaignEntry(p, j) /\ Follows(p[j].uuid, p[i].uuid)

ContiguousUnlock == ReachedInOrder(progress) /\ ReachedInOrder(DiskEntries)

(* The file never runs ahead of memory and never diverges from it: while   *)
(* the app runs, the levels on disk are the first ones in memory, in the   *)
(* same order, however many writes failed or were cut off; a file that     *)
(* could not be read is ignored until it is written over.                  *)
DiskIsPrefix ==
  (Running /\ ~misread) =>
     /\ Len(DiskEntries) <= Len(progress)
     /\ \A i \in 1 .. Len(DiskEntries) : DiskEntries[i].uuid = progress[i].uuid

(* A locked level is never played, although a tile decides by the entry it *)
(* captured when the screen was last built and "next" does not look at     *)
(* locks at all; and a level being played is one of the loaded levels, so  *)
(* that completing it never force-unwraps nil.                             *)
PlayedIsUnlocked ==
  \A l \in {playing} \ {NoLevel} :
     /\ ~GetCurrentProgressForUUID(progress, l).locked
     /\ l \in ToSet(allLevels)

(* Whatever the process was killed in, and whether or not the file could   *)
(* be read, whenever the main thread is idle every completed level has its *)
(* successor unlocked, but for those between whose two writes the process  *)
(* ended, until they are completed again.                                  *)
NextIsUnlocked(l) ==
  (\E m \in ToSet(allLevels) : Follows(l, m)) =>
     \E i \in 1 .. Len(progress) :
        /\ CampaignEntry(progress, i)
        /\ Follows(l, progress[i].uuid)
        /\ ~progress[i].locked

CompletedUnlocksNext ==
  (Faults \subseteq {"kill", "read"} /\ Idle) =>
     \A l \in Levels \ cut :
        GetCurrentProgressForUUID(progress, l).completed => NextIsUnlocked(l)

(* Replaying repairs: whatever a kill, a failed write or an update left    *)
(* behind, when a completion returns the successor is unlocked in memory.  *)
CompletionRepairs ==
  [][\A l \in Levels :
        (pc = "saveLast" /\ current = l /\ Idle') => NextIsUnlocked(l)']_vars

(* Between events, memory and file agree when no write fails, unless       *)
(* nothing was recorded yet since memory started afresh: without a file,   *)
(* or with one that could not be read.                                     *)
SavedWhenIdle ==
  (Idle /\ "save" \notin Faults) =>
     \/ disk = progress
     \/ /\ disk = NoFile \/ misread
        /\ progress = FreshProgress(allLevels)

(* A level unlocked on disk stays unlocked on disk, over kills, failed     *)
(* writes, replays and updates; only a save of progress that was started   *)
(* without reading the file loses levels.                                  *)
UnlockedOnDisk ==
  {l \in Levels : \E i \in 1 .. Len(DiskEntries) :
                     DiskEntries[i].uuid = l /\ ~DiskEntries[i].locked}

UnlockedForever ==
  [][misread \/ UnlockedOnDisk \subseteq UnlockedOnDisk']_vars

(* The file implements the durable promise of UnlockLedger.                *)
Ledger == INSTANCE UnlockLedger WITH unlocked <- UnlockedOnDisk,
                                     unread <- misread

ImplementsLedger == Ledger!Spec

(* A beaten level reaches the file as completed, unless the process ends.  *)
CompletionIsSaved ==
  \A l \in Uuids :
     (pc = "save" /\ current = l) ~>
        \/ pc = "down"
        \/ GetCurrentProgressForUUID(DiskEntries, l).completed

(* CampaignHandler.swift:128, "TODO only replace if stats are better": an  *)
(* entry of a completed level is never replaced by one with worse results, *)
(* which the TODO asks for and the code does not do.                       *)
OnlyReplaceIfBetter ==
  [][\A i \in 1 .. Len(progress) :
        (Running' /\ progress[i].completed) => progress'[i].completed]_vars
=============================================================================
