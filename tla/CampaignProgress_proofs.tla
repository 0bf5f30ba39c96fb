----------------------- MODULE CampaignProgress_proofs -----------------------
(***************************************************************************)
(* Proofs about CampaignProgress, for any campaign, any numbering of its   *)
(* levels and any set of faults.                                           *)
(***************************************************************************)
EXTENDS CampaignProgress, SequenceTheorems, FiniteSetTheorems,
        WellFoundedInduction, TLAPS

-----------------------------------------------------------------------------
(* The helpers on sequences *)

(* Min of a nonempty set of naturals is its least element.                 *)
LEMMA MinIsLeast ==
  ASSUME NEW I, I \subseteq Nat, I # {}
  PROVE  Min(I) \in I /\ \A y \in I : Min(I) <= y
<1>1. PICK x \in I : \A y \in I : ~(<<y, x>> \in OpToRel(<, Nat))
  BY NatLessThanWellFounded, WFMin
<1>2. \A y \in I : x <= y
  <2>1. TAKE y \in I
  <2>2. ~(<<y, x>> \in OpToRel(<, Nat))
    BY <1>1
  <2>3. ~(y < x)
    BY <2>2 DEF OpToRel
  <2>4. QED
    BY <2>3
<1>3. QED
  BY <1>2 DEF Min

(* The index of an entry that exists is an index of such an entry.         *)
LEMMA EntryIndexCorrect ==
  ASSUME NEW p \in Seq(Entry), NEW u, HasEntry(p, u)
  PROVE  EntryIndex(p, u) \in 1 .. Len(p) /\ p[EntryIndex(p, u)].uuid = u
<1> DEFINE I == {i \in 1 .. Len(p) : p[i].uuid = u}
<1>1. I # {} /\ I \subseteq Nat
  BY DEF HasEntry
<1>2. EntryIndex(p, u) = Min(I)
  BY <1>1 DEF EntryIndex, SelectInSeq
<1>3. QED
  BY <1>1, <1>2, MinIsLeast

(* setProgressForUUID puts the new entry at one index k, where any earlier *)
(* entry of that uuid was, and leaves every other entry in its place.      *)
LEMMA SetProgressShape ==
  ASSUME NEW p \in Seq(Entry), NEW e \in Entry
  PROVE  LET q == SetProgressForUUID(p, e)
         IN  /\ q \in Seq(Entry)
             /\ Len(q) \in {Len(p), Len(p) + 1}
             /\ Len(p) <= Len(q)
             /\ \E k \in 1 .. Len(q) :
                   /\ q[k] = e
                   /\ k \in 1 .. Len(p) => p[k].uuid = e.uuid
                   /\ k \notin 1 .. Len(p) =>
                         k = Len(p) + 1 /\ ~HasEntry(p, e.uuid)
                   /\ \A i \in 1 .. Len(q) : i # k =>
                         i \in 1 .. Len(p) /\ q[i] = p[i]
<1> DEFINE q == SetProgressForUUID(p, e)
<1>1. CASE HasEntry(p, e.uuid)
  <2> DEFINE k == EntryIndex(p, e.uuid)
  <2>1. k \in 1 .. Len(p) /\ p[k].uuid = e.uuid
    BY <1>1, EntryIndexCorrect
  <2>2. q = [p EXCEPT ![k] = e]
    BY <1>1 DEF SetProgressForUUID
  <2>3. q \in Seq(Entry) /\ Len(q) = Len(p) /\ q[k] = e
    BY <2>1, <2>2
  <2>4. \A i \in 1 .. Len(q) : i # k => q[i] = p[i]
    BY <2>1, <2>2, <2>3
  <2>5. QED
    BY <2>1, <2>3, <2>4
<1>2. CASE ~HasEntry(p, e.uuid)
  <2>1. q = Append(p, e)
    BY <1>2 DEF SetProgressForUUID
  <2>2. /\ q \in Seq(Entry)
        /\ Len(q) = Len(p) + 1
        /\ q[Len(p) + 1] = e
        /\ \A i \in 1 .. Len(p) : q[i] = p[i]
    BY <2>1, AppendProperties
  <2>3. Len(p) \in Nat
    BY LenProperties
  <2>4. QED
    BY <1>2, <2>2, <2>3
<1>3. QED
  BY <1>1, <1>2

(* It keeps the uuid at every index there was, so lists only grow at the   *)
(* end, and no uuid gets a second entry.                                   *)
LEMMA SetProgressKeepsUuids ==
  ASSUME NEW p \in Seq(Entry), NEW e \in Entry
  PROVE  LET q == SetProgressForUUID(p, e)
         IN  /\ \A i \in 1 .. Len(p) : q[i].uuid = p[i].uuid
             /\ UniqueIn(p) => UniqueIn(q)
             /\ HasEntry(q, e.uuid)
             /\ \A u : HasEntry(p, u) => HasEntry(q, u)
<1> DEFINE q == SetProgressForUUID(p, e)
<1>0. Len(p) \in Nat /\ Len(q) \in Nat
  BY SetProgressShape, LenProperties
<1>1. PICK k \in 1 .. Len(q) :
         /\ q[k] = e
         /\ k \in 1 .. Len(p) => p[k].uuid = e.uuid
         /\ k \notin 1 .. Len(p) => k = Len(p) + 1 /\ ~HasEntry(p, e.uuid)
         /\ \A i \in 1 .. Len(q) : i # k => i \in 1 .. Len(p) /\ q[i] = p[i]
  BY SetProgressShape
<1>2. Len(p) <= Len(q) /\ Len(q) <= Len(p) + 1
  BY <1>0, SetProgressShape
<1>3. \A i \in 1 .. Len(p) : i \in 1 .. Len(q) /\ q[i].uuid = p[i].uuid
  BY <1>0, <1>1, <1>2
<1>4. UniqueIn(p) => UniqueIn(q)
  <2> SUFFICES ASSUME UniqueIn(p), NEW i \in 1 .. Len(q), NEW j \in 1 .. Len(q),
                      q[i].uuid = q[j].uuid
               PROVE  i = j
    BY DEF UniqueIn
  <2>1. CASE k \in 1 .. Len(p)
    BY <2>1, <1>0, <1>1, <1>3 DEF UniqueIn
  <2>2. CASE k \notin 1 .. Len(p)
    BY <2>2, <1>0, <1>1, <1>3 DEF UniqueIn, HasEntry
  <2>3. QED
    BY <2>1, <2>2
<1>5. HasEntry(q, e.uuid) /\ \A u : HasEntry(p, u) => HasEntry(q, u)
  BY <1>1, <1>3 DEF HasEntry
<1>6. QED
  BY <1>3, <1>4, <1>5

(* An entry for a level that already has one, for a user level, or for the *)
(* successor of a campaign level on the list keeps the order of unlocking. *)
LEMMA SetProgressKeepsOrder ==
  ASSUME NEW p \in Seq(Entry), NEW e \in Entry, ReachedInOrder(p),
         e.uuid \in Levels =>
            \/ HasEntry(p, e.uuid)
            \/ \E m \in Levels : HasEntry(p, m) /\ Follows(m, e.uuid)
  PROVE  ReachedInOrder(SetProgressForUUID(p, e))
<1> DEFINE q == SetProgressForUUID(p, e)
<1>0. Len(p) \in Nat /\ Len(q) \in Nat
  BY SetProgressShape, LenProperties
<1>1. PICK k \in 1 .. Len(q) :
         /\ q[k] = e
         /\ k \in 1 .. Len(p) => p[k].uuid = e.uuid
         /\ k \notin 1 .. Len(p) => k = Len(p) + 1 /\ ~HasEntry(p, e.uuid)
         /\ \A i \in 1 .. Len(q) : i # k => i \in 1 .. Len(p) /\ q[i] = p[i]
  BY SetProgressShape
<1>2. Len(p) <= Len(q) /\ Len(q) <= Len(p) + 1
  BY <1>0, SetProgressShape
<1>3. \A i \in 1 .. Len(p) :
         /\ i \in 1 .. Len(q)
         /\ q[i].uuid = p[i].uuid
         /\ CampaignEntry(q, i) <=> CampaignEntry(p, i)
  BY <1>0, <1>1, <1>2 DEF CampaignEntry
<1>4. SUFFICES ASSUME NEW i \in 1 .. Len(q), CampaignEntry(q, i)
               PROVE  /\ CampaignEntry(q, 1)
                      /\ i = 1 \/ \E j \in 1 .. i - 1 :
                           CampaignEntry(q, j) /\ Follows(q[j].uuid, q[i].uuid)
  BY DEF ReachedInOrder
<1>5. CASE i \in 1 .. Len(p)
  <2>1. CampaignEntry(p, i) /\ 1 \in 1 .. Len(p)
    BY <1>0, <1>3, <1>4, <1>5
  <2>2. CampaignEntry(p, 1)
    BY <2>1, <1>5 DEF ReachedInOrder
  <2>3. i = 1 \/ \E j \in 1 .. i - 1 :
                    CampaignEntry(p, j) /\ Follows(p[j].uuid, p[i].uuid)
    BY <2>1, <1>5 DEF ReachedInOrder
  <2>4. \A j \in 1 .. i - 1 : j \in 1 .. Len(p)
    BY <1>0, <1>5
  <2>5. QED
    BY <1>3, <1>5, <2>1, <2>2, <2>3, <2>4
<1>6. CASE i \notin 1 .. Len(p)
  <2>1. i = k /\ k = Len(p) + 1 /\ q[i] = e /\ e.uuid \in Levels
    BY <1>1, <1>4, <1>6 DEF CampaignEntry
  <2>2. PICK m \in Levels : HasEntry(p, m) /\ Follows(m, e.uuid)
    BY <1>1, <1>6, <2>1
  <2>3. PICK j \in 1 .. Len(p) : p[j].uuid = m
    BY <2>2 DEF HasEntry
  <2>4. CampaignEntry(p, j) /\ CampaignEntry(p, 1) /\ 1 \in 1 .. Len(p)
    BY <1>0, <2>2, <2>3 DEF CampaignEntry, ReachedInOrder
  <2>5. CampaignEntry(q, 1) /\ CampaignEntry(q, j) /\ q[j].uuid = m
    BY <1>3, <2>3, <2>4
  <2>6. j \in 1 .. i - 1
    BY <1>0, <2>1
  <2>7. QED
    BY <2>1, <2>2, <2>5, <2>6
<1>7. QED
  BY <1>5, <1>6

(* getLevelFromLevelNumber returns a loaded level of that number, and nil  *)
(* only when there is none.                                                *)
LEMMA LevelFound ==
  ASSUME allLevels \in Seq(Levels), NEW n
  PROVE  LET d == GetLevelFromLevelNumber(n)
         IN  \/ /\ d \in Levels /\ d # NoLevel
                /\ d \in ToSet(allLevels)
                /\ number[d] = n
             \/ /\ d = NoLevel
                /\ \A m \in ToSet(allLevels) : number[m] # n
<1> DEFINE I == {i \in 1 .. Len(allLevels) : number[allLevels[i]] = n}
           d == GetLevelFromLevelNumber(n)
<1>1. CASE I = {}
  <2>1. LevelIndex(n) = 0
    BY <1>1 DEF LevelIndex, SelectInSeq
  <2>2. d = NoLevel
    BY <2>1 DEF GetLevelFromLevelNumber
  <2>3. QED
    BY <1>1, <2>2 DEF ToSet
<1>2. CASE I # {}
  <2>1. LevelIndex(n) = Min(I)
    BY <1>2 DEF LevelIndex, SelectInSeq
  <2>0. I \subseteq Nat
    OBVIOUS
  <2>2. LevelIndex(n) \in I
    BY ONLY <1>2, <2>0, <2>1, MinIsLeast
  <2>3. d = allLevels[LevelIndex(n)]
    BY <2>2 DEF GetLevelFromLevelNumber
  <2>4. LevelIndex(n) \in DOMAIN allLevels
    BY <2>2
  <2>5. d \in Levels /\ d \in ToSet(allLevels) /\ number[d] = n
    BY <2>2, <2>3, <2>4 DEF ToSet
  <2>6. QED
    BY <2>5, ConstantsAssumption DEF Uuids
<1>3. QED
  BY <1>1, <1>2

(* A tile that forwards a press shows a loaded level that has an entry.    *)
LEMMA TilesHaveEntries ==
  ASSUME NEW levels, NEW p, NEW l \in UpdateLevels(levels, p)
  PROVE  l \in ToSet(levels) /\ HasEntry(p, l)
BY DEF UpdateLevels, GetCurrentProgressForUUID, Locked

-----------------------------------------------------------------------------
(* The inductive invariant *)

NoneLocked(p) == \A i \in 1 .. Len(p) : ~p[i].locked

ListOK(p) == UniqueIn(p) /\ ReachedInOrder(p) /\ NoneLocked(p)

(* Once a completion has done its unlocking, the next level has an entry.  *)
NextReached(l) ==
  LET next == GetLevelFromLevelNumber(number[l] + 1)
  IN  next # NoLevel => HasEntry(progress, next)

Loaded(l) == l \in ToSet(allLevels) /\ HasEntry(progress, l)

(* What can be pressed or is played was reached; a beaten level that "next"*)
(* may leave has its successor reached, unless it is being recorded now.   *)
ViewsOK ==
  /\ \A l \in pressable : Loaded(l)
  /\ playing # NoLevel => Loaded(playing)
  /\ screen = "play" => playing # NoLevel
  /\ pc = "down" => screen = "other" /\ playing = NoLevel
  /\ (screen = "play" /\ beatLevel) =>
        \/ pc \in {"save", "unlock"} /\ current = playing
        \/ NextReached(playing)

CompletionOK ==
  /\ pc \notin {"down", "idle"} =>
        /\ current # NoLevel
        /\ HasEntry(progress, current)
        /\ current \in Levels => current \in ToSet(allLevels)
  /\ pc \in {"unlock", "saveNext"} => current \in Levels
  /\ (pc \in {"saveNext", "saveLast"} /\ current \in Levels) =>
        NextReached(current)

IInv ==
  /\ TypeOK
  /\ ListOK(progress)
  /\ ListOK(DiskEntries)
  /\ DiskIsPrefix
  /\ disk # <<>>
  /\ ViewsOK
  /\ CompletionOK

(* The empty list satisfies everything asked of a list.                    *)
LEMMA EmptyListOK == <<>> \in Seq(Entry) /\ ListOK(<<>>)
BY DEF ListOK, UniqueIn, ReachedInOrder, NoneLocked

(* What setting one entry does to a list that is in order.                 *)
LEMMA SetProgressOK ==
  ASSUME NEW p \in Seq(Entry), NEW e \in Entry, ListOK(p), ~e.locked,
         e.uuid \in Levels =>
            \/ HasEntry(p, e.uuid)
            \/ \E m \in Levels : HasEntry(p, m) /\ Follows(m, e.uuid)
  PROVE  ListOK(SetProgressForUUID(p, e))
<1> DEFINE q == SetProgressForUUID(p, e)
<1>1. UniqueIn(q) /\ ReachedInOrder(q)
  BY SetProgressKeepsUuids, SetProgressKeepsOrder DEF ListOK
<1>2. NoneLocked(q)
  <2>1. PICK k \in 1 .. Len(q) :
           /\ q[k] = e
           /\ \A i \in 1 .. Len(q) : i # k => i \in 1 .. Len(p) /\ q[i] = p[i]
    BY SetProgressShape
  <2>2. \A i \in 1 .. Len(p) : ~p[i].locked
    BY DEF ListOK, NoneLocked
  <2>3. QED
    BY <2>1, <2>2 DEF NoneLocked
<1>3. QED
  BY <1>1, <1>2 DEF ListOK

(* Before the first launch the invariant holds: there is no list at all.   *)
LEMMA InitInvariant == Init => IInv
<1> SUFFICES ASSUME Init PROVE IInv
  OBVIOUS
<1>1. TypeOK
  <2>1. <<>> \in Seq(Levels) /\ <<>> \in Seq(Entry)
    OBVIOUS
  <2>2. QED
    BY <2>1 DEF Init, TypeOK
<1>2. DiskEntries = <<>>
  BY DEF Init, DiskEntries
<1>3. disk # <<>>
  <2>1. <<>> \in Seq(Entry)
    BY EmptyListOK
  <2>2. QED
    BY <2>1, ConstantsAssumption DEF Init
<1>4. QED
  BY <1>1, <1>2, <1>3, EmptyListOK
     DEF Init, IInv, DiskIsPrefix, Running, ViewsOK, CompletionOK

-----------------------------------------------------------------------------
(* What the steps of launching and recording produce *)

(* A directory listing is a sequence of campaign levels.                   *)
LEMMA ListingsAreLevels ==
  ASSUME NEW S \in SUBSET Levels, NEW s \in DirectoryListings(S)
  PROVE  s \in Seq(Levels) /\ ToSet(s) = S
<1>1. Cardinality(S) \in Nat
  BY ConstantsAssumption, FS_Subset, FS_CardinalityType
<1>2. s \in [1 .. Cardinality(S) -> S] /\ ToSet(s) = S
  BY DEF DirectoryListings
<1>3. s \in Seq(S)
  BY <1>1, <1>2, IsASeq
<1>4. QED
  BY <1>2, <1>3, SeqMonotonic

(* Starting data is a list in order.                                       *)
LEMMA FreshProgressOK ==
  ASSUME NEW levels \in Seq(Levels)
  PROVE  FreshProgress(levels) \in Seq(Entry) /\ ListOK(FreshProgress(levels))
<1> DEFINE p == FreshProgress(levels)
<1>1. CASE levels = <<>>
  <2>1. p = <<>>
    BY <1>1 DEF FreshProgress
  <2>2. QED
    BY <2>1, EmptyListOK
<1>2. CASE levels # <<>>
  <2>1. p = <<Blank(levels[1])>>
    BY <1>2 DEF FreshProgress
  <2>2. levels[1] \in Levels
    BY <1>2
  <2>3. Blank(levels[1]) \in Entry /\ ~Blank(levels[1]).locked
    BY <2>2 DEF Blank, Entry, Uuids
  <2>4. p \in Seq(Entry) /\ Len(p) = 1 /\ p[1] = Blank(levels[1])
    BY <2>1, <2>3
  <2>5. p[1].uuid \in Levels
    BY <2>2, <2>4 DEF Blank
  <2>6. ListOK(p)
    BY <2>3, <2>4, <2>5
       DEF ListOK, UniqueIn, ReachedInOrder, NoneLocked, CampaignEntry
  <2>7. QED
    BY <2>4, <2>6
<1>3. QED
  BY <1>1, <1>2

(* What is loaded is a list in order; it starts with what is on disk,      *)
(* unless there is a file that was not read.                               *)
LEMMA LoadedProgressOK ==
  ASSUME NEW levels \in Seq(Levels), disk \in Seq(Entry) \cup {NoFile},
         ListOK(DiskEntries), LoadProgress(levels)
  PROVE  /\ progress' \in Seq(Entry)
         /\ ListOK(progress')
         /\ misread' \in BOOLEAN
         /\ ~misread' =>
               /\ Len(DiskEntries) <= Len(progress')
               /\ \A i \in 1 .. Len(DiskEntries) :
                     DiskEntries[i].uuid = progress'[i].uuid
<1>1. CASE disk # NoFile /\ progress' = disk /\ misread' = FALSE
  <2>1. DiskEntries = disk /\ disk \in Seq(Entry)
    BY <1>1 DEF DiskEntries
  <2>2. Len(disk) \in Nat
    BY <2>1, LenProperties
  <2>3. progress' = disk /\ misread' \in BOOLEAN
    BY <1>1
  <2>4. ListOK(disk)
    BY <2>1
  <2>5. ListOK(progress')
    BY <2>3, <2>4
  <2>6. QED
    BY <2>1, <2>2, <2>3, <2>5
<1>2. CASE progress' = FreshProgress(levels) /\ misread' = (disk # NoFile)
  <2>1. progress' \in Seq(Entry) /\ ListOK(progress')
    BY <1>2, FreshProgressOK
  <2>2. ~misread' => DiskEntries = <<>>
    BY <1>2 DEF DiskEntries
  <2>3. Len(progress') \in Nat
    BY <2>1, LenProperties
  <2>4. QED
    BY <1>2, <2>1, <2>2, <2>3
<1>3. QED
  BY <1>1, <1>2 DEF LoadProgress

(* An entry looked up for a level on a list in order is not locked.        *)
LEMMA ReachedIsUnlocked ==
  ASSUME NEW p \in Seq(Entry), NEW u, ListOK(p), HasEntry(p, u)
  PROVE  ~GetCurrentProgressForUUID(p, u).locked
BY EntryIndexCorrect DEF ListOK, NoneLocked, GetCurrentProgressForUUID

-----------------------------------------------------------------------------
(* Every step keeps the inductive invariant *)

(* While the loaded levels stay, so does what is found among them.         *)
LEMMA SameLevels ==
  ASSUME UNCHANGED allLevels
  PROVE  \A n : GetLevelFromLevelNumber(n)' = GetLevelFromLevelNumber(n)
<1>1. \A n : LevelIndex(n)' = LevelIndex(n)
  BY DEF LevelIndex, SelectInSeq
<1>2. QED
  BY <1>1 DEF GetLevelFromLevelNumber

(* Steps that only change screens keep all that is not about screens.      *)
LEMMA ScreenStep ==
  ASSUME IInv,
         UNCHANGED <<files, disk, misread, pc, allLevels, progress, current>>
  PROVE  /\ ListOK(progress)' /\ ListOK(DiskEntries)' /\ DiskIsPrefix'
         /\ (disk # <<>>)' /\ CompletionOK'
         /\ \A l : Loaded(l)' <=> Loaded(l)
         /\ \A l : NextReached(l)' <=> NextReached(l)
<1>1. DiskEntries' = DiskEntries /\ (Running' <=> Running)
  BY DEF DiskEntries, Running
<1>2. \A n : GetLevelFromLevelNumber(n)' = GetLevelFromLevelNumber(n)
  BY SameLevels
<1>3. \A l : NextReached(l)' <=> NextReached(l)
  BY <1>2 DEF NextReached
<1>4. \A l : Loaded(l)' <=> Loaded(l)
  BY DEF Loaded
<1>5. CompletionOK'
  BY <1>3 DEF IInv, CompletionOK
<1>6. QED
  BY <1>1, <1>3, <1>4, <1>5 DEF IInv, DiskIsPrefix

(* Returning to the campaign screen rebuilds its tiles from memory.        *)
LEMMA ShowCampaignStep ==
  ASSUME IInv, Idle, ShowCampaign,
         UNCHANGED <<files, disk, misread, pc, allLevels, progress, current, cut>>
  PROVE  IInv'
<1>1. \A l \in pressable' : Loaded(l)
  BY TilesHaveEntries DEF ShowCampaign, Loaded
<1>2. TypeOK'
  <2>1. \A l \in ToSet(allLevels) : l \in Levels
    BY DEF IInv, TypeOK, ToSet
  <2>2. pressable' \in SUBSET Levels
    BY <2>1 DEF ShowCampaign, UpdateLevels
  <2>3. QED
    BY <2>2 DEF IInv, TypeOK, ShowCampaign, files
<1>3. ViewsOK'
  BY <1>1, ScreenStep DEF ShowCampaign, ViewsOK, Idle
<1>4. QED
  BY <1>2, <1>3, ScreenStep DEF IInv

(* Showing a loaded level that has an entry keeps the invariant.           *)
LEMMA ShowLevelStep ==
  ASSUME IInv, Idle, NEW l \in Levels, Loaded(l), ShowLevel(l),
         UNCHANGED <<files, disk, misread, pc, allLevels, progress, current, cut>>
  PROVE  IInv'
<1>1. TypeOK'
  BY DEF IInv, TypeOK, ShowLevel, files
<1>2. l # NoLevel
  BY ConstantsAssumption DEF Uuids
<1>3. ViewsOK'
  BY <1>2, ScreenStep DEF IInv, ViewsOK, ShowLevel, Idle
<1>4. QED
  BY <1>1, <1>3, ScreenStep DEF IInv

(* A write of the file, done or failed, keeps the file a prefix.           *)
LEMMA SaveStep ==
  ASSUME IInv, SaveProgress, progress # <<>>,
         UNCHANGED <<files, allLevels, progress, view>>, Running, Running'
  PROVE  /\ disk' \in Seq(Entry) \cup {NoFile}
         /\ misread' \in BOOLEAN
         /\ ListOK(progress)' /\ ListOK(DiskEntries)' /\ DiskIsPrefix'
         /\ (disk # <<>>)'
         /\ \A l : Loaded(l)' <=> Loaded(l)
         /\ \A l : NextReached(l)' <=> NextReached(l)
<1>1. \A l : NextReached(l)' <=> NextReached(l)
  <2>1. \A n : GetLevelFromLevelNumber(n)' = GetLevelFromLevelNumber(n)
    BY SameLevels
  <2>2. QED
    BY <2>1 DEF NextReached
<1>2. \A l : Loaded(l)' <=> Loaded(l)
  BY DEF Loaded
<1>3. CASE disk' = progress /\ misread' = FALSE
  <2>1. progress \in Seq(Entry) /\ progress # NoFile
    BY ConstantsAssumption DEF IInv, TypeOK
  <2>2. DiskEntries' = progress /\ progress' = progress
    BY <1>3, <2>1 DEF DiskEntries
  <2>3. ListOK(DiskEntries)' /\ ListOK(progress)'
    BY <2>2 DEF IInv
  <2>4. DiskIsPrefix'
    <3>1. Len(progress) \in Nat
      BY <2>1, LenProperties
    <3>2. QED
      BY <2>2, <3>1 DEF DiskIsPrefix
  <2>5. QED
    BY <1>1, <1>2, <1>3, <2>1, <2>3, <2>4
<1>4. CASE UNCHANGED <<disk, misread>>
  <2>1. DiskEntries' = DiskEntries /\ progress' = progress
    BY <1>4 DEF DiskEntries
  <2>2. QED
    BY <1>1, <1>2, <1>4, <2>1 DEF IInv, TypeOK, DiskIsPrefix
<1>5. QED
  BY <1>3, <1>4 DEF SaveProgress

(* Setting one allowed entry in memory, at the start or middle of a        *)
(* completion.                                                             *)
LEMMA MemoryStep ==
  ASSUME IInv, Running, NEW e \in Entry, ~e.locked,
         e.uuid \in Levels =>
            \/ HasEntry(progress, e.uuid)
            \/ \E m \in Levels : HasEntry(progress, m) /\ Follows(m, e.uuid),
         progress' = SetProgressForUUID(progress, e),
         UNCHANGED <<files, disk, misread, allLevels>>
  PROVE  /\ progress' \in Seq(Entry)
         /\ ListOK(progress)' /\ ListOK(DiskEntries)' /\ DiskIsPrefix'
         /\ HasEntry(progress', e.uuid)
         /\ \A l : Loaded(l) => Loaded(l)'
         /\ \A l : NextReached(l) => NextReached(l)'
<1>1. progress \in Seq(Entry) /\ ListOK(progress)
  BY DEF IInv, TypeOK
<1>2. progress' \in Seq(Entry) /\ Len(progress) <= Len(progress')
  BY <1>1, SetProgressShape
<1>3. ListOK(progress)'
  BY <1>1, SetProgressOK
<1>4. DiskEntries' = DiskEntries
  BY DEF DiskEntries
<1>5. /\ \A i \in 1 .. Len(progress) : progress'[i].uuid = progress[i].uuid
      /\ HasEntry(progress', e.uuid)
      /\ \A u : HasEntry(progress, u) => HasEntry(progress', u)
  BY <1>1, SetProgressKeepsUuids
<1>6. DiskIsPrefix'
  <2>1. DiskEntries \in Seq(Entry)
    BY DEF IInv, TypeOK, DiskEntries
  <2>2. Len(DiskEntries) \in Nat /\ Len(progress) \in Nat /\ Len(progress') \in Nat
    BY <1>1, <1>2, <2>1, LenProperties
  <2>3. ~misread =>
           /\ Len(DiskEntries) <= Len(progress)
           /\ \A i \in 1 .. Len(DiskEntries) : DiskEntries[i].uuid = progress[i].uuid
    BY DEF IInv, DiskIsPrefix
  <2>4. QED
    BY <1>2, <1>4, <1>5, <2>2, <2>3 DEF DiskIsPrefix
<1>7. \A l : Loaded(l) => Loaded(l)'
  BY <1>5 DEF Loaded
<1>8. \A l : NextReached(l) => NextReached(l)'
  <2>1. \A n : GetLevelFromLevelNumber(n)' = GetLevelFromLevelNumber(n)
    BY SameLevels
  <2>2. QED
    BY <1>5, <2>1 DEF NextReached
<1>9. QED
  BY <1>2, <1>3, <1>4, <1>5, <1>6, <1>7, <1>8 DEF IInv

(* Each handler of the app, and each fault, keeps the invariant.           *)
LEMMA StepInvariant == IInv /\ [Next]_vars => IInv'
<1> SUFFICES ASSUME IInv, [Next]_vars PROVE IInv'
  OBVIOUS
<1>0. NoLevel \notin Levels /\ NoLevel \notin UserLevels
  BY ConstantsAssumption DEF Uuids
<1>1. CASE ViewDidLoad
  <2>1. documents' \in SUBSET Levels
    BY <1>1 DEF ViewDidLoad, CopyOutcomes, IInv, TypeOK
  <2>2. PICK readable \in SUBSET Levels : allLevels' \in DirectoryListings(readable)
    BY <1>1, <2>1 DEF ViewDidLoad, ReadableSubsets
  <2>3. allLevels' \in Seq(Levels)
    BY <2>2, ListingsAreLevels
  <2>4. /\ progress' \in Seq(Entry) /\ ListOK(progress)' /\ misread' \in BOOLEAN
        /\ ~misread' =>
              /\ Len(DiskEntries) <= Len(progress')
              /\ \A i \in 1 .. Len(DiskEntries) :
                    DiskEntries[i].uuid = progress'[i].uuid
    BY <1>1, <2>3, LoadedProgressOK DEF ViewDidLoad, IInv, TypeOK
  <2>5. DiskEntries' = DiskEntries
    BY <1>1 DEF ViewDidLoad, DiskEntries
  <2>6. \A l \in pressable' : Loaded(l)'
    BY <1>1, TilesHaveEntries DEF ViewDidLoad, Loaded
  <2>7. pressable' \in SUBSET Levels
    <3>1. \A l \in ToSet(allLevels') : l \in Levels
      BY <2>3 DEF ToSet
    <3>2. QED
      BY <1>1, <3>1 DEF ViewDidLoad, UpdateLevels
  <2>8. TypeOK'
    BY <1>1, <2>1, <2>3, <2>4, <2>7 DEF ViewDidLoad, IInv, TypeOK
  <2>9. screen' = "other" /\ playing' = NoLevel
    BY <1>1 DEF ViewDidLoad, IInv, ViewsOK
  <2>10. ViewsOK'
    BY <1>1, <2>6, <2>9 DEF ViewsOK, ViewDidLoad
  <2>11. CompletionOK' /\ (disk # <<>>)'
    BY <1>1 DEF ViewDidLoad, CompletionOK, IInv
  <2>12. QED
    BY <2>4, <2>5, <2>8, <2>10, <2>11 DEF IInv, DiskIsPrefix
<1>2. CASE PressCampaign
  BY <1>2, ShowCampaignStep DEF PressCampaign
<1>3. CASE PressBack
  <2>1. TypeOK'
    BY <1>3 DEF PressBack, IInv, TypeOK, files
  <2>3. ViewsOK'
    BY <1>3, ScreenStep DEF PressBack, IInv, ViewsOK, Idle
  <2>4. QED
    BY <1>3, <2>1, <2>3, ScreenStep DEF PressBack, IInv
<1>4. ASSUME NEW l \in Levels, PressLevel(l) PROVE IInv'
  <2>1. Loaded(l)
    BY <1>4 DEF PressLevel, IInv, ViewsOK
  <2>2. QED
    BY <1>4, <2>1, ShowLevelStep DEF PressLevel
<1>5. CASE PressMenu
  BY <1>5, ShowCampaignStep DEF PressMenu
<1>6. CASE PressNextLevel
  <2> DEFINE next == GetLevelFromLevelNumber(number[playing] + 1)
  <2>1. next # NoLevel /\ ShowLevel(next) /\ Idle
    BY <1>6 DEF PressNextLevel
  <2>2. next \in Levels /\ next \in ToSet(allLevels)
    BY <2>1, LevelFound DEF IInv, TypeOK
  <2>3. NextReached(playing)
    BY <1>6 DEF PressNextLevel, IInv, ViewsOK, Idle
  <2>4. Loaded(next)
    BY <2>1, <2>2, <2>3 DEF NextReached, Loaded
  <2>5. QED
    BY <1>6, <2>1, <2>2, <2>4, ShowLevelStep DEF PressNextLevel
<1>7. CASE BeatLevel
  <2>1. playing \in Levels /\ Loaded(playing)
    BY <1>7 DEF BeatLevel, IInv, ViewsOK, TypeOK
  <2>2. /\ Completed(playing) \in Entry
        /\ ~Completed(playing).locked
        /\ Completed(playing).uuid = playing
    BY <2>1 DEF Completed, Entry, Uuids
  <2>3. progress' = SetProgressForUUID(progress, Completed(playing))
    BY <1>7 DEF BeatLevel, RecordCompletion
  <2>4. /\ progress' \in Seq(Entry)
        /\ ListOK(progress)' /\ ListOK(DiskEntries)' /\ DiskIsPrefix'
        /\ HasEntry(progress', playing)
        /\ \A l : Loaded(l) => Loaded(l)'
    BY <1>7, <2>1, <2>2, <2>3, MemoryStep
       DEF BeatLevel, Idle, Running, Loaded, files
  <2>5. TypeOK'
    BY <1>7, <2>1, <2>4
       DEF BeatLevel, RecordCompletion, IInv, TypeOK, files, Uuids
  <2>6. ViewsOK'
    BY <1>7, <2>1, <2>4 DEF BeatLevel, RecordCompletion, IInv, ViewsOK
  <2>7. CompletionOK'
    BY <1>0, <1>7, <2>1, <2>4
       DEF BeatLevel, RecordCompletion, CompletionOK, Loaded
  <2>8. QED
    BY <1>7, <2>4, <2>5, <2>6, <2>7 DEF BeatLevel, IInv
<1>8. ASSUME NEW u \in UserLevels, BeatUserLevel(u) PROVE IInv'
  <2>1. /\ Completed(u) \in Entry
        /\ ~Completed(u).locked
        /\ Completed(u).uuid = u
        /\ u \notin Levels
    BY ConstantsAssumption DEF Completed, Entry, Uuids
  <2>2. progress' = SetProgressForUUID(progress, Completed(u))
    BY <1>8 DEF BeatUserLevel, RecordCompletion
  <2>3. /\ progress' \in Seq(Entry)
        /\ ListOK(progress)' /\ ListOK(DiskEntries)' /\ DiskIsPrefix'
        /\ HasEntry(progress', u)
        /\ \A l : Loaded(l) => Loaded(l)'
        /\ \A l : NextReached(l) => NextReached(l)'
    BY <1>8, <2>1, <2>2, MemoryStep
       DEF BeatUserLevel, Idle, Running, files
  <2>4. TypeOK'
    BY <1>8, <2>3
       DEF BeatUserLevel, RecordCompletion, IInv, TypeOK, files, view, Uuids
  <2>5. ViewsOK'
    BY <1>8, <2>3
       DEF BeatUserLevel, RecordCompletion, IInv, ViewsOK, view, Idle
  <2>6. CompletionOK'
    BY <1>0, <1>8, <2>1, <2>3
       DEF BeatUserLevel, RecordCompletion, CompletionOK
  <2>7. QED
    BY <1>8, <2>3, <2>4, <2>5, <2>6 DEF BeatUserLevel, IInv
<1>9. ASSUME pc \notin {"down", "idle"} PROVE progress # <<>>
  <2>1. HasEntry(progress, current)
    BY <1>9 DEF IInv, CompletionOK
  <2>2. QED
    BY <2>1 DEF HasEntry
<1>10. CASE SaveCompletion
  <2>1. /\ disk' \in Seq(Entry) \cup {NoFile} /\ misread' \in BOOLEAN
        /\ ListOK(progress)' /\ ListOK(DiskEntries)' /\ DiskIsPrefix'
        /\ (disk # <<>>)'
        /\ \A l : Loaded(l)' <=> Loaded(l)
        /\ \A l : NextReached(l)' <=> NextReached(l)
    BY <1>9, <1>10, SaveStep DEF SaveCompletion, Running
  <2>2. TypeOK'
    BY <1>10, <2>1 DEF SaveCompletion, IInv, TypeOK, files, view
  <2>3. ViewsOK'
    <3>1. screen = "play" => playing \in Levels
      BY DEF IInv, TypeOK, ViewsOK
    <3>2. QED
      BY <1>10, <2>1, <3>1 DEF SaveCompletion, IInv, ViewsOK, view
  <2>4. CompletionOK'
    BY <1>10, <2>1 DEF SaveCompletion, IInv, CompletionOK
  <2>5. QED
    BY <2>1, <2>2, <2>3, <2>4 DEF IInv
<1>11. CASE UnlockNext
  <2> DEFINE next == GetLevelFromLevelNumber(number[current] + 1)
  <2>1. /\ current \in Levels /\ current \in ToSet(allLevels)
        /\ HasEntry(progress, current)
    BY <1>11 DEF UnlockNext, IInv, CompletionOK
  <2>2. CASE next # NoLevel
    <3>1. next \in Levels /\ number[next] = number[current] + 1
      BY <2>2, LevelFound DEF IInv, TypeOK
    <3>2. /\ Blank(next) \in Entry /\ ~Blank(next).locked
          /\ Blank(next).uuid = next /\ Follows(current, next)
      BY <3>1 DEF Blank, Entry, Uuids, Follows
    <3>3. progress' = SetProgressForUUID(progress, Blank(next)) /\ pc' = "saveNext"
      BY <1>11, <2>2 DEF UnlockNext
    <3>4. /\ progress' \in Seq(Entry)
          /\ ListOK(progress)' /\ ListOK(DiskEntries)' /\ DiskIsPrefix'
          /\ HasEntry(progress', next)
          /\ \A l : Loaded(l) => Loaded(l)'
          /\ \A l : NextReached(l) => NextReached(l)'
      BY <1>11, <2>1, <3>2, <3>3, MemoryStep DEF UnlockNext, Running, files
    <3>5. NextReached(current)'
      BY <1>11, <3>4, SameLevels DEF UnlockNext, NextReached
    <3>6. TypeOK'
      BY <1>11, <3>3, <3>4 DEF UnlockNext, IInv, TypeOK, files, view
    <3>7. ViewsOK'
      BY <1>11, <3>3, <3>4, <3>5 DEF UnlockNext, IInv, ViewsOK, view
    <3>8. CompletionOK'
      <4>1. HasEntry(progress', current)
        BY <2>1, <3>4 DEF Loaded
      <4>2. QED
        BY <1>0, <1>11, <2>1, <3>3, <3>5, <4>1 DEF UnlockNext, CompletionOK
    <3>9. QED
      BY <1>11, <3>4, <3>6, <3>7, <3>8 DEF UnlockNext, IInv
  <2>3. CASE next = NoLevel
    <3>1. pc' = "saveLast" /\ UNCHANGED progress
      BY <1>11, <2>3 DEF UnlockNext
    <3>2. /\ DiskEntries' = DiskEntries
          /\ \A l : Loaded(l)' <=> Loaded(l)
          /\ \A l : NextReached(l)' <=> NextReached(l)
      BY <1>11, <3>1, SameLevels DEF UnlockNext, DiskEntries, Loaded, NextReached
    <3>3. NextReached(current)
      BY <2>3 DEF NextReached
    <3>4. TypeOK'
      BY <1>11, <3>1 DEF UnlockNext, IInv, TypeOK, files, view
    <3>5. ViewsOK'
      BY <1>11, <3>1, <3>2, <3>3 DEF UnlockNext, IInv, ViewsOK, view
    <3>6. CompletionOK'
      BY <1>0, <1>11, <2>1, <3>1, <3>2, <3>3 DEF UnlockNext, CompletionOK
    <3>7. DiskIsPrefix'
      BY <1>11, <3>1, <3>2 DEF UnlockNext, IInv, DiskIsPrefix, Running
    <3>8. QED
      BY <1>11, <3>1, <3>2, <3>4, <3>5, <3>6, <3>7 DEF UnlockNext, IInv
  <2>4. QED
    BY <2>2, <2>3
<1>12. CASE SaveUnlock
  <2>1. /\ disk' \in Seq(Entry) \cup {NoFile} /\ misread' \in BOOLEAN
        /\ ListOK(progress)' /\ ListOK(DiskEntries)' /\ DiskIsPrefix'
        /\ (disk # <<>>)'
        /\ \A l : Loaded(l)' <=> Loaded(l)
        /\ \A l : NextReached(l)' <=> NextReached(l)
    BY <1>9, <1>12, SaveStep DEF SaveUnlock, Running
  <2>2. TypeOK'
    BY <1>12, <2>1 DEF SaveUnlock, IInv, TypeOK, files, view
  <2>3. ViewsOK'
    BY <1>12, <2>1 DEF SaveUnlock, IInv, ViewsOK, view
  <2>4. CompletionOK'
    BY <1>12, <2>1 DEF SaveUnlock, IInv, CompletionOK
  <2>5. QED
    BY <2>1, <2>2, <2>3, <2>4 DEF IInv
<1>13. CASE SaveLast
  <2>1. /\ disk' \in Seq(Entry) \cup {NoFile} /\ misread' \in BOOLEAN
        /\ ListOK(progress)' /\ ListOK(DiskEntries)' /\ DiskIsPrefix'
        /\ (disk # <<>>)'
        /\ \A l : Loaded(l)' <=> Loaded(l)
        /\ \A l : NextReached(l)' <=> NextReached(l)
    BY <1>9, <1>13, SaveStep DEF SaveLast, Running
  <2>2. TypeOK'
    BY <1>13, <2>1 DEF SaveLast, IInv, TypeOK, files, view
  <2>3. ViewsOK'
    BY <1>13, <2>1 DEF SaveLast, IInv, ViewsOK, view
  <2>4. CompletionOK'
    BY <1>13 DEF SaveLast, CompletionOK
  <2>5. QED
    BY <2>1, <2>2, <2>3, <2>4 DEF IInv
<1>14. CASE Kill
  <2>1. DiskEntries' = DiskEntries /\ (disk # <<>>)'
    BY <1>14 DEF Kill, DiskEntries, IInv
  <2>2. TypeOK'
    <3>1. <<>> \in Seq(Levels) /\ <<>> \in Seq(Entry)
      OBVIOUS
    <3>2. cut' \in SUBSET Levels
      BY <1>14 DEF Kill, IInv, TypeOK, CompletionOK
    <3>3. QED
      BY <1>14, <3>1, <3>2 DEF Kill, IInv, TypeOK, files
  <2>3. ListOK(progress)'
    BY <1>14, EmptyListOK DEF Kill
  <2>4. ViewsOK' /\ CompletionOK' /\ DiskIsPrefix'
    BY <1>14 DEF Kill, ViewsOK, CompletionOK, DiskIsPrefix, Running
  <2>5. QED
    BY <2>1, <2>2, <2>3, <2>4 DEF IInv
<1>15. CASE UpdateApp
  <2>1. DiskEntries' = DiskEntries
    BY <1>15 DEF UpdateApp, DiskEntries
  <2>2. TypeOK'
    BY <1>15 DEF UpdateApp, IInv, TypeOK, view
  <2>3. ViewsOK'
    BY <1>15 DEF UpdateApp, IInv, ViewsOK, view, Loaded
  <2>4. CompletionOK' /\ DiskIsPrefix'
    BY <1>15 DEF UpdateApp, CompletionOK, DiskIsPrefix, Running
  <2>5. QED
    BY <1>15, <2>1, <2>2, <2>3, <2>4 DEF UpdateApp, IInv
<1>16. CASE UNCHANGED vars
  <2>1. /\ DiskEntries' = DiskEntries
        /\ \A l : Loaded(l)' <=> Loaded(l)
        /\ \A l : NextReached(l)' <=> NextReached(l)
    BY <1>16, SameLevels DEF vars, DiskEntries, Loaded, NextReached
  <2>2. TypeOK' /\ DiskIsPrefix'
    BY <1>16, <2>1 DEF vars, files, view, IInv, TypeOK, DiskIsPrefix, Running
  <2>3. ViewsOK' /\ CompletionOK'
    BY <1>16, <2>1 DEF vars, view, IInv, ViewsOK, CompletionOK
  <2>4. QED
    BY <1>16, <2>1, <2>2, <2>3 DEF vars, IInv
<1>17. QED
  BY <1>1, <1>2, <1>3, <1>4, <1>5, <1>6, <1>7, <1>8, <1>10, <1>11, <1>12,
     <1>13, <1>14, <1>15, <1>16 DEF Next

(* IInv is an invariant: no handler, kill, failed write or app update ever *)
(* leaves the lists, the file or the screens out of order.                 *)
THEOREM Invariance == Spec => []IInv
<1>1. Init => IInv
  BY InitInvariant
<1>2. IInv /\ [Next]_vars => IInv'
  BY StepInvariant
<1>3. QED
  BY <1>1, <1>2, PTL DEF Spec
-----------------------------------------------------------------------------
(* What follows *)

(* Every variable keeps its type: handlers only ever store well-formed     *)
(* entries and loaded levels.                                              *)
THEOREM TypeCorrect == Spec => []TypeOK
<1>1. IInv => TypeOK
  BY DEF IInv
<1>2. QED
  BY <1>1, Invariance, PTL

(* setProgressForUUID never gives a level a second entry, in memory or in  *)
(* the file.                                                               *)
THEOREM UniqueEntries == Spec => []UniqueUUIDs
<1>1. IInv => UniqueUUIDs
  BY DEF IInv, ListOK, UniqueUUIDs
<1>2. QED
  BY <1>1, Invariance, PTL

(* completedCampaignLevel unlocks the campaign in order of level numbers,  *)
(* from the level loadProgress started with.                               *)
THEOREM UnlockedInOrder == Spec => []ContiguousUnlock
<1>1. IInv => ContiguousUnlock
  BY DEF IInv, ListOK, ContiguousUnlock
<1>2. QED
  BY <1>1, Invariance, PTL

(* saveProgress leaves a file that is a prefix of memory, whatever fails.  *)
THEOREM FileIsPrefix == Spec => []DiskIsPrefix
<1>1. IInv => DiskIsPrefix
  BY DEF IInv
<1>2. QED
  BY <1>1, Invariance, PTL

(* Neither a stale tile nor the next button ever plays a locked level, and *)
(* the level played is one getLevelFromLevelUUID finds.                    *)
THEOREM NeverPlaysLocked == Spec => []PlayedIsUnlocked
<1>1. IInv => PlayedIsUnlocked
  <2> SUFFICES ASSUME IInv, playing # NoLevel
               PROVE  /\ ~GetCurrentProgressForUUID(progress, playing).locked
                      /\ playing \in ToSet(allLevels)
    BY DEF PlayedIsUnlocked
  <2>1. Loaded(playing)
    BY DEF IInv, ViewsOK
  <2>2. QED
    BY <2>1, ReachedIsUnlocked DEF Loaded, IInv, TypeOK
<1>2. QED
  BY <1>1, Invariance, PTL

(* A completion that returns has unlocked the successor in memory, in      *)
(* whatever state faults had left the list.                                *)
THEOREM ReplayRepairs == Spec => CompletionRepairs
<1> DEFINE Repairs(l) == (pc = "saveLast" /\ current = l /\ Idle')
                            => NextIsUnlocked(l)'
<1>1. IInv /\ [Next]_vars => [\A l \in Levels : Repairs(l)]_vars
  <2> SUFFICES ASSUME IInv, [Next]_vars, NEW l \in Levels,
                      pc = "saveLast", current = l, Idle',
                      (\E m \in ToSet(allLevels) : Follows(l, m))'
               PROVE  (\E i \in 1 .. Len(progress) :
                          /\ CampaignEntry(progress, i)
                          /\ Follows(l, progress[i].uuid)
                          /\ ~progress[i].locked)'
    BY DEF NextIsUnlocked
  <2>1. SaveLast
    BY DEF Next, Idle, vars, ViewDidLoad, PressCampaign, PressBack, PressLevel,
           PressMenu, PressNextLevel, BeatLevel, BeatUserLevel, SaveCompletion,
           UnlockNext, SaveUnlock, Kill, UpdateApp
  <2>2. UNCHANGED <<allLevels, progress>>
    BY <2>1 DEF SaveLast
  <2>3. PICK m \in ToSet(allLevels) : number[m] = number[l] + 1
    BY <2>2 DEF Follows
  <2> DEFINE next == GetLevelFromLevelNumber(number[l] + 1)
  <2>4. next \in Levels /\ next # NoLevel /\ number[next] = number[l] + 1
    BY <2>3, LevelFound DEF IInv, TypeOK
  <2>5. PICK i \in 1 .. Len(progress) : progress[i].uuid = next
    BY <2>4 DEF IInv, CompletionOK, NextReached, HasEntry
  <2>6. ~progress[i].locked
    BY DEF IInv, ListOK, NoneLocked
  <2>7. QED
    BY <2>2, <2>4, <2>5, <2>6 DEF CampaignEntry, Follows
<1>2. QED
  BY <1>1, Invariance, PTL DEF Spec, CompletionRepairs

(* The file changes only by a write of the whole list in memory.           *)
LEMMA FileWrites ==
  ASSUME IInv, [Next]_vars
  PROVE  \/ UNCHANGED disk
         \/ /\ disk' = progress
            /\ misread' = FALSE
            /\ Running
            /\ progress # NoFile
<1>1. progress # NoFile
  BY ConstantsAssumption DEF IInv, TypeOK
<1>2. QED
  BY <1>1
     DEF Next, vars, Running, ViewDidLoad, PressCampaign, PressBack, PressLevel,
         PressMenu, PressNextLevel, BeatLevel, BeatUserLevel, SaveCompletion,
         UnlockNext, SaveUnlock, SaveLast, SaveProgress, Kill, UpdateApp

(* What a write makes durable: the campaign levels in memory, which keep   *)
(* all the file had and come in order.                                     *)
LEMMA WriteExtends ==
  ASSUME IInv, Running, progress # NoFile, disk' = progress
  PROVE  /\ UnlockedOnDisk' =
              {l \in Levels : \E i \in 1 .. Len(progress) : progress[i].uuid = l}
         /\ misread \/ UnlockedOnDisk \subseteq UnlockedOnDisk'
<1>1. DiskEntries' = progress
  BY DEF DiskEntries
<1>2. \A i \in 1 .. Len(progress) : ~progress[i].locked
  BY DEF IInv, ListOK, NoneLocked
<1>3. UnlockedOnDisk' =
         {l \in Levels : \E i \in 1 .. Len(progress) : progress[i].uuid = l}
  BY <1>1, <1>2 DEF UnlockedOnDisk
<1>4. Len(DiskEntries) \in Nat /\ Len(progress) \in Nat
  BY LenProperties DEF IInv, TypeOK, DiskEntries
<1>5. ~misread =>
         \A i \in 1 .. Len(DiskEntries) :
            i \in 1 .. Len(progress) /\ DiskEntries[i].uuid = progress[i].uuid
  BY <1>4 DEF IInv, DiskIsPrefix
<1>6. QED
  BY <1>3, <1>5 DEF UnlockedOnDisk

(* saveProgress never loses an unlocked level, unless loadProgress could   *)
(* not read the file.                                                      *)
THEOREM UnlockedLevelsStay == Spec => UnlockedForever
<1>1. IInv /\ [Next]_vars =>
         [misread \/ UnlockedOnDisk \subseteq UnlockedOnDisk']_vars
  <2> SUFFICES ASSUME IInv, [Next]_vars
               PROVE  misread \/ UnlockedOnDisk \subseteq UnlockedOnDisk'
    OBVIOUS
  <2>1. CASE UNCHANGED disk
    BY <2>1 DEF UnlockedOnDisk, DiskEntries
  <2>2. CASE disk' = progress /\ Running /\ progress # NoFile
    BY <2>2, WriteExtends
  <2>3. QED
    BY <2>1, <2>2, FileWrites
<1>2. QED
  BY <1>1, Invariance, PTL DEF Spec, UnlockedForever

(* The progress file implements the ledger: it is opened at one starting   *)
(* level and every later write adds only successors of unlocked levels,    *)
(* but for a write over a file that could not be read.                     *)
THEOREM LedgerImplemented == Spec => ImplementsLedger
<1>1. Init => Ledger!Init
  <2> SUFFICES ASSUME Init PROVE UnlockedOnDisk = {}
    BY DEF Ledger!Init, Init
  <2>1. DiskEntries = <<>>
    BY DEF Init, DiskEntries
  <2>2. QED
    BY <2>1 DEF UnlockedOnDisk
<1>2. IInv /\ [Next]_vars => [Ledger!Next]_<<UnlockedOnDisk, misread>>
  <2> SUFFICES ASSUME IInv, [Next]_vars
               PROVE  Ledger!Next \/ UNCHANGED <<UnlockedOnDisk, misread>>
    OBVIOUS
  <2> DEFINE S == UnlockedOnDisk'
             p == progress
  <2>0. CASE UNCHANGED disk
    <3>1. misread' \in BOOLEAN
      BY StepInvariant DEF IInv, TypeOK
    <3>2. UNCHANGED UnlockedOnDisk
      BY <2>0 DEF UnlockedOnDisk, DiskEntries
    <3>3. QED
      BY <3>1, <3>2 DEF Ledger!Next, Ledger!Launch
  <2> SUFFICES ASSUME disk' # disk
               PROVE  Ledger!Next
    BY <2>0
  <2>1. disk' = progress /\ misread' = FALSE /\ Running /\ progress # NoFile
    BY FileWrites
  <2>2. /\ S = {l \in Levels : \E i \in 1 .. Len(p) : p[i].uuid = l}
        /\ misread \/ UnlockedOnDisk \subseteq S
    BY <2>1, WriteExtends
  <2>3. Len(p) \in Nat
    BY LenProperties DEF IInv, TypeOK
  <2>4. \A i \in 1 .. Len(p) : p[i].uuid \in Levels =>
           /\ p[1].uuid \in Levels
           /\ i = 1 \/ \E m \in S : number[p[i].uuid] = number[m] + 1
    <3> SUFFICES ASSUME NEW i \in 1 .. Len(p), p[i].uuid \in Levels
                 PROVE  /\ p[1].uuid \in Levels
                        /\ i = 1 \/ \E m \in S : number[p[i].uuid] = number[m] + 1
      OBVIOUS
    <3>1. /\ p[1].uuid \in Levels
          /\ i = 1 \/ \E j \in 1 .. i - 1 :
                         p[j].uuid \in Levels /\ Follows(p[j].uuid, p[i].uuid)
      BY DEF IInv, ListOK, ReachedInOrder, CampaignEntry
    <3>2. \A j \in 1 .. i - 1 : j \in 1 .. Len(p)
      BY <2>3
    <3>3. \A j \in 1 .. Len(p) : p[j].uuid \in Levels => p[j].uuid \in S
      BY <2>2
    <3>4. QED
      BY <3>1, <3>2, <3>3 DEF Follows
  <2>5. CASE disk = NoFile \/ misread
    <3>1. UnlockedOnDisk = {} \/ misread
      BY <2>5 DEF UnlockedOnDisk, DiskEntries
    <3>2. S # {} => p[1].uuid \in S
      BY <2>2, <2>3, <2>4
    <3>3. \A l \in S \ {p[1].uuid} : \E m \in S : number[l] = number[m] + 1
      BY <2>2, <2>4
    <3>4. Ledger!Open(S)
      BY <2>1, <3>1, <3>2, <3>3 DEF Ledger!Open, Ledger!Follows
    <3>5. QED
      BY <2>2, <3>4 DEF Ledger!Next
  <2>6. CASE disk # NoFile /\ ~misread
    <3>1. /\ DiskEntries = disk /\ disk # <<>>
          /\ disk \in Seq(Entry)
      BY <2>6 DEF DiskEntries, IInv, TypeOK
    <3>2. 1 \in 1 .. Len(DiskEntries)
      BY <3>1
    <3>3. DiskEntries[1].uuid = p[1].uuid /\ ~DiskEntries[1].locked
      BY <2>1, <2>6, <3>2 DEF IInv, DiskIsPrefix, ListOK, NoneLocked
    <3>4. p[1].uuid \in Levels => p[1].uuid \in UnlockedOnDisk
      BY <3>2, <3>3 DEF UnlockedOnDisk
    <3>5. \A l \in S \ UnlockedOnDisk : \E m \in S : number[l] = number[m] + 1
      BY <2>2, <2>4, <3>4
    <3>6. misread' = misread
      BY <2>1, <2>6 DEF IInv, TypeOK
    <3>7. Ledger!Extend(S)
      BY <2>2, <2>6, <3>5, <3>6 DEF Ledger!Extend, Ledger!Follows
    <3>8. QED
      BY <2>2, <3>7 DEF Ledger!Next
  <2>7. QED
    BY <2>5, <2>6
<1>3. QED
  BY <1>1, <1>2, Invariance, PTL DEF Spec, ImplementsLedger, Ledger!Spec
-----------------------------------------------------------------------------
(* Memory and file between events; the chain when nothing fails            *)

(* When no write fails, completedLevel and completedCampaignLevel return   *)
(* with memory and file equal, and loadProgress leaves them so or starts   *)
(* afresh.                                                                 *)
THEOREM FileIsCurrent == Spec => []SavedWhenIdle
<1>1. Init => SavedWhenIdle
  BY DEF Init, SavedWhenIdle, Idle
<1>2. SavedWhenIdle /\ [Next]_vars => SavedWhenIdle'
  <2> SUFFICES ASSUME SavedWhenIdle, [Next]_vars, Idle', "save" \notin Faults
               PROVE  \/ disk' = progress'
                      \/ /\ disk' = NoFile \/ misread'
                         /\ progress' = FreshProgress(allLevels)'
    BY DEF SavedWhenIdle
  <2>1. CASE ViewDidLoad
    <3>1. FreshProgress(allLevels)' = FreshProgress(allLevels')
      BY DEF FreshProgress
    <3>2. QED
      BY <2>1, <3>1 DEF ViewDidLoad, LoadProgress
  <2>2. CASE SaveLast
    BY <2>2 DEF SaveLast, SaveProgress
  <2>3. CASE ~ViewDidLoad /\ ~SaveLast
    <3>1. Idle /\ UNCHANGED <<disk, misread, progress, allLevels>>
      BY <2>3
         DEF Next, vars, Idle, PressCampaign, PressBack, PressLevel, PressMenu,
             PressNextLevel, BeatLevel, BeatUserLevel, RecordCompletion,
             SaveCompletion, UnlockNext, SaveUnlock, Kill, UpdateApp
    <3>2. QED
      BY <3>1 DEF SavedWhenIdle, FreshProgress
  <2>4. QED
    BY <2>1, <2>2, <2>3
<1>3. QED
  BY <1>1, <1>2, PTL DEF Spec

HasNext(p, l) ==
  (\E m \in bundle : Follows(l, m)) =>
     \E i \in 1 .. Len(p) : CampaignEntry(p, i) /\ Follows(l, p[i].uuid)

(* Every completed level outside X has its successor on the list p.        *)
ChainedBut(p, X) ==
  \A i \in 1 .. Len(p) :
     (p[i].completed /\ p[i].uuid \in Levels \ X) => HasNext(p, p[i].uuid)

(* Where the chains are whole, on disk and in memory, while a completion   *)
(* is recorded.                                                            *)
DiskChained ==
  IF pc \in {"unlock", "saveNext"} THEN ChainedBut(DiskEntries, cut \cup {current})
                                   ELSE ChainedBut(DiskEntries, cut)

MemoryChained ==
  /\ pc = "idle" => ChainedBut(progress, cut)
  /\ pc \in {"save", "unlock"} => ChainedBut(progress, cut \cup {current})
  /\ pc \in {"saveNext", "saveLast"} => ChainedBut(progress, cut \ {current})

KillInv ==
  Faults \subseteq {"kill", "read"} =>
    /\ documents \subseteq bundle
    /\ Running => ToSet(allLevels) = bundle
    /\ DiskChained
    /\ MemoryChained

(* Setting an entry that is not completed, or is an exception, breaks no   *)
(* chain.                                                                  *)
LEMMA SetProgressKeepsChain ==
  ASSUME NEW p \in Seq(Entry), NEW e \in Entry, NEW X, ChainedBut(p, X),
         e.completed => e.uuid \in X
  PROVE  ChainedBut(SetProgressForUUID(p, e), X)
<1> DEFINE q == SetProgressForUUID(p, e)
<1>1. PICK k \in 1 .. Len(q) :
         /\ q[k] = e
         /\ \A i \in 1 .. Len(q) : i # k => i \in 1 .. Len(p) /\ q[i] = p[i]
  BY SetProgressShape
<1>2. \A i \in 1 .. Len(p) : i \in 1 .. Len(q) /\ q[i].uuid = p[i].uuid
  <2>1. Len(p) \in Nat /\ Len(q) \in Nat /\ Len(p) <= Len(q)
    BY SetProgressShape, LenProperties
  <2>2. QED
    BY <2>1, SetProgressKeepsUuids
<1>3. \A l : HasNext(p, l) => HasNext(q, l)
  BY <1>2 DEF HasNext, CampaignEntry
<1>4. QED
  BY <1>1, <1>3 DEF ChainedBut

(* A chain that is whole stays whole when nothing it speaks of changes.    *)
LEMMA ChainWidens ==
  ASSUME NEW p, NEW X, NEW Y, ChainedBut(p, X), X \cap Levels \subseteq Y
  PROVE  ChainedBut(p, Y)
BY DEF ChainedBut

(* When only kills and failed reads of the file may happen, every step     *)
(* leaves the chains whole but for the level being recorded and those that *)
(* were cut off.                                                           *)
LEMMA KillStep ==
  ASSUME Faults \subseteq {"kill", "read"}, IInv, KillInv, [Next]_vars
  PROVE  KillInv'
<1>1. CASE ViewDidLoad
  <2>1. documents' = bundle /\ UNCHANGED <<bundle, disk, cut>> /\ pc' = "idle"
    BY <1>1 DEF ViewDidLoad, CopyOutcomes, KillInv
  <2>2. ToSet(allLevels)' = bundle
    <3>1. allLevels' \in DirectoryListings(bundle)
      BY <1>1, <2>1 DEF ViewDidLoad, ReadableSubsets
    <3>2. QED
      BY <3>1, ListingsAreLevels DEF IInv, TypeOK
  <2>3. ChainedBut(DiskEntries, cut)
    BY <1>1 DEF ViewDidLoad, KillInv, DiskChained
  <2>4. ChainedBut(progress', cut)
    <3>1. \/ disk # NoFile /\ progress' = disk
          \/ progress' = FreshProgress(allLevels')
      BY <1>1 DEF ViewDidLoad, LoadProgress
    <3>2. CASE disk # NoFile /\ progress' = disk
      BY <2>3, <3>2 DEF DiskEntries
    <3>3. CASE progress' = FreshProgress(allLevels')
      <4>1. progress' = <<>> \/ progress' = <<Blank(allLevels'[1])>>
        BY <3>3 DEF FreshProgress
      <4>2. QED
        BY <4>1 DEF ChainedBut, Blank
    <3>4. QED
      BY <3>1, <3>2, <3>3
  <2>5. ChainedBut(progress, cut)' /\ ChainedBut(DiskEntries, cut)'
    BY <2>1, <2>3, <2>4 DEF ChainedBut, HasNext, DiskEntries
  <2>6. QED
    BY <2>1, <2>2, <2>5 DEF KillInv, DiskChained, MemoryChained
<1>2. CASE BeatLevel \/ \E u \in UserLevels : BeatUserLevel(u)
  <2>1. PICK u \in Uuids : RecordCompletion(u)
    BY <1>2 DEF BeatLevel, BeatUserLevel, IInv, TypeOK, ViewsOK, Uuids
  <2>2. UNCHANGED <<bundle, documents, disk, allLevels, cut>> /\ Idle
    BY <1>2 DEF BeatLevel, BeatUserLevel, files
  <2>3. ChainedBut(progress, cut \cup {u})
    BY <2>2, ChainWidens DEF KillInv, MemoryChained, Idle
  <2>4. Completed(u) \in Entry /\ Completed(u).uuid = u
    BY DEF Completed, Entry
  <2>5. ChainedBut(progress', cut \cup {u})
    BY <2>1, <2>3, <2>4, SetProgressKeepsChain
       DEF RecordCompletion, IInv, TypeOK
  <2>6. ChainedBut(progress, cut \cup {current})'
    BY <2>1, <2>2, <2>5 DEF RecordCompletion, ChainedBut, HasNext
  <2>7. ChainedBut(DiskEntries, cut)'
    BY <2>2 DEF KillInv, DiskChained, Idle, ChainedBut, HasNext, DiskEntries
  <2>8. QED
    BY <2>1, <2>2, <2>6, <2>7
       DEF RecordCompletion, KillInv, DiskChained, MemoryChained, Idle, Running
<1>3. CASE SaveCompletion
  <2>1. /\ UNCHANGED <<bundle, documents, allLevels, progress, current, cut>>
        /\ pc = "save" /\ disk' = progress /\ progress \in Seq(Entry)
        /\ pc' = IF current \in Levels THEN "unlock" ELSE "saveLast"
    BY <1>3 DEF SaveCompletion, SaveProgress, files, IInv, TypeOK
  <2>2. DiskEntries' = progress
    BY <2>1, ConstantsAssumption DEF DiskEntries
  <2>3. ChainedBut(progress, cut \cup {current})
    BY <2>1 DEF KillInv, MemoryChained
  <2>4. current \notin Levels => ChainedBut(progress, cut \ {current})
    BY <2>3, ChainWidens
  <2>5. current \notin Levels => ChainedBut(progress, cut)
    BY <2>3, ChainWidens
  <2>6. /\ ChainedBut(progress, cut \cup {current})'
        /\ ChainedBut(DiskEntries, cut \cup {current})'
    BY <2>1, <2>2, <2>3 DEF ChainedBut, HasNext
  <2>7. current \notin Levels => /\ ChainedBut(progress, cut \ {current})'
                                 /\ ChainedBut(DiskEntries, cut)'
    BY <2>1, <2>2, <2>4, <2>5 DEF ChainedBut, HasNext
  <2>8. QED
    BY <2>1, <2>6, <2>7 DEF KillInv, DiskChained, MemoryChained, Running
<1>4. CASE UnlockNext
  <2> DEFINE next == GetLevelFromLevelNumber(number[current] + 1)
  <2>1. /\ UNCHANGED <<bundle, documents, disk, allLevels, current, cut>>
        /\ pc = "unlock"
        /\ current \in Levels
        /\ ToSet(allLevels) = bundle
        /\ ChainedBut(progress, cut \cup {current})
        /\ ChainedBut(DiskEntries, cut \cup {current})
        /\ progress \in Seq(Entry)
    BY <1>4 DEF UnlockNext, files, IInv, TypeOK, CompletionOK, KillInv,
                DiskChained, MemoryChained, Running
  <2>2. ChainedBut(DiskEntries, cut \cup {current})'
    BY <2>1 DEF ChainedBut, HasNext, DiskEntries
  <2>3. CASE next # NoLevel
    <3>1. next \in Levels /\ number[next] = number[current] + 1
      BY <2>3, LevelFound DEF IInv, TypeOK
    <3>2. progress' = SetProgressForUUID(progress, Blank(next)) /\ pc' = "saveNext"
      BY <1>4, <2>3 DEF UnlockNext
    <3>3. /\ Blank(next) \in Entry /\ ~Blank(next).completed
          /\ Blank(next).uuid = next
      BY <3>1 DEF Blank, Entry, Uuids
    <3>4. ChainedBut(progress', cut \cup {current})
      BY <2>1, <3>2, <3>3, SetProgressKeepsChain
    <3>5. HasEntry(progress', next)
      BY <2>1, <3>2, <3>3, SetProgressKeepsUuids
    <3>6. HasNext(progress', current)
      BY <3>1, <3>5 DEF HasNext, HasEntry, CampaignEntry, Follows
    <3>7. ChainedBut(progress', cut \ {current})
      BY <3>4, <3>6 DEF ChainedBut
    <3>8. ChainedBut(progress, cut \ {current})'
      BY <2>1, <3>7 DEF ChainedBut, HasNext
    <3>9. QED
      BY <2>1, <2>2, <3>2, <3>8 DEF KillInv, DiskChained, MemoryChained, Running
  <2>4. CASE next = NoLevel
    <3>1. \A m \in bundle : ~Follows(current, m)
      BY <2>1, <2>4, LevelFound DEF Follows, IInv, TypeOK
    <3>2. progress' = progress /\ pc' = "saveLast"
      BY <1>4, <2>4 DEF UnlockNext
    <3>3. \A p : HasNext(p, current)
      BY <3>1 DEF HasNext
    <3>4. ChainedBut(progress, cut \ {current}) /\ ChainedBut(DiskEntries, cut)
      BY <2>1, <3>3 DEF ChainedBut
    <3>5. ChainedBut(progress, cut \ {current})' /\ ChainedBut(DiskEntries, cut)'
      BY <2>1, <3>2, <3>4 DEF ChainedBut, HasNext, DiskEntries
    <3>6. QED
      BY <2>1, <3>2, <3>5 DEF KillInv, DiskChained, MemoryChained, Running
  <2>5. QED
    BY <2>3, <2>4
<1>5. CASE SaveUnlock \/ SaveLast
  <2>1. /\ UNCHANGED <<bundle, documents, allLevels, progress>>
        /\ disk' = progress /\ progress \in Seq(Entry)
    BY <1>5 DEF SaveUnlock, SaveLast, SaveProgress, files, IInv, TypeOK
  <2>2. DiskEntries' = progress
    BY <2>1, ConstantsAssumption DEF DiskEntries
  <2>3. ChainedBut(progress, cut \ {current}) /\ ChainedBut(progress, cut)
    <3>1. ChainedBut(progress, cut \ {current})
      BY <1>5 DEF SaveUnlock, SaveLast, KillInv, MemoryChained
    <3>2. QED
      BY <3>1, ChainWidens
  <2>5. CASE SaveUnlock
    <3>1. UNCHANGED <<current, cut>> /\ pc' = "saveLast" /\ pc # "down"
      BY <2>5 DEF SaveUnlock
    <3>2. ChainedBut(progress, cut \ {current})' /\ ChainedBut(DiskEntries, cut)'
      BY <2>3, <2>1, <2>2, <3>1 DEF ChainedBut, HasNext
    <3>3. QED
      BY <2>1, <3>1, <3>2 DEF KillInv, DiskChained, MemoryChained, Running
  <2>6. CASE SaveLast
    <3>1. cut' = cut \ {current} /\ pc' = "idle" /\ pc # "down"
      BY <2>6 DEF SaveLast
    <3>2. ChainedBut(progress, cut)' /\ ChainedBut(DiskEntries, cut)'
      BY <2>3, <2>1, <2>2, <3>1 DEF ChainedBut, HasNext
    <3>3. QED
      BY <2>1, <3>1, <3>2 DEF KillInv, DiskChained, MemoryChained, Running
  <2>7. QED
    BY <1>5, <2>5, <2>6
<1>6. CASE Kill
  <2>1. UNCHANGED <<bundle, documents, disk>> /\ pc' = "down" /\ pc # "down"
    BY <1>6 DEF Kill, files, Idle
  <2>2. ChainedBut(DiskEntries, cut')
    BY <1>6 DEF Kill, KillInv, DiskChained
  <2>3. ChainedBut(DiskEntries, cut)'
    BY <2>1, <2>2 DEF ChainedBut, HasNext, DiskEntries
  <2>4. QED
    BY <2>1, <2>3 DEF KillInv, DiskChained, MemoryChained, Running
<1>7. CASE UNCHANGED <<bundle, documents, disk, pc, allLevels, progress, current,
                       cut>>
  BY <1>7 DEF KillInv, DiskChained, MemoryChained, ChainedBut, HasNext,
              DiskEntries, Running
<1>8. QED
  BY <1>1, <1>2, <1>3, <1>4, <1>5, <1>6, <1>7
     DEF Next, vars, files, PressCampaign, PressBack, PressLevel, PressMenu,
         PressNextLevel, UpdateApp

(* However often the process ends or the file cannot be read,              *)
(* completedCampaignLevel leaves no hole but between its own two writes:   *)
(* every other completed level has its successor unlocked whenever the     *)
(* player can act.                                                         *)
THEOREM ChainHasNoHole == Spec => []CompletedUnlocksNext
<1>1. Init => KillInv
  BY DEF Init, KillInv, DiskChained, MemoryChained, Running, DiskEntries, ChainedBut
<1>2. IInv /\ KillInv /\ [Next]_vars => KillInv'
  BY KillStep DEF KillInv
<1>3. IInv /\ KillInv => CompletedUnlocksNext
  <2> SUFFICES ASSUME IInv, KillInv, Faults \subseteq {"kill", "read"}, Idle,
                      NEW l \in Levels \ cut,
                      GetCurrentProgressForUUID(progress, l).completed,
                      NEW m \in ToSet(allLevels), Follows(l, m)
               PROVE  \E i \in 1 .. Len(progress) :
                        /\ CampaignEntry(progress, i)
                        /\ Follows(l, progress[i].uuid)
                        /\ ~progress[i].locked
    BY DEF CompletedUnlocksNext, NextIsUnlocked
  <2>1. HasEntry(progress, l)
    BY DEF GetCurrentProgressForUUID, Locked
  <2>2. PICK k \in 1 .. Len(progress) :
           progress[k].uuid = l /\ progress[k].completed
    BY <2>1, EntryIndexCorrect DEF GetCurrentProgressForUUID, IInv, TypeOK
  <2>4. HasNext(progress, l)
    BY <2>2 DEF KillInv, MemoryChained, Idle, ChainedBut
  <2>5. m \in bundle
    BY DEF KillInv, Idle, Running
  <2>6. PICK i \in 1 .. Len(progress) :
           CampaignEntry(progress, i) /\ Follows(l, progress[i].uuid)
    BY <2>4, <2>5 DEF HasNext
  <2>7. ~progress[i].locked
    BY DEF IInv, ListOK, NoneLocked
  <2>8. QED
    BY <2>6, <2>7
<1>4. QED
  BY <1>1, <1>2, <1>3, Invariance, PTL DEF Spec
=============================================================================
