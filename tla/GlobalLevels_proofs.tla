------------------------- MODULE GlobalLevels_proofs -------------------------
(***************************************************************************)
(* Proofs about GlobalLevels, for every finite set of levels, any number   *)
(* of loads and every combination of faults.                               *)
(*                                                                         *)
(* The invariants are inductive once two facts are added: what each call   *)
(* of loadLevels holds at any time (LoadsOK) and that an upload under way  *)
(* is of a listed level, unless a step of its publishing failed (ServerOK).*)
(***************************************************************************)
EXTENDS GlobalLevels, FiniteSetTheorems, TLAPS

(* What the server has and is about to get.                                *)
ServerOK ==
  /\ files \subseteq docs \cup cutShort
  /\ uploads \subseteq docs \cup cutShort
  /\ docs \subseteq files \cup uploads \cup cutShort

(* A call of loadLevels: counts are of levels whose file came, files of    *)
(* levels queried, a call that is over holds nothing, and one that waits   *)
(* has not got all its counts.                                             *)
LoadOK(i) ==
  /\ loads[i].lData \subseteq loads[i].docs \cap files
  /\ loads[i].downloadData \subseteq loads[i].lData
  /\ loads[i].state # "files" =>
        loads[i].docs = {} /\ loads[i].missing = {}
  /\ loads[i].state = "files" =>
        loads[i].docs = {} \/ loads[i].downloadData # loads[i].docs

LoadsOK == \A i \in Loads : LoadOK(i)

IInv ==
  /\ TypeOK
  /\ ServerOK
  /\ LoadsOK
  /\ WholeListShown
  /\ DetailIsListed

-----------------------------------------------------------------------------
(* Type correctness *)

(* Cutting callbacks off leaves a sequence of writes of the same length.   *)
LEMMA KillType ==
  ASSUME NEW w \in Seq(Write)
  PROVE  LET k == [i \in DOMAIN w |-> [w[i] EXCEPT !.callback = FALSE]]
         IN  k \in Seq(Write) /\ Len(k) = Len(w)
<1> DEFINE k == [i \in DOMAIN w |-> [w[i] EXCEPT !.callback = FALSE]]
<1>1. DOMAIN w = 1 .. Len(w) /\ Len(w) \in Nat
  OBVIOUS
<1>2. ASSUME NEW i \in 1 .. Len(w)
      PROVE  k[i] \in Write
  <2>1. w[i] \in Write
    BY <1>1
  <2>2. [w[i] EXCEPT !.callback = FALSE] \in Write
    BY <2>1 DEF Write
  <2>3. QED
    BY <1>1, <2>2
<1>3. k = [i \in 1 .. Len(w) |-> k[i]]
  BY <1>1
<1>4. QED
  BY <1>1, <1>2, <1>3

(* The initial state has the types.                                        *)
LEMMA TypeInit == Init => TypeOK
<1> SUFFICES ASSUME Init PROVE TypeOK
  OBVIOUS
<1>1. /\ writes \in Seq(Write)
      /\ Len(writes) <= MaxWrites
  BY ConstantsAssumption DEF Init
<1>2. NoLoad \in Load
  BY DEF NoLoad, Load
<1>3. QED
  BY <1>1, <1>2 DEF Init, TypeOK, NoTiles

(* Every action keeps the types of the server's variables ...              *)
LEMMA TypeServer ==
  ASSUME TypeOK,
         Publish \/ Kill \/ \E l \in Levels : PublishLv(l)
  PROVE  TypeOK'
<1>1. ASSUME NEW l \in Levels, PublishLv(l)
      PROVE  TypeOK'
  BY <1>1, ConstantsAssumption DEF TypeOK, PublishLv, reader, Write
<1>2. CASE DocumentSet
  <2>1. /\ Head(writes) \in Write
        /\ Tail(writes) \in Seq(Write)
        /\ Len(Tail(writes)) <= MaxWrites
    BY <1>2, ConstantsAssumption DEF TypeOK, DocumentSet
  <2>2. QED
    BY <1>2, <2>1 DEF TypeOK, DocumentSet, reader, Write
<1>3. ASSUME NEW l \in Levels, Uploaded(l)
      PROVE  TypeOK'
  BY <1>3 DEF TypeOK, Uploaded, reader
<1>4. CASE Kill
  <2>1. /\ writes' \in Seq(Write)
        /\ Len(writes') = Len(writes)
    BY <1>4, KillType DEF TypeOK, Kill
  <2>2. QED
    BY <1>4, <2>1 DEF TypeOK, Kill, reader
<1>5. QED
  BY <1>1, <1>2, <1>3, <1>4 DEF Publish

(* ... and of the reader's: a new load takes a free slot.                  *)
LEMMA TypeAnimateIn ==
  ASSUME TypeOK, AnimateIn
  PROVE  TypeOK'
<1> DEFINE free == CHOOSE i \in Loads : ~Outstanding(i)
<1>1. free \in Loads
  BY DEF AnimateIn
<1>2. [NoLoad EXCEPT !.state = "query"] \in Load
  BY DEF NoLoad, Load
<1>3. loads' = [loads EXCEPT ![free] = [NoLoad EXCEPT !.state = "query"]]
  BY DEF AnimateIn
<1>4. loads' \in [Loads -> Load]
  BY <1>1, <1>2, <1>3 DEF TypeOK
<1>5. QED
  BY <1>4 DEF AnimateIn, TypeOK, server

(* An answer keeps the types.                                              *)
LEMMA TypeAnswer ==
  ASSUME TypeOK, NEW i \in Loads, Answer(i)
  PROVE  TypeOK'
<1>1. loads[i] \in Load
  BY DEF TypeOK
<1>2. CASE QueryArrives(i)
  <2>1. /\ [loads[i] EXCEPT !.state = "files", !.docs = docs] \in Load
        /\ [loads[i] EXCEPT !.state = "failed"] \in Load
    BY <1>1 DEF TypeOK, Load
  <2>2. loads' \in [Loads -> Load]
    BY <1>2, <2>1 DEF QueryArrives, TypeOK
  <2>3. QED
    BY <1>2, <2>2 DEF QueryArrives, TypeOK, server
<1>3. ASSUME NEW l \in Levels, FileArrives(i, l)
      PROVE  TypeOK'
  <2>1. /\ [loads[i] EXCEPT !.lData = @ \cup {l}] \in Load
        /\ [loads[i] EXCEPT !.missing = @ \cup {l}] \in Load
    BY <1>1 DEF Load
  <2>2. loads' \in [Loads -> Load]
    BY <1>3, <2>1 DEF FileArrives, TypeOK
  <2>3. QED
    BY <1>3, <2>2 DEF FileArrives, TypeOK, server
<1>4. ASSUME NEW l \in Levels, CountArrives(i, l)
      PROVE  TypeOK'
  <2> DEFINE load == [loads[i] EXCEPT !.downloadData = @ \cup {l}]
  <2>1. /\ load \in Load
        /\ [NoLoad EXCEPT !.state = "shown"] \in Load
    BY <1>1 DEF Load, NoLoad
  <2>2. /\ loads' \in [Loads -> Load]
        /\ UpdateLevels(load) \/ UNCHANGED <<tiles, detail>>
    BY <1>4, <2>1 DEF CountArrives, TypeOK
  <2>3. /\ tiles' \in [levels : SUBSET Levels, downloads : SUBSET Levels,
                       docs : SUBSET Levels]
        /\ detail' \in Levels \cup {None}
    BY <2>1, <2>2 DEF UpdateLevels, TypeOK, Load
  <2>4. QED
    BY <1>4, <2>2, <2>3 DEF CountArrives, TypeOK, server
<1>5. QED
  BY <1>2, <1>3, <1>4 DEF Answer

(* Every step keeps the types.                                             *)
LEMMA TypeStep == TypeOK /\ [Next]_vars => TypeOK'
<1> SUFFICES ASSUME TypeOK, [Next]_vars PROVE TypeOK'
  OBVIOUS
<1>1. ASSUME NEW l \in Levels, PressTile(l)
      PROVE  TypeOK'
  BY <1>1 DEF PressTile, TypeOK, server
<1>2. CASE TouchDetail
  BY <1>2 DEF TouchDetail, TypeOK, server
<1>3. CASE PressPlay \/ PressBack
  BY <1>3 DEF PressPlay, PressBack, AnimateOut, TypeOK, server
<1>4. CASE PressGlobalLevelSelect \/ PressMenu
  BY <1>4, TypeAnimateIn DEF PressGlobalLevelSelect, PressMenu
<1>5. CASE UNCHANGED vars
  BY <1>5 DEF vars, server, reader, TypeOK
<1>6. QED
  BY <1>1, <1>2, <1>3, <1>4, <1>5, TypeServer, TypeAnswer DEF Next

-----------------------------------------------------------------------------
(* Publishing *)

(* No step forgets an upload or makes an unlisted file.                    *)
LEMMA ServerStep == TypeOK /\ ServerOK /\ [Next]_vars => ServerOK'
<1> SUFFICES ASSUME TypeOK, ServerOK, [Next]_vars PROVE ServerOK'
  OBVIOUS
<1>1. ASSUME NEW l \in Levels, PublishLv(l)
      PROVE  ServerOK'
  BY <1>1 DEF PublishLv, ServerOK
<1>2. CASE DocumentSet
  BY <1>2 DEF DocumentSet, ServerOK
<1>3. ASSUME NEW l \in Levels, Uploaded(l)
      PROVE  ServerOK'
  BY <1>3 DEF Uploaded, ServerOK
<1>4. CASE Kill
  BY <1>4 DEF Kill, ServerOK
<1>5. CASE UNCHANGED server
  BY <1>5 DEF server, ServerOK
<1>6. QED
  <2>1. ASSUME NEW i \in Loads, Answer(i)
        PROVE  UNCHANGED server
    BY <2>1 DEF Answer, QueryArrives, FileArrives, CountArrives
  <2>2. ASSUME NEW l \in Levels, PressTile(l)
        PROVE  UNCHANGED server
    BY <2>2 DEF PressTile
  <2>3. CASE TouchDetail \/ PressPlay \/ PressBack
    BY <1>5, <2>3 DEF TouchDetail, PressPlay, PressBack, AnimateOut
  <2>4. CASE PressGlobalLevelSelect \/ PressMenu
    BY <1>5, <2>4 DEF PressGlobalLevelSelect, PressMenu, AnimateIn
  <2>5. QED
    BY <1>1, <1>2, <1>3, <1>4, <1>5, <2>1, <2>2, <2>3, <2>4
    DEF Next, Publish, vars

-----------------------------------------------------------------------------
(* Listing *)

(* All counts came, one for each document, exactly when the sets agree.    *)
LEMMA CompletesMeansAll ==
  ASSUME NEW load \in Load, load.downloadData \subseteq load.docs
  PROVE  Completes(load) <=> load.downloadData = load.docs
<1>1. IsFiniteSet(load.docs)
  BY ConstantsAssumption, FS_Subset DEF Load
<1>2. Cardinality(load.docs) \in Nat /\ Cardinality(load.downloadData) \in Nat
  BY <1>1, FS_Subset, FS_CardinalityType
<1>3. Cardinality(load.docs) = Cardinality(load.downloadData)
        => load.docs = load.downloadData
  BY <1>1, FS_Subset
<1>4. QED
  BY <1>3 DEF Completes

(* Files stay on the server.                                               *)
LEMMA FilesStay == [Next]_vars => files \subseteq files'
<1> SUFFICES ASSUME [Next]_vars
             PROVE  files \subseteq files'
  OBVIOUS
<1>1. CASE Publish \/ Kill \/ \E l \in Levels : PublishLv(l)
  BY <1>1 DEF Publish, DocumentSet, Uploaded, Kill, PublishLv, reader
<1>2. ASSUME NEW i \in Loads, Answer(i)
      PROVE  files \subseteq files'
  BY <1>2 DEF Answer, QueryArrives, FileArrives, CountArrives, server
<1>3. CASE \/ TouchDetail \/ PressPlay \/ PressBack \/ PressMenu
           \/ PressGlobalLevelSelect \/ \E l \in Levels : PressTile(l)
  BY <1>3 DEF TouchDetail, PressPlay, PressBack, PressMenu, PressTile,
              PressGlobalLevelSelect, AnimateIn, AnimateOut, server
<1>4. CASE UNCHANGED vars
  BY <1>4 DEF vars, server, reader
<1>5. QED
  BY <1>1, <1>2, <1>3, <1>4 DEF Next

(* A load that a step does not touch keeps its invariant.                  *)
LEMMA LoadKept ==
  ASSUME NEW j \in Loads, LoadOK(j), [Next]_vars, loads'[j] = loads[j]
  PROVE  LoadOK(j)'
BY FilesStay DEF LoadOK

(* The answers to one load keep the invariant of every load.               *)
LEMMA LoadAnswer ==
  ASSUME TypeOK, LoadsOK, [Next]_vars, NEW i \in Loads, Answer(i),
         NEW j \in Loads
  PROVE  LoadOK(j)'
<1>1. /\ loads[i] \in Load
      /\ loads \in [Loads -> Load]
      /\ LoadOK(i)
      /\ LoadOK(j)
  BY DEF TypeOK, LoadsOK
<1>2. CASE i # j
  <2>1. loads'[j] = loads[j]
    BY <1>1, <1>2 DEF Answer, QueryArrives, FileArrives, CountArrives
  <2>2. QED
    BY <1>1, <2>1, LoadKept
<1>3. CASE i = j
  <2>1. CASE QueryArrives(i)
    <3>1. \/ loads'[i] = [loads[i] EXCEPT !.state = "files", !.docs = docs]
          \/ loads'[i] = [loads[i] EXCEPT !.state = "failed"]
      BY <1>1, <2>1 DEF QueryArrives
    <3>2. loads[i].docs = {} /\ loads[i].missing = {}
      BY <1>1, <2>1 DEF QueryArrives, LoadOK
    <3>3. loads[i].lData = {} /\ loads[i].downloadData = {}
      BY <1>1, <3>2 DEF LoadOK
    <3>4. QED
      BY <1>1, <1>3, <3>1, <3>2, <3>3 DEF LoadOK, Load
  <2>2. ASSUME NEW l \in Levels, FileArrives(i, l)
        PROVE  LoadOK(j)'
    <3>1. /\ l \in loads[i].docs
          /\ l \notin loads[i].lData
          /\ loads[i].state = "files"
      BY <1>1, <2>2 DEF FileArrives, AwaitedFiles, LoadOK, Load
    <3>2. CASE /\ l \in files
               /\ loads' = [loads EXCEPT ![i].lData = @ \cup {l}]
               /\ saved' \in {saved, saved \cup {l}}
      <4>1. loads'[i] = [loads[i] EXCEPT !.lData = loads[i].lData \cup {l}]
        BY <1>1, <3>2
      <4>2. QED
        BY <1>1, <1>3, <2>2, <3>1, <3>2, <4>1
        DEF LoadOK, Load, FileArrives, server
    <3>3. CASE /\ loads' = [loads EXCEPT ![i].missing = @ \cup {l}]
               /\ UNCHANGED saved
      <4>1. loads'[i] = [loads[i] EXCEPT !.missing = loads[i].missing \cup {l}]
        BY <1>1, <3>3
      <4>2. QED
        BY <1>1, <1>3, <2>2, <3>1, <3>3, <4>1
        DEF LoadOK, Load, FileArrives, server
    <3>4. QED
      BY <2>2, <3>2, <3>3 DEF FileArrives
  <2>3. ASSUME NEW l \in Levels, CountArrives(i, l)
        PROVE  LoadOK(j)'
    <3> DEFINE load == [loads[i] EXCEPT !.downloadData = @ \cup {l}]
    <3>1. l \in loads[i].lData
      BY <2>3 DEF CountArrives, AwaitedCounts
    <3>2. /\ load \in Load
          /\ load.downloadData = loads[i].downloadData \cup {l}
          /\ load.docs = loads[i].docs
          /\ load.lData = loads[i].lData
          /\ load.missing = loads[i].missing
          /\ load.state = loads[i].state
      BY <1>1 DEF Load
    <3>3. CASE Completes(load)
      <4>1. loads'[i] = [NoLoad EXCEPT !.state = "shown"]
        BY <1>1, <2>3, <3>3 DEF CountArrives
      <4>2. QED
        BY <1>3, <4>1 DEF LoadOK, NoLoad
    <3>4. CASE ~Completes(load)
      <4>1. loads'[i] = load
        BY <1>1, <2>3, <3>4 DEF CountArrives
      <4>2. load.downloadData \subseteq load.docs
        BY <1>1, <3>1, <3>2 DEF LoadOK
      <4>3. load.downloadData # load.docs
        BY <3>2, <3>4, <4>2, CompletesMeansAll
      <4>4. UNCHANGED files
        BY <2>3 DEF CountArrives, server
      <4>5. QED
        BY <1>1, <1>3, <3>1, <3>2, <4>1, <4>3, <4>4 DEF LoadOK
    <3>5. QED
      BY <3>3, <3>4
  <2>4. QED
    BY <2>1, <2>2, <2>3 DEF Answer
<1>4. QED
  BY <1>2, <1>3

(* Every step keeps what the loads hold.                                   *)
LEMMA LoadsStep == TypeOK /\ LoadsOK /\ [Next]_vars => LoadsOK'
<1> SUFFICES ASSUME TypeOK, LoadsOK, [Next]_vars, NEW j \in Loads
             PROVE  LoadOK(j)'
  BY DEF LoadsOK
<1>1. LoadOK(j)
  BY DEF LoadsOK
<1>2. CASE UNCHANGED loads
  BY <1>1, <1>2, LoadKept
<1>3. CASE AnimateIn
  <2> DEFINE free == CHOOSE i \in Loads : ~Outstanding(i)
  <2>1. loads'[j] = loads[j] \/ loads'[j] = [NoLoad EXCEPT !.state = "query"]
    BY <1>3 DEF AnimateIn, TypeOK
  <2>2. CASE loads'[j] = [NoLoad EXCEPT !.state = "query"]
    BY <2>2 DEF LoadOK, NoLoad
  <2>3. QED
    BY <1>1, <2>1, <2>2, LoadKept
<1>4. ASSUME NEW i \in Loads, Answer(i)
      PROVE  LoadOK(j)'
  BY <1>4, LoadAnswer
<1>5. QED
  <2>1. CASE Publish \/ Kill \/ \E l \in Levels : PublishLv(l)
    BY <1>2, <2>1 DEF Publish, DocumentSet, Uploaded, Kill, PublishLv, reader
  <2>2. CASE \/ TouchDetail \/ PressPlay \/ PressBack
             \/ \E l \in Levels : PressTile(l)
    BY <1>2, <2>2 DEF TouchDetail, PressPlay, PressBack, PressTile, AnimateOut
  <2>3. CASE PressMenu \/ PressGlobalLevelSelect
    BY <1>3, <2>3 DEF PressMenu, PressGlobalLevelSelect
  <2>4. CASE UNCHANGED vars
    BY <1>2, <2>4 DEF vars, reader
  <2>5. QED
    BY <1>4, <2>1, <2>2, <2>3, <2>4 DEF Next

-----------------------------------------------------------------------------
(* The list on the screen *)

ListOK == WholeListShown /\ DetailIsListed

(* What is shown stays whole: it changes when a load completes, and then   *)
(* every document of that load has its file and its count.                 *)
LEMMA ListStep == TypeOK /\ LoadsOK /\ ListOK /\ [Next]_vars => ListOK'
<1> SUFFICES ASSUME TypeOK, LoadsOK, ListOK, [Next]_vars PROVE ListOK'
  OBVIOUS
<1>1. CASE UNCHANGED <<tiles, detail>>
  BY <1>1, FilesStay DEF ListOK, WholeListShown, DetailIsListed
<1>2. ASSUME NEW i \in Loads, NEW l \in Levels, CountArrives(i, l)
      PROVE  ListOK'
  <2> DEFINE load == [loads[i] EXCEPT !.downloadData = @ \cup {l}]
  <2>1. CASE Completes(load)
    <3>1. loads[i] \in Load /\ LoadOK(i)
      BY DEF TypeOK, LoadsOK
    <3>2. /\ load \in Load
          /\ load.downloadData = loads[i].downloadData \cup {l}
          /\ load.docs = loads[i].docs
          /\ load.lData = loads[i].lData
      BY <3>1 DEF Load
    <3>3. /\ load.downloadData \subseteq load.lData
          /\ load.lData \subseteq load.docs \cap files
      BY <1>2, <3>1, <3>2 DEF CountArrives, AwaitedCounts, LoadOK
    <3>4. load.downloadData = load.docs
      BY <2>1, <3>2, <3>3, CompletesMeansAll
    <3>5. /\ tiles' = [levels |-> load.lData, downloads |-> load.downloadData,
                       docs |-> load.docs]
          /\ detail' = None
          /\ UNCHANGED files
      BY <1>2, <2>1 DEF CountArrives, UpdateLevels, server
    <3>6. QED
      BY <3>3, <3>4, <3>5 DEF ListOK, WholeListShown, DetailIsListed
  <2>2. CASE ~Completes(load)
    BY <1>1, <1>2, <2>2 DEF CountArrives
  <2>3. QED
    BY <2>1, <2>2
<1>3. ASSUME NEW l \in Levels, PressTile(l)
      PROVE  ListOK'
  BY <1>3 DEF PressTile, server, ListOK, WholeListShown, DetailIsListed
<1>4. CASE TouchDetail
  BY <1>4 DEF TouchDetail, server, ListOK, WholeListShown, DetailIsListed
<1>5. QED
  <2>1. CASE Publish \/ Kill \/ \E l \in Levels : PublishLv(l)
    BY <1>1, <2>1 DEF Publish, DocumentSet, Uploaded, Kill, PublishLv, reader
  <2>2. CASE PressPlay \/ PressBack \/ PressMenu \/ PressGlobalLevelSelect
    BY <1>1, <2>2 DEF PressPlay, PressBack, PressMenu, PressGlobalLevelSelect,
                      AnimateIn, AnimateOut
  <2>3. ASSUME NEW i \in Loads, Answer(i)
        PROVE  ListOK'
    BY <1>1, <1>2, <2>3 DEF Answer, QueryArrives, FileArrives
  <2>4. CASE UNCHANGED vars
    BY <1>1, <2>4 DEF vars, reader
  <2>5. QED
    BY <1>3, <1>4, <2>1, <2>2, <2>3, <2>4 DEF Next

-----------------------------------------------------------------------------
(* Theorems *)

(* The invariant holds from the start and is kept by every step, so it     *)
(* holds in every state of publishing and listing.                         *)
THEOREM Invariance == Spec => []IInv
<1>1. Init => IInv
  <2> SUFFICES ASSUME Init PROVE IInv
    OBVIOUS
  <2>1. ServerOK
    BY DEF Init, ServerOK
  <2>2. LoadsOK
    BY DEF Init, LoadsOK, LoadOK, NoLoad
  <2>3. WholeListShown /\ DetailIsListed
    BY DEF Init, WholeListShown, DetailIsListed, NoTiles
  <2>4. QED
    BY <2>1, <2>2, <2>3, TypeInit DEF IInv
<1>2. IInv /\ [Next]_vars => IInv'
  BY TypeStep, ServerStep, LoadsStep, ListStep DEF IInv, ListOK
<1>3. QED
  BY <1>1, <1>2, PTL DEF Spec

(* The variables of the server, the loads and the screen keep their types. *)
THEOREM TypeCorrect == Spec => []TypeOK
<1>1. IInv => TypeOK
  BY DEF IInv
<1>2. QED
  BY <1>1, Invariance, PTL

(* The tiles are always all the documents of one query, each with the      *)
(* level that was fetched and its count: downloads[]! in updateLevels      *)
(* never fails, whether or not a copy could be saved.                      *)
THEOREM ListsAreWhole == Spec => []WholeListShown
<1>1. IInv => WholeListShown
  BY DEF IInv
<1>2. QED
  BY <1>1, Invariance, PTL

(* The detail view is always of a tile in the list, so pressedPlay plays a *)
(* level that is listed.                                                   *)
THEOREM DetailsAreListed == Spec => []DetailIsListed
<1>1. IInv => DetailIsListed
  BY DEF IInv
<1>2. QED
  BY <1>1, Invariance, PTL

(* uploadCustomMadeFile leaves no file unlisted unless a step failed.      *)
THEOREM NoFileIsOrphaned == Spec => []NoOrphanFile
<1>1. IInv => NoOrphanFile
  BY DEF IInv, ServerOK, NoOrphanFile
<1>2. QED
  BY <1>1, Invariance, PTL

(* A level that createLevelView_publishLv listed has its file or is being  *)
(* uploaded, unless a step of its publishing failed.                       *)
THEOREM ListedLevelsGetFiles == Spec => []ListedGetsFile
<1>1. IInv => ListedGetsFile
  BY DEF IInv, ServerOK, ListedGetsFile
<1>2. QED
  BY <1>1, Invariance, PTL

(* A load whose last answer came has called its completion, unless a file  *)
(* was missing or there was nothing to list: globalLevelSelect_getLevels   *)
(* overlooks no order of the answers.                                      *)
THEOREM NoListIsForgotten == Spec => []NoForgottenList
<1>1. IInv => NoForgottenList
  <2> SUFFICES ASSUME IInv, NEW i \in Loads,
                      loads[i].state = "files", ~Outstanding(i),
                      loads[i].missing = {}
               PROVE  loads[i].docs = {}
    BY DEF NoForgottenList
  <2>1. LoadOK(i)
    BY DEF IInv, LoadsOK
  <2>2. loads[i].docs = loads[i].downloadData
    BY <2>1 DEF LoadOK, Outstanding, AwaitedFiles, AwaitedCounts
  <2>3. QED
    BY <2>1, <2>2 DEF LoadOK
<1>2. QED
  BY <1>1, Invariance, PTL
=============================================================================
