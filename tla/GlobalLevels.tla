----------------------------- MODULE GlobalLevels -----------------------------
(***************************************************************************)
(* Sharing of levels (ViewController.swift, GlobalLevelSelectView.swift,   *)
(* GLSLevelSelector.swift): one device publishes a level in two steps, a   *)
(* document in Firestore and then a file in Storage; another lists all the *)
(* documents, fetches the file and the download count of each, and shows   *)
(* the tiles when it has them all.                                         *)
(*                                                                         *)
(* Every answer is handled on the main thread, one at a time and in any    *)
(* order.  Playing a tile also counts a download: see DownloadCounter.     *)
(***************************************************************************)
EXTENDS Integers, Sequences, FiniteSets

CONSTANTS
  Levels,
  Loads,       \* slots for calls of loadLevels whose answers are not all in
  MaxWrites,   \* bound on the document writes waiting for the server
  Faults,      \* which of FaultKinds may happen
  None

FaultKinds == {"set",        \* the server rejects a document
               "upload",     \* a file is not uploaded, or was not saved
               "kill",       \* the publishing process ends
               "query",      \* the documents cannot be listed
               "save",       \* a fetched level cannot be saved on the device
               "download"}   \* a file cannot be fetched

ASSUME ConstantsAssumption ==
  /\ IsFiniteSet(Levels)
  /\ MaxWrites \in Nat
  /\ Faults \subseteq FaultKinds
  /\ None \notin Levels

VARIABLES
  docs,        \* the levels with a document on the server
  files,       \* the levels with a file on the server
  writes,      \* document writes on their way, with their callback or without
  uploads,     \* the levels being uploaded
  cutShort,    \* the levels some step of whose publishing failed (history)
  loads,       \* the state of each call of loadLevels
  saved,       \* the reader's PublicMade levels, which nothing reads yet
  screen,
  tiles,       \* the levels shown, their counts, and the documents they are of
  detail,      \* the level whose detail view is open, or None
  showingDetailView,
  startedLoadingLevel

server == <<docs, files, writes, uploads, cutShort>>
reader == <<loads, saved, screen, tiles, detail, showingDetailView,
            startedLoadingLevel>>
vars   == <<server, reader>>

Write == [level : Levels, callback : BOOLEAN]

Load  == [state : {"none", "query", "failed", "files", "shown"},
          docs : SUBSET Levels, missing : SUBSET Levels,
          lData : SUBSET Levels, downloadData : SUBSET Levels]

NoLoad  == [state |-> "none", docs |-> {}, missing |-> {}, lData |-> {},
            downloadData |-> {}]
NoTiles == [levels |-> {}, downloads |-> {}, docs |-> {}]

-----------------------------------------------------------------------------
Init ==
  /\ docs = {} /\ files = {} /\ writes = <<>> /\ uploads = {} /\ cutShort = {}
  /\ loads = [i \in Loads |-> NoLoad]
  /\ saved = {}
  /\ screen = "PlaySelect"
  /\ tiles = NoTiles
  /\ detail = None
  /\ showingDetailView = FALSE
  /\ startedLoadingLevel = FALSE

(* Publishing *)

(* A variant that uploads without waiting for the document.                *)
PublishLv_Both(l) ==
  /\ Len(writes) < MaxWrites
  /\ writes' = Append(writes, [level |-> l, callback |-> TRUE])
  /\ uploads' = uploads \cup {l}
  /\ UNCHANGED <<docs, files, cutShort, reader>>

(* The level is saved, and the write of its document is queued.            *)
PublishLv(l) ==
  /\ Len(writes) < MaxWrites
  /\ writes' = Append(writes, [level |-> l, callback |-> TRUE])
  /\ UNCHANGED <<docs, files, uploads, cutShort, reader>>

(* A variant that uploads one level at a time, and skips the others.       *)
DocumentSet_OneUpload ==
  /\ writes # <<>>
  /\ LET l == Head(writes).level IN
       /\ docs' = docs \cup {l}
       /\ cutShort' = IF Head(writes).callback THEN cutShort
                      ELSE cutShort \cup {l}
       /\ uploads' = IF Head(writes).callback /\ uploads = {}
                     THEN {l} ELSE uploads
       /\ writes' = Tail(writes)
  /\ UNCHANGED <<files, reader>>

(* The server answers the oldest write.  The callback prints the error and *)
(* uploads the file all the same.                                          *)
DocumentSet ==
  /\ writes # <<>>
  /\ LET l == Head(writes).level IN
       /\ \/ /\ docs' = docs \cup {l}
             /\ cutShort' = IF Head(writes).callback THEN cutShort
                            ELSE cutShort \cup {l}
          \/ /\ "set" \in Faults
             /\ docs' = docs
             /\ cutShort' = cutShort \cup {l}
       /\ uploads' = IF Head(writes).callback THEN uploads \cup {l} ELSE uploads
       /\ writes' = Tail(writes)
  /\ UNCHANGED <<files, reader>>

Uploaded(l) ==
  /\ l \in uploads
  /\ uploads' = uploads \ {l}
  /\ \/ files' = files \cup {l} /\ UNCHANGED cutShort
     \/ "upload" \in Faults /\ cutShort' = cutShort \cup {l} /\ UNCHANGED files
  /\ UNCHANGED <<docs, writes, reader>>

(* The publishing process ends: its queued writes will still be sent.      *)
Kill ==
  /\ "kill" \in Faults
  /\ uploads # {} \/ \E i \in DOMAIN writes : writes[i].callback
  /\ uploads' = {}
  /\ cutShort' = cutShort \cup uploads
  /\ writes' = [i \in DOMAIN writes |-> [writes[i] EXCEPT !.callback = FALSE]]
  /\ UNCHANGED <<docs, files, reader>>

(* Listing *)

AwaitedFiles(i)  == loads[i].docs \ (loads[i].missing \cup loads[i].lData)
AwaitedCounts(i) == loads[i].lData \ loads[i].downloadData
Outstanding(i)   == \/ loads[i].state = "query"
                    \/ AwaitedFiles(i) # {}
                    \/ AwaitedCounts(i) # {}

(* animateIn: the flags are reset and a load is started; whatever was      *)
(* shown on the last visit is still there.                                 *)
AnimateIn ==
  /\ screen' = "GLS"
  /\ showingDetailView' = FALSE
  /\ startedLoadingLevel' = FALSE
  /\ \E i \in Loads : ~Outstanding(i)
  /\ LET i == CHOOSE i \in Loads : ~Outstanding(i)
     IN  loads' = [loads EXCEPT ![i] = [NoLoad EXCEPT !.state = "query"]]
  /\ UNCHANGED <<saved, tiles, detail, server>>

PressGlobalLevelSelect == screen = "PlaySelect" /\ AnimateIn

QueryArrives(i) ==
  /\ loads[i].state = "query"
  /\ \/ loads' = [loads EXCEPT ![i].state = "files", ![i].docs = docs]
     \/ "query" \in Faults /\ loads' = [loads EXCEPT ![i].state = "failed"]
  /\ UNCHANGED <<saved, screen, tiles, detail, showingDetailView,
                 startedLoadingLevel, server>>

(* The answer of getLevelFile for l.  The level is saved, and appended to  *)
(* the list even if that fails; the callback of a file that cannot be      *)
(* fetched is never called.                                                *)
FileArrives(i, l) ==
  /\ l \in AwaitedFiles(i)
  /\ \/ /\ l \in files
        /\ loads' = [loads EXCEPT ![i].lData = @ \cup {l}]
        /\ \/ saved' = saved \cup {l}
           \/ "save" \in Faults /\ UNCHANGED saved
     \/ /\ l \notin files \/ "download" \in Faults
        /\ loads' = [loads EXCEPT ![i].missing = @ \cup {l}]
        /\ UNCHANGED saved
  /\ UNCHANGED <<screen, tiles, detail, showingDetailView,
                 startedLoadingLevel, server>>

(* All subviews go, the detail view with them; the flag stays.             *)
UpdateLevels_OverDetail(load) ==
  /\ tiles' = [levels |-> load.lData, downloads |-> load.downloadData,
               docs |-> load.docs]
  /\ UNCHANGED detail

UpdateLevels(load) ==
  /\ tiles' = [levels |-> load.lData, downloads |-> load.downloadData,
               docs |-> load.docs]
  /\ detail' = None

(* Variants of the test that all is there: for the files instead of the    *)
(* counts, and made before num is incremented.                             *)
Completes_Files(load) == load.docs = load.lData
Completes_BeforeIncrement(load) ==
  Cardinality(load.downloadData) - 1 = Cardinality(load.docs)

(* num, the number of counts that came, is the number of documents.        *)
Completes(load) == Cardinality(load.downloadData) = Cardinality(load.docs)

(* A count, or 0 for an error; with the last one the list is complete.     *)
CountArrives(i, l) ==
  /\ l \in AwaitedCounts(i)
  /\ LET load == [loads[i] EXCEPT !.downloadData = @ \cup {l}] IN
       IF Completes(load)
       THEN /\ loads' = [loads EXCEPT ![i] = [NoLoad EXCEPT !.state = "shown"]]
            /\ UpdateLevels(load)
       ELSE /\ loads' = [loads EXCEPT ![i] = load]
            /\ UNCHANGED <<tiles, detail>>
  /\ UNCHANGED <<saved, screen, showingDetailView, startedLoadingLevel, server>>

(* The list on the screen *)

(* An open detail view covers the tiles.                                   *)
PressTile(l) ==
  /\ screen = "GLS"
  /\ l \in tiles.levels /\ detail = None
  /\ ~showingDetailView
  /\ showingDetailView' = TRUE
  /\ detail' = l
  /\ UNCHANGED <<loads, saved, screen, tiles, startedLoadingLevel, server>>

TouchDetail ==
  /\ screen = "GLS" /\ detail # None
  /\ detail' = None
  /\ showingDetailView' = FALSE
  /\ UNCHANGED <<loads, saved, screen, tiles, startedLoadingLevel, server>>

(* animateOut resets the flags, the one just set by play included.         *)
AnimateOut ==
  /\ showingDetailView' = FALSE
  /\ startedLoadingLevel' = FALSE
  /\ UNCHANGED <<loads, saved, tiles, detail, server>>

PressPlay ==
  /\ screen = "GLS" /\ detail # None
  /\ ~startedLoadingLevel
  /\ screen' = "LevelPlay"
  /\ AnimateOut

PressBack ==
  /\ screen = "GLS"
  /\ screen' = "PlaySelect"
  /\ AnimateOut

PressMenu == screen = "LevelPlay" /\ AnimateIn

-----------------------------------------------------------------------------
Publish == DocumentSet \/ \E l \in Levels : Uploaded(l)
Answer(i) == \/ QueryArrives(i)
             \/ \E l \in Levels : FileArrives(i, l) \/ CountArrives(i, l)

Next ==
  \/ \E l \in Levels : PublishLv(l) \/ PressTile(l)
  \/ Publish
  \/ Kill
  \/ PressGlobalLevelSelect
  \/ \E i \in Loads : Answer(i)
  \/ TouchDetail
  \/ PressPlay
  \/ PressBack
  \/ PressMenu

Spec == Init /\ [][Next]_vars

(* Every request is answered, if only by an error, and every upload ends.  *)
FairSpec ==
  /\ Spec
  /\ WF_vars(DocumentSet)
  /\ \A l \in Levels : WF_vars(Uploaded(l))
  /\ \A i \in Loads : WF_vars(Answer(i))
-----------------------------------------------------------------------------
(* Properties *)

TypeOK ==
  /\ docs \subseteq Levels /\ files \subseteq Levels
  /\ uploads \subseteq Levels /\ cutShort \subseteq Levels
  /\ writes \in Seq(Write)
  /\ Len(writes) <= MaxWrites
  /\ loads \in [Loads -> Load]
  /\ saved \subseteq Levels
  /\ screen \in {"PlaySelect", "GLS", "LevelPlay"}
  /\ tiles \in [levels : SUBSET Levels, downloads : SUBSET Levels,
                docs : SUBSET Levels]
  /\ detail \in Levels \cup {None}
  /\ showingDetailView \in BOOLEAN /\ startedLoadingLevel \in BOOLEAN

(* The comment at ViewController.swift:285, "return data once everything   *)
(* is downloaded": the tiles are all the documents of one query, each with *)
(* the level fetched from its file and with its count, so that no unwrap   *)
(* of downloads[]! fails.  They are shown from memory: whether their       *)
(* copies could be saved on the device does not matter.                    *)
WholeListShown ==
  /\ tiles.levels = tiles.docs
  /\ tiles.levels \subseteq tiles.downloads
  /\ tiles.levels \subseteq files

(* A detail view is of a tile in the list, so play plays a listed level.   *)
DetailIsListed == detail # None => detail \in tiles.levels

(* A file is listed, unless a step of its publishing failed.               *)
NoOrphanFile == files \subseteq docs \cup cutShort

(* A level listed has its file or is about to, unless a step of its        *)
(* publishing failed: uploads are neither forgotten nor waited for twice.  *)
ListedGetsFile == docs \subseteq files \cup uploads \cup cutShort

(* A load of which no answer is outstanding has shown its list, failed, or *)
(* found nothing, unless a file was missing: no completion is overlooked,  *)
(* whatever the order of the answers.                                      *)
NoForgottenList ==
  \A i \in Loads : loads[i].state = "files" /\ ~Outstanding(i) =>
     loads[i].missing # {} \/ loads[i].docs = {}

(* ViewController.swift:285, "return data once everything is downloaded".  *)
ListReturned ==
  \A i \in Loads :
     (loads[i].state = "files" /\ loads[i].docs # {}) ~> loads[i].state = "shown"
=============================================================================
