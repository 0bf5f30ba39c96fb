--------------------------- MODULE DownloadCounter ---------------------------
(***************************************************************************)
(* The number of downloads of one level, kept in Firestore as a counter    *)
(* document with shards (DownloadCounter in FirebaseHandler.swift).  Each  *)
(* call of addDownloadCounterTo looks for the counter, creates it when it  *)
(* is not there, and increments one shard picked at random.                *)
(*                                                                         *)
(* Firestore is modelled as its headers describe it: writes are queued on  *)
(* the device and visible there at once, survive the process, reach the    *)
(* server in the order they were made and are acknowledged to a callback   *)
(* (lost with the process); a transaction is atomic and sees the server    *)
(* only.                                                                   *)
(***************************************************************************)
EXTENDS Naturals, Sequences, FiniteSets

CONSTANTS
  Calls,       \* calls of addDownloadCounterTo for this level
  Devices,
  device,      \* the device each call is made on
  NumShards,   \* DOWNLOAD_COUNTER_SHARDS
  Faults,      \* which of FaultKinds may happen
  Missing,     \* the value of a document that does not exist
  Counter      \* in a queue: the write of the counter document itself

FaultKinds == {"get",          \* getDocument fails
               "set",          \* the server rejects a write
               "transaction",  \* a transaction fails
               "kill"}         \* the process ends

ASSUME ConstantsAssumption ==
  /\ device \in [Calls -> Devices]
  /\ NumShards \in Nat \ {0}
  /\ Faults \subseteq FaultKinds
  /\ Missing \notin Nat
  /\ Counter \notin Nat

VARIABLES
  counter,   \* the counter document exists on the server
  shards,    \* the count of each shard document, or Missing
  queue,     \* the writes each device has not had acknowledged
  call,      \* where each call is
  acks,      \* num: how many shard writes of the call were acknowledged
  creators,  \* the calls that took the counter for missing (history)
  broken     \* those of them a write of which was rejected, or whose
             \* process was gone when the shards were due (history)

vars == <<counter, shards, queue, call, acks, creators, broken>>

AllShards  == 0 .. NumShards        \* the shards createCounter writes
UsedShards == 0 .. NumShards - 1    \* the shards incrementCounter picks from

Live(c) == call[c] \in {"get", "create", "increment"}

-----------------------------------------------------------------------------
Init ==
  /\ counter = FALSE
  /\ shards = [s \in AllShards |-> Missing]
  /\ queue = [d \in Devices |-> <<>>]
  /\ call = [c \in Calls |-> "start"]
  /\ acks = [c \in Calls |-> 0]
  /\ creators = {}
  /\ broken = {}

AddDownloadCounterTo(c) ==
  /\ call[c] = "start"
  /\ call' = [call EXCEPT ![c] = "get"]
  /\ UNCHANGED <<counter, shards, queue, acks, creators, broken>>

(* getDocument sees the server and the device's own queued writes.         *)
Exists(d) == counter \/ \E i \in 1 .. Len(queue[d]) : queue[d][i].write = Counter

GetExisting(c) ==
  /\ call[c] = "get"
  /\ Exists(device[c])
  /\ call' = [call EXCEPT ![c] = "increment"]
  /\ UNCHANGED <<counter, shards, queue, acks, creators, broken>>

(* No document, or an error: either way there is nothing to increment.     *)
CreateCounter(c) ==
  /\ call[c] = "get"
  /\ ~Exists(device[c]) \/ "get" \in Faults
  /\ call' = [call EXCEPT ![c] = "create"]
  /\ queue' = [queue EXCEPT ![device[c]] =
                  Append(@, [call |-> c, write |-> Counter])]
  /\ creators' = creators \cup {c}
  /\ UNCHANGED <<counter, shards, acks, broken>>

(* Variants of the loop: two rounds fewer, from 1 instead of 0, downwards, *)
(* and round the shards that are used.                                     *)
ShardWrites_TwoFewer(c) ==
  [i \in 1 .. NumShards - 1 |-> [call |-> c, write |-> i - 1]]
ShardWrites_FromOne(c) ==
  [i \in 1 .. NumShards |-> [call |-> c, write |-> i]]
ShardWrites_Downwards(c) ==
  [i \in 1 .. NumShards + 1 |-> [call |-> c, write |-> NumShards + 1 - i]]
ShardWrites_Wrapping(c) ==
  [i \in 1 .. NumShards + 1 |-> [call |-> c, write |-> (i - 1) % NumShards]]

(* The shard writes made when the counter document is acknowledged.        *)
ShardWrites(c) == [i \in 1 .. NumShards + 1 |-> [call |-> c, write |-> i - 1]]

(* The server has the oldest write of a device.  An error is only printed: *)
(* the callback goes on as after a success.                                *)
Acknowledge(d) ==
  /\ queue[d] # <<>>
  /\ LET c        == Head(queue[d]).call
         write    == Head(queue[d]).write
         callback == call[c] \in {"create", "increment"} /\ c \in creators
     IN  \/ /\ write = Counter
            /\ \/ /\ counter' = TRUE
                  /\ broken' = IF callback THEN broken ELSE broken \cup {c}
               \/ /\ "set" \in Faults /\ UNCHANGED counter
                  /\ broken' = broken \cup {c}
            /\ queue' = [queue EXCEPT ![d] =
                 IF callback THEN Tail(@) \o ShardWrites(c) ELSE Tail(@)]
            /\ UNCHANGED <<shards, call, acks>>
         \/ /\ write # Counter
            /\ \/ shards' = [shards EXCEPT ![write] = 0] /\ UNCHANGED broken
               \/ "set" \in Faults /\ broken' = broken \cup {c} /\ UNCHANGED shards
            /\ queue' = [queue EXCEPT ![d] = Tail(@)]
            /\ acks' = IF callback THEN [acks EXCEPT ![c] = @ + 1] ELSE acks
            /\ call' = IF callback /\ acks'[c] = NumShards
                       THEN [call EXCEPT ![c] = "increment"] ELSE call
            /\ UNCHANGED counter
  /\ UNCHANGED creators

(* Variants: the transaction writes 1 without reading the count; it is     *)
(* repeated when its answer was lost.                                      *)
IncrementCounter_Overwrites(c) ==
  /\ call[c] = "increment"
  /\ \E s \in UsedShards :
        /\ shards[s] # Missing
        /\ shards' = [shards EXCEPT ![s] = 1]
  /\ call' = [call EXCEPT ![c] = "counted"]
  /\ UNCHANGED <<counter, queue, acks, creators, broken>>

IncrementCounter_Repeats(c) ==
  /\ call[c] = "increment"
  /\ \E s \in UsedShards :
        /\ shards[s] # Missing
        /\ shards' = [shards EXCEPT ![s] = @ + 1]
  /\ call' \in {call, [call EXCEPT ![c] = "counted"]}
  /\ UNCHANGED <<counter, queue, acks, creators, broken>>

(* The transaction on shard s, which exists.                               *)
IncrementCounter(c) ==
  /\ call[c] = "increment"
  /\ \E s \in UsedShards :
        /\ shards[s] # Missing
        /\ shards' = [shards EXCEPT ![s] = @ + 1]
  /\ call' = [call EXCEPT ![c] = "counted"]
  /\ UNCHANGED <<counter, queue, acks, creators, broken>>

TransactionFails(c) ==
  /\ call[c] = "increment" /\ "transaction" \in Faults
  /\ call' = [call EXCEPT ![c] = "failed"]
  /\ UNCHANGED <<counter, shards, queue, acks, creators, broken>>

(* The process of d ends; what it was waiting for is lost.                 *)
Ended(d) ==
  [c \in Calls |-> IF device[c] = d /\ Live(c) THEN "lost" ELSE call[c]]

(* The shard picked does not exist: as! Int traps and the process dies.    *)
ForcedCastFails(c) ==
  /\ call[c] = "increment"
  /\ \E s \in UsedShards : shards[s] = Missing
  /\ call' = [Ended(device[c]) EXCEPT ![c] = "crashed"]
  /\ UNCHANGED <<counter, shards, queue, acks, creators, broken>>

Kill(d) ==
  /\ "kill" \in Faults
  /\ \E c \in Calls : device[c] = d /\ Live(c)
  /\ call' = Ended(d)
  /\ UNCHANGED <<counter, shards, queue, acks, creators, broken>>

Step(c) ==
  \/ GetExisting(c)
  \/ CreateCounter(c)
  \/ IncrementCounter(c)
  \/ TransactionFails(c)
  \/ ForcedCastFails(c)

(* Nothing is left to do once every call has ended and every queue is      *)
(* empty.                                                                  *)
Done ==
  /\ \A c \in Calls : call[c] # "start" /\ ~Live(c)
  /\ \A d \in Devices : queue[d] = <<>>
  /\ UNCHANGED vars

Next ==
  \/ \E c \in Calls : AddDownloadCounterTo(c) \/ Step(c)
  \/ \E d \in Devices : Acknowledge(d) \/ Kill(d)
  \/ Done

Spec == Init /\ [][Next]_vars

(* A device that runs the app sends its queue; one whose process has ended *)
(* does so only if somebody starts the app again.  A call under way shows  *)
(* that the process runs.                                                  *)
SendQueue(d) ==
  /\ \E c \in Calls : device[c] = d /\ Live(c)
  /\ Acknowledge(d)

(* The queue of a running device is sent, and a request made of the server *)
(* is answered.                                                            *)
FairSpec ==
  /\ Spec
  /\ \A d \in Devices : WF_vars(SendQueue(d))
  /\ \A c \in Calls : WF_vars(Step(c))
-----------------------------------------------------------------------------
(* Properties *)

TypeOK ==
  /\ counter \in BOOLEAN
  /\ shards \in [AllShards -> Nat \cup {Missing}]
  /\ queue \in [Devices -> Seq([call : Calls, write : AllShards \cup {Counter}])]
  /\ call \in [Calls -> {"start", "get", "create", "increment", "counted",
                         "failed", "crashed", "lost"}]
  /\ acks \in [Calls -> 0 .. NumShards + 1]
  /\ creators \subseteq Calls /\ broken \subseteq creators

(* The units that make up the counts of the shard documents there are;     *)
(* getCount adds the counts up.                                            *)
Units ==
  UNION {{s} \X (1 .. shards[s]) : s \in {z \in AllShards : shards[z] # Missing}}

GetCount == Cardinality(Units)

CountedCalls == {c \in Calls : call[c] = "counted"}
Counted == Cardinality(CountedCalls)

(* The count shown never exceeds the downloads counted, whatever fails.    *)
NeverOvercounts == GetCount <= Counted

(* As long as no two calls take the counter for missing, no download is    *)
(* lost: a creation's shard writes never hit a shard already incremented.  *)
SoleCreatorLosesNothing ==
  Cardinality(creators) <= 1 => GetCount = Counted

(* A call that created the counter waited for five of its six shard        *)
(* writes: enough for every shard it may pick to exist, unless one of its  *)
(* own writes was rejected.                                                *)
AllShardsExist == \A s \in UsedShards : shards[s] # Missing

CreatorFindsShards ==
  \A c \in creators \ broken : call[c] = "increment" => AllShardsExist

(* Whatever dies or fails, the count seen through getCount implements a    *)
(* tally: a download counted is not taken back unless several calls        *)
(* created the counter.                                                    *)
Tally == INSTANCE DownloadTally WITH
  tally <- GetCount, contested <- Cardinality(creators) > 1

ImplementsTally == Tally!Spec

(* A counter once begun is completed, whatever the other calls do to it    *)
(* and whoever crashes on it meanwhile, unless every creation was broken   *)
(* or cut off by the end of its own process, whose queue nobody sends.     *)
CounterCompleted ==
  counter ~> \/ AllShardsExist
             \/ \A c \in creators : c \in broken \/ call[c] = "lost"

(* Every call ends, whatever fails.                                        *)
CallEnds ==
  \A c \in Calls :
     (call[c] = "get") ~> call[c] \in {"counted", "failed", "crashed", "lost"}
=============================================================================
