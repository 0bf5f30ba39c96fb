------------------------ MODULE DownloadCounter_proofs ------------------------
(***************************************************************************)
(* Proofs about DownloadCounter, for any calls, devices, number of shards  *)
(* and faults.                                                             *)
(***************************************************************************)
EXTENDS DownloadCounter, SequenceTheorems, FiniteSetTheorems, TLAPS

Write == [call : Calls, write : AllShards \cup {Counter}]

(* The writes of a call in a queue, and those not yet acknowledged.        *)
Writes(q, c) == {q[i].write : i \in {j \in 1 .. Len(q) : q[j].call = c}}
Queued(c) == Writes(queue[device[c]], c)

(* In a queue the writes of one call are its counter's alone, or shards'   *)
(* in ascending order.                                                     *)
Ordered(q) ==
  \A i, j \in 1 .. Len(q) : i < j /\ q[i].call = q[j].call =>
     q[i].write # Counter /\ q[j].write # Counter /\ q[i].write < q[j].write

(* Writes are queued where the call was made, by calls that create.        *)
Owned ==
  \A d \in Devices, c \in Calls :
     Writes(queue[d], c) # {} => device[c] = d /\ c \in creators

InOrder == \A d \in Devices : Ordered(queue[d])

Phases ==
  \A c \in Calls :
    /\ c \in creators => call[c] \notin {"start", "get"}
    /\ c \notin creators \/ Counter \in Queued(c) => acks[c] = 0
    /\ call[c] = "create" => c \in creators /\ acks[c] < NumShards
    /\ call[c] = "increment" /\ c \in creators =>
         NumShards <= acks[c] /\ Counter \notin Queued(c)

(* A creation whose process lives waits for the shards from acks on.       *)
Awaited ==
  \A c \in creators :
    call[c] \in {"create", "increment"} /\ Counter \notin Queued(c) =>
      Queued(c) = acks[c] .. NumShards

(* Of an unbroken creation every shard is queued or was written.           *)
Written ==
  \A c \in creators \ broken : Counter \notin Queued(c) =>
    \A s \in AllShards : s \in Queued(c) \/ shards[s] # Missing

(* A sole creation never writes to a shard that exists, which would wipe   *)
(* the downloads counted there.                                            *)
WipesNothing ==
  \A c \in Calls : creators \subseteq {c} =>
    \A s \in AllShards :
       creators = {} \/ {s, Counter} \cap Queued(c) # {} => shards[s] = Missing

IInv ==
  TypeOK /\ Owned /\ InOrder /\ Phases /\ Awaited /\ Written /\ WipesNothing

-----------------------------------------------------------------------------
(* Queues *)

(* A write taken from the head of an ordered queue is the first of its     *)
(* call's, and the only one when it is the counter's.                      *)
LEMMA TailFacts ==
  ASSUME NEW q \in Seq(Write), q # <<>>, Ordered(q)
  PROVE  /\ Head(q) \in Write /\ Tail(q) \in Seq(Write)
         /\ Ordered(Tail(q))
         /\ \A c : Writes(Tail(q), c) =
              IF c = Head(q).call THEN Writes(q, c) \ {Head(q).write}
                                  ELSE Writes(q, c)
         /\ Head(q).write \in Writes(q, Head(q).call)
         /\ Head(q).write = Counter =>
              Writes(q, Head(q).call) = {Counter}
         /\ Head(q).write # Counter =>
              \A w \in Writes(q, Head(q).call) :
                 w # Counter /\ Head(q).write <= w
<1> DEFINE t == Tail(q)
           h == q[1]
<1>1. /\ Len(q) \in Nat \ {0} /\ Head(q) = h
      /\ \A i \in 1 .. Len(q) : q[i] \in Write
  OBVIOUS
<1>2. /\ t \in Seq(Write) /\ Len(t) = Len(q) - 1
      /\ \A i \in 1 .. Len(t) : t[i] = q[i + 1]
  BY <1>1
<1>3. Ordered(t)
  <2> SUFFICES ASSUME NEW i \in 1 .. Len(t), NEW j \in 1 .. Len(t),
                      i < j, t[i].call = t[j].call
               PROVE  t[i].write # Counter /\ t[j].write # Counter
                      /\ t[i].write < t[j].write
    BY DEF Ordered
  <2>1. /\ i + 1 \in 1 .. Len(q) /\ j + 1 \in 1 .. Len(q) /\ i + 1 < j + 1
        /\ t[i] = q[i + 1] /\ t[j] = q[j + 1]
    BY <1>1, <1>2
  <2>2. QED
    BY <2>1 DEF Ordered
<1>4. ASSUME NEW j \in 1 .. Len(q), j # 1, q[j].call = h.call
      PROVE  h.write # Counter /\ q[j].write # Counter /\ h.write < q[j].write
  BY <1>1, <1>4 DEF Ordered
<1>5. ASSUME NEW c, NEW w, w \in Writes(t, c)
      PROVE  w \in Writes(q, c) /\ (c = h.call => w # h.write)
  <2>1. PICK i \in 1 .. Len(t) : t[i].call = c /\ t[i].write = w
    BY <1>5 DEF Writes
  <2>2. i + 1 \in 1 .. Len(q) /\ i + 1 # 1 /\ q[i + 1] = t[i]
    BY <1>1, <1>2
  <2>3. w \in Writes(q, c)
    BY <2>1, <2>2 DEF Writes
  <2>4. ASSUME c = h.call
        PROVE  w # h.write
    <3>1. h.write # Counter /\ w # Counter /\ h.write < w
      BY <1>4, <2>1, <2>2, <2>4
    <3>2. h.write \in Nat
      BY <1>1, <3>1, ConstantsAssumption DEF Write, AllShards
    <3>3. QED
      BY <3>1, <3>2
  <2>5. QED
    BY <2>3, <2>4
<1>6. ASSUME NEW c, NEW w, w \in Writes(q, c), c = h.call => w # h.write
      PROVE  w \in Writes(t, c)
  <2>1. PICK i \in 1 .. Len(q) : q[i].call = c /\ q[i].write = w
    BY <1>6 DEF Writes
  <2>2. i # 1
    BY <1>6, <2>1
  <2>3. i - 1 \in 1 .. Len(t) /\ t[i - 1] = q[i]
    BY <1>1, <1>2, <2>2
  <2>4. QED
    BY <2>1, <2>3 DEF Writes
<1>7. h.write \in Writes(q, h.call)
  BY <1>1 DEF Writes
<1>8. ASSUME NEW w \in Writes(q, h.call)
      PROVE  /\ h.write = Counter => w = Counter
             /\ h.write # Counter => w # Counter /\ h.write <= w
  <2>1. PICK i \in 1 .. Len(q) : q[i].call = h.call /\ q[i].write = w
    BY DEF Writes
  <2>2. h.write # Counter => h.write \in Nat
    BY <1>1, ConstantsAssumption DEF Write, AllShards
  <2>3. CASE i = 1
    BY <2>1, <2>2, <2>3
  <2>4. CASE i # 1
    <3>1. h.write # Counter /\ w # Counter /\ h.write < w
      BY <1>4, <2>1, <2>4
    <3>2. w \in Nat
      BY <1>1, <2>1, <3>1, ConstantsAssumption DEF Write, AllShards
    <3>3. QED
      BY <2>2, <3>1, <3>2
  <2>5. QED
    BY <2>3, <2>4
<1> HIDE DEF t, h
<1>9. ASSUME NEW c
      PROVE  Writes(t, c) = IF c = h.call THEN Writes(q, c) \ {h.write}
                                          ELSE Writes(q, c)
  <2>1. CASE c = h.call
    <3>1. \A w : w \in Writes(t, c) <=> w \in Writes(q, c) \ {h.write}
      BY <1>5, <1>6, <2>1
    <3>2. QED
      BY <2>1, <3>1
  <2>2. CASE c # h.call
    <3>1. \A w : w \in Writes(t, c) <=> w \in Writes(q, c)
      BY <1>5, <1>6, <2>2
    <3>2. QED
      BY <2>2, <3>1
  <2>3. QED
    BY <2>1, <2>2
<1>10. QED
  BY <1>1, <1>2, <1>3, <1>7, <1>8, <1>9 DEF t

(* A counter's write may join a queue without one of its call.             *)
LEMMA AppendFacts ==
  ASSUME NEW q \in Seq(Write), Ordered(q),
         NEW c \in Calls, Writes(q, c) = {}
  PROVE  LET r == Append(q, [call |-> c, write |-> Counter])
         IN  /\ r \in Seq(Write) /\ Ordered(r)
             /\ \A k : Writes(r, k) = IF k = c THEN {Counter} ELSE Writes(q, k)
<1> DEFINE n == [call |-> c, write |-> Counter]
           r == Append(q, n)
<1>1. n \in Write
  BY DEF Write
<1>2. /\ r \in Seq(Write) /\ Len(q) \in Nat /\ Len(r) = Len(q) + 1
      /\ r[Len(r)] = n /\ \A i \in 1 .. Len(q) : r[i] = q[i]
  BY <1>1
<1>3. \A i \in 1 .. Len(q) : q[i].call # c
  BY DEF Writes
<1>4. Ordered(r)
  <2> SUFFICES ASSUME NEW i \in 1 .. Len(r), NEW j \in 1 .. Len(r),
                      i < j, r[i].call = r[j].call
               PROVE  r[i].write # Counter /\ r[j].write # Counter
                      /\ r[i].write < r[j].write
    BY DEF Ordered
  <2>1. i \in 1 .. Len(q) /\ r[i] = q[i]
    BY <1>2
  <2>2. j # Len(r)
    BY <1>2, <1>3, <2>1
  <2>3. j \in 1 .. Len(q) /\ r[j] = q[j]
    BY <1>2, <2>2
  <2>4. QED
    BY <2>1, <2>3 DEF Ordered
<1>5. ASSUME NEW k
      PROVE  Writes(r, k) = IF k = c THEN {Counter} ELSE Writes(q, k)
  <2>1. ASSUME NEW w \in Writes(r, k)
        PROVE  IF k = c THEN w = Counter ELSE w \in Writes(q, k)
    <3>1. PICK i \in 1 .. Len(r) : r[i].call = k /\ r[i].write = w
      BY DEF Writes
    <3>2. CASE i = Len(r)
      BY <1>2, <3>1, <3>2
    <3>3. CASE i # Len(r)
      <4>1. i \in 1 .. Len(q) /\ r[i] = q[i]
        BY <1>2, <3>3
      <4>2. k # c /\ w \in Writes(q, k)
        BY <1>3, <3>1, <4>1 DEF Writes
      <4>3. QED
        BY <4>2
    <3>4. QED
      BY <3>2, <3>3
  <2>2. Counter \in Writes(r, c)
    <3>1. Len(r) \in 1 .. Len(r) /\ r[Len(r)].call = c /\ r[Len(r)].write = Counter
      BY <1>2
    <3>2. QED
      BY <3>1 DEF Writes
  <2>3. ASSUME NEW w \in Writes(q, k)
        PROVE  w \in Writes(r, k)
    <3>1. PICK i \in 1 .. Len(q) : q[i].call = k /\ q[i].write = w
      BY DEF Writes
    <3>2. i \in 1 .. Len(r) /\ r[i] = q[i]
      BY <1>2
    <3>3. QED
      BY <3>1, <3>2 DEF Writes
  <2> HIDE DEF r
  <2>4. QED
    BY <2>1, <2>2, <2>3
<1> HIDE DEF r
<1>6. QED
  BY <1>2, <1>4, <1>5 DEF r, n

(* So may the shards' writes of a call.                                    *)
LEMMA ConcatFacts ==
  ASSUME NEW q \in Seq(Write), Ordered(q),
         NEW c \in Calls, Writes(q, c) = {}
  PROVE  LET r == q \o ShardWrites(c)
         IN  /\ r \in Seq(Write) /\ Ordered(r)
             /\ \A k : Writes(r, k) = IF k = c THEN AllShards ELSE Writes(q, k)
<1> DEFINE z == ShardWrites(c)
           r == q \o z
<1>1. NumShards \in Nat /\ NumShards + 1 \in Nat
  BY ConstantsAssumption
<1>2. /\ z \in Seq(Write) /\ Len(z) = NumShards + 1
      /\ \A i \in 1 .. NumShards + 1 : z[i] = [call |-> c, write |-> i - 1]
  <2>1. ASSUME NEW i \in 1 .. NumShards + 1
        PROVE  i - 1 \in AllShards /\ [call |-> c, write |-> i - 1] \in Write
    BY <1>1 DEF AllShards, Write
  <2>2. z = [i \in 1 .. NumShards + 1 |-> [call |-> c, write |-> i - 1]]
    BY DEF ShardWrites
  <2>3. QED
    BY <1>1, <2>1, <2>2
<1> HIDE DEF z
<1>3. /\ r \in Seq(Write) /\ Len(q) \in Nat /\ Len(r) = Len(q) + NumShards + 1
      /\ \A i \in 1 .. Len(q) : r[i] = q[i]
      /\ \A i \in 1 .. NumShards + 1 :
            r[Len(q) + i] = [call |-> c, write |-> i - 1]
  <2> Len(q) \in Nat
    OBVIOUS
  <2>0. /\ r \in Seq(Write) /\ Len(r) = Len(q) + Len(z)
        /\ \A i \in 1 .. Len(q) + Len(z) :
             r[i] = IF i <= Len(q) THEN q[i] ELSE z[i - Len(q)]
    BY <1>2, ConcatProperties
  <2> HIDE DEF r
  <2>1. r \in Seq(Write) /\ Len(q) \in Nat /\ Len(r) = Len(q) + NumShards + 1
    BY <1>1, <1>2, <2>0
  <2>2. ASSUME NEW i \in 1 .. Len(q)
        PROVE  r[i] = q[i]
    BY <1>1, <1>2, <2>0
  <2>3. ASSUME NEW i \in 1 .. NumShards + 1
        PROVE  r[Len(q) + i] = z[i]
    <3>1. Len(q) + i \in 1 .. Len(q) + Len(z) /\ ~(Len(q) + i <= Len(q))
          /\ Len(q) + i - Len(q) = i
      BY <1>1, <1>2, <2>1
    <3>2. QED
      BY <2>0, <3>1
  <2>4. QED
    BY <1>2, <2>1, <2>2, <2>3
<1> HIDE DEF r
<1>4. \A i \in 1 .. Len(q) : q[i].call # c
  BY DEF Writes
<1>5. ASSUME NEW i \in 1 .. Len(r)
      PROVE  /\ r[i].call # c => i \in 1 .. Len(q) /\ r[i] = q[i]
             /\ r[i].call = c =>
                  r[i].write = i - Len(q) - 1 /\ r[i].write \in AllShards
  <2>1. CASE i <= Len(q)
    BY <1>3, <1>4, <2>1
  <2>2. CASE i > Len(q)
    <3> DEFINE m == i - Len(q)
    <3>1. m \in 1 .. NumShards + 1 /\ i = Len(q) + m
      BY <1>1, <1>3, <2>2
    <3>2. r[Len(q) + m] = [call |-> c, write |-> m - 1]
      BY <1>3, <3>1
    <3>3. m - 1 \in AllShards
      BY <1>1, <3>1 DEF AllShards
    <3>4. QED
      BY <2>2, <3>1, <3>2, <3>3
  <2>3. QED
    BY <1>3, <2>1, <2>2
<1>6. Ordered(r)
  <2> SUFFICES ASSUME NEW i \in 1 .. Len(r), NEW j \in 1 .. Len(r),
                      i < j, r[i].call = r[j].call
               PROVE  r[i].write # Counter /\ r[j].write # Counter
                      /\ r[i].write < r[j].write
    BY DEF Ordered
  <2>1. CASE r[i].call = c
    <3>1. /\ r[i].write = i - Len(q) - 1 /\ r[i].write \in AllShards
          /\ r[j].write = j - Len(q) - 1 /\ r[j].write \in AllShards
      BY <1>5, <2>1
    <3>2. Counter \notin AllShards
      BY ConstantsAssumption DEF AllShards
    <3>3. QED
      BY <1>3, <3>1, <3>2
  <2>2. CASE r[i].call # c
    <3>1. /\ i \in 1 .. Len(q) /\ j \in 1 .. Len(q)
          /\ r[i] = q[i] /\ r[j] = q[j]
      BY <1>5, <2>2
    <3>2. QED
      BY <3>1 DEF Ordered
  <2>3. QED
    BY <2>1, <2>2
<1>7. ASSUME NEW k
      PROVE  Writes(r, k) = IF k = c THEN AllShards ELSE Writes(q, k)
  <2>1. ASSUME NEW w \in Writes(r, k)
        PROVE  IF k = c THEN w \in AllShards ELSE w \in Writes(q, k)
    <3>1. PICK i \in 1 .. Len(r) : r[i].call = k /\ r[i].write = w
      BY DEF Writes
    <3>2. CASE k = c
      BY <1>5, <3>1, <3>2
    <3>3. CASE k # c
      <4>1. i \in 1 .. Len(q) /\ r[i] = q[i]
        BY <1>5, <3>1, <3>3
      <4>2. QED
        BY <3>1, <3>3, <4>1 DEF Writes
    <3>4. QED
      BY <3>2, <3>3
  <2>2. ASSUME NEW s \in AllShards
        PROVE  s \in Writes(r, c)
    <3> DEFINE m == s + 1
    <3>1. s \in Nat /\ m \in 1 .. NumShards + 1 /\ m - 1 = s
      BY <1>1 DEF AllShards
    <3>2. Len(q) + m \in 1 .. Len(r)
      BY <1>1, <1>3, <3>1
    <3> HIDE DEF m
    <3>3. r[Len(q) + m] = [call |-> c, write |-> m - 1]
      BY <1>3, <3>1
    <3>4. r[Len(q) + m].call = c /\ r[Len(q) + m].write = s
      BY <3>1, <3>3
    <3>5. QED
      BY <3>2, <3>4 DEF Writes
  <2>3. ASSUME NEW w \in Writes(q, k)
        PROVE  w \in Writes(r, k)
    <3>1. PICK i \in 1 .. Len(q) : q[i].call = k /\ q[i].write = w
      BY DEF Writes
    <3>2. i \in 1 .. Len(r) /\ r[i] = q[i]
      BY <1>1, <1>3
    <3>3. QED
      BY <3>1, <3>2 DEF Writes
  <2>4. CASE k = c
    BY <2>1, <2>2, <2>4
  <2>5. CASE k # c
    BY <2>1, <2>3, <2>5
  <2>6. QED
    BY <2>4, <2>5
<1>8. QED
  BY <1>3, <1>6, <1>7 DEF r, z

-----------------------------------------------------------------------------
(* The inductive invariant *)

(* At first nothing is queued and no call has begun.                       *)
LEMMA InvInit == Init => IInv
<1> SUFFICES ASSUME Init PROVE IInv
  OBVIOUS
<1>1. NumShards \in Nat \ {0}
  BY ConstantsAssumption
<1>2. TypeOK
  <2>1. 0 \in 0 .. NumShards + 1
    BY <1>1
  <2>2. acks \in [Calls -> 0 .. NumShards + 1]
    BY <2>1 DEF Init
  <2>3. queue \in [Devices -> Seq(Write)]
    BY DEF Init
  <2>4. QED
    BY <2>2, <2>3 DEF Init, TypeOK, Write
<1>3. ASSUME NEW d \in Devices
      PROVE  Ordered(queue[d]) /\ \A c : Writes(queue[d], c) = {}
  BY DEF Init, Ordered, Writes
<1>4. Owned /\ InOrder
  BY <1>3 DEF Owned, InOrder
<1>5. ASSUME NEW c \in Calls
      PROVE  Queued(c) = {} /\ call[c] = "start" /\ acks[c] = 0
  BY <1>3, ConstantsAssumption DEF Init, Queued
<1>6. creators = {} /\ \A s \in AllShards : shards[s] = Missing
  BY DEF Init
<1>7. Phases /\ Awaited /\ Written /\ WipesNothing
  BY <1>5, <1>6 DEF Phases, Awaited, Written, WipesNothing
<1>8. QED
  BY <1>2, <1>4, <1>7 DEF IInv

(* The types of the variables at a call and at a device.                   *)
LEMMA Typed ==
  ASSUME TypeOK
  PROVE  /\ NumShards \in Nat \ {0}
         /\ Missing \notin Nat /\ Counter \notin Nat
         /\ \A d \in Devices : queue[d] \in Seq(Write)
         /\ \A c \in Calls : device[c] \in Devices /\ acks[c] \in 0 .. NumShards + 1
BY ConstantsAssumption DEF TypeOK, Write

(* A step that only moves calls, none of them into a creation, and writes  *)
(* no shard that is missing, keeps the invariant.                          *)
LEMMA CallStep ==
  ASSUME IInv,
         UNCHANGED <<queue, acks, creators, broken>>,
         shards' \in [AllShards -> Nat \cup {Missing}],
         \A s \in AllShards : shards[s] = Missing <=> shards'[s] = Missing,
         \A c \in creators :
            \/ call'[c] = call[c]
            \/ call'[c] \notin {"start", "get", "create", "increment"},
         \A c \in Calls : call'[c] = "create" => call[c] = "create"
  PROVE  Owned' /\ InOrder' /\ Phases' /\ Awaited' /\ Written' /\ WipesNothing'
<1>1. TypeOK /\ creators \subseteq Calls
  BY DEF IInv, TypeOK
<1>2. Owned' /\ InOrder'
  BY DEF IInv, Owned, InOrder
<1>3. \A c : Queued(c)' = Queued(c)
  BY DEF Queued
<1>4. Phases'
  BY <1>1, <1>3 DEF IInv, Phases
<1>5. Awaited'
  BY <1>1, <1>3 DEF IInv, Awaited
<1>6. Written'
  BY <1>3 DEF IInv, Written
<1>7. WipesNothing'
  BY <1>3 DEF IInv, WipesNothing
<1>8. QED
  BY <1>2, <1>4, <1>5, <1>6, <1>7

(* A call that begins, and one that finds the counter, creates nothing.    *)
LEMMA StartStep ==
  ASSUME IInv, NEW c \in Calls, AddDownloadCounterTo(c) \/ GetExisting(c)
  PROVE  IInv'
<1>1. /\ call[c] \in {"start", "get"} /\ c \notin creators
      /\ \E p \in {"get", "increment"} : call' = [call EXCEPT ![c] = p]
      /\ UNCHANGED <<counter, shards, queue, acks, creators, broken>>
  BY DEF IInv, Phases, AddDownloadCounterTo, GetExisting
<1>2. TypeOK'
  BY <1>1 DEF IInv, TypeOK
<1>3. shards' \in [AllShards -> Nat \cup {Missing}]
  BY <1>2 DEF TypeOK
<1>4. \A k \in Calls : k # c => call'[k] = call[k]
  BY <1>1 DEF IInv, TypeOK
<1>5. call'[c] # "create"
  BY <1>1 DEF IInv, TypeOK
<1>6. creators \subseteq Calls
  BY DEF IInv, TypeOK
<1>7. QED
  BY <1>1, <1>2, <1>3, <1>4, <1>5, <1>6, CallStep DEF IInv

(* A call that ends, or whose process does, waits for nothing any more.    *)
LEMMA EndStep ==
  ASSUME IInv,
         \/ \E c \in Calls : TransactionFails(c) \/ ForcedCastFails(c)
         \/ \E d \in Devices : Kill(d)
  PROVE  IInv'
<1> DEFINE Over == {"failed", "crashed", "lost"}
           SomeEnd == /\ DOMAIN call' = Calls
                      /\ \A k \in Calls : call'[k] = call[k] \/ call'[k] \in Over
                      /\ call' = [k \in Calls |-> call'[k]]
<1>1. ASSUME NEW d \in Devices
      PROVE  /\ DOMAIN Ended(d) = Calls
             /\ \A k \in Calls : Ended(d)[k] \in {call[k], "lost"}
  BY DEF Ended
<1>2. SomeEnd
  <2>1. ASSUME NEW c \in Calls, TransactionFails(c)
        PROVE  SomeEnd
    BY <2>1 DEF TransactionFails, IInv, TypeOK
  <2>2. ASSUME NEW c \in Calls, ForcedCastFails(c)
        PROVE  SomeEnd
    <3>1. device[c] \in Devices
      BY ConstantsAssumption
    <3>2. call' = [Ended(device[c]) EXCEPT ![c] = "crashed"]
      BY <2>2 DEF ForcedCastFails
    <3>3. QED
      BY <1>1, <3>1, <3>2
  <2>3. ASSUME NEW d \in Devices, Kill(d)
        PROVE  SomeEnd
    <3>1. call' = Ended(d)
      BY <2>3 DEF Kill
    <3>2. call' = [k \in Calls |-> call'[k]]
      BY <3>1 DEF Ended
    <3>3. QED
      BY <1>1, <3>1, <3>2
  <2>4. QED
    BY <2>1, <2>2, <2>3
<1>3. UNCHANGED <<counter, shards, queue, acks, creators, broken>>
  BY DEF TransactionFails, ForcedCastFails, Kill
<1>4. TypeOK'
  BY <1>2, <1>3 DEF IInv, TypeOK
<1>5. shards' \in [AllShards -> Nat \cup {Missing}]
  BY <1>4 DEF TypeOK
<1>6. creators \subseteq Calls
  BY DEF IInv, TypeOK
<1>7. QED
  BY <1>2, <1>3, <1>4, <1>5, <1>6, CallStep DEF IInv

(* A transaction counts on a shard that exists.                            *)
LEMMA IncrementStep ==
  ASSUME IInv, NEW c \in Calls, IncrementCounter(c)
  PROVE  IInv'
<1>1. PICK s \in UsedShards :
        shards[s] # Missing /\ shards' = [shards EXCEPT ![s] = @ + 1]
  BY DEF IncrementCounter
<1>2. s \in AllShards /\ shards[s] \in Nat
  BY <1>1, ConstantsAssumption DEF IInv, TypeOK, UsedShards, AllShards
<1>3. shards[s] + 1 \in Nat /\ shards[s] + 1 # Missing
  BY <1>2, ConstantsAssumption
<1>4. /\ shards' \in [AllShards -> Nat \cup {Missing}]
      /\ \A z \in AllShards : shards[z] = Missing <=> shards'[z] = Missing
  BY <1>1, <1>2, <1>3 DEF IInv, TypeOK
<1>5. /\ call' = [call EXCEPT ![c] = "counted"]
      /\ UNCHANGED <<counter, queue, acks, creators, broken>>
  BY DEF IncrementCounter
<1>6. TypeOK'
  BY <1>4, <1>5 DEF IInv, TypeOK
<1>7. \A k \in Calls : call'[k] = IF k = c THEN "counted" ELSE call[k]
  BY <1>5 DEF IInv, TypeOK
<1>8. creators \subseteq Calls
  BY DEF IInv, TypeOK
<1>9. QED
  BY <1>4, <1>5, <1>6, <1>7, <1>8, CallStep DEF IInv

(* A call that creates has nothing queued yet, and with it the creation is *)
(* no longer the sole one unless nobody created before, when no shard      *)
(* exists.                                                                 *)
LEMMA CreateStep ==
  ASSUME IInv, NEW c \in Calls, CreateCounter(c)
  PROVE  IInv'
<1> DEFINE d == device[c]
           n == [call |-> c, write |-> Counter]
<1>1. /\ call[c] = "get" /\ call' = [call EXCEPT ![c] = "create"]
      /\ queue' = [queue EXCEPT ![d] = Append(queue[d], n)]
      /\ creators' = creators \cup {c}
      /\ UNCHANGED <<counter, shards, acks, broken>>
  BY DEF CreateCounter
<1>2. TypeOK /\ Owned /\ InOrder
  BY DEF IInv
<1>3. /\ d \in Devices /\ queue[d] \in Seq(Write) /\ Ordered(queue[d])
      /\ NumShards \in Nat \ {0} /\ acks[c] \in 0 .. NumShards + 1
  BY <1>2, Typed DEF InOrder
<1>4. c \notin creators /\ acks[c] = 0
  BY <1>1 DEF IInv, Phases
<1>5. Writes(queue[d], c) = {} /\ Queued(c) = {}
  BY <1>2, <1>3, <1>4 DEF Owned, Queued
<1>6. LET r == Append(queue[d], n)
      IN  /\ r \in Seq(Write) /\ Ordered(r)
          /\ \A k : Writes(r, k) = IF k = c THEN {Counter} ELSE Writes(queue[d], k)
  BY <1>3, <1>5, AppendFacts
<1> DEFINE r == Append(queue[d], n)
<1>7. /\ queue \in [Devices -> Seq(Write)]
      /\ queue' = [queue EXCEPT ![d] = r]
  BY <1>1, <1>2 DEF TypeOK, Write
<1>8. /\ r \in Seq(Write) /\ Ordered(r)
      /\ \A k : Writes(r, k) = IF k = c THEN {Counter} ELSE Writes(queue[d], k)
  BY <1>6
<1> HIDE DEF d, r, n
<1>9. /\ queue' \in [Devices -> Seq(Write)]
      /\ queue'[d] = r /\ \A e \in Devices : e # d => queue'[e] = queue[e]
  BY <1>3, <1>7, <1>8
<1>10. TypeOK'
  BY <1>1, <1>2, <1>9 DEF TypeOK, Write
<1>11. Owned' /\ InOrder'
  <2>1. ASSUME NEW e \in Devices, NEW k \in Calls, Writes(queue'[e], k) # {}
        PROVE  device[k] = e /\ k \in creators'
    BY <1>1, <1>2, <1>8, <1>9, <2>1 DEF Owned, d
  <2>2. ASSUME NEW e \in Devices
        PROVE  Ordered(queue'[e])
    BY <1>2, <1>8, <1>9 DEF InOrder
  <2>3. QED
    BY <2>1, <2>2 DEF Owned, InOrder
<1>12. \A k \in Calls : Queued(k)' = IF k = c THEN {Counter} ELSE Queued(k)
  <2>1. ASSUME NEW k \in Calls
        PROVE  Queued(k)' = IF k = c THEN {Counter} ELSE Queued(k)
    <3>1. device[k] \in Devices
      BY <1>2, Typed
    <3>2. CASE device[k] = d
      BY <1>8, <1>9, <3>2 DEF Queued, d
    <3>3. CASE device[k] # d
      BY <1>8, <1>9, <3>1, <3>3 DEF Queued, d
    <3>4. QED
      BY <3>2, <3>3
  <2>2. QED
    BY <2>1
<1>13. \A k \in Calls : call'[k] = IF k = c THEN "create" ELSE call[k]
  BY <1>1, <1>2 DEF TypeOK
<1>14. creators \subseteq Calls /\ broken \subseteq creators
  BY <1>2 DEF TypeOK
<1>15. Phases'
  BY <1>1, <1>3, <1>4, <1>12, <1>13 DEF IInv, Phases
<1>16. Awaited'
  BY <1>1, <1>12, <1>13, <1>14 DEF IInv, Awaited
<1>17. Written'
  BY <1>1, <1>12, <1>14 DEF IInv, Written
<1>18. WipesNothing'
  <2> SUFFICES ASSUME NEW k \in Calls, creators' \subseteq {k},
                      NEW s \in AllShards
               PROVE  shards'[s] = Missing
    BY DEF WipesNothing
  <2>1. creators = {}
    BY <1>1, <1>4
  <2>2. shards[s] = Missing
    BY <2>1 DEF IInv, WipesNothing
  <2>3. QED
    BY <1>1, <2>2
<1>19. QED
  BY <1>10, <1>11, <1>15, <1>16, <1>17, <1>18 DEF IInv

(* The oldest write of a queue is of a call that creates on this device.   *)
LEMMA HeadFacts ==
  ASSUME IInv, NEW d \in Devices, queue[d] # <<>>,
         NEW c, c = Head(queue[d]).call,
         NEW w, w = Head(queue[d]).write
  PROVE  /\ c \in creators /\ c \in Calls /\ device[c] = d
         /\ w \in Queued(c) /\ w \in AllShards \cup {Counter}
         /\ w = Counter => Queued(c) = {Counter}
         /\ w # Counter => \A z \in Queued(c) : z # Counter /\ w <= z
<1> DEFINE q == queue[d]
<1>1. TypeOK /\ Owned /\ InOrder
  BY DEF IInv
<1>2. q \in Seq(Write) /\ Ordered(q)
  BY <1>1, Typed DEF InOrder
<1>3. /\ Head(q) \in Write
      /\ w \in Writes(q, c)
      /\ w = Counter => Writes(q, c) = {Counter}
      /\ w # Counter => \A z \in Writes(q, c) : z # Counter /\ w <= z
  BY <1>2, TailFacts
<1>4. c \in Calls /\ w \in AllShards \cup {Counter}
  BY <1>3 DEF Write
<1>5. device[c] = d /\ c \in creators
  <2>1. Writes(queue[d], c) # {}
    BY <1>3
  <2> HIDE DEF q
  <2>2. QED
    BY <1>1, <1>4, <2>1 DEF Owned
<1>6. Queued(c) = Writes(q, c)
  BY <1>5 DEF Queued
<1> HIDE DEF q
<1>7. QED
  BY <1>3, <1>4, <1>5, <1>6

(* Taking it, and queueing the shards' writes behind the others if more,   *)
(* changes what is queued for its call only.                               *)
LEMMA HeadTaken ==
  ASSUME IInv, NEW d \in Devices, queue[d] # <<>>,
         NEW c, c = Head(queue[d]).call,
         NEW w, w = Head(queue[d]).write,
         NEW more \in BOOLEAN, more => w = Counter,
         UNCHANGED creators,
         queue' = [queue EXCEPT ![d] =
           IF more THEN Tail(queue[d]) \o ShardWrites(c) ELSE Tail(queue[d])]
  PROVE  /\ queue' \in [Devices -> Seq(Write)] /\ Owned' /\ InOrder'
         /\ \A k \in Calls : k # c => Queued(k)' = Queued(k)
         /\ Queued(c)' = IF more THEN AllShards ELSE Queued(c) \ {w}
<1> DEFINE q == queue[d]
           t == Tail(q)
           z == t \o ShardWrites(c)
           r == IF more THEN z ELSE t
<1>1. TypeOK /\ Owned /\ InOrder
  BY DEF IInv
<1>2. q \in Seq(Write) /\ Ordered(q)
  BY <1>1, Typed DEF InOrder
<1>3. /\ t \in Seq(Write) /\ Ordered(t)
      /\ \A k : Writes(t, k) = IF k = c THEN Writes(q, k) \ {w} ELSE Writes(q, k)
      /\ w = Counter => Writes(q, c) = {Counter}
  BY <1>2, TailFacts
<1>4. c \in creators /\ c \in Calls /\ device[c] = d
  BY HeadFacts
<1>5. queue \in [Devices -> Seq(Write)] /\ queue' = [queue EXCEPT ![d] = r]
  BY <1>1 DEF TypeOK, Write
<1>6. ASSUME more
      PROVE  /\ z \in Seq(Write) /\ Ordered(z)
             /\ \A k : Writes(z, k) = IF k = c THEN AllShards ELSE Writes(t, k)
  <2>1. w = Counter
    BY <1>6
  <2> HIDE DEF t, q
  <2>2. Writes(t, c) = {}
    BY <1>3, <2>1
  <2>3. QED
    BY <1>3, <1>4, <2>2, ConcatFacts
<1> HIDE DEF q, t, z
<1>7. /\ r \in Seq(Write) /\ Ordered(r)
      /\ \A k : k # c => Writes(r, k) = Writes(q, k)
      /\ Writes(r, c) = IF more THEN AllShards ELSE Writes(q, c) \ {w}
  <2>1. CASE more
    BY <1>3, <1>6, <2>1
  <2>2. CASE ~more
    BY <1>3, <2>2
  <2>3. QED
    BY <2>1, <2>2
<1> HIDE DEF r
<1>8. /\ queue' \in [Devices -> Seq(Write)]
      /\ queue'[d] = r /\ \A e \in Devices : e # d => queue'[e] = queue[e]
  BY <1>5, <1>7
<1>9. Owned'
  <2> SUFFICES ASSUME NEW e \in Devices, NEW k \in Calls, Writes(queue'[e], k) # {}
               PROVE  device[k] = e /\ k \in creators'
    BY DEF Owned
  <2>1. CASE e = d /\ k = c
    BY <1>4, <2>1
  <2>2. CASE ~(e = d /\ k = c)
    <3>1. Writes(queue[e], k) # {}
      BY <1>7, <1>8, <2>2 DEF q
    <3>2. QED
      BY <1>1, <3>1 DEF Owned
  <2>3. QED
    BY <2>1, <2>2
<1>10. InOrder'
  BY <1>1, <1>7, <1>8 DEF InOrder
<1>11. ASSUME NEW k \in Calls, k # c
       PROVE  Queued(k)' = Queued(k)
  <2>1. device[k] \in Devices
    BY <1>1, Typed
  <2>2. Writes(queue'[device[k]], k) = Writes(queue[device[k]], k)
    BY <1>7, <1>8, <1>11, <2>1 DEF q
  <2>3. QED
    BY <2>2 DEF Queued
<1>12. Queued(c)' = IF more THEN AllShards ELSE Queued(c) \ {w}
  <2>1. Queued(c)' = Writes(r, c) /\ Queued(c) = Writes(q, c)
    BY <1>4, <1>8 DEF Queued, q
  <2>2. QED
    BY <1>7, <2>1
<1>13. QED
  BY <1>8, <1>9, <1>10, <1>11, <1>12

(* The counter's write: its callback queues the shards, and a process that *)
(* is gone does not, which breaks the creation.                            *)
LEMMA AcknowledgeCounter ==
  ASSUME IInv, NEW d \in Devices, Acknowledge(d),
         Head(queue[d]).write = Counter
  PROVE  IInv'
<1>0. PICK c : c = Head(queue[d]).call
  OBVIOUS
<1> DEFINE callback == call[c] \in {"create", "increment"} /\ c \in creators
<1>1. /\ queue[d] # <<>> /\ counter' \in {counter, TRUE}
      /\ UNCHANGED <<creators, shards, call, acks>>
      /\ broken' \in {broken, broken \cup {c}}
      /\ ~callback => broken' = broken \cup {c}
      /\ queue' = [queue EXCEPT ![d] =
            IF callback THEN Tail(queue[d]) \o ShardWrites(c) ELSE Tail(queue[d])]
  BY <1>0 DEF Acknowledge
<1>2. c \in creators /\ c \in Calls /\ Queued(c) = {Counter}
  BY <1>0, <1>1, HeadFacts
<1>3. callback \in BOOLEAN
  OBVIOUS
<1>4. /\ queue' \in [Devices -> Seq(Write)] /\ Owned' /\ InOrder'
      /\ \A k \in Calls : k # c => Queued(k)' = Queued(k)
      /\ Queued(c)' = IF callback THEN AllShards ELSE Queued(c) \ {Counter}
  <2> HIDE DEF callback
  <2>1. QED
    BY <1>0, <1>1, <1>3, HeadTaken
<1>5. Queued(c)' = IF callback THEN AllShards ELSE {}
  BY <1>2, <1>4
<1>6. /\ acks[c] = 0 /\ call[c] # "increment"
      /\ NumShards \in Nat \ {0} /\ Counter \notin AllShards
  BY <1>2, ConstantsAssumption DEF IInv, Phases, AllShards
<1>7. creators \subseteq Calls /\ broken \subseteq creators /\ TypeOK
  BY DEF IInv, TypeOK
<1>8. TypeOK'
  BY <1>1, <1>2, <1>4, <1>7 DEF TypeOK, Write
<1>9. Phases'
  BY <1>1, <1>2, <1>4, <1>5, <1>6 DEF IInv, Phases
<1>10. Awaited'
  BY <1>1, <1>2, <1>4, <1>5, <1>6, <1>7 DEF IInv, Awaited, AllShards
<1>11. Written'
  BY <1>1, <1>2, <1>4, <1>5, <1>7 DEF IInv, Written
<1>12. WipesNothing'
  <2> SUFFICES ASSUME NEW k \in Calls, creators \subseteq {k}, NEW s \in AllShards
               PROVE  shards[s] = Missing
    BY <1>1 DEF WipesNothing
  <2>1. k = c /\ {s, Counter} \cap Queued(k) # {}
    BY <1>2
  <2>2. QED
    BY <2>1 DEF IInv, WipesNothing
<1>13. QED
  BY <1>4, <1>8, <1>9, <1>10, <1>11, <1>12 DEF IInv

(* A shard's write: the first of those the creation waits for, if it still *)
(* does; a rejected one breaks the creation.                               *)
LEMMA AcknowledgeShard ==
  ASSUME IInv, NEW d \in Devices, Acknowledge(d),
         Head(queue[d]).write # Counter
  PROVE  IInv'
<1>0. PICK c, w : c = Head(queue[d]).call /\ w = Head(queue[d]).write
  OBVIOUS
<1> DEFINE callback == call[c] \in {"create", "increment"} /\ c \in creators
<1>1. /\ queue[d] # <<>> /\ UNCHANGED <<creators, counter>>
      /\ \/ shards' = [shards EXCEPT ![w] = 0] /\ broken' = broken
         \/ broken' = broken \cup {c} /\ shards' = shards
      /\ queue' = [queue EXCEPT ![d] = Tail(queue[d])]
      /\ acks' = IF callback THEN [acks EXCEPT ![c] = @ + 1] ELSE acks
      /\ call' = IF callback /\ acks'[c] = NumShards
                  THEN [call EXCEPT ![c] = "increment"] ELSE call
  BY <1>0 DEF Acknowledge
<1>2. /\ c \in creators /\ c \in Calls /\ w \in Queued(c) /\ w \in AllShards
      /\ \A z \in Queued(c) : z # Counter /\ w <= z
  <2>1. w # Counter /\ queue[d] # <<>>
    BY <1>0, <1>1
  <2>2. QED
    BY <1>0, <2>1, HeadFacts
<1>3. /\ queue' \in [Devices -> Seq(Write)] /\ Owned' /\ InOrder'
      /\ \A k \in Calls : k # c => Queued(k)' = Queued(k)
      /\ Queued(c)' = Queued(c) \ {w}
  <2> DEFINE more == FALSE
  <2>1. /\ more \in BOOLEAN /\ ~more /\ UNCHANGED creators /\ queue[d] # <<>>
        /\ queue' = [queue EXCEPT ![d] =
             IF more THEN Tail(queue[d]) \o ShardWrites(c) ELSE Tail(queue[d])]
    BY <1>1
  <2> HIDE DEF more, callback
  <2>2. /\ queue' \in [Devices -> Seq(Write)] /\ Owned' /\ InOrder'
        /\ \A k \in Calls : k # c => Queued(k)' = Queued(k)
        /\ Queued(c)' = IF more THEN AllShards ELSE Queued(c) \ {w}
    BY <1>0, <2>1, HeadTaken
  <2>3. QED
    BY <2>1, <2>2
<1>4. TypeOK /\ creators \subseteq Calls /\ broken \subseteq creators
  BY DEF IInv, TypeOK
<1>5. /\ NumShards \in Nat \ {0} /\ Counter \notin Nat /\ Missing \notin Nat
      /\ acks[c] \in 0 .. NumShards + 1 /\ Counter \notin Queued(c)
      /\ w \in 0 .. NumShards
  BY <1>2, <1>4, Typed DEF AllShards
<1>6. ASSUME callback
      PROVE  w = acks[c] /\ Queued(c)' = acks[c] + 1 .. NumShards
             /\ acks[c] <= NumShards
  <2>1. Queued(c) = acks[c] .. NumShards
    BY <1>2, <1>5, <1>6 DEF IInv, Awaited
  <2>2. w = acks[c]
    <3>1. acks[c] \in Queued(c)
      BY <1>2, <1>5, <2>1
    <3>2. QED
      BY <1>2, <1>5, <2>1, <3>1
  <2>3. QED
    BY <1>2, <1>3, <1>5, <2>1, <2>2
<1>7. /\ \A k \in Calls : k # c => acks'[k] = acks[k] /\ call'[k] = call[k]
      /\ acks'[c] = IF callback THEN acks[c] + 1 ELSE acks[c]
      /\ call'[c] = IF callback /\ acks[c] + 1 = NumShards
                    THEN "increment" ELSE call[c]
      /\ acks' \in [Calls -> 0 .. NumShards + 1]
  <2>1. /\ acks \in [Calls -> 0 .. NumShards + 1]
        /\ call \in [Calls -> {"start", "get", "create", "increment", "counted",
                               "failed", "crashed", "lost"}]
    BY <1>4 DEF TypeOK
  <2>2. CASE callback
    <3>1. acks[c] + 1 \in 0 .. NumShards + 1
      BY <1>5, <1>6, <2>2
    <3>2. acks' = [acks EXCEPT ![c] = acks[c] + 1]
      BY <1>1, <2>2
    <3>3. acks'[c] = acks[c] + 1
      BY <1>2, <2>1, <3>2
    <3>4. call' = IF acks[c] + 1 = NumShards
                  THEN [call EXCEPT ![c] = "increment"] ELSE call
      BY <1>1, <2>2, <3>3
    <3> HIDE DEF callback
    <3>5. QED
      BY <1>2, <2>1, <2>2, <3>1, <3>2, <3>3, <3>4
  <2>3. CASE ~callback
    <3>1. acks' = acks /\ call' = call
      BY <1>1, <2>3
    <3> HIDE DEF callback
    <3>2. QED
      BY <2>1, <2>3, <3>1
  <2>4. QED
    BY <2>2, <2>3
<1>8. /\ shards' \in [AllShards -> Nat \cup {Missing}]
      /\ c \in broken' \/ shards'[w] # Missing
      /\ \A s \in AllShards : s # w => shards'[s] = shards[s]
      /\ broken' \in {broken, broken \cup {c}}
  <2>1. shards \in [AllShards -> Nat \cup {Missing}]
    BY <1>4 DEF TypeOK
  <2>2. CASE shards' = [shards EXCEPT ![w] = 0] /\ broken' = broken
    BY <1>2, <1>5, <2>1, <2>2
  <2>3. CASE broken' = broken \cup {c} /\ shards' = shards
    BY <1>2, <2>1, <2>3
  <2>4. QED
    BY <1>1, <2>2, <2>3
<1>9. TypeOK'
  <2>1. call' \in [Calls -> {"start", "get", "create", "increment", "counted",
                            "failed", "crashed", "lost"}]
    BY <1>1, <1>4 DEF TypeOK
  <2>2. broken' \subseteq creators' /\ creators' \subseteq Calls
    BY <1>1, <1>2, <1>4, <1>8
  <2> HIDE DEF callback
  <2>3. QED
    BY <1>1, <1>3, <1>4, <1>7, <1>8, <2>1, <2>2 DEF TypeOK, Write
<1>10. Phases'
  <2> SUFFICES ASSUME NEW k \in Calls
               PROVE  /\ k \in creators' => call'[k] \notin {"start", "get"}
                      /\ k \notin creators' \/ Counter \in Queued(k)' => acks'[k] = 0
                      /\ call'[k] = "create" =>
                           k \in creators' /\ acks'[k] < NumShards
                      /\ call'[k] = "increment" /\ k \in creators' =>
                           NumShards <= acks'[k] /\ Counter \notin Queued(k)'
    BY DEF Phases
  <2>1. CASE k = c
    BY <1>1, <1>2, <1>3, <1>5, <1>6, <1>7, <2>1 DEF IInv, Phases
  <2>2. CASE k # c
    BY <1>1, <1>3, <1>7, <2>2 DEF IInv, Phases
  <2>3. QED
    BY <2>1, <2>2
<1>11. Awaited'
  <2> SUFFICES ASSUME NEW k \in creators,
                      call'[k] \in {"create", "increment"}, Counter \notin Queued(k)'
               PROVE  Queued(k)' = acks'[k] .. NumShards
    BY <1>1 DEF Awaited
  <2>1. CASE k = c
    <3>1. callback
      BY <1>2, <1>7, <2>1
    <3>2. QED
      BY <1>6, <1>7, <2>1, <3>1
  <2>2. CASE k # c
    BY <1>3, <1>4, <1>7, <2>2 DEF IInv, Awaited
  <2>3. QED
    BY <2>1, <2>2
<1>12. Written'
  <2> SUFFICES ASSUME NEW k \in creators, k \notin broken', Counter \notin Queued(k)',
                      NEW s \in AllShards, s \notin Queued(k)'
               PROVE  shards'[s] # Missing
    BY <1>1 DEF Written
  <2>1. k \notin broken
    BY <1>8
  <2>2. CASE s = w /\ shards' = [shards EXCEPT ![w] = 0]
    <3>1. shards'[w] = 0
      BY <1>2, <1>4, <2>2 DEF TypeOK
    <3>2. QED
      BY <1>5, <2>2, <3>1
  <2>3. CASE s = w /\ broken' = broken \cup {c} /\ shards' = shards
    <3>1. k # c /\ Queued(k)' = Queued(k)
      BY <1>3, <1>4, <2>3
    <3>2. QED
      BY <2>1, <2>3, <3>1 DEF IInv, Written
  <2>4. CASE s # w
    BY <1>3, <1>4, <1>5, <1>8, <2>1, <2>4 DEF IInv, Written
  <2>5. QED
    BY <1>1, <2>2, <2>3, <2>4
<1>13. WipesNothing'
  <2> SUFFICES ASSUME NEW k \in Calls, creators \subseteq {k}, NEW s \in AllShards,
                      {s, Counter} \cap Queued(k)' # {}
               PROVE  shards'[s] = Missing
    BY <1>1, <1>2 DEF WipesNothing
  <2>1. k = c
    BY <1>2
  <2>2. s # w /\ s \in Queued(c)
    BY <1>3, <1>5, <2>1
  <2>3. shards[s] = Missing
    BY <2>1, <2>2 DEF IInv, WipesNothing
  <2>4. QED
    BY <1>8, <2>2, <2>3
<1>14. QED
  BY <1>3, <1>9, <1>10, <1>11, <1>12, <1>13 DEF IInv

(* Every step keeps the invariant.                                         *)
LEMMA InvNext == IInv /\ [Next]_vars => IInv'
<1> SUFFICES ASSUME IInv, [Next]_vars PROVE IInv'
  OBVIOUS
<1>1. ASSUME NEW c \in Calls, AddDownloadCounterTo(c) \/ GetExisting(c)
      PROVE  IInv'
  BY <1>1, StartStep
<1>2. ASSUME NEW c \in Calls, CreateCounter(c)
      PROVE  IInv'
  BY <1>2, CreateStep
<1>3. ASSUME NEW c \in Calls, IncrementCounter(c)
      PROVE  IInv'
  BY <1>3, IncrementStep
<1>4. ASSUME NEW c \in Calls, TransactionFails(c) \/ ForcedCastFails(c)
      PROVE  IInv'
  BY <1>4, EndStep
<1>5. ASSUME NEW d \in Devices, Acknowledge(d)
      PROVE  IInv'
  BY <1>5, AcknowledgeCounter, AcknowledgeShard
<1>6. ASSUME NEW d \in Devices, Kill(d)
      PROVE  IInv'
  BY <1>6, EndStep
<1>7. CASE Done \/ UNCHANGED vars
  <2>1. UNCHANGED vars
    BY <1>7 DEF Done
  <2>2. TypeOK' /\ (\A c : Queued(c)' = Queued(c))
    BY <2>1 DEF vars, IInv, TypeOK, Queued
  <2>3. Owned' /\ InOrder' /\ Phases' /\ Awaited' /\ Written' /\ WipesNothing'
    BY <2>1, <2>2
       DEF vars, IInv, Owned, InOrder, Phases, Awaited, Written, WipesNothing
  <2>4. QED
    BY <2>2, <2>3 DEF IInv
<1>8. QED
  BY <1>1, <1>2, <1>3, <1>4, <1>5, <1>6, <1>7 DEF Next, Step

(* What is queued and what was written agree with where the calls are.     *)
THEOREM Invariance == Spec => []IInv
<1>1. Init => IInv
  BY InvInit
<1>2. IInv /\ [Next]_vars => IInv'
  BY InvNext
<1>3. QED
  BY <1>1, <1>2, PTL DEF Spec

-----------------------------------------------------------------------------
(* The count *)

(* Whatever fails, what was counted is finite, and is all there unless     *)
(* several calls created the counter.                                      *)
Tallied ==
  /\ IsFiniteSet(Units) /\ IsFiniteSet(CountedCalls) /\ IsFiniteSet(creators)
  /\ GetCount <= Counted
  /\ Cardinality(creators) <= 1 => GetCount = Counted

(* What a step does to the count: nothing; a call counts, one unit more;   *)
(* a call creates the counter; units of a contested counter are wiped.     *)
CountKept  == UNCHANGED <<Units, CountedCalls>>
NothingNew == CountKept /\ UNCHANGED creators
OneCounts ==
  /\ \E c : c \notin CountedCalls /\ CountedCalls' = CountedCalls \cup {c}
  /\ \E u : u \notin Units /\ Units' = Units \cup {u}
  /\ UNCHANGED creators
OneCreates ==
  /\ \E c : c \notin creators /\ creators' = creators \cup {c}
  /\ CountKept
UnitsWiped ==
  /\ \A c : ~(creators \subseteq {c})
  /\ Units' \subseteq Units
  /\ UNCHANGED <<CountedCalls, creators>>

CountStep == NothingNew \/ OneCounts \/ OneCreates \/ UnitsWiped

(* A unit belongs to a shard that exists, and is one of its count.         *)
UnitsOf(counts) ==
  UNION {{s} \X (1 .. counts[s]) : s \in {z \in AllShards : counts[z] # Missing}}

LEMMA UnitFacts ==
  ASSUME NEW counts \in [AllShards -> Nat \cup {Missing}]
  PROVE  \A u : u \in UnitsOf(counts) <=>
           \E s \in AllShards : \E n \in Nat :
              u = <<s, n>> /\ counts[s] # Missing /\ 1 <= n /\ n <= counts[s]
<1>1. \A s \in AllShards : counts[s] # Missing => counts[s] \in Nat
  OBVIOUS
<1>2. ASSUME NEW u \in UnitsOf(counts)
      PROVE  \E s \in AllShards : \E n \in Nat :
               u = <<s, n>> /\ counts[s] # Missing /\ 1 <= n /\ n <= counts[s]
  <2>1. PICK s \in AllShards : counts[s] # Missing /\ u \in {s} \X (1 .. counts[s])
    BY DEF UnitsOf
  <2>2. PICK n \in 1 .. counts[s] : u = <<s, n>>
    BY <2>1
  <2>3. n \in Nat /\ 1 <= n /\ n <= counts[s]
    BY <1>1, <2>1
  <2> QED
    BY <2>1, <2>2, <2>3
<1>3. ASSUME NEW s \in AllShards, NEW n \in Nat,
             counts[s] # Missing, 1 <= n, n <= counts[s]
      PROVE  <<s, n>> \in UnitsOf(counts)
  <2>1. n \in 1 .. counts[s]
    BY <1>1, <1>3
  <2>2. <<s, n>> \in {s} \X (1 .. counts[s])
    BY <2>1
  <2> QED
    BY <1>3, <2>2 DEF UnitsOf
<1> QED
  BY <1>2, <1>3

(* A shard that counts one more has one unit more.                         *)
LEMMA UnitAdded ==
  ASSUME TypeOK, TypeOK', NEW s \in AllShards, shards[s] # Missing,
         shards' = [shards EXCEPT ![s] = @ + 1]
  PROVE  \E u : u \notin Units /\ Units' = Units \cup {u}
<1> DEFINE n == shards[s] + 1
<1>1. n \in Nat /\ shards[s] \in Nat /\ n # Missing
  BY ConstantsAssumption DEF TypeOK
<1>2. /\ shards'[s] = n
      /\ \A z \in AllShards : z # s => shards'[z] = shards[z]
  BY DEF TypeOK
<1>3. \A u : u \in Units <=>
        \E z \in AllShards : \E m \in Nat :
           u = <<z, m>> /\ shards[z] # Missing /\ 1 <= m /\ m <= shards[z]
  BY UnitFacts DEF TypeOK, Units, UnitsOf
<1>4. \A u : u \in Units' <=>
        \E z \in AllShards : \E m \in Nat :
           u = <<z, m>> /\ shards'[z] # Missing /\ 1 <= m /\ m <= shards'[z]
  BY UnitFacts DEF TypeOK, Units, UnitsOf
<1> HIDE DEF n
<1>5. ASSUME NEW u \in Units'
      PROVE  u \in Units \cup {<<s, n>>}
  <2>1. PICK z \in AllShards, m \in Nat :
          u = <<z, m>> /\ shards'[z] # Missing /\ 1 <= m /\ m <= shards'[z]
    BY <1>4
  <2>2. CASE z # s
    BY <1>2, <1>3, <2>1, <2>2
  <2>3. CASE z = s /\ m = n
    BY <2>1, <2>3
  <2>4. CASE z = s /\ m # n
    <3>1. m <= shards[s]
      BY <1>1, <1>2, <2>1, <2>4 DEF n
    <3> QED
      BY <1>3, <2>1, <2>4, <3>1
  <2> QED
    BY <2>2, <2>3, <2>4
<1>6. <<s, n>> \in Units'
  BY <1>1, <1>2, <1>4 DEF n
<1>7. ASSUME NEW u \in Units
      PROVE  u \in Units'
  <2>1. PICK z \in AllShards, m \in Nat :
          u = <<z, m>> /\ shards[z] # Missing /\ 1 <= m /\ m <= shards[z]
    BY <1>3
  <2>2. shards'[z] # Missing /\ m <= shards'[z]
    BY <1>1, <1>2, <2>1 DEF n
  <2> QED
    BY <1>4, <2>1, <2>2
<1>8. <<s, n>> \notin Units
  <2> SUFFICES ASSUME <<s, n>> \in Units PROVE FALSE
    OBVIOUS
  <2>1. PICK z \in AllShards, m \in Nat :
          <<s, n>> = <<z, m>> /\ m <= shards[z]
    BY <1>3
  <2>2. s = z /\ n = m
    BY <2>1
  <2> QED
    BY <1>1, <2>1, <2>2 DEF n
<1> QED
  BY <1>5, <1>6, <1>7, <1>8

(* A shard that counts nothing any more: no unit is new, and none is gone  *)
(* if the shard did not exist.                                             *)
LEMMA UnitsZeroed ==
  ASSUME TypeOK, NEW s \in AllShards, shards' = [shards EXCEPT ![s] = 0]
  PROVE  Units' \subseteq Units /\ (shards[s] = Missing => Units' = Units)
<1>1. shards \in [AllShards -> Nat \cup {Missing}]
  BY DEF TypeOK
<1>2. /\ shards'[s] = 0 /\ shards' \in [AllShards -> Nat \cup {Missing}]
      /\ \A z \in AllShards : z # s => shards'[z] = shards[z]
  BY <1>1
<1>3. \A u : u \in Units <=>
        \E z \in AllShards : \E m \in Nat :
           u = <<z, m>> /\ shards[z] # Missing /\ 1 <= m /\ m <= shards[z]
  BY <1>1, UnitFacts DEF Units, UnitsOf
<1>4. \A u : u \in Units' <=>
        \E z \in AllShards : \E m \in Nat :
           u = <<z, m>> /\ shards'[z] # Missing /\ 1 <= m /\ m <= shards'[z]
  BY <1>2, UnitFacts DEF Units, UnitsOf
<1>5. ASSUME NEW u \in Units'
      PROVE  u \in Units
  <2>1. PICK z \in AllShards, m \in Nat :
          u = <<z, m>> /\ shards'[z] # Missing /\ 1 <= m /\ m <= shards'[z]
    BY <1>4
  <2>2. z # s
    BY <1>2, <2>1
  <2> QED
    BY <1>2, <1>3, <2>1, <2>2
<1>6. ASSUME shards[s] = Missing, NEW u \in Units
      PROVE  u \in Units'
  <2>1. PICK z \in AllShards, m \in Nat :
          u = <<z, m>> /\ shards[z] # Missing /\ 1 <= m /\ m <= shards[z]
    BY <1>3
  <2>2. z # s
    BY <1>6, <2>1
  <2> QED
    BY <1>2, <1>4, <2>1, <2>2
<1> QED
  BY <1>5, <1>6

(* The acknowledgement of a shard's write wipes the units of a contested   *)
(* counter, or none.                                                       *)
LEMMA AcknowledgeCounts ==
  ASSUME IInv, NEW d \in Devices, Acknowledge(d)
  PROVE  CountStep
<1>0. PICK c, w : c = Head(queue[d]).call /\ w = Head(queue[d]).write
  OBVIOUS
<1>1. TypeOK
  BY DEF IInv
<1>2. queue[d] # <<>> /\ UNCHANGED creators
  BY DEF Acknowledge
<1>3. CASE w = Counter
  <2>1. UNCHANGED <<shards, call>>
    BY <1>0, <1>3 DEF Acknowledge
  <2>2. NothingNew
    BY <1>2, <2>1 DEF NothingNew, CountKept, Units, CountedCalls
  <2> QED
    BY <2>2 DEF CountStep
<1>4. CASE w # Counter
  <2>1. /\ c \in creators /\ c \in Calls /\ w \in Queued(c) /\ w \in AllShards
    BY <1>0, <1>2, <1>4, HeadFacts
  <2>2. /\ shards' \in {shards, [shards EXCEPT ![w] = 0]}
        /\ \/ call' = call
           \/ call[c] \in {"create", "increment"}
              /\ call' = [call EXCEPT ![c] = "increment"]
    BY <1>0, <1>4 DEF Acknowledge
  <2>3. CountedCalls' = CountedCalls
    BY <1>1, <2>1, <2>2 DEF TypeOK, CountedCalls
  <2>4. CASE shards' = shards
    BY <1>2, <2>3, <2>4 DEF CountStep, NothingNew, CountKept, Units
  <2>5. CASE shards' = [shards EXCEPT ![w] = 0]
    <3>1. Units' \subseteq Units /\ (shards[w] = Missing => Units' = Units)
      BY <1>1, <2>1, <2>5, UnitsZeroed
    <3>2. ASSUME NEW k, creators \subseteq {k}
          PROVE  Units' = Units
      <4>1. creators \subseteq {c} /\ w \in {w, Counter} \cap Queued(c)
        BY <2>1, <3>2
      <4>2. shards[w] = Missing
        BY <2>1, <4>1 DEF IInv, WipesNothing
      <4> QED
        BY <3>1, <4>2
    <3>3. NothingNew \/ UnitsWiped
      BY <1>2, <2>3, <3>1, <3>2 DEF NothingNew, CountKept, UnitsWiped
    <3> QED
      BY <3>3 DEF CountStep
  <2> QED
    BY <2>2, <2>4, <2>5
<1> QED
  BY <1>3, <1>4

(* What every step does to the count.                                      *)
LEMMA CountStepNext ==
  ASSUME IInv, [Next]_vars
  PROVE  CountStep
<1>1. TypeOK /\ TypeOK'
  BY InvNext DEF IInv
<1> DEFINE StillCounted ==
             \A k \in Calls : call'[k] = "counted" <=> call[k] = "counted"
<1>2. ASSUME StillCounted, UNCHANGED shards
      PROVE  CountKept
  BY <1>2 DEF CountKept, CountedCalls, Units
<1>3. ASSUME NEW c \in Calls, AddDownloadCounterTo(c) \/ GetExisting(c)
      PROVE  CountStep
  <2>1. /\ \E p \in {"get", "increment"} : call' = [call EXCEPT ![c] = p]
        /\ call[c] \in {"start", "get"} /\ UNCHANGED <<shards, creators>>
    BY <1>3 DEF AddDownloadCounterTo, GetExisting
  <2>2. StillCounted
    BY <1>1, <2>1 DEF TypeOK
  <2> QED
    BY <1>2, <2>1, <2>2 DEF CountStep, NothingNew
<1>4. ASSUME NEW c \in Calls, CreateCounter(c)
      PROVE  CountStep
  <2>1. /\ call[c] = "get" /\ call' = [call EXCEPT ![c] = "create"]
        /\ creators' = creators \cup {c} /\ UNCHANGED shards
    BY <1>4 DEF CreateCounter
  <2>2. c \notin creators
    BY <2>1 DEF IInv, Phases
  <2>3. StillCounted
    BY <1>1, <2>1 DEF TypeOK
  <2> QED
    BY <1>2, <2>1, <2>2, <2>3 DEF CountStep, OneCreates
<1>5. ASSUME NEW c \in Calls, IncrementCounter(c)
      PROVE  CountStep
  <2>1. PICK s \in UsedShards :
          shards[s] # Missing /\ shards' = [shards EXCEPT ![s] = @ + 1]
    BY <1>5 DEF IncrementCounter
  <2>2. /\ call[c] = "increment" /\ call' = [call EXCEPT ![c] = "counted"]
        /\ UNCHANGED creators
    BY <1>5 DEF IncrementCounter
  <2>3. s \in AllShards
    BY <2>1, ConstantsAssumption DEF UsedShards, AllShards
  <2>4. \E u : u \notin Units /\ Units' = Units \cup {u}
    BY <1>1, <2>1, <2>3, UnitAdded
  <2>5. \A k \in Calls : call'[k] = IF k = c THEN "counted" ELSE call[k]
    BY <1>1, <2>2 DEF TypeOK
  <2>6. c \notin CountedCalls /\ CountedCalls' = CountedCalls \cup {c}
    BY <2>2, <2>5 DEF CountedCalls
  <2> QED
    BY <2>2, <2>4, <2>6 DEF CountStep, OneCounts
<1>6. ASSUME NEW d \in Devices, Acknowledge(d)
      PROVE  CountStep
  BY <1>6, AcknowledgeCounts
<1>7. ASSUME NEW c \in Calls, TransactionFails(c) \/ ForcedCastFails(c)
      PROVE  CountStep
  <2>1. call[c] = "increment" /\ UNCHANGED <<shards, creators>>
    BY <1>7 DEF TransactionFails, ForcedCastFails
  <2>2. \/ call' = [call EXCEPT ![c] = "failed"]
        \/ call' = [Ended(device[c]) EXCEPT ![c] = "crashed"]
    BY <1>7 DEF TransactionFails, ForcedCastFails
  <2>3. StillCounted
    BY <1>1, <2>1, <2>2 DEF TypeOK, Ended, Live
  <2> QED
    BY <1>2, <2>1, <2>3 DEF CountStep, NothingNew
<1>8. ASSUME NEW d \in Devices, Kill(d)
      PROVE  CountStep
  <2>1. call' = Ended(d) /\ UNCHANGED <<shards, creators>>
    BY <1>8 DEF Kill
  <2>2. StillCounted
    BY <2>1 DEF Ended, Live
  <2> QED
    BY <1>2, <2>1, <2>2 DEF CountStep, NothingNew
<1>9. CASE Done \/ UNCHANGED vars
  <2>1. UNCHANGED vars
    BY <1>9 DEF Done
  <2>2. StillCounted /\ UNCHANGED <<shards, creators>>
    BY <2>1 DEF vars
  <2> QED
    BY <1>2, <2>2 DEF CountStep, NothingNew
<1> QED
  BY <1>3, <1>4, <1>5, <1>6, <1>7, <1>8, <1>9 DEF Next, Step

(* What such a step does to the numbers.                                   *)
LEMMA TalliedStep ==
  ASSUME Tallied, CountStep
  PROVE  /\ Tallied'
         /\ \/ /\ GetCount' = GetCount
               /\ \/ Cardinality(creators') = Cardinality(creators)
                  \/ Cardinality(creators') = Cardinality(creators) + 1
            \/ /\ GetCount' = GetCount + 1 /\ creators' = creators
            \/ /\ GetCount' < GetCount /\ creators' = creators
               /\ Cardinality(creators) > 1
<1>1. /\ IsFiniteSet(Units) /\ GetCount \in Nat
      /\ IsFiniteSet(CountedCalls) /\ Counted \in Nat
      /\ IsFiniteSet(creators) /\ Cardinality(creators) \in Nat
  BY FS_CardinalityType DEF Tallied, GetCount, Counted
<1>2. CASE NothingNew
  BY <1>2 DEF NothingNew, CountKept, Tallied, GetCount, Counted
<1>3. CASE OneCounts
  <2>1. PICK c : c \notin CountedCalls /\ CountedCalls' = CountedCalls \cup {c}
    BY <1>3 DEF OneCounts
  <2>2. PICK u : u \notin Units /\ Units' = Units \cup {u}
    BY <1>3 DEF OneCounts
  <2>3. IsFiniteSet(CountedCalls') /\ Counted' = Counted + 1
    BY <1>1, <2>1, FS_AddElement DEF Counted
  <2>4. IsFiniteSet(Units') /\ GetCount' = GetCount + 1
    BY <1>1, <2>2, FS_AddElement DEF GetCount
  <2>5. creators' = creators
    BY <1>3 DEF OneCounts
  <2> QED
    BY <1>1, <2>3, <2>4, <2>5 DEF Tallied
<1>4. CASE OneCreates
  <2>1. PICK c : c \notin creators /\ creators' = creators \cup {c}
    BY <1>4 DEF OneCreates
  <2>2. /\ IsFiniteSet(creators')
        /\ Cardinality(creators') = Cardinality(creators) + 1
    BY <1>1, <2>1, FS_AddElement
  <2>3. /\ IsFiniteSet(Units') /\ IsFiniteSet(CountedCalls')
        /\ GetCount' = GetCount /\ Counted' = Counted
    BY <1>1, <1>4 DEF OneCreates, CountKept, GetCount, Counted
  <2> QED
    BY <1>1, <2>2, <2>3 DEF Tallied
<1>5. CASE UnitsWiped
  <2>1. /\ Units' \subseteq Units /\ creators' = creators
        /\ CountedCalls' = CountedCalls
    BY <1>5 DEF UnitsWiped
  <2>2. /\ IsFiniteSet(Units') /\ GetCount' \in Nat /\ GetCount' <= GetCount
    BY <1>1, <2>1, FS_Subset, FS_CardinalityType DEF GetCount
  <2>3. Counted' = Counted /\ IsFiniteSet(CountedCalls')
    BY <1>1, <2>1 DEF Counted
  <2>4. Cardinality(creators) # 0
    <3>1. creators # {}
      BY <1>5 DEF UnitsWiped
    <3> QED
      BY <1>1, <3>1, FS_EmptySet
  <2>5. Cardinality(creators) # 1
    <3>1. ASSUME NEW k PROVE creators # {k}
      BY <1>5 DEF UnitsWiped
    <3> QED
      BY <1>1, <3>1, FS_Singleton
  <2>6. Cardinality(creators) > 1
    BY <1>1, <2>4, <2>5
  <2> QED
    BY <1>1, <2>1, <2>2, <2>3, <2>6 DEF Tallied
<1> QED
  BY <1>2, <1>3, <1>4, <1>5 DEF CountStep

-----------------------------------------------------------------------------
(* Theorems *)

(* Whatever fails, every variable keeps its type: in particular a call of  *)
(* createCounter is acknowledged at most one write per shard.              *)
THEOREM TypeCorrect == Spec => []TypeOK
<1>1. IInv => TypeOK
  BY DEF IInv
<1>2. QED
  BY <1>1, Invariance, PTL

(* The count of acknowledgements in createCounter's callbacks stops one    *)
(* short of the shards, and is still enough: by the order of the queue the *)
(* missing one is of a shard incrementCounter never picks.  Only a write   *)
(* that was rejected leaves a creator with a shard missing.                *)
THEOREM CreatorsFindTheirShards == Spec => []CreatorFindsShards
<1>1. IInv => CreatorFindsShards
  <2> SUFFICES ASSUME IInv, NEW c \in creators, c \notin broken,
                      call[c] = "increment", NEW s \in UsedShards
               PROVE  shards[s] # Missing
    BY DEF CreatorFindsShards, AllShardsExist
  <2>1. TypeOK /\ c \in Calls
    BY DEF IInv, TypeOK
  <2>2. NumShards <= acks[c] /\ Counter \notin Queued(c)
    BY <2>1 DEF IInv, Phases
  <2>3. Queued(c) = acks[c] .. NumShards
    BY <2>2 DEF IInv, Awaited
  <2>4. s \in AllShards /\ s \notin Queued(c)
    BY <2>1, <2>2, <2>3, Typed DEF UsedShards, AllShards
  <2>5. QED
    BY <2>2, <2>4 DEF IInv, Written
<1>2. QED
  BY <1>1, Invariance, PTL

(* Why a sole creation loses nothing: no write of its own is ever due for  *)
(* a shard that exists, on which downloads may have been counted.          *)
THEOREM SoleCreatorWipesNothing == Spec => []WipesNothing
<1>1. IInv => WipesNothing
  BY DEF IInv
<1>2. QED
  BY <1>1, Invariance, PTL

(* Both invariants together, step by step.                                 *)
LEMMA TalliedInvariance == Spec => [](IInv /\ Tallied)
<1>1. Init => IInv /\ Tallied
  <2> SUFFICES ASSUME Init PROVE Tallied
    BY InvInit
  <2>1. Units = {} /\ CountedCalls = {} /\ creators = {}
    BY DEF Init, Units, CountedCalls
  <2> QED
    BY <2>1, FS_EmptySet DEF Tallied, GetCount, Counted
<1>2. (IInv /\ Tallied) /\ [Next]_vars => (IInv /\ Tallied)'
  BY InvNext, CountStepNext, TalliedStep
<1> QED
  BY <1>1, <1>2, PTL DEF Spec

(* Whatever fails, dies or is repeated, getCount never shows more than the *)
(* transactions that counted a download.                                   *)
THEOREM NothingIsOvercounted == Spec => []NeverOvercounts
<1>1. Tallied => NeverOvercounts
  BY DEF Tallied, NeverOvercounts
<1> QED
  BY <1>1, TalliedInvariance, PTL

(* As long as no two calls take the counter for missing, getCount shows    *)
(* every download counted: createCounter's writes arrive at shards on      *)
(* which nothing was counted yet.                                          *)
THEOREM SoleCreatorKeepsTheCount == Spec => []SoleCreatorLosesNothing
<1>1. Tallied => SoleCreatorLosesNothing
  BY DEF Tallied, SoleCreatorLosesNothing
<1> QED
  BY <1>1, TalliedInvariance, PTL

(* Every step of calls, queues and processes is a step of the tally or     *)
(* leaves it: one download counted, a second creator, or, once there is    *)
(* one, a loss.                                                            *)
THEOREM CounterImplementsTally == Spec => ImplementsTally
<1>1. Init => Tally!Init
  <2> SUFFICES ASSUME Init PROVE Tally!Init
    OBVIOUS
  <2>1. Units = {} /\ creators = {}
    BY DEF Init, Units
  <2>2. GetCount = 0 /\ ~(Cardinality(creators) > 1)
    BY <2>1, FS_EmptySet DEF GetCount
  <2> QED
    BY <2>2 DEF Tally!Init
<1>2. (IInv /\ Tallied) /\ [Next]_vars
        => [Tally!CountDownload \/ Tally!Contest \/ Tally!Lose]_(Tally!vars)
  <2> SUFFICES ASSUME IInv, Tallied, [Next]_vars
               PROVE  \/ Tally!CountDownload \/ Tally!Contest \/ Tally!Lose
                      \/ UNCHANGED Tally!vars
    OBVIOUS
  <2>1. \/ /\ GetCount' = GetCount
           /\ \/ Cardinality(creators') = Cardinality(creators)
              \/ Cardinality(creators') = Cardinality(creators) + 1
        \/ /\ GetCount' = GetCount + 1 /\ creators' = creators
        \/ /\ GetCount' < GetCount /\ creators' = creators
           /\ Cardinality(creators) > 1
    BY CountStepNext, TalliedStep
  <2>2. /\ GetCount \in Nat /\ GetCount' \in Nat
        /\ Cardinality(creators) \in Nat
    <3>1. Tallied'
      BY CountStepNext, TalliedStep
    <3> QED
      BY <3>1, FS_CardinalityType DEF Tallied, GetCount
  <2>3. CASE GetCount' = GetCount /\ Cardinality(creators') = Cardinality(creators)
    BY <2>3 DEF Tally!vars
  <2>4. CASE GetCount' = GetCount /\ Cardinality(creators') = Cardinality(creators) + 1
    <3>1. CASE Cardinality(creators) = 0
      BY <2>4, <3>1 DEF Tally!vars
    <3>2. CASE Cardinality(creators) # 0
      BY <2>2, <2>4, <3>2 DEF Tally!Contest
    <3> QED
      BY <3>1, <3>2
  <2>5. CASE GetCount' = GetCount + 1 /\ creators' = creators
    BY <2>5 DEF Tally!CountDownload
  <2>6. CASE /\ GetCount' < GetCount /\ creators' = creators
             /\ Cardinality(creators) > 1
    BY <2>2, <2>6 DEF Tally!Lose
  <2> QED
    BY <2>1, <2>3, <2>4, <2>5, <2>6
<1> QED
  BY <1>1, <1>2, TalliedInvariance, PTL DEF Spec, ImplementsTally, Tally!Spec
=============================================================================
