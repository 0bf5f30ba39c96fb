-------------------------- MODULE LevelEditor_proofs --------------------------
(***************************************************************************)
(* Proofs about LevelEditor, for any places, velocities and knobs, however *)
(* the ones are converted into the others, any number of items and any     *)
(* sequence of edits, saves and kills.                                     *)
(***************************************************************************)
EXTENDS LevelEditor, SequenceTheorems, FiniteSetTheorems, TLAPS

(* A list has as many entries as there are views, and a line at least.     *)
SameNumber ==
  /\ \A k \in Kinds : Len(list[k]) = Len(views[k])
  /\ screen # "select" => Len(list["line"]) > 0
  /\ disk # None => Len(disk["line"]) > 0

(* What is listed is shown.                                                *)
ListedIsHeld == \A k \in Kinds : Listed(k) \subseteq Held(k)

(* No view but v holds the object of v.                                    *)
Alone(k, v) ==
  \A u \in 1 .. Len(views[k]) : views[k][u].object = views[k][v].object => u = v

(* The only view of a listed object shows it where it is, and its knob and *)
(* its velocity are one's conversion into the other.                       *)
AloneIsInPlace ==
  \A k \in Kinds : \A v \in 1 .. Len(views[k]) :
     Alone(k, v) /\ views[k][v].object \in Listed(k) =>
       InStep(k, object[k][views[k][v].object], views[k][v])

IInv == TypeOK /\ SameNumber /\ ListedIsHeld /\ AloneIsInPlace
-----------------------------------------------------------------------------
(* Removing an entry of a sequence.                                        *)
LEMMA WithoutFacts ==
  ASSUME NEW S, NEW s \in Seq(S), NEW i \in 1 .. Len(s)
  PROVE  /\ Without(s, i) \in Seq(S)
         /\ Len(Without(s, i)) = Len(s) - 1
         /\ \A j \in 1 .. Len(s) - 1 :
              \E m \in 1 .. Len(s) : Without(s, i)[j] = s[m]
<1> DEFINE n == Len(s) - 1
           t == [j \in 1 .. n |-> IF j < i THEN s[j] ELSE s[j + 1]]
<1>1. Len(s) \in Nat /\ n \in Nat
  OBVIOUS
<1>2. \A j \in 1 .. n : j \in 1 .. Len(s) /\ j + 1 \in 1 .. Len(s)
  BY <1>1
<1>3. \A j \in 1 .. n : (IF j < i THEN s[j] ELSE s[j + 1]) \in S
  BY <1>2
<1>4. t \in Seq(S) /\ Len(t) = n
  BY <1>1, <1>3
<1>5. \A j \in 1 .. n : \E m \in 1 .. Len(s) : t[j] = s[m]
  BY <1>2
<1> QED
  BY <1>4, <1>5 DEF Without

(* The entry removed makes way for one at the end.                         *)
LEMMA MovedToEnd ==
  ASSUME NEW S, NEW s \in Seq(S), NEW i \in 1 .. Len(s), NEW e \in S
  PROVE  /\ Append(Without(s, i), e) \in Seq(S)
         /\ Len(Append(Without(s, i), e)) = Len(s)
         /\ \A j \in 1 .. Len(s) :
              \/ Append(Without(s, i), e)[j] = e
              \/ \E m \in 1 .. Len(s) : Append(Without(s, i), e)[j] = s[m]
<1> DEFINE w == Without(s, i)
<1>1. /\ w \in Seq(S) /\ Len(w) = Len(s) - 1
      /\ \A j \in 1 .. Len(s) - 1 : \E m \in 1 .. Len(s) : w[j] = s[m]
  BY WithoutFacts
<1> HIDE DEF w
<1>2. Len(s) \in Nat
  OBVIOUS
<1>3. Append(w, e) \in Seq(S) /\ Len(Append(w, e)) = Len(s)
  BY <1>1, <1>2
<1>4. ASSUME NEW j \in 1 .. Len(s)
      PROVE  Append(w, e)[j] = e \/ \E m \in 1 .. Len(s) : Append(w, e)[j] = s[m]
  <2>1. CASE j = Len(s)
    BY <1>1, <2>1
  <2>2. CASE j # Len(s)
    <3>1. j \in 1 .. Len(s) - 1 /\ Append(w, e)[j] = w[j]
      BY <1>1, <1>2, <2>2
    <3> QED
      BY <1>1, <3>1
  <2> QED
    BY <2>1, <2>2
<1> QED
  BY <1>3, <1>4 DEF w

(* The first n values of s differ; each is among the first n of t.         *)
Differ(n, s) == \A i, j \in 1 .. n : s[i] = s[j] => i = j
Among(n, s, t) == \A i \in 1 .. n : \E v \in 1 .. n : t[v] = s[i]

(* Two sequences of one length, the first without repetition and within    *)
(* the second: their entries match one to one.                             *)
LEMMA Matching ==
  ASSUME NEW n \in Nat, NEW s, NEW t, Differ(n, s), Among(n, s, t)
  PROVE  \E f \in Bijection(1 .. n, 1 .. n) : \A i \in 1 .. n : t[f[i]] = s[i]
<1> DEFINE g == [i \in 1 .. n |-> CHOOSE v \in 1 .. n : t[v] = s[i]]
<1>1. \A i \in 1 .. n : g[i] \in 1 .. n /\ t[g[i]] = s[i]
  BY DEF Among
<1>2. g \in [1 .. n -> 1 .. n]
  BY <1>1
<1> HIDE DEF g
<1>3. g \in Injection(1 .. n, 1 .. n)
  <2>1. ASSUME NEW i \in 1 .. n, NEW j \in 1 .. n, g[i] = g[j] PROVE i = j
    <3>1. s[i] = s[j]
      BY <1>1, <2>1
    <3> QED
      BY <3>1 DEF Differ
  <2> QED
    BY <1>2, <2>1 DEF Injection, IsInjective
<1>4. IsFiniteSet(1 .. n)
  BY FS_Interval
<1>5. g \in Surjection(1 .. n, 1 .. n)
  BY <1>3, <1>4, FS_Injection
<1> QED
  BY <1>1, <1>3, <1>5 DEF Bijection

(* Hence the second has no repetition either and nothing else.             *)
LEMMA Pigeonhole ==
  ASSUME NEW n \in Nat, NEW s, NEW t, Differ(n, s), Among(n, s, t)
  PROVE  Among(n, t, s) /\ Differ(n, t)
<1>1. PICK g \in Bijection(1 .. n, 1 .. n) : \A i \in 1 .. n : t[g[i]] = s[i]
  BY Matching
<1>2. \A v \in 1 .. n : \E i \in 1 .. n : g[i] = v
  BY DEF Bijection, Surjection
<1>3. ASSUME NEW v \in 1 .. n PROVE \E i \in 1 .. n : s[i] = t[v]
  <2>1. PICK i \in 1 .. n : g[i] = v
    BY <1>2
  <2> QED
    BY <1>1, <2>1
<1>4. ASSUME NEW u \in 1 .. n, NEW v \in 1 .. n, t[u] = t[v] PROVE u = v
  <2>1. PICK i \in 1 .. n : g[i] = u
    BY <1>2
  <2>2. PICK j \in 1 .. n : g[j] = v
    BY <1>2
  <2>3. s[i] = s[j]
    BY <1>1, <1>4, <2>1, <2>2
  <2> QED
    BY <2>1, <2>2, <2>3 DEF Differ
<1> QED
  BY <1>3, <1>4 DEF Among, Differ

(* Where among the first n entries of s the value x is.                    *)
Occurrences(n, s, x) == {i \in 1 .. n : s[i] = x}

(* Sequences that match one to one have each value equally often.          *)
LEMMA EquallyOften ==
  ASSUME NEW n \in Nat, NEW s, NEW t, NEW x,
         NEW f \in Bijection(1 .. n, 1 .. n), \A i \in 1 .. n : t[f[i]] = s[i]
  PROVE  Cardinality(Occurrences(n, s, x)) = Cardinality(Occurrences(n, t, x))
<1> DEFINE S == {i \in 1 .. n : s[i] = x}
           T == {i \in 1 .. n : t[i] = x}
           g == [i \in S |-> f[i]]
<1>1. /\ f \in [1 .. n -> 1 .. n]
      /\ \A i, j \in 1 .. n : f[i] = f[j] => i = j
      /\ \A v \in 1 .. n : \E i \in 1 .. n : f[i] = v
  BY DEF Bijection, Injection, IsInjective, Surjection
<1>2. g \in [S -> T]
  BY <1>1
<1>3. \A i \in S, j \in S : g[i] = g[j] => i = j
  BY <1>1
<1>4. ASSUME NEW v \in T PROVE \E i \in S : g[i] = v
  <2>1. PICK i \in 1 .. n : f[i] = v
    BY <1>1
  <2>2. i \in S
    BY <2>1
  <2> QED
    BY <2>1, <2>2
<1>5. IsFiniteSet(S)
  <2>1. IsFiniteSet(1 .. n) /\ S \in SUBSET (1 .. n)
    BY FS_Interval
  <2> QED
    BY <2>1, FS_Subset
<1> HIDE DEF S, T, g
<1>6. g \in Bijection(S, T)
  BY <1>2, <1>3, <1>4 DEF Bijection, Injection, IsInjective, Surjection
<1>7. ExistsBijection(S, T)
  BY <1>6 DEF ExistsBijection
<1>8. Cardinality(T) = Cardinality(S)
  BY <1>5, <1>7, FS_Bijection
<1> QED
  BY <1>8 DEF S, T, Occurrences
-----------------------------------------------------------------------------
(* A new level has one box and one line, where they can be.                *)
LEMMA BlankFacts == Blank \in [Kinds -> Seq(Entry)] /\ Len(Blank["line"]) = 1
<1>1. ASSUME NEW k \in Kinds PROVE BlankPlace[k] \in Place
  <2>1. CASE Places[k] = {NewPlace}
    BY <2>1 DEF BlankPlace, Place
  <2>2. CASE Places[k] # {NewPlace}
    <3>1. \E p \in Places[k] : p # NewPlace
      BY <2>2, ConstantsAssumption
    <3>2. BlankPlace[k] = CHOOSE p \in Places[k] : p # NewPlace
      BY <2>2 DEF BlankPlace
    <3>3. BlankPlace[k] \in Places[k]
      BY <3>1, <3>2
    <3> QED
      BY <3>3 DEF Place
  <2> QED
    BY <2>1, <2>2
<1>2. \A k \in Kinds : BlankLook[k] \in Looks
  BY DEF BlankLook, Looks
<1>3. 1 \in Item
  BY ConstantsAssumption DEF Item
<1>4. ASSUME NEW k \in Kinds
      PROVE  [item |-> 1, value |-> [place    |-> BlankPlace[k],
                                     velocity |-> BlankSpeed[k],
                                     look     |-> BlankLook[k]]] \in Entry
  <2>1. BlankSpeed[k] \in Velocities
    BY ConstantsAssumption DEF BlankSpeed
  <2> QED
    BY <1>1, <1>2, <1>3, <2>1 DEF Entry, Value
<1>5. "line" \in Kinds
  BY DEF Kinds
<1> QED
  BY <1>4, <1>5 DEF Blank

(* A level's content is as long as its lists.                              *)
LEMMA ContentFacts ==
  ASSUME TypeOK
  PROVE  /\ Content \in [Kinds -> Seq(Entry)]
         /\ \A k \in Kinds : Len(Content[k]) = Len(list[k])
<1> SUFFICES ASSUME NEW k \in Kinds
             PROVE  Content[k] \in Seq(Entry) /\ Len(Content[k]) = Len(list[k])
  BY DEF Content
<1>1. list[k] \in Seq(Item) /\ object[k] \in [Item -> Value]
  BY DEF TypeOK
<1>2. Len(list[k]) \in Nat /\ \A i \in 1 .. Len(list[k]) : list[k][i] \in Item
  BY <1>1
<1>3. \A i \in 1 .. Len(list[k]) :
        [item |-> list[k][i], value |-> object[k][list[k][i]]] \in Entry
  BY <1>1, <1>2 DEF Entry
<1>4. Content[k] = [i \in 1 .. Len(list[k]) |->
        [item |-> list[k][i], value |-> object[k][list[k][i]]]]
  BY DEF Content
<1> QED
  BY <1>2, <1>3, <1>4

LEMMA UnusedFacts == Unused \in Value
<1>1. "box" \in Kinds
  BY DEF Kinds
<1> QED
  BY <1>1, ConstantsAssumption DEF Unused, Value, Place, Looks

(* What an object is when a content is shown: the value of an entry that   *)
(* has it; and if it has one entry only, that entry's.                     *)
LEMMA DecodedFacts ==
  ASSUME NEW content \in [Kinds -> Seq(Entry)], NEW k \in Kinds, NEW o \in Item
  PROVE  /\ Decoded(content, k, o) \in Value
         /\ \A i \in 1 .. Len(content[k]) :
              /\ content[k][i].item = o
              /\ \A j \in 1 .. Len(content[k]) : content[k][j].item = o => j = i
              => Decoded(content, k, o) = content[k][i].value
<1> DEFINE c == content[k]
           i0 == CHOOSE i \in 1 .. Len(c) : c[i].item = o
<1>1. c \in Seq(Entry) /\ \A i \in 1 .. Len(c) : c[i] \in Entry
  OBVIOUS
<1>2. CASE \E i \in 1 .. Len(c) : c[i].item = o
  <2>1. i0 \in 1 .. Len(c) /\ c[i0].item = o
    BY <1>2
  <2>2. Decoded(content, k, o) = c[i0].value
    BY <1>2 DEF Decoded
  <2> HIDE DEF i0, c
  <2>3. c[i0].value \in Value
    BY <1>1, <2>1 DEF Entry
  <2> QED
    BY <2>1, <2>2, <2>3 DEF c
<1>3. CASE ~ \E i \in 1 .. Len(c) : c[i].item = o
  <2>1. Decoded(content, k, o) = Unused
    BY <1>3 DEF Decoded
  <2>2. Unused \in Value
    BY UnusedFacts
  <2> QED
    BY <1>3, <2>1, <2>2
<1> QED
  BY <1>2, <1>3

(* The view made for an object.                                            *)
LEMMA ViewForFacts ==
  ASSUME NEW o \in Item, NEW d \in Value
  PROVE  /\ ViewFor(o, d) \in View /\ ViewFor(o, d).object = o
         /\ ViewFor(o, d).place = d.place
         /\ \A k : InStep(k, d, ViewFor(o, d))
<1>1. d.place \in Place /\ KnobOf[d.velocity] \in Knobs
  BY ConstantsAssumption DEF Value
<1> QED
  BY <1>1 DEF ViewFor, View, InStep

(* An editor made for a content shows it.                                  *)
LEMMA ShowLevelStep ==
  ASSUME IInv, NEW content \in [Kinds -> Seq(Entry)], Len(content["line"]) > 0,
         ShowLevel(content), disk' = disk
  PROVE  IInv'
<1>1. /\ screen' = "editor"
      /\ object' = [k \in Kinds |-> [o \in Item |-> Decoded(content, k, o)]]
      /\ list' = [k \in Kinds |-> [i \in 1 .. Len(content[k]) |-> content[k][i].item]]
      /\ views' = [k \in Kinds |-> [i \in 1 .. Len(content[k]) |->
             ViewFor(content[k][i].item, content[k][i].value)]]
  BY DEF ShowLevel
<1>2. ASSUME NEW k \in Kinds
      PROVE  /\ object'[k] \in [Item -> Value]
             /\ list'[k] \in Seq(Item) /\ views'[k] \in Seq(View)
             /\ Len(list'[k]) = Len(content[k]) /\ Len(views'[k]) = Len(content[k])
             /\ \A i \in 1 .. Len(content[k]) :
                  /\ list'[k][i] = content[k][i].item
                  /\ views'[k][i].object = content[k][i].item
                  /\ InStep(k, content[k][i].value, views'[k][i])
                  /\ content[k][i].item \in Item
  <2>1. content[k] \in Seq(Entry) /\ Len(content[k]) \in Nat
    OBVIOUS
  <2>2. ASSUME NEW i \in 1 .. Len(content[k])
        PROVE  /\ content[k][i].item \in Item
               /\ content[k][i].value \in Value
    <3>1. content[k][i] \in Entry
      BY <2>1, <2>2, ElementOfSeq
    <3> QED
      BY <3>1 DEF Entry
  <2>3. list'[k] = [i \in 1 .. Len(content[k]) |-> content[k][i].item]
    BY <1>1
  <2>4. views'[k] = [i \in 1 .. Len(content[k]) |->
             ViewFor(content[k][i].item, content[k][i].value)]
    BY <1>1
  <2>5. \A i \in 1 .. Len(content[k]) :
          LET view == ViewFor(content[k][i].item, content[k][i].value)
          IN  /\ view \in View /\ view.object = content[k][i].item
              /\ InStep(k, content[k][i].value, view)
    BY <2>2, ViewForFacts
  <2>6. object'[k] \in [Item -> Value]
    BY <1>1, DecodedFacts
  <2>7. list'[k] \in Seq(Item) /\ Len(list'[k]) = Len(content[k])
    BY <2>1, <2>2, <2>3
  <2>8. views'[k] \in Seq(View) /\ Len(views'[k]) = Len(content[k])
    BY <2>1, <2>4, <2>5
  <2> QED
    BY <2>2, <2>3, <2>4, <2>5, <2>6, <2>7, <2>8
<1>3. TypeOK'
  <2>1. screen' \in Screens
    BY <1>1 DEF Screens, Editing
  <2>2. object' \in [Kinds -> [Item -> Value]]
    BY <1>1, <1>2
  <2>3. list' \in [Kinds -> Seq(Item)]
    BY <1>1, <1>2
  <2>4. views' \in [Kinds -> Seq(View)]
    BY <1>1, <1>2
  <2> QED
    BY <2>1, <2>2, <2>3, <2>4 DEF IInv, TypeOK
<1>4. SameNumber'
  <2>1. "line" \in Kinds
    BY DEF Kinds
  <2> QED
    BY <1>2, <2>1 DEF IInv, SameNumber
<1>5. ListedIsHeld'
  BY <1>2 DEF ListedIsHeld, Listed, Held
<1>6. AloneIsInPlace'
  <2> SUFFICES ASSUME NEW k \in Kinds, NEW v \in 1 .. Len(views'[k]), Alone(k, v)'
               PROVE  InStep(k, object'[k][views'[k][v].object], views'[k][v])
    BY DEF AloneIsInPlace, InStep
  <2> DEFINE o == content[k][v].item
  <2>1. v \in 1 .. Len(content[k]) /\ o \in Item
    BY <1>2
  <2>2. \A j \in 1 .. Len(content[k]) : content[k][j].item = o => j = v
    BY <1>2, <2>1 DEF Alone
  <2>3. Decoded(content, k, o) = content[k][v].value
    BY <2>1, <2>2, DecodedFacts
  <2>4. object'[k][o] = Decoded(content, k, o)
    BY <1>1, <2>1
  <2> QED
    BY <1>2, <2>1, <2>3, <2>4
<1> QED
  BY <1>3, <1>4, <1>5, <1>6 DEF IInv

(* A save leaves a file that can be opened.                                *)
LEMMA SaveFacts ==
  ASSUME IInv, screen # "select", SaveLevel
  PROVE  /\ disk' \in {None} \cup [Kinds -> Seq(Entry)]
         /\ disk' # None => Len(disk'["line"]) > 0
<1>1. "line" \in Kinds
  BY DEF Kinds
<1>2. CASE disk' = Content
  BY <1>1, <1>2, ContentFacts DEF IInv, SameNumber
<1>3. CASE disk' = disk
  BY <1>3 DEF IInv, TypeOK, SameNumber
<1> QED
  BY <1>2, <1>3 DEF SaveLevel

(* Turning to another screen, with or without a save.                      *)
LEMMA QuietStep ==
  ASSUME IInv, screen # "select", screen' \in Screens, UNCHANGED <<object, list, views>>,
         SaveLevel \/ disk' = disk
  PROVE  IInv'
<1>1. /\ disk' \in {None} \cup [Kinds -> Seq(Entry)]
      /\ disk' # None => Len(disk'["line"]) > 0
  BY SaveFacts DEF IInv, TypeOK, SameNumber
<1>2. TypeOK'
  BY <1>1 DEF IInv, TypeOK, Entry
<1>3. SameNumber'
  BY <1>1 DEF IInv, SameNumber
<1>4. /\ \A k \in Kinds : Listed(k)' = Listed(k) /\ Held(k)' = Held(k)
      /\ \A k \in Kinds : \A v \in 1 .. Len(views[k]) : Alone(k, v)' => Alone(k, v)
  BY DEF Listed, Held, Alone
<1>5. ListedIsHeld' /\ AloneIsInPlace'
  BY <1>4 DEF IInv, ListedIsHeld, AloneIsInPlace
<1> QED
  BY <1>2, <1>3, <1>5 DEF IInv

(* An empty editor.                                                        *)
LEMMA EmptyIsFine ==
  /\ [k \in Kinds |-> [o \in Item |-> Unused]] \in [Kinds -> [Item -> Value]]
  /\ [k \in Kinds |-> <<>>] \in [Kinds -> Seq(Item)]
  /\ [k \in Kinds |-> <<>>] \in [Kinds -> Seq(View)]
BY UnusedFacts

LEMMA CloseStep ==
  ASSUME Close, disk' \in {None} \cup [Kinds -> Seq(Entry)],
         disk' # None => Len(disk'["line"]) > 0
  PROVE  IInv'
<1>1. /\ screen' = "select"
      /\ object' = [k \in Kinds |-> [o \in Item |-> Unused]]
      /\ list' = [k \in Kinds |-> <<>>] /\ views' = [k \in Kinds |-> <<>>]
  BY DEF Close
<1>2. TypeOK'
  BY <1>1, EmptyIsFine DEF TypeOK, Screens, Entry
<1>3. SameNumber' /\ ListedIsHeld' /\ AloneIsInPlace'
  BY <1>1 DEF SameNumber, ListedIsHeld, AloneIsInPlace, Listed, Held
<1> QED
  BY <1>2, <1>3 DEF IInv

LEMMA InitHolds == Init => IInv
<1> SUFFICES ASSUME Init PROVE IInv
  OBVIOUS
<1>1. TypeOK
  BY EmptyIsFine DEF Init, TypeOK, Screens
<1>2. SameNumber /\ ListedIsHeld /\ AloneIsInPlace
  BY DEF Init, SameNumber, ListedIsHeld, AloneIsInPlace, Listed, Held
<1> QED
  BY <1>1, <1>2 DEF IInv

(* Opening shows a new level or the file; home shows the level in memory.  *)
LEMMA OpenLevelStep == IInv /\ OpenLevel => IInv'
<1> SUFFICES ASSUME IInv, OpenLevel PROVE IInv'
  OBVIOUS
<1>1. CASE disk = None
  <2>1. ShowLevel(Blank) /\ disk' = disk
    BY <1>1 DEF OpenLevel
  <2>2. Blank \in [Kinds -> Seq(Entry)] /\ Len(Blank["line"]) > 0
    BY BlankFacts
  <2> QED
    BY <2>1, <2>2, ShowLevelStep
<1>2. CASE disk # None
  <2>1. ShowLevel(disk) /\ disk' = disk
    BY <1>2 DEF OpenLevel
  <2>2. disk \in [Kinds -> Seq(Entry)] /\ Len(disk["line"]) > 0
    BY <1>2 DEF IInv, TypeOK, SameNumber
  <2> QED
    BY <2>1, <2>2, ShowLevelStep
<1> QED
  BY <1>1, <1>2

LEMMA PressHomeStep == IInv /\ PressHome => IInv'
<1> SUFFICES ASSUME IInv, PressHome PROVE IInv'
  OBVIOUS
<1>1. screen = "play" /\ ShowLevel(Content) /\ disk' = disk
  BY DEF PressHome
<1>2. Content \in [Kinds -> Seq(Entry)] /\ Len(Content["line"]) > 0
  BY <1>1, ContentFacts DEF IInv, SameNumber, Kinds
<1> QED
  BY <1>1, <1>2, ShowLevelStep

(* The colour of a new item, while there is a line.                        *)
LEMMA NewLookFacts ==
  ASSUME IInv, NEW k \in Kinds, list["line"] # <<>>
  PROVE  NewLook(k) \in Looks
<1>1. CASE k = "line"
  BY <1>1 DEF NewLook, Looks
<1>2. CASE k # "line"
  <2>1. list["line"] \in Seq(Item) /\ object["line"] \in [Item -> Value]
    BY DEF IInv, TypeOK, Kinds
  <2>2. list["line"][1] \in Item
    BY <2>1
  <2>3. object["line"][list["line"][1]] \in Value
    BY <2>1, <2>2
  <2> QED
    BY <1>2, <2>3 DEF NewLook, Value
<1> QED
  BY <1>1, <1>2

LEMMA NewItemFacts ==
  ASSUME IInv, NEW k \in Kinds, list["line"] # <<>>
  PROVE  NewItem(k) \in Value
<1>1. NewPlace \in Place /\ NewVelocity \in Velocities
  BY ConstantsAssumption DEF Place
<1> QED
  BY <1>1, NewLookFacts DEF NewItem, Value

(* A new item is an object of its own, shown where it is.                  *)
LEMMA AddItemStep == IInv /\ (\E k \in Kinds : AddItem(k)) => IInv'
<1> SUFFICES ASSUME IInv, NEW k \in Kinds, AddItem(k) PROVE IInv'
  OBVIOUS
<1>1. PICK o \in Item \ Held(k) :
        /\ object' = [object EXCEPT ![k][o] = NewItem(k)]
        /\ list' = [list EXCEPT ![k] = Append(@, o)]
        /\ views' = [views EXCEPT ![k] = Append(@, ViewFor(o, NewItem(k)))]
  BY DEF AddItem
<1>2. screen = "editor" /\ list["line"] # <<>> /\ screen' = screen /\ disk' = disk
  BY DEF AddItem
<1> DEFINE new == NewItem(k)
           view == ViewFor(o, new)
<1>3. new \in Value
  BY <1>2, NewItemFacts
<1>4. view \in View /\ view.object = o /\ InStep(k, new, view)
  BY <1>3, ViewForFacts
<1>5. list[k] \in Seq(Item) /\ views[k] \in Seq(View)
  BY DEF IInv, TypeOK
<1>6. /\ list'[k] = Append(list[k], o) /\ views'[k] = Append(views[k], view)
      /\ object'[k] = [object[k] EXCEPT ![o] = new]
      /\ \A q \in Kinds \ {k} :
            list'[q] = list[q] /\ views'[q] = views[q] /\ object'[q] = object[q]
  BY <1>1 DEF IInv, TypeOK
<1>7. TypeOK'
  <2>1. object' \in [Kinds -> [Item -> Value]]
    BY <1>1, <1>3 DEF IInv, TypeOK
  <2>2. list' \in [Kinds -> Seq(Item)]
    BY <1>1, <1>5 DEF IInv, TypeOK
  <2>3. views' \in [Kinds -> Seq(View)]
    <3>1. Append(views[k], view) \in Seq(View)
      BY <1>4, <1>5
    <3> QED
      BY <1>1, <3>1 DEF IInv, TypeOK
  <2> QED
    BY <1>2, <2>1, <2>2, <2>3 DEF IInv, TypeOK
<1> HIDE DEF view, new
<1>8. /\ Len(list[k]) \in Nat /\ Len(views[k]) \in Nat
      /\ Len(list'[k]) = Len(list[k]) + 1 /\ Len(views'[k]) = Len(views[k]) + 1
      /\ \A i \in 1 .. Len(list[k]) : list'[k][i] = list[k][i]
      /\ \A i \in 1 .. Len(views[k]) : views'[k][i] = views[k][i]
      /\ list'[k][Len(list[k]) + 1] = o
      /\ views'[k][Len(views[k]) + 1] = view
  BY <1>4, <1>5, <1>6
<1>9. SameNumber'
  <2>1. \A q \in Kinds : Len(list'[q]) = Len(views'[q])
    BY <1>6, <1>8 DEF IInv, SameNumber
  <2>2. Len(list'["line"]) > 0
    BY <1>2, <1>6, <1>8 DEF IInv, SameNumber, Kinds
  <2> QED
    BY <1>2, <2>1, <2>2 DEF IInv, SameNumber
<1>10. Listed(k)' = Listed(k) \cup {o} /\ Held(k)' = Held(k) \cup {o}
  <2>1. Listed(k)' = Listed(k) \cup {o}
    <3>1. ASSUME NEW i \in 1 .. Len(list'[k])
          PROVE  list'[k][i] \in Listed(k) \cup {o}
      <4>1. i \in 1 .. Len(list[k]) \/ i = Len(list[k]) + 1
        BY <1>8
      <4> QED
        BY <4>1, <1>8 DEF Listed
    <3>2. Listed(k) \cup {o} \subseteq Listed(k)'
      BY <1>8 DEF Listed
    <3> QED
      BY <3>1, <3>2 DEF Listed
  <2>2. \A i \in 1 .. Len(views'[k]) :
          views'[k][i].object \in Held(k) \cup {o}
    <3> SUFFICES ASSUME NEW i \in 1 .. Len(views'[k])
                 PROVE  views'[k][i].object \in Held(k) \cup {o}
      OBVIOUS
    <3>1. CASE i \in 1 .. Len(views[k])
      <4>1. views'[k][i].object = views[k][i].object
        BY <1>8, <3>1
      <4> QED
        BY <3>1, <4>1 DEF Held
    <3>2. CASE i = Len(views[k]) + 1
      <4>1. views'[k][i] = view
        BY <1>8, <3>2
      <4> QED
        BY <1>4, <4>1
    <3> QED
      BY <1>8, <3>1, <3>2
  <2>3. Held(k) \cup {o} \subseteq Held(k)'
    BY <1>4, <1>8 DEF Held
  <2> QED
    BY <2>1, <2>2, <2>3 DEF Held
<1>11. ListedIsHeld'
  <2>1. \A q \in Kinds \ {k} : Listed(q)' = Listed(q) /\ Held(q)' = Held(q)
    BY <1>6 DEF Listed, Held
  <2> QED
    BY <1>10, <2>1 DEF IInv, ListedIsHeld
<1>12. AloneIsInPlace'
  <2> SUFFICES ASSUME NEW q \in Kinds, NEW v \in 1 .. Len(views'[q]),
                      Alone(q, v)', views'[q][v].object \in Listed(q)'
               PROVE  InStep(q, object'[q][views'[q][v].object], views'[q][v])
    BY DEF AloneIsInPlace, InStep
  <2>1. CASE q # k
    <3>1. list'[q] = list[q] /\ views'[q] = views[q] /\ object'[q] = object[q]
      BY <1>6, <2>1
    <3>2. Alone(q, v)
      BY <3>1 DEF Alone
    <3>3. views[q][v].object \in Listed(q)
      BY <3>1 DEF Listed
    <3>4. v \in 1 .. Len(views[q])
      BY <3>1
    <3>5. InStep(q, object[q][views[q][v].object], views[q][v])
      BY <3>2, <3>3, <3>4 DEF IInv, AloneIsInPlace
    <3> QED
      BY <3>1, <3>5
  <2>2. CASE q = k /\ v = Len(views[k]) + 1
    BY <1>4, <1>6, <1>8, <2>2 DEF IInv, TypeOK
  <2>3. CASE q = k /\ v \in 1 .. Len(views[k])
    <3>1. views[k][v].object # o
      BY <1>1, <2>3 DEF Held
    <3>2. views[k][v].object \in Listed(k)
      BY <1>8, <1>10, <2>3, <3>1
    <3>3. Alone(k, v)
      <4> SUFFICES ASSUME NEW u \in 1 .. Len(views[k]),
                          views[k][u].object = views[k][v].object
                   PROVE  u = v
        BY DEF Alone
      <4>1. u \in 1 .. Len(views'[k])
        BY <1>8
      <4>2. views'[k][u].object = views'[k][v].object
        BY <1>8, <2>3
      <4> QED
        BY <2>3, <4>1, <4>2 DEF Alone
    <3>4. InStep(k, object[k][views[k][v].object], views[k][v])
      BY <2>3, <3>2, <3>3 DEF IInv, AloneIsInPlace
    <3>5. object'[k][views[k][v].object] = object[k][views[k][v].object]
      BY <1>6, <3>1 DEF IInv, TypeOK
    <3> QED
      BY <1>8, <2>3, <3>4, <3>5
  <2> QED
    BY <1>8, <2>1, <2>2, <2>3
<1> QED
  BY <1>7, <1>9, <1>11, <1>12 DEF IInv

(* A drag of a view or of its knob: the view is now at place p, its knob   *)
(* at n.                                                                   *)
Drag(k, v, p, n) ==
  /\ screen \in Editing
  /\ v \in 1 .. Len(views[k])
  /\ views' = [views EXCEPT ![k][v] =
                 [object |-> views[k][v].object, place |-> p, knob |-> n]]
  /\ FrameChanged(k, v, p, n)
  /\ UNCHANGED <<screen, disk>>

LEMMA MovesAreDrags ==
  ASSUME IInv,
         \/ \E k \in Kinds : \E v \in Item, p \in Places[k] : MoveItem(k, v, p)
         \/ \E v \in Item, n \in Reach : MoveKnob(v, n)
  PROVE  \E k \in Kinds, v \in Item, p \in Place, n \in Knobs : Drag(k, v, p, n)
<1>1. ASSUME NEW k \in Kinds, NEW v \in 1 .. Len(views[k])
      PROVE  views[k][v] \in View
  <2>1. views[k] \in Seq(View)
    BY DEF IInv, TypeOK
  <2> QED
    BY <2>1, ElementOfSeq
<1>2. ASSUME NEW k \in Kinds, NEW v \in Item, NEW p \in Places[k], MoveItem(k, v, p)
      PROVE  p \in Place /\ views[k][v].knob \in Knobs /\ Drag(k, v, p, views[k][v].knob)
  <2>1. v \in 1 .. Len(views[k])
    BY <1>2 DEF MoveItem
  <2>2. views[k][v] \in View
    BY <1>1, <2>1
  <2>3. [views[k][v] EXCEPT !.place = p]
          = [object |-> views[k][v].object, place |-> p, knob |-> views[k][v].knob]
    BY <2>2 DEF View
  <2>4. views' = [views EXCEPT ![k][v] = [views[k][v] EXCEPT !.place = p]]
    BY <1>2 DEF MoveItem
  <2> QED
    BY <1>2, <2>1, <2>2, <2>3, <2>4 DEF MoveItem, Drag, Place, View
<1>3. ASSUME NEW v \in Item, NEW n \in Reach, MoveKnob(v, n)
      PROVE  /\ n \in Knobs /\ views["line"][v].place \in Place
             /\ Drag("line", v, views["line"][v].place, n)
  <2>1. "line" \in Kinds /\ v \in 1 .. Len(views["line"])
    BY <1>3 DEF MoveKnob, Kinds
  <2>2. views["line"][v] \in View
    BY <1>1, <2>1
  <2>3. [views["line"][v] EXCEPT !.knob = n]
          = [object |-> views["line"][v].object, place |-> views["line"][v].place,
             knob |-> n]
    BY <2>2 DEF View
  <2>4. views' = [views EXCEPT !["line"][v] = [views["line"][v] EXCEPT !.knob = n]]
    BY <1>3 DEF MoveKnob
  <2> QED
    BY <1>3, <2>1, <2>2, <2>3, <2>4, ConstantsAssumption DEF MoveKnob, Drag, View
<1>4. "line" \in Kinds
  BY DEF Kinds
<1> QED
  BY <1>2, <1>3, <1>4

(* A view that moves keeps its object; the other views stay.               *)
LEMMA ViewDragged ==
  ASSUME IInv, NEW k \in Kinds, NEW v \in Item, NEW p \in Place, NEW n \in Knobs,
         Drag(k, v, p, n)
  PROVE  /\ v \in 1 .. Len(views[k]) /\ views[k][v].object \in Item
         /\ views' \in [Kinds -> Seq(View)]
         /\ Len(views'[k]) = Len(views[k])
         /\ \A u \in 1 .. Len(views[k]) \ {v} : views'[k][u] = views[k][u]
         /\ views'[k][v] = [object |-> views[k][v].object, place |-> p, knob |-> n]
         /\ \A q \in Kinds \ {k} : views'[q] = views[q]
<1> DEFINE moved == [object |-> views[k][v].object, place |-> p, knob |-> n]
<1>1. v \in 1 .. Len(views[k]) /\ views' = [views EXCEPT ![k][v] = moved]
  BY DEF Drag
<1>2. views[k] \in Seq(View)
  BY DEF IInv, TypeOK
<1>3. views[k][v] \in View
  BY <1>1, <1>2, ElementOfSeq
<1>4. views[k][v].object \in Item
  BY <1>3 DEF View
<1>5. moved \in View
  BY <1>4 DEF View
<1>6. views' = [views EXCEPT ![k] = [views[k] EXCEPT ![v] = moved]]
  BY <1>1
<1> HIDE DEF moved
<1>7. /\ [views[k] EXCEPT ![v] = moved] \in Seq(View)
      /\ Len([views[k] EXCEPT ![v] = moved]) = Len(views[k])
      /\ \A u \in 1 .. Len(views[k]) :
           [views[k] EXCEPT ![v] = moved][u] = IF u = v THEN moved ELSE views[k][u]
  BY <1>1, <1>2, <1>5, ExceptSeq
<1>8. views \in [Kinds -> Seq(View)]
  BY DEF IInv, TypeOK
<1>9. /\ views' \in [Kinds -> Seq(View)]
      /\ Len(views'[k]) = Len(views[k])
      /\ \A u \in 1 .. Len(views[k]) \ {v} : views'[k][u] = views[k][u]
      /\ views'[k][v] = moved
      /\ \A q \in Kinds \ {k} : views'[q] = views[q]
  BY <1>1, <1>6, <1>7, <1>8
<1> QED
  BY <1>1, <1>4, <1>9 DEF moved

(* The data of a dragged item is in step with its view.                    *)
LEMMA DraggedFacts ==
  ASSUME NEW k \in Kinds, NEW d \in Value, NEW p \in Place, NEW n \in Knobs
  PROVE  /\ Dragged(k, d, p, n) \in Value
         /\ Dragged(k, d, p, n).place = p
         /\ Dragged(k, d, p, n).look = d.look
         /\ \A view : view.place = p /\ view.knob = n
                        => InStep(k, Dragged(k, d, p, n), view)
<1> DEFINE w == IF k = "line" THEN VelocityOf[n] ELSE d.velocity
<1>1. w \in Velocities
  BY ConstantsAssumption DEF Value
<1>2. Dragged(k, d, p, n) = [place |-> p, velocity |-> w, look |-> d.look]
  <2>1. d = [place |-> d.place, velocity |-> d.velocity, look |-> d.look]
    BY DEF Value
  <2>2. Dragged(k, d, p, n) = [d EXCEPT !.place = p, !.velocity = w]
    BY DEF Dragged
  <2> HIDE DEF w
  <2> QED
    BY <2>1, <2>2
<1> QED
  BY <1>1, <1>2 DEF Value, InStep

(* A view that moves shows its object where the object is, if it finds an  *)
(* entry of equal value; otherwise its object is not listed.               *)
LEMMA DragStep ==
  ASSUME IInv, NEW k \in Kinds, NEW v \in Item, NEW p \in Place, NEW n \in Knobs,
         Drag(k, v, p, n)
  PROVE  IInv'
<1> DEFINE o == views[k][v].object
<1>1. /\ v \in 1 .. Len(views[k]) /\ screen' = screen /\ disk' = disk
      /\ FrameChanged(k, v, p, n)
  BY DEF Drag
<1>2. /\ list[k] \in Seq(Item) /\ views[k] \in Seq(View)
      /\ object[k] \in [Item -> Value]
  BY DEF IInv, TypeOK
<1>4. o \in Item
  BY ViewDragged
<1> DEFINE moved == [object |-> o, place |-> p, knob |-> n]
<1>5. moved.object = o /\ moved.place = p /\ moved.knob = n
  OBVIOUS
<1> HIDE DEF moved
<1>7. /\ views' \in [Kinds -> Seq(View)]
      /\ Len(views'[k]) = Len(views[k])
      /\ \A u \in 1 .. Len(views[k]) \ {v} : views'[k][u] = views[k][u]
      /\ views'[k][v] = moved
      /\ \A q \in Kinds \ {k} : views'[q] = views[q]
  BY ViewDragged DEF moved
<1>8. /\ \A u \in 1 .. Len(views[k]) : views'[k][u].object = views[k][u].object
      /\ \A q \in Kinds : Held(q)' = Held(q)
  <2>1. \A u \in 1 .. Len(views[k]) : views'[k][u].object = views[k][u].object
    BY <1>5, <1>7
  <2> QED
    BY <1>7, <2>1 DEF Held
<1>9. \A q \in Kinds : \A u \in 1 .. Len(views[q]) : Alone(q, u)' => Alone(q, u)
  BY <1>7, <1>8 DEF Alone
<1>10. CASE Alike(k, o) = {} /\ UNCHANGED level
  <2>1. object' = object /\ list' = list
    BY <1>10 DEF level
  <2>2. o \notin Listed(k)
    BY <1>10 DEF Alike, Listed
  <2>3. TypeOK' /\ SameNumber' /\ ListedIsHeld'
    <3>1. TypeOK'
      BY <1>1, <1>7, <2>1 DEF IInv, TypeOK
    <3>2. SameNumber'
      BY <1>1, <1>7, <2>1 DEF IInv, SameNumber
    <3>3. ListedIsHeld'
      BY <1>8, <2>1 DEF IInv, ListedIsHeld, Listed
    <3> QED
      BY <3>1, <3>2, <3>3
  <2>4. AloneIsInPlace'
    <3> SUFFICES ASSUME NEW q \in Kinds, NEW u \in 1 .. Len(views'[q]), Alone(q, u)',
                        views'[q][u].object \in Listed(q)'
                 PROVE  InStep(q, object'[q][views'[q][u].object], views'[q][u])
      BY DEF AloneIsInPlace, InStep
    <3>1. Listed(q)' = Listed(q)
      BY <2>1 DEF Listed
    <3>2. Len(views'[q]) = Len(views[q])
      BY <1>7
    <3>3. Alone(q, u)
      BY <1>9, <3>2
    <3>4. CASE q = k /\ u = v
      BY <1>5, <1>7, <2>2, <3>1, <3>4
    <3>5. CASE ~(q = k /\ u = v)
      <4>1. views'[q][u] = views[q][u]
        BY <1>7, <3>2, <3>5
      <4> QED
        BY <2>1, <3>1, <3>2, <3>3, <4>1 DEF IInv, AloneIsInPlace
    <3> QED
      BY <3>4, <3>5
  <2> QED
    BY <2>3, <2>4 DEF IInv
<1>11. ASSUME NEW i \in Alike(k, o),
              list' = [list EXCEPT ![k] = Append(Without(@, i), o)],
              object' = [object EXCEPT ![k][o] = Dragged(k, @, p, n)]
       PROVE  IInv'
  <2> DEFINE longer == Append(Without(list[k], i), o)
  <2>1. /\ longer \in Seq(Item) /\ Len(longer) = Len(list[k])
        /\ \A j \in 1 .. Len(list[k]) :
             longer[j] = o \/ \E m \in 1 .. Len(list[k]) : longer[j] = list[k][m]
    <3>1. i \in 1 .. Len(list[k])
      BY DEF Alike
    <3>2. list[k] \in Seq(Item)
      BY <1>2
    <3> DEFINE l == list[k]
    <3>3. l \in Seq(Item) /\ o \in Item /\ i \in 1 .. Len(l)
      BY <1>4, <3>1, <3>2
    <3> HIDE DEF o, l
    <3>4. /\ Append(Without(l, i), o) \in Seq(Item)
          /\ Len(Append(Without(l, i), o)) = Len(l)
      BY <3>3, MovedToEnd
    <3>5. \A j \in 1 .. Len(l) :
            \/ Append(Without(l, i), o)[j] = o
            \/ \E m \in 1 .. Len(l) : Append(Without(l, i), o)[j] = l[m]
      BY <3>3, MovedToEnd
    <3> QED
      BY <3>4, <3>5 DEF l
  <2>2. /\ list' \in [Kinds -> Seq(Item)] /\ list'[k] = longer
        /\ \A q \in Kinds \ {k} : list'[q] = list[q]
    BY <1>11, <2>1 DEF IInv, TypeOK
  <2> HIDE DEF longer
  <2> DEFINE value == Dragged(k, object[k][o], p, n)
  <2>3. value \in Value /\ InStep(k, value, moved)
    BY <1>2, <1>4, <1>5, DraggedFacts
  <2>4. object' = [object EXCEPT ![k] = [object[k] EXCEPT ![o] = value]]
    BY <1>11
  <2> HIDE DEF value
  <2>5. /\ object' \in [Kinds -> [Item -> Value]] /\ object'[k][o] = value
        /\ \A u \in Item \ {o} : object'[k][u] = object[k][u]
        /\ \A q \in Kinds \ {k} : object'[q] = object[q]
    BY <1>4, <2>3, <2>4 DEF IInv, TypeOK
  <2>6. TypeOK'
    BY <1>1, <1>7, <2>2, <2>5 DEF IInv, TypeOK
  <2>7. SameNumber'
    <3>1. \A q \in Kinds : Len(list'[q]) = Len(list[q])
      BY <2>1, <2>2
    <3>2. \A q \in Kinds : Len(views'[q]) = Len(views[q])
      BY <1>7
    <3>3. "line" \in Kinds
      BY DEF Kinds
    <3> QED
      BY <1>1, <3>1, <3>2, <3>3 DEF IInv, SameNumber
  <2>8. Listed(k)' \subseteq Listed(k) \cup {o}
    BY <2>1, <2>2 DEF Listed
  <2>9. \A q \in Kinds \ {k} : Listed(q)' = Listed(q)
    BY <2>2 DEF Listed
  <2>10. ListedIsHeld'
    <3>1. o \in Held(k)
      BY <1>1 DEF Held
    <3> QED
      BY <1>8, <2>8, <2>9, <3>1 DEF IInv, ListedIsHeld
  <2>11. AloneIsInPlace'
    <3> SUFFICES ASSUME NEW q \in Kinds, NEW u \in 1 .. Len(views'[q]),
                        Alone(q, u)', views'[q][u].object \in Listed(q)'
                 PROVE  InStep(q, object'[q][views'[q][u].object], views'[q][u])
      BY DEF AloneIsInPlace, InStep
    <3>1. u \in 1 .. Len(views[q]) /\ Alone(q, u)
      BY <1>7, <1>9
    <3>2. CASE q # k
      BY <1>7, <2>5, <2>9, <3>1, <3>2 DEF IInv, AloneIsInPlace
    <3>3. CASE q = k /\ u = v
      BY <1>5, <1>7, <2>3, <2>5, <3>3
    <3>4. CASE q = k /\ u # v
      <4>1. views'[k][u] = views[k][u]
        BY <1>7, <3>1, <3>4
      <4>2. views[k][u].object # o
        BY <1>1, <3>1, <3>4 DEF Alone
      <4>3. views[k][u].object \in Listed(k)
        BY <2>8, <3>4, <4>1, <4>2
      <4>4. views[k][u].object \in Item
        <5>1. views[k][u] \in View
          BY <1>2, <3>1, <3>4, ElementOfSeq
        <5> QED
          BY <5>1 DEF View
      <4>5. object'[k][views[k][u].object] = object[k][views[k][u].object]
        BY <2>5, <4>2, <4>4
      <4>6. InStep(k, object[k][views[k][u].object], views[k][u])
        BY <3>1, <3>4, <4>3 DEF IInv, AloneIsInPlace
      <4> QED
        BY <3>4, <4>1, <4>5, <4>6
    <3> QED
      BY <3>2, <3>3, <3>4
  <2> QED
    BY <2>6, <2>7, <2>10, <2>11 DEF IInv
<1> QED
  BY <1>1, <1>10, <1>11 DEF FrameChanged

LEMMA MoveStep ==
  IInv /\ \/ \E k \in Kinds : \E v \in Item, p \in Places[k] : MoveItem(k, v, p)
          \/ \E v \in Item, n \in Reach : MoveKnob(v, n)
    => IInv'
BY MovesAreDrags, DragStep

(* The buttons that save, turn to another screen, or leave.                *)
LEMMA ButtonStep ==
  IInv /\ (PressPlay \/ PressMenu \/ PressPublish \/ PublishLv \/ Turn) => IInv'
<1>1. ASSUME IInv, PressPlay \/ PressMenu \/ PressPublish \/ PublishLv \/ Turn
      PROVE  /\ screen # "select" /\ screen' \in Screens
             /\ UNCHANGED <<object, list, views>>
             /\ SaveLevel \/ disk' = disk
  BY <1>1 DEF PressPlay, PressMenu, PressPublish, PublishLv, Turn, IInv, TypeOK,
              Screens, Editing
<1> QED
  BY <1>1, QuietStep

LEMMA LeavingStep == IInv /\ (Confirm \/ Deny \/ Kill) => IInv'
<1> SUFFICES ASSUME IInv, Confirm \/ Deny \/ Kill PROVE IInv'
  OBVIOUS
<1>1. Close /\ screen # "select" /\ (SaveLevel \/ disk' = disk)
  BY DEF Confirm, Deny, Kill
<1>2. /\ disk' \in {None} \cup [Kinds -> Seq(Entry)]
      /\ disk' # None => Len(disk'["line"]) > 0
  BY <1>1, SaveFacts DEF IInv, TypeOK, SameNumber
<1> QED
  BY <1>1, <1>2, CloseStep

(* The inductive invariant holds in every state.                           *)
THEOREM Invariance == Spec => []IInv
<1>1. IInv /\ Next => IInv'
  BY OpenLevelStep, PressHomeStep, AddItemStep, MoveStep, ButtonStep,
     LeavingStep DEF Next
<1>2. IInv /\ UNCHANGED vars => IInv'
  <2> SUFFICES ASSUME IInv, UNCHANGED vars PROVE IInv'
    OBVIOUS
  <2>1. TypeOK' /\ SameNumber'
    BY DEF vars, IInv, TypeOK, SameNumber
  <2>2. /\ \A k \in Kinds : Listed(k)' = Listed(k) /\ Held(k)' = Held(k)
        /\ \A k \in Kinds : \A v \in 1 .. Len(views[k]) : Alone(k, v)' => Alone(k, v)
    BY DEF vars, Listed, Held, Alone
  <2>3. ListedIsHeld' /\ AloneIsInPlace'
    BY <2>2 DEF vars, IInv, ListedIsHeld, AloneIsInPlace
  <2> QED
    BY <2>1, <2>3 DEF IInv
<1> QED
  BY <1>1, <1>2, InitHolds, PTL DEF Spec

(* Every variable keeps its type.                                          *)
THEOREM TypeCorrect == Spec => []TypeOK
BY Invariance, PTL DEF IInv

(* However items are confused, none is gained or lost by number, and       *)
(* lineData[0] is there for a new box.                                     *)
THEOREM ItemsStay == Spec => []NothingVanishes
<1>1. IInv => NothingVanishes
  BY DEF IInv, TypeOK, SameNumber, NothingVanishes, Kinds
<1> QED
  BY <1>1, Invariance, PTL

(* While no object is listed twice, the views match the list one to one.   *)
LEMMA ViewsMatch ==
  ASSUME IInv, NEW k \in Kinds, Distinct(k)
  PROVE  LET n == Len(list[k])
         IN  /\ n \in Nat /\ Len(views[k]) = n
             /\ \A v \in 1 .. n : views[k][v].object \in Listed(k) /\ Alone(k, v)
             /\ \E f \in Bijection(1 .. n, 1 .. n) :
                   \A i \in 1 .. n : views[k][f[i]].object = list[k][i]
<1> DEFINE n == Len(list[k])
           s == [i \in 1 .. n |-> list[k][i]]
           t == [v \in 1 .. n |-> views[k][v].object]
<1>1. n \in Nat /\ Len(views[k]) = n
  BY DEF IInv, TypeOK, SameNumber
<1>2. Differ(n, s)
  BY DEF Distinct, Differ
<1>3. Among(n, s, t)
  <2> SUFFICES ASSUME NEW i \in 1 .. n
               PROVE  \E v \in 1 .. n : t[v] = s[i]
    BY DEF Among
  <2>1. list[k][i] \in Held(k)
    BY DEF IInv, ListedIsHeld, Listed
  <2>2. PICK v \in 1 .. Len(views[k]) : views[k][v].object = list[k][i]
    BY <2>1 DEF Held
  <2> QED
    BY <1>1, <2>2
<1> HIDE DEF n, s, t
<1>4. Among(n, t, s) /\ Differ(n, t)
  BY <1>1, <1>2, <1>3, Pigeonhole
<1>5. ASSUME NEW v \in 1 .. n
      PROVE  views[k][v].object \in Listed(k) /\ Alone(k, v)
  <2>1. t[v] = views[k][v].object
    BY DEF t
  <2>2. PICK i \in 1 .. n : s[i] = t[v]
    BY <1>4 DEF Among
  <2>3. views[k][v].object \in Listed(k)
    BY <2>1, <2>2 DEF s, n, Listed
  <2>4. ASSUME NEW u \in 1 .. Len(views[k]),
               views[k][u].object = views[k][v].object
        PROVE  u = v
    <3>1. u \in 1 .. n /\ t[u] = t[v]
      BY <1>1, <2>1, <2>4 DEF t
    <3> QED
      BY <1>4, <3>1 DEF Differ
  <2> QED
    BY <2>3, <2>4 DEF Alone
<1>6. PICK f \in Bijection(1 .. n, 1 .. n) : \A i \in 1 .. n : t[f[i]] = s[i]
  BY <1>1, <1>2, <1>3, Matching
<1>7. ASSUME NEW i \in 1 .. n
      PROVE  views[k][f[i]].object = list[k][i]
  <2>1. f[i] \in 1 .. n
    BY DEF Bijection, Injection
  <2> QED
    BY <1>6, <2>1 DEF s, t
<1> QED
  BY <1>1, <1>5, <1>7 DEF n

(* As long as no object is listed twice, the level lists exactly the       *)
(* objects shown and every view shows its object where the level has it.   *)
LEMMA ViewsAreRight ==
  ASSUME IInv, NEW k \in Kinds, Distinct(k)
  PROVE  /\ Held(k) = Listed(k)
         /\ \A v \in 1 .. Len(views[k]) :
              InStep(k, object[k][views[k][v].object], views[k][v])
<1>1. \A v \in 1 .. Len(views[k]) :
        views[k][v].object \in Listed(k) /\ Alone(k, v)
  BY ViewsMatch
<1>2. Held(k) = Listed(k)
  BY <1>1 DEF IInv, ListedIsHeld, Held
<1> QED
  BY <1>1, <1>2 DEF IInv, AloneIsInPlace

(* So it is in every state, after whatever edits, saves and kills.         *)
THEOREM ViewsShowTheLevel == Spec => []ShownIsListed
<1>1. IInv => ShownIsListed
  BY ViewsAreRight DEF ShownIsListed
<1> QED
  BY <1>1, Invariance, PTL
-----------------------------------------------------------------------------
(* The promise *)

(* The board of a kind, view by view.                                      *)
Seen(k, v) == [object[k][views[k][v].object] EXCEPT !.place = views[k][v].place]

LEMMA SeenFacts ==
  ASSUME IInv, NEW k \in Kinds, NEW v \in 1 .. Len(views[k])
  PROVE  /\ views[k][v] \in View /\ object[k][views[k][v].object] \in Value
         /\ Seen(k, v) \in Value
<1>1. views[k] \in Seq(View) /\ object[k] \in [Item -> Value]
  BY DEF IInv, TypeOK
<1>2. views[k][v] \in View
  BY <1>1, ElementOfSeq
<1>3. views[k][v].place \in Place /\ views[k][v].object \in Item
  BY <1>2 DEF View
<1>4. object[k][views[k][v].object] \in Value
  BY <1>1, <1>3
<1> QED
  BY <1>2, <1>3, <1>4 DEF Seen, Value

(* Data that has the place already is not changed by being put there.      *)
LEMMA InPlace ==
  ASSUME NEW d \in Value
  PROVE  [d EXCEPT !.place = d.place] = d
BY DEF Value

(* The board, and the items a content holds, are items: never None.        *)
LEMMA BoardFacts ==
  ASSUME IInv
  PROVE  /\ Board \in [Kinds -> Seq(Value)] /\ Board # None
         /\ \A k \in Kinds : Len(Board[k]) = Len(views[k])
         /\ \A k \in Kinds : \A v \in 1 .. Len(views[k]) :
              /\ Board[k][v] = Seen(k, v)
              /\ Board[k][v] \in Value
<1>1. \A k \in Kinds : \A v \in 1 .. Len(views[k]) : Seen(k, v) \in Value
  BY SeenFacts
<1>2. Board = [k \in Kinds |-> [v \in 1 .. Len(views[k]) |-> Seen(k, v)]]
  BY DEF Board, Seen
<1>3. ASSUME NEW k \in Kinds
      PROVE  /\ Board[k] \in Seq(Value) /\ Len(Board[k]) = Len(views[k])
             /\ \A v \in 1 .. Len(views[k]) :
                  Board[k][v] = Seen(k, v) /\ Board[k][v] \in Value
  <2>1. Len(views[k]) \in Nat
    BY DEF IInv, TypeOK
  <2>2. Board[k] = [v \in 1 .. Len(views[k]) |-> Seen(k, v)]
    BY <1>2
  <2> QED
    BY <1>1, <2>1, <2>2
<1>4. Board \in [Kinds -> Seq(Value)]
  BY <1>2, <1>3
<1>5. Board # None
  BY <1>4, ConstantsAssumption
<1> QED
  BY <1>3, <1>4, <1>5

LEMMA BoardIsThere == IInv => Board # None
BY BoardFacts

LEMMA ItemsFacts ==
  ASSUME NEW content \in [Kinds -> Seq(Entry)]
  PROVE  /\ content # None
         /\ ItemsOf(content) \in [Kinds -> Seq(Value)] /\ ItemsOf(content) # None
         /\ \A k \in Kinds :
              /\ Len(ItemsOf(content)[k]) = Len(content[k])
              /\ \A i \in 1 .. Len(content[k]) :
                   ItemsOf(content)[k][i] = content[k][i].value
<1>1. ASSUME NEW k \in Kinds
      PROVE  /\ ItemsOf(content)[k] \in Seq(Value)
             /\ Len(ItemsOf(content)[k]) = Len(content[k])
             /\ \A i \in 1 .. Len(content[k]) :
                  ItemsOf(content)[k][i] = content[k][i].value
  <2>1. content[k] \in Seq(Entry) /\ Len(content[k]) \in Nat
    OBVIOUS
  <2>2. ItemsOf(content)[k] = [i \in 1 .. Len(content[k]) |-> content[k][i].value]
    BY DEF ItemsOf
  <2>3. ASSUME NEW i \in 1 .. Len(content[k])
        PROVE  content[k][i].value \in Value
    <3>1. content[k][i] \in Entry
      BY <2>1, ElementOfSeq
    <3> QED
      BY <3>1 DEF Entry
  <2>4. [i \in 1 .. Len(content[k]) |-> content[k][i].value] \in Seq(Value)
    BY <2>1, <2>3
  <2> QED
    BY <2>1, <2>2, <2>4
<1>2. ItemsOf(content) \in [Kinds -> Seq(Value)]
  BY <1>1 DEF ItemsOf
<1> QED
  BY <1>1, <1>2, ConstantsAssumption

(* The sizes the promise speaks of are those spoken of here.               *)
LEMMA SameCardinality == \A S : Promise!Cardinality(S) = Cardinality(S)
BY DEF Promise!Cardinality, Cardinality, Promise!IsFiniteSet, IsFiniteSet

(* Saving writes what is shown, in the order of the lists.                 *)
LEMMA ContentIsShown ==
  ASSUME IInv, \A k \in Kinds : Distinct(k)
  PROVE  Promise!SameItems(ItemsOf(Content), Board)
<1> SUFFICES ASSUME NEW k \in Kinds
             PROVE  /\ Len(ItemsOf(Content)[k]) = Len(Board[k])
                    /\ \A x :
                         Cardinality({i \in 1 .. Len(ItemsOf(Content)[k]) :
                                        ItemsOf(Content)[k][i] = x}) =
                         Cardinality({i \in 1 .. Len(Board[k]) : Board[k][i] = x})
  BY SameCardinality DEF Promise!SameItems, Promise!Count
<1> DEFINE n == Len(list[k])
           s == ItemsOf(Content)[k]
           t == Board[k]
<1>1. /\ n \in Nat /\ Len(views[k]) = n
      /\ \E f \in Bijection(1 .. n, 1 .. n) :
           \A i \in 1 .. n : views[k][f[i]].object = list[k][i]
  BY ViewsMatch
<1>2. PICK f \in Bijection(1 .. n, 1 .. n) :
        \A i \in 1 .. n : views[k][f[i]].object = list[k][i]
  BY <1>1
<1>3. Len(s) = n /\ \A i \in 1 .. n : s[i] = object[k][list[k][i]]
  <2>1. /\ Content \in [Kinds -> Seq(Entry)] /\ Len(Content[k]) = n
    BY ContentFacts DEF IInv
  <2>2. \A i \in 1 .. n : Content[k][i].value = object[k][list[k][i]]
    BY DEF Content
  <2> QED
    BY <2>1, <2>2, ItemsFacts
<1>4. Len(t) = n
  BY <1>1, BoardFacts
<1>5. ASSUME NEW i \in 1 .. n PROVE t[f[i]] = s[i]
  <2> DEFINE v == f[i]
             o == list[k][i]
  <2>1. v \in 1 .. n
    BY DEF Bijection, Injection
  <2>2. views[k][v].object = o
    BY <1>2
  <2> HIDE DEF v
  <2>3. t[v] = [object[k][o] EXCEPT !.place = views[k][v].place]
    BY <1>1, <2>1, <2>2, BoardFacts DEF Seen
  <2>4. object[k][o].place = views[k][v].place
    BY <1>1, <2>1, <2>2, ViewsAreRight DEF InStep
  <2>5. object[k][o] \in Value
    <3>1. o \in Item /\ object[k] \in [Item -> Value]
      BY DEF IInv, TypeOK
    <3> QED
      BY <3>1
  <2>6. t[v] = object[k][o]
    BY <2>3, <2>4, <2>5, InPlace
  <2>7. t[v] = s[i]
    BY <1>3, <2>6
  <2> QED
    BY <2>7 DEF v
<1> HIDE DEF n, s, t
<1>6. n \in Nat /\ \A i \in 1 .. n : t[f[i]] = s[i]
  BY <1>1, <1>5
<1>7. ASSUME NEW x
      PROVE  Cardinality(Occurrences(n, s, x)) = Cardinality(Occurrences(n, t, x))
  BY <1>6, EquallyOften
<1> QED
  BY <1>3, <1>4, <1>7 DEF s, t, Occurrences

(* An editor made for a content in which no item stands for two shows it.  *)
LEMMA ContentIsOpened ==
  ASSUME IInv', NEW content \in [Kinds -> Seq(Entry)], ShowLevel(content),
         \A k \in Kinds : Distinct(k)'
  PROVE  Shown' = ItemsOf(content)
<1>1. /\ screen' = "editor"
      /\ object' = [k \in Kinds |-> [o \in Item |-> Decoded(content, k, o)]]
      /\ list' = [k \in Kinds |-> [i \in 1 .. Len(content[k]) |-> content[k][i].item]]
      /\ views' = [k \in Kinds |-> [i \in 1 .. Len(content[k]) |->
             ViewFor(content[k][i].item, content[k][i].value)]]
  BY DEF ShowLevel
<1>2. ASSUME NEW k \in Kinds
      PROVE  Board'[k] = ItemsOf(content)[k]
  <2> DEFINE n == Len(content[k])
  <2>1. content[k] \in Seq(Entry) /\ n \in Nat
    OBVIOUS
  <2>2. /\ list'[k] = [i \in 1 .. n |-> content[k][i].item]
        /\ views'[k] = [i \in 1 .. n |->
                          ViewFor(content[k][i].item, content[k][i].value)]
    BY <1>1
  <2>3. Len(list'[k]) = n /\ Len(views'[k]) = n
    BY <2>1, <2>2
  <2>4. ASSUME NEW i \in 1 .. n
        PROVE  [object'[k][views'[k][i].object] EXCEPT !.place = views'[k][i].place]
                 = content[k][i].value
    <3> DEFINE o == content[k][i].item
    <3>1. content[k][i] \in Entry
      BY <2>1, ElementOfSeq
    <3>2. o \in Item /\ content[k][i].value \in Value
      BY <3>1 DEF Entry
    <3>3. \A j \in 1 .. n : content[k][j].item = o => j = i
      BY <2>2, <2>3 DEF Distinct
    <3>4. Decoded(content, k, o) = content[k][i].value
      BY <3>2, <3>3, DecodedFacts
    <3>5. object'[k][o] = content[k][i].value
      BY <1>1, <3>2, <3>4
    <3>6. views'[k][i].object = o /\ views'[k][i].place = content[k][i].value.place
      BY <2>2, <3>2, ViewForFacts
    <3> HIDE DEF o
    <3> QED
      BY <3>2, <3>5, <3>6, InPlace
  <2>5. Board'[k] = [i \in 1 .. n |-> content[k][i].value]
    <3>1. Board'[k] = [i \in 1 .. Len(views'[k]) |->
             [object'[k][views'[k][i].object] EXCEPT !.place = views'[k][i].place]]
      BY DEF Board
    <3> QED
      BY <2>3, <2>4, <3>1
  <2>6. ItemsOf(content)[k] = [i \in 1 .. n |-> content[k][i].value]
    BY DEF ItemsOf
  <2> QED
    BY <2>5, <2>6
<1>3. Board' = ItemsOf(content)
  BY <1>2 DEF Board, ItemsOf
<1> QED
  BY <1>1, <1>3 DEF Shown

(* The levels in memory and in the file that the promise speaks of.        *)
LEMMA NotMixedUp ==
  ASSUME ~MixedUp
  PROVE  \A k \in Kinds : Distinct(k)
BY DEF MixedUp

(* A save, of what is shown.                                               *)
LEMMA SaveKeepsPromise ==
  ASSUME IInv, ~MixedUp, screen # "select", disk' = Content,
         Shown' = Shown \/ Shown' = None
  PROVE  Promise!Save
<1>1. Shown = Board
  BY DEF Shown
<1>2. Content \in [Kinds -> Seq(Entry)]
  BY ContentFacts DEF IInv
<1>3. Content # None /\ ItemsOf(Content) # None
  BY <1>2, ItemsFacts
<1>4. Saved' = ItemsOf(Content)
  BY <1>3 DEF Saved, ItemsOf
<1>5. Promise!SameItems(ItemsOf(Content), Board)
  BY ContentIsShown, NotMixedUp
<1> QED
  BY <1>1, <1>3, <1>4, <1>5 DEF Promise!Save, Promise!SameItems

(* Screens that turn, with or without a save.                              *)
LEMMA TurningKeepsPromise ==
  ASSUME IInv, ~MixedUp, ~MixedUp', screen # "select", screen' # "select",
         UNCHANGED <<object, list, views>>, SaveLevel \/ disk' = disk
  PROVE  Promise!Promised \/ UNCHANGED Promise!vars
<1>1. Shown' = Shown /\ Shown # None
  <2>1. Board' = Board
    BY DEF Board
  <2> QED
    BY <2>1, BoardFacts DEF Shown
<1>2. CASE disk' = Content
  <2>1. Promise!Save
    BY <1>1, <1>2, SaveKeepsPromise
  <2> QED
    BY <1>1, <2>1 DEF Promise!Promised
<1>3. CASE disk' = disk
  <2>1. Saved' = Saved
    BY <1>3 DEF Saved, ItemsOf
  <2>2. MixedUp' = MixedUp
    <3>1. MixedUp \in BOOLEAN /\ MixedUp' \in BOOLEAN
      BY DEF MixedUp
    <3> QED
      BY <3>1
  <2> QED
    BY <1>1, <2>1, <2>2 DEF Promise!vars
<1> QED
  BY <1>2, <1>3 DEF SaveLevel

(* The level leaves the screen, saved or not.                              *)
LEMMA LeavingKeepsPromise ==
  ASSUME IInv, ~MixedUp, screen # "select", Close, SaveLevel \/ disk' = disk
  PROVE  Promise!Promised
<1>1. Shown' = None /\ Shown # None
  BY BoardFacts DEF Shown, Close
<1>2. CASE disk' = Content
  <2>1. Promise!Save
    BY <1>1, <1>2, SaveKeepsPromise
  <2> QED
    BY <1>1, <2>1 DEF Promise!Promised
<1>3. CASE disk' = disk
  <2>1. Saved' = Saved
    BY <1>3 DEF Saved, ItemsOf
  <2> QED
    BY <1>1, <2>1 DEF Promise!Promised, Promise!Leave
<1> QED
  BY <1>2, <1>3 DEF SaveLevel

(* Opening shows the items of the file, or those of a new level.           *)
LEMMA OpeningKeepsPromise ==
  ASSUME IInv, IInv', ~MixedUp', OpenLevel
  PROVE  Promise!Promised
<1> DEFINE content == IF disk = None THEN Blank ELSE disk
<1>1. content \in [Kinds -> Seq(Entry)]
  BY BlankFacts DEF IInv, TypeOK
<1>2. screen = "select" /\ ShowLevel(content) /\ disk' = disk
  BY DEF OpenLevel
<1> HIDE DEF content
<1>3. \A k \in Kinds : Distinct(k)'
  BY DEF MixedUp
<1>4. Shown' = ItemsOf(content)
  BY <1>1, <1>2, <1>3, ContentIsOpened
<1>5. Shown = None /\ Shown' # None /\ Saved' = Saved
  BY <1>1, <1>2, <1>4, ItemsFacts DEF Shown, Saved, ItemsOf
<1>6. ItemsOf(content) = IF Saved = None THEN ItemsOf(Blank) ELSE Saved
  <2>1. CASE disk = None
    BY <2>1 DEF content, Saved
  <2>2. CASE disk # None
    <3>1. content = disk /\ Saved = ItemsOf(disk)
      BY <2>2 DEF content, Saved
    <3> QED
      BY <1>1, <3>1, ItemsFacts
  <2> QED
    BY <2>1, <2>2
<1>7. Promise!SameItems(Shown', IF Saved = None THEN ItemsOf(Blank) ELSE Saved)
  BY <1>4, <1>6 DEF Promise!SameItems
<1> QED
  BY <1>5, <1>7 DEF Promise!Promised, Promise!Open

(* Home from play lays out anew what is in memory.                         *)
LEMMA HomeKeepsPromise ==
  ASSUME IInv, IInv', ~MixedUp, ~MixedUp', PressHome
  PROVE  Promise!Promised
<1>1. screen = "play" /\ ShowLevel(Content) /\ disk' = disk
  BY DEF PressHome
<1>2. Content \in [Kinds -> Seq(Entry)]
  BY ContentFacts DEF IInv
<1>3. \A k \in Kinds : Distinct(k)'
  BY DEF MixedUp
<1>4. Shown' = ItemsOf(Content)
  BY <1>1, <1>2, <1>3, ContentIsOpened
<1>5. Shown = Board /\ Shown # None
  BY <1>1, BoardFacts DEF Shown
<1>6. Shown' # None
  BY <1>2, <1>4, ItemsFacts
<1>7. Saved' = Saved
  BY <1>1 DEF Saved, ItemsOf
<1>8. Promise!SameItems(Shown', Shown)
  <2>1. Promise!SameItems(ItemsOf(Content), Board)
    BY ContentIsShown, NotMixedUp
  <2> QED
    BY <1>4, <1>5, <2>1
<1> QED
  BY <1>5, <1>6, <1>7, <1>8 DEF Promise!Promised, Promise!Redraw

(* A new item is one more on the board; an object nobody held is its own.  *)
LEMMA AddingKeepsPromise ==
  ASSUME IInv, IInv', NEW k \in Kinds, AddItem(k)
  PROVE  Promise!Promised
<1>1. PICK o \in Item \ Held(k) :
        /\ object' = [object EXCEPT ![k][o] = NewItem(k)]
        /\ views' = [views EXCEPT ![k] = Append(@, ViewFor(o, NewItem(k)))]
  BY DEF AddItem
<1>2. /\ screen = "editor" /\ screen' = "editor" /\ disk' = disk
      /\ list["line"] # <<>>
  BY DEF AddItem
<1> DEFINE new == NewItem(k)
           view == ViewFor(o, new)
           n == Len(views[k])
<1>3. /\ new \in Value /\ view \in View
      /\ view.object = o /\ view.place = new.place
  BY <1>2, NewItemFacts, ViewForFacts
<1>4. views[k] \in Seq(View) /\ n \in Nat
  <2>1. views[k] \in Seq(View)
    BY DEF IInv, TypeOK
  <2> QED
    BY <2>1, LenProperties
<1>5. /\ views'[k] = Append(views[k], view)
      /\ object'[k][o] = new
      /\ \A u \in Item \ {o} : object'[k][u] = object[k][u]
      /\ \A q \in Kinds \ {k} : views'[q] = views[q] /\ object'[q] = object[q]
  BY <1>1 DEF IInv, TypeOK
<1> HIDE DEF view
<1>6. /\ Len(views'[k]) = n + 1 /\ views'[k][n + 1] = view
      /\ \A v \in 1 .. n : views'[k][v] = views[k][v]
  BY <1>3, <1>4, <1>5
<1>7. ASSUME NEW v, v = n + 1
      PROVE  Seen(k, v)' = new
  <2>1. views'[k][n + 1].object = o /\ views'[k][n + 1].place = new.place
    BY <1>3, <1>6
  <2>2. object'[k][views'[k][n + 1].object] = new
    BY <1>5, <2>1
  <2> HIDE DEF new, n
  <2>3. [object'[k][views'[k][n + 1].object] EXCEPT !.place = views'[k][n + 1].place]
          = new
    BY <1>3, <2>1, <2>2, InPlace
  <2> QED
    BY <1>7, <2>3 DEF Seen
<1>8. ASSUME NEW v \in 1 .. n
      PROVE  Seen(k, v)' = Seen(k, v)
  <2>1. views[k][v] \in View
    BY <1>4, ElementOfSeq
  <2>2. views[k][v].object \in Item \ {o}
    BY <1>1, <2>1 DEF Held, View
  <2> QED
    BY <1>5, <1>6, <2>2 DEF Seen
<1> HIDE DEF new, n
<1>9. Board \in [Kinds -> Seq(Value)] /\ Board # None /\ Len(Board[k]) = n
  BY BoardFacts DEF n
<1>10. Board'[k] = Append(Board[k], new)
  <2>1. Board'[k] = [v \in 1 .. n + 1 |-> Seen(k, v)']
    BY <1>6 DEF Board, Seen
  <2>2. Board[k] = [v \in 1 .. n |-> Seen(k, v)]
    BY DEF Board, Seen, n
  <2> DEFINE b == Board[k]
             a == Append(b, new)
  <2>3. b \in Seq(Value) /\ Len(b) = n
    BY <1>9
  <2>4. \A v \in 1 .. n : b[v] = Seen(k, v)
    BY <2>2
  <2> HIDE DEF b
  <2>5. /\ a \in Seq(Value) /\ Len(a) = n + 1 /\ a[n + 1] = new
        /\ \A v \in 1 .. n : a[v] = b[v]
    BY <1>3, <2>3, AppendProperties
  <2> HIDE DEF a
  <2>6. a = [v \in 1 .. n + 1 |-> a[v]]
    BY <2>5, LenProperties
  <2>7. ASSUME NEW v \in 1 .. n + 1
        PROVE  Seen(k, v)' = a[v]
    <3>1. n \in Nat
      BY <1>4 DEF n
    <3>2. CASE v = n + 1
      BY <1>7, <2>5, <3>2
    <3>3. CASE v \in 1 .. n
      BY <1>8, <2>4, <2>5, <3>3 DEF n
    <3> QED
      BY <3>1, <3>2, <3>3
  <2>8. Board'[k] = a
    BY <2>1, <2>6, <2>7
  <2> QED
    BY <2>8 DEF a, b
<1>11. \A q \in Kinds \ {k} : Board'[q] = Board[q]
  BY <1>5 DEF Board
<1>12. Board' = [Board EXCEPT ![k] = Append(@, new)]
  <2>1. Board' = [q \in Kinds |-> Board'[q]] /\ Board = [q \in Kinds |-> Board[q]]
    BY DEF Board
  <2> HIDE DEF new
  <2> QED
    BY <1>10, <1>11, <2>1
<1>13. Shown = Board /\ Shown' = Board' /\ Saved' = Saved
  BY <1>2 DEF Shown, Saved, ItemsOf
<1>14. Promise!Place(k)
  BY <1>3, <1>12, <1>13 DEF Promise!Place
<1> QED
  BY <1>9, <1>13, <1>14 DEF Promise!Promised

(* A drag changes one item: nobody else holds its object.                  *)
LEMMA DraggingKeepsPromise ==
  ASSUME IInv, ~MixedUp,
         NEW k \in Kinds, NEW v \in Item, NEW p \in Place, NEW n \in Knobs,
         Drag(k, v, p, n)
  PROVE  Promise!Promised
<1> DEFINE o == views[k][v].object
           m == Len(views[k])
<1>1. /\ v \in 1 .. m /\ o \in Item /\ Len(views'[k]) = m
      /\ \A u \in 1 .. m \ {v} : views'[k][u] = views[k][u]
      /\ \A q \in Kinds \ {k} : views'[q] = views[q]
  BY ViewDragged
<1>2. /\ screen \in Editing /\ screen' = screen /\ disk' = disk
      /\ FrameChanged(k, v, p, n)
  BY DEF Drag
<1>3. /\ \A q \in Kinds \ {k} : object'[q] = object[q]
      /\ \A u \in Item \ {o} : object'[k][u] = object[k][u]
  <2>1. CASE object' = object
    BY <2>1
  <2>2. CASE object' = [object EXCEPT ![k][o] = Dragged(k, @, p, n)]
    <3>1. object \in [Kinds -> [Item -> Value]]
      BY DEF IInv, TypeOK
    <3> QED
      BY <1>1, <2>2, <3>1
  <2> QED
    BY <1>2, <2>1, <2>2 DEF FrameChanged, level
<1>4. ASSUME NEW u \in 1 .. m \ {v}
      PROVE  Seen(k, u)' = Seen(k, u)
  <2>1. views[k][u] \in View
    BY SeenFacts
  <2>2. views[k][u].object \in Item
    BY <2>1 DEF View
  <2>3. views[k][u].object # o
    <3>1. Distinct(k)
      BY NotMixedUp
    <3>2. Alone(k, v)
      BY <1>1, <3>1, ViewsMatch
    <3> QED
      BY <3>2 DEF Alone
  <2> QED
    BY <1>1, <1>3, <2>2, <2>3 DEF Seen
<1>5. Board # None /\ Len(Board[k]) = m
  BY BoardFacts
<1>6. /\ Board'[k] = [u \in 1 .. m |-> Seen(k, u)']
      /\ Board[k] = [u \in 1 .. m |-> Seen(k, u)]
  BY <1>1 DEF Board, Seen
<1>7. m \in Nat
  BY DEF IInv, TypeOK
<1> HIDE DEF o, m
<1>8. Len(Board'[k]) = m
  BY <1>6, <1>7
<1>9. \A u \in 1 .. m \ {v} : Board'[k][u] = Board[k][u]
  BY <1>4, <1>6
<1>10. \A q \in Kinds \ {k} : Board'[q] = Board[q]
  BY <1>1, <1>3 DEF Board
<1>11. Shown = Board /\ Shown' = Board' /\ Saved' = Saved
  BY <1>2 DEF Shown, Saved, ItemsOf, Editing
<1>12. Board' # None
  <2>1. IInv'
    BY DragStep
  <2>2. (Board # None)'
    BY <2>1, BoardIsThere, PTL
  <2> QED
    BY <2>2
<1>13. Promise!Edit(k)
  BY <1>1, <1>5, <1>8, <1>9, <1>10, <1>11, <1>12 DEF Promise!Edit
<1> QED
  BY <1>5, <1>11, <1>13 DEF Promise!Promised

(* What is on the board is what a save writes and what opening shows, an   *)
(* edit changes one item, and leaving forgets them: as long as no item     *)
(* stands for two, every step of the editor is one of LevelBoard's.        *)
THEOREM EditorKeepsItsPromise == Spec => ImplementsBoard
<1>1. Init => Promise!Init
  BY DEF Init, Promise!Init, Shown, Saved, MixedUp, Distinct
<1>2. IInv /\ IInv' /\ [Next]_vars
        => [MixedUp \/ MixedUp' \/ Promise!Promised]_(Promise!vars)
  <2> SUFFICES ASSUME IInv, IInv', [Next]_vars, ~MixedUp, ~MixedUp'
               PROVE  Promise!Promised \/ UNCHANGED Promise!vars
    OBVIOUS
  <2>1. CASE OpenLevel
    BY <2>1, OpeningKeepsPromise
  <2>2. ASSUME NEW k \in Kinds, AddItem(k)
        PROVE  Promise!Promised
    BY <2>2, AddingKeepsPromise
  <2>3. CASE \/ \E k \in Kinds : \E v \in Item, p \in Places[k] : MoveItem(k, v, p)
             \/ \E v \in Item, n \in Reach : MoveKnob(v, n)
    BY <2>3, MovesAreDrags, DraggingKeepsPromise
  <2>4. CASE PressPlay \/ PressMenu \/ PressPublish \/ PublishLv \/ Turn
    <3>1. /\ screen # "select" /\ screen' # "select"
          /\ UNCHANGED <<object, list, views>>
          /\ SaveLevel \/ disk' = disk
      BY <2>4 DEF PressPlay, PressMenu, PressPublish, PublishLv, Turn
    <3> QED
      BY <3>1, TurningKeepsPromise
  <2>5. CASE PressHome
    BY <2>5, HomeKeepsPromise
  <2>6. CASE Confirm \/ Deny \/ Kill
    <3>1. Close /\ screen # "select" /\ (SaveLevel \/ disk' = disk)
      BY <2>6 DEF Confirm, Deny, Kill
    <3> QED
      BY <3>1, LeavingKeepsPromise
  <2>7. CASE UNCHANGED vars
    <3>1. Board' = Board
      BY <2>7 DEF vars, Board
    <3>2. Shown' = Shown /\ Saved' = Saved
      BY <2>7, <3>1 DEF vars, Shown, Saved, ItemsOf
    <3>3. MixedUp' = MixedUp
      <4>1. MixedUp \in BOOLEAN /\ MixedUp' \in BOOLEAN
        BY DEF MixedUp
      <4> QED
        BY <4>1
    <3> QED
      BY <3>2, <3>3 DEF Promise!vars
  <2> QED
    BY <2>1, <2>2, <2>3, <2>4, <2>5, <2>6, <2>7 DEF Next
<1> QED
  BY <1>1, <1>2, Invariance, PTL DEF Spec, ImplementsBoard, Promise!Spec
=============================================================================
