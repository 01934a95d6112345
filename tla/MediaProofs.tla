---------------------------- MODULE MediaProofs ----------------------------
(***************************************************************************)
(* Proofs about Media.  No slot is lost or made up, and the file a row      *)
(* points to is whole.                                                      *)
(***************************************************************************)
EXTENDS Media, FiniteSetTheorems, SequenceTheorems, TLAPS

Who == Requests \cup Streams \cup Fetches

-----------------------------------------------------------------------------
(* The slots alone. *)

In(line)   == {line[i] : i \in 1..Len(line)}
Once(line) == \A i, j \in 1..Len(line) : line[i] = line[j] => i = j
Lined(s)   == In(s.asked) \cup In(s.auto)

(* Nobody is twice in a line, in both lines, or in a line and with a slot.  *)
SlotsOK(s) ==
    /\ s \in [free : Nat, asked : Seq(Who), auto : Seq(Who), held : SUBSET Who]
    /\ IsFiniteSet(s.held) /\ s.free + Cardinality(s.held) = Slots
    /\ s.free > 0 => s.asked = << >> /\ s.auto = << >>
    /\ Once(s.asked) /\ Once(s.auto)
    /\ In(s.asked) \cap In(s.auto) = {} /\ Lined(s) \cap s.held = {}

LEMMA EmptyLine == Once(<< >>) /\ In(<< >>) = {}
BY DEF Once, In

LEMMA LongerLine ==
    ASSUME NEW S, NEW line \in Seq(S), NEW x \in S, Once(line), x \notin In(line)
    PROVE  /\ Append(line, x) \in Seq(S) /\ Once(Append(line, x))
           /\ In(Append(line, x)) = In(line) \cup {x}
<1> DEFINE n == Len(line)
           new == Append(line, x)
<1>1. /\ n \in Nat /\ new \in Seq(S) /\ Len(new) = n + 1 /\ new[n + 1] = x
      /\ \A i \in 1..n : new[i] = line[i]
  OBVIOUS
<1>2. \A i \in 1..Len(new) : i \in 1..n \/ i = n + 1
  BY <1>1
<1>3. \A i \in 1..n : i \in 1..Len(new) /\ line[i] # x
  BY <1>1 DEF In
<1>4. n + 1 \in 1..Len(new)
  BY <1>1
<1> HIDE DEF new, n
<1>5. Once(new)
  BY <1>1, <1>2, <1>3, n = Len(line) DEF Once, n
<1>6. In(new) = In(line) \cup {x}
  BY <1>1, <1>2, <1>3, <1>4, n = Len(line) DEF In, n
<1> QED
  BY <1>1, <1>5, <1>6 DEF new

LEMMA ShorterLine ==
    ASSUME NEW S, NEW line \in Seq(S), Once(line), line # << >>
    PROVE  /\ Head(line) \in In(line) /\ Tail(line) \in Seq(S) /\ Once(Tail(line))
           /\ In(Tail(line)) = In(line) \ {Head(line)}
<1> DEFINE n == Len(line)
           new == Tail(line)
<1>1. /\ n \in Nat \ {0} /\ new \in Seq(S) /\ Len(new) = n - 1 /\ Head(line) = line[1]
      /\ \A i \in 1..Len(new) : new[i] = line[i + 1]
  OBVIOUS
<1>2. \A i \in 1..Len(new) : i \in Int /\ i + 1 \in 1..n /\ i + 1 # 1
  BY <1>1
<1>3. \A i \in 1..n : i = 1 \/ (i - 1 \in 1..Len(new) /\ i \in Int /\ (i - 1) + 1 = i)
  BY <1>1
<1>4. 1 \in 1..n
  BY <1>1
<1> HIDE DEF new
<1>5. Once(new)
  <2>1. \A i, j \in 1..Len(new) : new[i] = new[j] => i + 1 = j + 1
    BY <1>1, <1>2 DEF Once
  <2> QED
    BY <1>2, <2>1 DEF Once
<1>6. Head(line) \in In(line)
  BY <1>1, <1>4 DEF In
<1>7. \A i \in 1..n : i # 1 => line[i] = new[i - 1]
  BY <1>1, <1>3
<1>8. \A i \in 1..Len(new) : new[i] # line[1]
  BY <1>1, <1>2, <1>4 DEF Once
<1>9. ASSUME NEW y \in In(new) PROVE y \in In(line) \ {Head(line)}
  <2>1. PICK i \in 1..Len(new) : y = new[i]
    BY <1>9 DEF In
  <2> QED
    BY <1>1, <1>2, <1>8, <2>1 DEF In
<1>10. ASSUME NEW y \in In(line), y # Head(line) PROVE y \in In(new)
  <2>1. PICK i \in 1..n : y = line[i]
    BY <1>10 DEF In
  <2>2. i # 1
    BY <1>1, <1>10, <2>1
  <2> QED
    BY <1>3, <1>7, <2>1, <2>2 DEF In
<1> QED
  BY <1>1, <1>5, <1>6, <1>9, <1>10 DEF new

LEMMA WithoutLine ==
    ASSUME NEW S, NEW line \in Seq(S), NEW x, Once(line)
    PROVE  /\ Without(line, x) \in Seq(S) /\ Once(Without(line, x))
           /\ In(Without(line, x)) = In(line) \ {x}
<1> DEFINE n == Len(line)
<1>1. n \in Nat /\ DOMAIN line = 1..n
  OBVIOUS
<1>2. CASE \A i \in DOMAIN line : line[i] # x
  BY <1>1, <1>2 DEF Without, In
<1>3. CASE ~ \A i \in DOMAIN line : line[i] # x
  <2> DEFINE k == CHOOSE i \in DOMAIN line : line[i] = x
             new == Without(line, x)
  <2>1. k \in 1..n /\ line[k] = x
    BY <1>1, <1>3
  <2> HIDE DEF k
  <2>2. new = SubSeq(line, 1, k - 1) \o SubSeq(line, k + 1, n)
    BY <1>3 DEF Without, RemoveAt, k
  <2> DEFINE a == SubSeq(line, 1, k - 1)
             b == SubSeq(line, k + 1, n)
  <2>3. a \in Seq(S) /\ Len(a) = k - 1 /\ \A i \in 1..(k - 1) : a[i] = line[i]
    <3>1. \A i \in 1..(k - 1) : line[i] \in S
      BY <1>1, <2>1
    <3>2. a \in Seq(S)
      BY <2>1, <3>1, SubSeqProperties
    <3>3. Len(a) = IF 1 <= k - 1 THEN k - 1 - 1 + 1 ELSE 0
      BY <2>1, <3>1, SubSeqProperties
    <3>4. \A i \in 1..(k - 1 - 1 + 1) : a[i] = line[1 + i - 1]
      BY <2>1, <3>1, SubSeqProperties
    <3> HIDE DEF a
    <3> QED
      BY <1>1, <2>1, <3>2, <3>3, <3>4
  <2>4. b \in Seq(S) /\ Len(b) = n - k /\ \A i \in 1..(n - k) : b[i] = line[i + k]
    <3>1. (\A i \in (k + 1)..n : line[i] \in S) /\ k + 1 \in Int /\ n \in Int
      BY <1>1, <2>1
    <3>2. b \in Seq(S)
      BY <3>1, SubSeqProperties
    <3>3. Len(b) = IF k + 1 <= n THEN n - (k + 1) + 1 ELSE 0
      BY <3>1, SubSeqProperties
    <3>4. \A i \in 1..(n - (k + 1) + 1) : b[i] = line[(k + 1) + i - 1]
      BY <3>1, SubSeqProperties
    <3> HIDE DEF b
    <3>5. \A i \in 1..(n - k) : (k + 1) + i - 1 = i + k /\ i \in 1..(n - (k + 1) + 1)
      BY <1>1, <2>1
    <3>6. Len(b) = n - k
      <4>1. k \in Int /\ n \in Int /\ k <= n
        BY <1>1, <2>1
      <4>2. (k + 1 <= n => n - (k + 1) + 1 = n - k) /\ (~(k + 1 <= n) => n - k = 0)
        BY <4>1
      <4> QED
        BY <3>3, <4>2
    <3>7. \A i \in 1..(n - k) : b[i] = line[i + k]
      BY <3>4, <3>5
    <3> QED
      BY <3>2, <3>6, <3>7
  <2> HIDE DEF new
  <2>5. /\ new \in Seq(S) /\ Len(new) = n - 1
        /\ \A i \in 1..(n - 1) : new[i] = IF i < k THEN line[i] ELSE line[i + 1]
    <3>1. new = a \o b
      BY <2>2
    <3> HIDE DEF a, b
    <3>2. new \in Seq(S) /\ Len(new) = Len(a) + Len(b)
      BY <2>3, <2>4, <3>1, ConcatProperties
    <3>3. \A i \in 1..(Len(a) + Len(b)) : new[i] = IF i <= Len(a) THEN a[i] ELSE b[i - Len(a)]
      BY <2>3, <2>4, <3>1, ConcatProperties
    <3>4. Len(a) + Len(b) = n - 1
      BY <1>1, <2>1, <2>3, <2>4
    <3>5. ASSUME NEW i \in 1..(n - 1), i < k PROVE new[i] = line[i]
      <4>1. i \in 1..(k - 1) /\ i <= Len(a)
        BY <1>1, <2>1, <2>3, <3>5
      <4> QED
        BY <2>3, <3>3, <3>4, <4>1
    <3>6. ASSUME NEW i \in 1..(n - 1), ~(i < k) PROVE new[i] = line[i + 1]
      <4>1. i - (k - 1) \in 1..(n - k) /\ i - (k - 1) + k = i + 1 /\ ~(i <= k - 1)
        BY <1>1, <2>1, <3>6
      <4>2. new[i] = b[i - (k - 1)]
        BY <2>3, <3>3, <3>4, <4>1
      <4> QED
        BY <2>4, <4>1, <4>2
    <3> QED
      BY <3>2, <3>4, <3>5, <3>6
  <2> DEFINE at(i) == IF i < k THEN i ELSE i + 1
  <2>6. \A i \in 1..(n - 1) : at(i) \in 1..n /\ at(i) # k /\ new[i] = line[at(i)]
    BY <1>1, <2>1, <2>5, SMTT(30)
  <2>7. \A i, j \in 1..(n - 1) : at(i) = at(j) => i = j
    BY <1>1, <2>1
  <2>8. \A i \in 1..n : i # k => \E j \in 1..(n - 1) : at(j) = i
    <3> SUFFICES ASSUME NEW i \in 1..n, i # k PROVE \E j \in 1..(n - 1) : at(j) = i
      OBVIOUS
    <3>1. CASE i < k
      <4>1. i \in 1..(n - 1) /\ at(i) = i
        BY <1>1, <2>1, <3>1
      <4> QED
        BY <4>1
    <3>2. CASE i > k
      <4>1. i - 1 \in 1..(n - 1) /\ at(i - 1) = i
        BY <1>1, <2>1, <3>2
      <4> QED
        BY <4>1
    <3> QED
      BY <1>1, <2>1, <3>1, <3>2
  <2> HIDE DEF at, a, b
  <2>9. Once(new)
    BY <2>5, <2>6, <2>7 DEF Once
  <2>10. ASSUME NEW y \in In(new) PROVE y \in In(line) \ {x}
    BY <2>1, <2>5, <2>6, <2>10 DEF In, Once
  <2>11. ASSUME NEW y \in In(line), y # x PROVE y \in In(new)
    <3>1. PICK i \in 1..n : y = line[i]
      BY <2>11 DEF In
    <3>2. PICK j \in 1..(n - 1) : at(j) = i
      BY <2>1, <2>8, <2>11, <3>1
    <3> QED
      BY <2>5, <2>6, <3>1, <3>2 DEF In
  <2> QED
    BY <2>5, <2>9, <2>10, <2>11 DEF new
<1> QED
  BY <1>2, <1>3

(* What take, release and a waiter that gives up make of the slots.         *)
LEMMA TakenOK ==
    ASSUME SlotsOK(slots), NEW who \in Who, NEW asked,
           who \notin Lined(slots), who \notin slots.held
    PROVE  /\ SlotsOK(Taken(who, asked))
           /\ Lined(Taken(who, asked)) \subseteq Lined(slots) \cup {who}
           /\ Taken(who, asked).held \subseteq slots.held \cup {who}
<1> DEFINE new == Taken(who, asked)
<1> USE DEF Lined
<1>1. CASE slots.free > 0
  <2>1. new = [free |-> slots.free - 1, asked |-> slots.asked, auto |-> slots.auto,
               held |-> slots.held \cup {who}]
    BY <1>1 DEF Taken, SlotsOK
  <2>2. IsFiniteSet(new.held) /\ Cardinality(new.held) = Cardinality(slots.held) + 1
    BY <2>1, FS_AddElement DEF SlotsOK
  <2>3. Cardinality(slots.held) \in Nat /\ Slots \in Nat
    BY FS_CardinalityType, LimitAssumption DEF SlotsOK
  <2> HIDE DEF new
  <2>4. new.free \in Nat /\ new.free + Cardinality(new.held) = Slots
    BY <1>1, <2>1, <2>2, <2>3 DEF SlotsOK
  <2> QED
    BY <1>1, <2>1, <2>2, <2>4, EmptyLine DEF SlotsOK, new
<1>2. CASE ~(slots.free > 0) /\ asked
  <2>1. new = [free |-> slots.free, asked |-> Append(slots.asked, who), auto |-> slots.auto,
               held |-> slots.held]
    BY <1>2 DEF Taken, SlotsOK
  <2>2. /\ new.asked \in Seq(Who) /\ Once(new.asked)
        /\ In(new.asked) = In(slots.asked) \cup {who}
    BY <2>1, LongerLine DEF SlotsOK
  <2> HIDE DEF new
  <2>3. new.free = slots.free /\ new.auto = slots.auto /\ new.held = slots.held /\ ~(slots.free > 0)
    BY <1>2, <2>1
  <2>4. new \in [free : Nat, asked : Seq(Who), auto : Seq(Who), held : SUBSET Who]
    BY <2>1, <2>2 DEF SlotsOK
  <2> QED
    BY <2>2, <2>3, <2>4 DEF SlotsOK, new
<1>3. CASE ~(slots.free > 0) /\ ~asked
  <2>1. new = [free |-> slots.free, asked |-> slots.asked, auto |-> Append(slots.auto, who),
               held |-> slots.held]
    BY <1>3 DEF Taken, SlotsOK
  <2>2. /\ new.auto \in Seq(Who) /\ Once(new.auto)
        /\ In(new.auto) = In(slots.auto) \cup {who}
    BY <2>1, LongerLine DEF SlotsOK
  <2> HIDE DEF new
  <2> QED
    BY <1>3, <2>1, <2>2 DEF SlotsOK, new
<1> QED
  BY <1>1, <1>2, <1>3

LEMMA ReleasedOK ==
    ASSUME NEW s, SlotsOK(s), NEW who
    PROVE  /\ SlotsOK(Released(s, who))
           /\ Lined(Released(s, who)) \subseteq Lined(s)
           /\ Released(s, who).held \subseteq (s.held \ {who}) \cup (Lined(s) \ {who})
           /\ who \notin s.held => Released(s, who) = s
<1> DEFINE new == Released(s, who)
           rest == s.held \ {who}
<1> USE DEF Lined
<1>1. CASE who \notin s.held
  BY <1>1 DEF Released
<1>2. ASSUME who \in s.held PROVE IsFiniteSet(rest) /\ Cardinality(rest) = Cardinality(s.held) - 1
  BY <1>2, FS_RemoveElement DEF SlotsOK
<1>3. Cardinality(s.held) \in Nat /\ Slots \in Nat
  BY FS_CardinalityType, LimitAssumption DEF SlotsOK
<1>4. ASSUME NEW h, h \notin s.held, who \in s.held
      PROVE  IsFiniteSet(rest \cup {h}) /\ Cardinality(rest \cup {h}) = Cardinality(s.held)
  <2>1. Cardinality(rest \cup {h}) = Cardinality(s.held) - 1 + 1 /\ IsFiniteSet(rest \cup {h})
    BY <1>2, <1>4, FS_AddElement
  <2> QED
    BY <1>3, <2>1
<1>5. CASE who \in s.held /\ s.asked # << >>
  <2> DEFINE h == Head(s.asked)
  <2>1. /\ h \in In(s.asked) /\ Tail(s.asked) \in Seq(Who) /\ Once(Tail(s.asked))
        /\ In(Tail(s.asked)) = In(s.asked) \ {h}
    BY <1>5, ShorterLine DEF SlotsOK
  <2>2. new = [free |-> s.free, asked |-> Tail(s.asked), auto |-> s.auto, held |-> rest \cup {h}]
    BY <1>5 DEF Released, SlotsOK
  <2>3. h \notin s.held /\ h \in Who /\ ~(s.free > 0)
    BY <1>5, <2>1 DEF SlotsOK
  <2> HIDE DEF new, h
  <2>4. IsFiniteSet(new.held) /\ Cardinality(new.held) = Cardinality(s.held)
    BY <1>4, <1>5, <2>2, <2>3
  <2>5. SlotsOK(new)
    BY <1>5, <2>1, <2>2, <2>3, <2>4 DEF SlotsOK
  <2> QED
    BY <1>5, <2>1, <2>2, <2>3, <2>5 DEF new
<1>6. CASE who \in s.held /\ s.asked = << >> /\ s.auto # << >>
  <2> DEFINE h == Head(s.auto)
  <2>1. /\ h \in In(s.auto) /\ Tail(s.auto) \in Seq(Who) /\ Once(Tail(s.auto))
        /\ In(Tail(s.auto)) = In(s.auto) \ {h}
    BY <1>6, ShorterLine DEF SlotsOK
  <2>2. new = [free |-> s.free, asked |-> s.asked, auto |-> Tail(s.auto), held |-> rest \cup {h}]
    BY <1>6 DEF Released, SlotsOK
  <2>3. h \notin s.held /\ h \in Who /\ ~(s.free > 0)
    BY <1>6, <2>1 DEF SlotsOK
  <2> HIDE DEF new, h
  <2>4. IsFiniteSet(new.held) /\ Cardinality(new.held) = Cardinality(s.held)
    BY <1>4, <1>6, <2>2, <2>3
  <2>5. SlotsOK(new)
    BY <1>6, <2>1, <2>2, <2>3, <2>4 DEF SlotsOK
  <2> QED
    BY <1>6, <2>1, <2>2, <2>3, <2>5 DEF new
<1>7. CASE who \in s.held /\ s.asked = << >> /\ s.auto = << >>
  <2>1. new = [free |-> s.free + 1, asked |-> s.asked, auto |-> s.auto, held |-> rest]
    BY <1>7 DEF Released, SlotsOK
  <2> HIDE DEF new, rest
  <2>2. new.free \in Nat /\ new.free + Cardinality(new.held) = Slots /\ IsFiniteSet(new.held)
    BY <1>2, <1>3, <1>7, <2>1 DEF SlotsOK
  <2>3. SlotsOK(new)
    BY <1>7, <2>1, <2>2 DEF SlotsOK, rest
  <2> QED
    BY <1>7, <2>1, <2>3 DEF new, rest
<1> QED
  BY <1>1, <1>5, <1>6, <1>7

LEMMA GivenUpOK ==
    ASSUME SlotsOK(slots), NEW who
    PROVE  /\ SlotsOK(GivenUp(who))
           /\ Lined(GivenUp(who)) \subseteq Lined(slots) \ {who}
           /\ GivenUp(who).held \subseteq (slots.held \cup Lined(slots)) \ {who}
<1> DEFINE s == [free |-> slots.free, asked |-> Without(slots.asked, who),
                 auto |-> Without(slots.auto, who), held |-> slots.held]
<1>1. GivenUp(who) = Released(s, who)
  <2>1. ASSUME NEW a, NEW b
        PROVE  [slots EXCEPT !.asked = a, !.auto = b]
                 = [free |-> slots.free, asked |-> a, auto |-> b, held |-> slots.held]
    <3> DEFINE new == [slots EXCEPT !.asked = a, !.auto = b]
    <3>1. /\ DOMAIN slots = {"free", "asked", "auto", "held"}
          /\ slots = [x \in {"free", "asked", "auto", "held"} |-> slots[x]]
      BY DEF SlotsOK
    <3>2. /\ new = [x \in {"free", "asked", "auto", "held"} |-> new[x]]
          /\ new.free = slots.free /\ new.asked = a /\ new.auto = b /\ new.held = slots.held
      BY <3>1
    <3> HIDE DEF new
    <3>3. new = [free |-> slots.free, asked |-> a, auto |-> b, held |-> slots.held]
      BY <3>2
    <3> QED
      BY <3>3 DEF new
  <2> QED
    BY <2>1, Zenon DEF GivenUp
<1>2. /\ s.asked \in Seq(Who) /\ Once(s.asked) /\ In(s.asked) = In(slots.asked) \ {who}
      /\ s.auto \in Seq(Who) /\ Once(s.auto) /\ In(s.auto) = In(slots.auto) \ {who}
  BY WithoutLine DEF SlotsOK
<1>3. slots.free > 0 => s.asked = << >> /\ s.auto = << >>
  BY DEF SlotsOK, Without
<1>4. s.free = slots.free /\ s.held = slots.held
  OBVIOUS
<1>5. s \in [free : Nat, asked : Seq(Who), auto : Seq(Who), held : SUBSET Who]
  BY <1>2 DEF SlotsOK
<1> HIDE DEF s
<1>6. SlotsOK(s) /\ Lined(s) = Lined(slots) \ {who}
  BY <1>2, <1>3, <1>4, <1>5 DEF SlotsOK, Lined
<1> QED
  BY <1>1, <1>4, <1>6, ReleasedOK

-----------------------------------------------------------------------------
(* The functions and records the steps update. *)

CallShape   == DOMAIN call = Requests /\ \A r \in Requests : "pc" \in DOMAIN call[r]
StreamShape ==
    /\ DOMAIN stream = Streams
    /\ \A s \in Streams : "pc" \in DOMAIN stream[s] /\ "ended" \in DOMAIN stream[s]
FinisherShape ==
    /\ DOMAIN finisher = Streams
    /\ \A s \in Streams : /\ "pc" \in DOMAIN finisher[s] /\ "saw" \in DOMAIN finisher[s]
                          /\ "victim" \in DOMAIN finisher[s]
FetchShape  == DOMAIN fetch = Fetches /\ \A f \in Fetches : "pc" \in DOMAIN fetch[f]
CancelShape == "pc" \in DOMAIN cancel /\ "victim" \in DOMAIN cancel
Shape == CallShape /\ StreamShape /\ FinisherShape /\ FetchShape /\ CancelShape

LEMMA InitShape == Init => Shape
BY DEF Init, Shape, CallShape, StreamShape, FinisherShape, FetchShape, CancelShape

LEMMA ShapeStep == Shape /\ [Next]_vars => Shape'
<1> SUFFICES ASSUME Shape, [Next]_vars PROVE Shape'
  OBVIOUS
<1> USE DEF Shape
<1>1. ASSUME NEW r \in Requests, RequestStep(r) \/ StreamGivesUp(r) \/ StartFails(r) \/ PlayerLeaves(r)
      PROVE  Shape'
  <2>1. CallShape'
    BY <1>1 DEF RequestStep, StreamTarget, StreamLook, StreamGivesUp, Join, StartStream,
                StartFails, Serve, PlayerSeeks, PlayerReads, PlayerAtEnd, PlayerCut,
                PlayerLeaves, Release, CallShape
  <2>2. StreamShape'
    BY <1>1, ZenonT(40) DEF RequestStep, StreamTarget, StreamLook, StreamGivesUp, Join, StartStream,
                StartFails, Serve, PlayerSeeks, PlayerReads, PlayerAtEnd, PlayerCut,
                PlayerLeaves, Release, Started, Close, Finish, StreamShape
  <2>3. FinisherShape'
    BY <1>1 DEF RequestStep, StreamTarget, StreamLook, StreamGivesUp, Join, StartStream,
                StartFails, Serve, PlayerSeeks, PlayerReads, PlayerAtEnd, PlayerCut,
                PlayerLeaves, Release, Close, Finish, FinisherShape
  <2>4. FetchShape'
    BY <1>1 DEF RequestStep, StreamTarget, StreamLook, StreamGivesUp, Join, StartStream,
                StartFails, Serve, PlayerSeeks, PlayerReads, PlayerAtEnd, PlayerCut,
                PlayerLeaves, Release, FetchShape
  <2>5. CancelShape'
    BY <1>1 DEF RequestStep, StreamTarget, StreamLook, StreamGivesUp, Join, StartStream,
                StartFails, Serve, PlayerSeeks, PlayerReads, PlayerAtEnd, PlayerCut,
                PlayerLeaves, Release, user, CancelShape
  <2> QED
    BY <2>1, <2>2, <2>3, <2>4, <2>5
<1>2. ASSUME NEW s \in Streams, LoopStep(s) \/ RangeFails(s) \/ RangeIgnored(s) PROVE Shape'
  <2>1. CallShape'
    BY <1>2 DEF LoopStep, NextSpan, Stopped, Verify, RangeFails, RangeIgnored, LoopEnds, Land,
                Report, CallShape
  <2>2. StreamShape'
    BY <1>2 DEF LoopStep, NextSpan, Stopped, Verify, RangeFails, RangeIgnored, LoopEnds, Land,
                Report, Finish, StreamShape
  <2>3. FinisherShape'
    BY <1>2 DEF LoopStep, NextSpan, Stopped, Verify, RangeFails, RangeIgnored, LoopEnds, Land,
                Report, Finish, FinisherShape
  <2>4. FetchShape'
    BY <1>2 DEF LoopStep, NextSpan, Stopped, Verify, RangeFails, RangeIgnored, LoopEnds, Land,
                Report, FetchShape
  <2>5. CancelShape'
    BY <1>2 DEF LoopStep, NextSpan, Stopped, Verify, RangeFails, RangeIgnored, LoopEnds, Land,
                Report, user, CancelShape
  <2> QED
    BY <2>1, <2>2, <2>3, <2>4, <2>5
<1>3. ASSUME NEW s \in Streams, FinishStep(s) PROVE Shape'
  <2>1. CallShape'
    BY <1>3 DEF FinishStep, FinishLook, FinishRename, FinishIndex, FinishComplete, FinishLog,
                RecoverDrop, RecoverClose, RecoverAsked, RecoverTell, CallShape
  <2>2. StreamShape'
    BY <1>3 DEF FinishStep, FinishLook, FinishRename, FinishIndex, FinishComplete, FinishLog,
                RecoverDrop, RecoverClose, RecoverAsked, RecoverTell, CloseAndStep, StreamShape
  <2>3. FinisherShape'
    <3>1. CASE FinishComplete(s)
      BY <3>1 DEF FinishComplete, CloseAndStep, Step, FinisherShape
    <3>2. CASE RecoverClose(s)
      <4> DEFINE f == [finisher[s] EXCEPT !.pc = "asked", !.victim = None]
      <4>1. "pc" \in DOMAIN f /\ "saw" \in DOMAIN f /\ "victim" \in DOMAIN f
        BY DEF FinisherShape
      <4>2. CloseAndStep(finisher[s].victim, s, f) \/ Step(s, f)
        BY <3>2 DEF RecoverClose
      <4> HIDE DEF f
      <4> QED
        BY <4>1, <4>2 DEF CloseAndStep, Step, FinisherShape
    <3>3. CASE RecoverAsked(s)
      BY <3>3 DEF RecoverAsked, Step, FinisherShape
    <3>6. CASE FinishRename(s)
      BY <3>6 DEF FinishRename, Step, FinisherShape
    <3>5. CASE FinishLook(s)
      <4>1. CASE current = None \/ stream[s].ended = "cancelled"
        BY <3>5, <4>1 DEF FinishLook, Step, FinisherShape
      <4>2. CASE ~(current = None \/ stream[s].ended = "cancelled")
        BY <3>5, <4>2 DEF FinishLook, Step, FinisherShape
      <4> QED
        BY <4>1, <4>2
    <3>4. CASE FinishIndex(s) \/ FinishLog(s) \/ RecoverDrop(s) \/ RecoverTell(s)
      BY <3>4 DEF FinishIndex, FinishLog, RecoverDrop, RecoverTell, Step, FinisherShape
    <3> QED
      BY <1>3, <3>1, <3>2, <3>3, <3>4, <3>5, <3>6 DEF FinishStep
  <2>4. FetchShape'
    BY <1>3 DEF FinishStep, FinishLook, FinishRename, FinishIndex, FinishComplete, FinishLog,
                RecoverDrop, RecoverClose, RecoverAsked, RecoverTell, FetchShape
  <2>5. CancelShape'
    BY <1>3 DEF FinishStep, FinishLook, FinishRename, FinishIndex, FinishComplete, FinishLog,
                RecoverDrop, RecoverClose, RecoverAsked, RecoverTell, user, CancelShape
  <2> QED
    BY <2>1, <2>2, <2>3, <2>4, <2>5
<1>4. ASSUME NEW f \in Fetches, FetchStep(f) \/ FetchFails(f) \/ Load(f) PROVE Shape'
  <2>1. CallShape'
    BY <1>4 DEF FetchStep, FetchStart, FetchJoined, FetchTake, FetchAdmitted, FetchGivesUp,
                FetchLands, FetchFails, FetchLogs, FetchLeaves, Load, CallShape
  <2>2. StreamShape'
    BY <1>4 DEF FetchStep, FetchStart, FetchJoined, FetchTake, FetchAdmitted, FetchGivesUp,
                FetchLands, FetchFails, FetchLogs, FetchLeaves, Load, StreamShape
  <2>3. FinisherShape'
    BY <1>4 DEF FetchStep, FetchStart, FetchJoined, FetchTake, FetchAdmitted, FetchGivesUp,
                FetchLands, FetchFails, FetchLogs, FetchLeaves, Load, FinisherShape
  <2>4. FetchShape'
    BY <1>4 DEF FetchStep, FetchStart, FetchJoined, FetchTake, FetchAdmitted, FetchGivesUp,
                FetchLands, FetchFails, FetchLogs, FetchLeaves, Load, Calls, FetchShape
  <2>5. CancelShape'
    BY <1>4 DEF FetchStep, FetchStart, FetchJoined, FetchTake, FetchAdmitted, FetchGivesUp,
                FetchLands, FetchFails, FetchLogs, FetchLeaves, Load, user, CancelShape
  <2> QED
    BY <2>1, <2>2, <2>3, <2>4, <2>5
<1>5. CASE CancelLook \/ CancelStep \/ UNCHANGED vars
  <2>1. CallShape'
    BY <1>5 DEF CancelLook, CancelStep, CancelDrop, CancelClose, CancelEnd, vars, CallShape
  <2>2. StreamShape'
    BY <1>5 DEF CancelLook, CancelStep, CancelDrop, CancelClose, CancelEnd, vars, Close,
                Finish, StreamShape
  <2>3. FinisherShape'
    BY <1>5 DEF CancelLook, CancelStep, CancelDrop, CancelClose, CancelEnd, vars, Close,
                Finish, FinisherShape
  <2>4. FetchShape'
    BY <1>5 DEF CancelLook, CancelStep, CancelDrop, CancelClose, CancelEnd, vars, FetchShape
  <2>5. CancelShape'
    BY <1>5 DEF CancelLook, CancelStep, CancelDrop, CancelClose, CancelEnd, vars, CancelShape
  <2> QED
    BY <2>1, <2>2, <2>3, <2>4, <2>5
<1>6. CASE Crash
  BY <1>6 DEF Crash, CallShape, StreamShape, FinisherShape, FetchShape, CancelShape
<1> QED
  BY <1>1, <1>2, <1>3, <1>4, <1>5, <1>6 DEF Next, Fetches

-----------------------------------------------------------------------------
(* Only streams that began are looked up, closed or told of an end.         *)

Known == {None} \cup {s \in Streams : stream[s].pc # "unborn"}
Born ==
    /\ current \in Known /\ cancel.victim \in Known
    /\ \A s \in Streams : finisher[s].saw \in Known /\ finisher[s].victim \in Known
    /\ \A s \in Streams \ Known : stream[s].ended = "no"

LEMMA InitBorn == Init => Born
BY DEF Init, Born, Known

(* What a step does to the streams: nothing that matters here, or one ends. *)
SameStreams ==
    \A t \in Streams : /\ stream'[t].ended = stream[t].ended
                       /\ stream'[t].pc = "unborn" <=> stream[t].pc = "unborn"
Ends(v) ==
    /\ \A t \in Streams : /\ IF t = v THEN stream'[t].ended # "no" ELSE stream'[t].ended = stream[t].ended
                          /\ stream'[t].pc = "unborn" <=> stream[t].pc = "unborn"
    /\ slots' = IF stream[v].ended = "no" THEN Released(slots, v) ELSE slots

LEMMA CloseEnds ==
    ASSUME Shape, NEW v, Close(v)
    PROVE  Ends(v)
BY DEF Shape, StreamShape, Close, Finish, Ends

LEMMA CloseAndStepEnds ==
    ASSUME Shape, NEW v, NEW s, NEW f, CloseAndStep(v, s, f)
    PROVE  Ends(v)
BY DEF Shape, StreamShape, CloseAndStep, Ends

LEMMA LoopEndsIt ==
    ASSUME Shape, NEW s \in Streams, NEW how, how # "no", stream[s].pc # "unborn", LoopEnds(s, how)
    PROVE  Ends(s)
BY DEF Shape, StreamShape, LoopEnds, Finish, Ends

Moves == (SameStreams /\ slots' = slots) \/ \E v \in Known : Ends(v)

LEMMA ReleaseMoves ==
    ASSUME Shape, Born, NEW r \in Requests, Release(r)
    PROVE  Moves
<1>1. (stream' = stream /\ slots' = slots) \/ (call[r].of = current /\ Close(call[r].of))
  BY DEF Release
<1> QED
  BY <1>1, CloseEnds DEF Born, SameStreams, Moves

LEMMA LoopMoves ==
    ASSUME Shape, Born, NEW s \in Streams, LoopStep(s) \/ RangeFails(s) \/ RangeIgnored(s)
    PROVE  Moves
<1> USE DEF Shape, StreamShape
<1>1. CASE NextSpan(s)
  BY <1>1 DEF NextSpan, SameStreams, Moves
<1>2. CASE Land(s)
  BY <1>2 DEF Land, SameStreams, Moves
<1>3. CASE Report(s)
  BY <1>3 DEF Report, SameStreams, Moves
<1>4. CASE Stopped(s) \/ Verify(s) \/ RangeFails(s) \/ RangeIgnored(s)
  <2>1. stream[s].pc # "unborn" /\ \E how : how # "no" /\ LoopEnds(s, how)
    BY <1>4 DEF Stopped, Verify, RangeFails, RangeIgnored
  <2> QED
    BY <2>1, LoopEndsIt DEF Known, Moves
<1> QED
  BY <1>1, <1>2, <1>3, <1>4 DEF LoopStep

LEMMA FinishMoves ==
    ASSUME Shape, Born, NEW s \in Streams, FinishStep(s)
    PROVE  Moves
<1>1. \/ stream' = stream /\ slots' = slots
      \/ \E f : CloseAndStep(finisher[s].saw, s, f) \/ CloseAndStep(finisher[s].victim, s, f)
  BY DEF FinishStep, FinishLook, FinishRename, FinishIndex, FinishComplete, FinishLog,
         RecoverDrop, RecoverClose, RecoverAsked, RecoverTell
<1> QED
  BY <1>1, CloseAndStepEnds DEF Born, SameStreams, Moves

LEMMA CancelMoves ==
    ASSUME Shape, Born, CancelLook \/ CancelStep \/ UNCHANGED vars
    PROVE  Moves
<1>1. (stream' = stream /\ slots' = slots) \/ Close(cancel.victim)
  BY DEF CancelLook, CancelStep, CancelDrop, CancelClose, CancelEnd, vars
<1> QED
  BY <1>1, CloseEnds DEF Born, SameStreams, Moves

LEMMA StreamStep ==
    ASSUME Shape, Born, [Next]_vars
    PROVE  \/ SameStreams
           \/ \E v \in Known : Ends(v)
           \/ \E r \in Requests : StartStream(r)
           \/ Crash
<1>0. ASSUME stream' = stream PROVE SameStreams
  BY <1>0 DEF SameStreams
<1>1. ASSUME NEW r \in Requests, RequestStep(r) \/ StreamGivesUp(r) \/ StartFails(r) \/ PlayerLeaves(r)
      PROVE  SameStreams \/ Moves \/ StartStream(r)
  <2>1. CASE PlayerSeeks(r)
    BY <2>1 DEF PlayerSeeks, SameStreams, Shape, StreamShape
  <2> QED
    BY <1>0, <1>1, <2>1, ReleaseMoves
       DEF RequestStep, StreamTarget, StreamLook, StreamGivesUp, Join, StartFails, Serve,
           PlayerReads, PlayerAtEnd, PlayerCut, PlayerLeaves
<1>2. ASSUME NEW f \in Fetches, FetchStep(f) \/ FetchFails(f) \/ Load(f) PROVE SameStreams
  BY <1>0, <1>2 DEF FetchStep, FetchStart, FetchJoined, FetchTake, FetchAdmitted, FetchGivesUp,
                    FetchLands, FetchFails, FetchLogs, FetchLeaves, Load
<1> QED
  BY <1>1, <1>2, LoopMoves, FinishMoves, CancelMoves DEF Next, Fetches, Moves

(* Streams begin and stay begun. *)
LEMMA KnownStays ==
    ASSUME Shape, Born, [Next]_vars
    PROVE  /\ Known \subseteq Known'
           /\ \A t \in Streams \ Known' : stream'[t].ended = "no"
<1>1. CASE SameStreams
  BY <1>1 DEF SameStreams, Known, Born
<1>2. ASSUME NEW v \in Known, Ends(v)
      PROVE  Known \subseteq Known' /\ \A t \in Streams \ Known' : stream'[t].ended = "no"
  BY <1>2 DEF Ends, Known, Born
<1>3. ASSUME NEW r \in Requests, StartStream(r)
      PROVE  Known \subseteq Known' /\ \A t \in Streams \ Known' : stream'[t].ended = "no"
  BY <1>3 DEF StartStream, Started, Known, Born, Shape, StreamShape
<1>4. CASE Crash
  BY <1>4 DEF Crash, Known, Born, Shape, StreamShape
<1> QED
  BY <1>1, <1>2, <1>3, <1>4, StreamStep

LEMMA CurrentStep ==
    ASSUME Shape, Born, [Next]_vars
    PROVE  current' \in Known'
<1>0. current' \in {None, current} => current' \in Known'
  BY KnownStays DEF Born, Known
<1>1. ASSUME NEW r \in Requests, RequestStep(r) \/ StreamGivesUp(r) \/ StartFails(r) \/ PlayerLeaves(r)
      PROVE  current' \in Known'
  <2>1. CASE StartStream(r)
    BY <2>1 DEF StartStream, Started, Known, Shape, StreamShape
  <2> QED
    BY <1>0, <1>1, <2>1
       DEF RequestStep, StreamTarget, StreamLook, StreamGivesUp, Join, StartFails, Serve, PlayerSeeks,
           PlayerReads, PlayerAtEnd, PlayerCut, PlayerLeaves, Release
<1>2. ASSUME NEW s \in Streams, LoopStep(s) \/ RangeFails(s) \/ RangeIgnored(s) PROVE current' \in Known'
  BY <1>0, <1>2 DEF LoopStep, NextSpan, Stopped, Verify, RangeFails, RangeIgnored, LoopEnds, Land, Report
<1>3. ASSUME NEW s \in Streams, FinishStep(s) PROVE current' \in Known'
  BY <1>0, <1>3 DEF FinishStep, FinishLook, FinishRename, FinishIndex, FinishComplete, FinishLog,
                    RecoverDrop, RecoverClose, RecoverAsked, RecoverTell
<1>4. ASSUME NEW f \in Fetches, FetchStep(f) \/ FetchFails(f) \/ Load(f) PROVE current' \in Known'
  BY <1>0, <1>4 DEF FetchStep, FetchStart, FetchJoined, FetchTake, FetchAdmitted, FetchGivesUp,
                    FetchLands, FetchFails, FetchLogs, FetchLeaves, Load
<1>5. CASE CancelLook \/ CancelStep \/ Crash \/ UNCHANGED vars
  BY <1>0, <1>5 DEF CancelLook, CancelStep, CancelDrop, CancelClose, CancelEnd, Crash, vars
<1> QED
  BY <1>1, <1>2, <1>3, <1>4, <1>5 DEF Next, Fetches

(* What a step does to finishStream's goroutine of stream t: it takes the   *)
(* entries the map has, and begins only when its stream ends.               *)
Finishes(t) ==
    /\ finisher'[t].saw \in {None, current, finisher[t].saw}
    /\ finisher'[t].victim \in {None, current, finisher[t].victim}
    /\ finisher'[t].pc \notin {"none", "fetching"} =>
         \/ finisher[t].pc \notin {"none", "fetching"}
         \/ stream[t].ended = "no" /\ stream'[t].ended # "no"
    /\ finisher'[t].pc = "fetching" => finisher[t].pc \in {"asked", "fetching"}

LEMMA CloseFinishes ==
    ASSUME Shape, NEW t \in Streams, NEW v, Close(v)
    PROVE  Finishes(t)
BY DEF Shape, StreamShape, FinisherShape, Close, Finish, Finishes

LEMMA CloseAndStepFinishes ==
    ASSUME Shape, NEW t \in Streams, NEW v, NEW s \in Streams, NEW f, CloseAndStep(v, s, f),
           "pc" \in DOMAIN f /\ "saw" \in DOMAIN f /\ "victim" \in DOMAIN f,
           f.saw = finisher[s].saw, f.victim \in {None, finisher[s].victim},
           finisher[s].pc \notin {"none", "fetching"}, f.pc # "fetching"
    PROVE  Finishes(t)
BY DEF Shape, StreamShape, FinisherShape, CloseAndStep, Finishes

LEMMA LoopEndFinishes ==
    ASSUME Shape, NEW t \in Streams, NEW s \in Streams, NEW how, how # "no", LoopEnds(s, how)
    PROVE  Finishes(t)
BY DEF Shape, StreamShape, FinisherShape, LoopEnds, Finish, Finishes

LEMMA StepFinishes ==
    ASSUME Shape, NEW t \in Streams, NEW s \in Streams, NEW f, Step(s, f),
           f.saw \in {None, current, finisher[s].saw}, f.victim \in {None, current, finisher[s].victim},
           f.pc \notin {"none", "fetching"} => finisher[s].pc \notin {"none", "fetching"},
           f.pc = "fetching" => finisher[s].pc \in {"asked", "fetching"}
    PROVE  Finishes(t)
BY DEF Shape, FinisherShape, Step, Finishes

LEMMA FinisherStep ==
    ASSUME Shape, [Next]_vars, NEW t \in Streams
    PROVE  Finishes(t)
<1>0. ASSUME finisher' = finisher PROVE Finishes(t)
  BY <1>0 DEF Finishes
<1>1. ASSUME NEW r \in Requests, RequestStep(r) \/ StreamGivesUp(r) \/ StartFails(r) \/ PlayerLeaves(r)
      PROVE  Finishes(t)
  <2>1. finisher' = finisher \/ \E v : Close(v)
    BY <1>1 DEF RequestStep, StreamTarget, StreamLook, StreamGivesUp, Join, StartStream, StartFails, Serve,
                PlayerSeeks, PlayerReads, PlayerAtEnd, PlayerCut, PlayerLeaves, Release
  <2> QED
    BY <1>0, <2>1, CloseFinishes
<1>2. ASSUME NEW s \in Streams, LoopStep(s) \/ RangeFails(s) \/ RangeIgnored(s) PROVE Finishes(t)
  <2>1. finisher' = finisher \/ \E how : how # "no" /\ LoopEnds(s, how)
    BY <1>2 DEF LoopStep, NextSpan, Stopped, Verify, RangeFails, RangeIgnored, Land, Report
  <2> QED
    BY <1>0, <2>1, LoopEndFinishes
<1>3. ASSUME NEW s \in Streams, FinishStep(s) PROVE Finishes(t)
  <2> USE DEF Shape, FinisherShape
  <2>1. CASE FinishLook(s)
    <3>1. CASE current = None \/ stream[s].ended = "cancelled"
      BY <2>1, <3>1, StepFinishes DEF FinishLook
    <3>2. CASE ~(current = None \/ stream[s].ended = "cancelled")
      <4> DEFINE f == [finisher[s] EXCEPT !.saw = current, !.discard = stream[s].ended = "ranges",
                         !.pc = IF stream[s].ended = "ok" THEN "rename" ELSE "drop"]
      <4>1. Step(s, f) /\ finisher[s].pc = "begin"
        BY <2>1, <3>2 DEF FinishLook
      <4>2. f.saw = current /\ f.victim = finisher[s].victim /\ f.pc \in {"rename", "drop"}
        OBVIOUS
      <4> HIDE DEF f
      <4> QED
        BY <4>1, <4>2, StepFinishes
    <3> QED
      BY <3>1, <3>2
  <2>2. CASE FinishRename(s)
    <3>1. CASE disk.part # None
      BY <2>2, <3>1, StepFinishes DEF FinishRename
    <3>2. CASE disk.part = None
      BY <2>2, <3>2, StepFinishes DEF FinishRename
    <3> QED
      BY <3>1, <3>2
  <2>3. CASE FinishIndex(s)
    BY <2>3, StepFinishes DEF FinishIndex
  <2>4. CASE FinishLog(s)
    BY <2>4, StepFinishes DEF FinishLog
  <2>5. CASE RecoverDrop(s)
    BY <2>5, StepFinishes DEF RecoverDrop
  <2>6. CASE RecoverAsked(s)
    BY <2>6, StepFinishes DEF RecoverAsked
  <2>7. CASE RecoverTell(s)
    BY <2>7, StepFinishes DEF RecoverTell
  <2>8. CASE FinishComplete(s)
    <3> DEFINE f == [finisher[s] EXCEPT !.pc = "log"]
    <3>1. (CloseAndStep(finisher[s].saw, s, f) \/ Step(s, f)) /\ finisher[s].pc = "complete"
      BY <2>8 DEF FinishComplete
    <3>2. /\ f.saw = finisher[s].saw /\ f.victim = finisher[s].victim /\ f.pc = "log"
          /\ "pc" \in DOMAIN f /\ "saw" \in DOMAIN f /\ "victim" \in DOMAIN f
      OBVIOUS
    <3> HIDE DEF f
    <3> QED
      BY <3>1, <3>2, StepFinishes, CloseAndStepFinishes
  <2>9. CASE RecoverClose(s)
    <3> DEFINE f == [finisher[s] EXCEPT !.pc = "asked", !.victim = None]
    <3>1. (CloseAndStep(finisher[s].victim, s, f) \/ Step(s, f)) /\ finisher[s].pc = "close"
      BY <2>9 DEF RecoverClose
    <3>2. /\ f.saw = finisher[s].saw /\ f.victim = None /\ f.pc = "asked"
          /\ "pc" \in DOMAIN f /\ "saw" \in DOMAIN f /\ "victim" \in DOMAIN f
      OBVIOUS
    <3> HIDE DEF f
    <3> QED
      BY <3>1, <3>2, StepFinishes, CloseAndStepFinishes
  <2> QED
    BY <1>3, <2>1, <2>2, <2>3, <2>4, <2>5, <2>6, <2>7, <2>8, <2>9 DEF FinishStep
<1>4. ASSUME NEW f \in Fetches, FetchStep(f) \/ FetchFails(f) \/ Load(f) PROVE Finishes(t)
  BY <1>0, <1>4 DEF FetchStep, FetchStart, FetchJoined, FetchTake, FetchAdmitted, FetchGivesUp,
                    FetchLands, FetchFails, FetchLogs, FetchLeaves, Load
<1>5. CASE CancelLook \/ CancelStep \/ UNCHANGED vars
  <2>1. finisher' = finisher \/ \E v : Close(v)
    BY <1>5 DEF CancelLook, CancelStep, CancelDrop, CancelClose, CancelEnd, vars
  <2> QED
    BY <1>0, <2>1, CloseFinishes
<1>6. CASE Crash
  BY <1>6 DEF Crash, Finishes, Shape, FinisherShape
<1> QED
  BY <1>1, <1>2, <1>3, <1>4, <1>5, <1>6 DEF Next, Fetches

LEMMA BornStep == Shape /\ Born /\ [Next]_vars => Born'
<1> SUFFICES ASSUME Shape, Born, [Next]_vars PROVE Born'
  OBVIOUS
<1>1. cancel'.victim \in {None, current, cancel.victim}
  <2>1. CASE CancelLook \/ CancelStep \/ Crash
    BY <2>1 DEF CancelLook, CancelStep, CancelDrop, CancelClose, CancelEnd, Crash, Shape, CancelShape
  <2>2. CASE cancel' = cancel
    BY <2>2
  <2>3. CASE \E r \in Requests : RequestStep(r) \/ StreamGivesUp(r) \/ StartFails(r) \/ PlayerLeaves(r)
    BY <2>3, <2>2, ZenonT(40)
       DEF RequestStep, StreamTarget, StreamLook, StreamGivesUp, Join, StartStream, StartFails, Serve,
           PlayerSeeks, PlayerReads, PlayerAtEnd, PlayerCut, PlayerLeaves, Release, user
  <2>4. CASE \E s \in Streams : LoopStep(s) \/ RangeFails(s) \/ RangeIgnored(s)
    BY <2>4, <2>2
       DEF LoopStep, NextSpan, Stopped, Verify, RangeFails, RangeIgnored, Land, Report, user
  <2>5. CASE \E s \in Streams : FinishStep(s)
    BY <2>5, <2>2
       DEF FinishStep, FinishLook, FinishRename, FinishIndex, FinishComplete, FinishLog, RecoverDrop,
           RecoverClose, RecoverAsked, RecoverTell, user
  <2>6. CASE \E f \in Fetches : FetchStep(f) \/ FetchFails(f) \/ Load(f)
    BY <2>6, <2>2
       DEF FetchStep, FetchStart, FetchJoined, FetchTake, FetchAdmitted, FetchGivesUp, FetchLands,
           FetchFails, FetchLogs, FetchLeaves, Load, user
  <2> QED
    BY <2>1, <2>2, <2>3, <2>4, <2>5, <2>6 DEF Next, Fetches, vars
<1>2. \A t \in Streams : /\ finisher'[t].saw \in {None, current, finisher[t].saw}
                         /\ finisher'[t].victim \in {None, current, finisher[t].victim}
  BY FinisherStep DEF Finishes
<1>3. None \in Known
  BY DEF Known
<1> QED
  BY <1>1, <1>2, <1>3, KnownStays, CurrentStep DEF Born

-----------------------------------------------------------------------------
(* The download that replaces a stream is not called before its stream      *)
(* ended, and called once.                                                  *)

Fresh ==
    \A s \in Streams :
      /\ stream[s].ended = "no" => finisher[s].pc = "none"
      /\ stream[s].ended = "no" \/ finisher[s].pc \notin {"none", "fetching"}
           => fetch[Instead(s)].pc = "idle"

(* Requests, streams and fetches are told apart. *)
LEMMA Kinds ==
    /\ Requests \cap Streams = {} /\ Requests \cap Fetches = {} /\ Streams \cap Fetches = {}
    /\ None \notin Who
    /\ \A s \in Streams : Instead(s) \in Fetches /\ Instead(s) \notin Loaders
    /\ \A s, t \in Streams : Instead(s) = Instead(t) => s = t
BY CallAssumption, LimitAssumption DEF Streams, Fetches, Instead, None, Who

LEMMA InitFresh == Init => Fresh
BY Kinds DEF Init, Fresh

(* An idle fetch stays idle, but for a load and the one recover calls.      *)
LEMMA IdleStays ==
    ASSUME Shape, [Next]_vars, NEW t \in Streams, fetch[Instead(t)].pc = "idle"
    PROVE  fetch'[Instead(t)].pc = "idle" \/ (RecoverAsked(t) /\ finisher'[t].pc = "fetching")
<1> USE DEF Shape, FetchShape
<1>0. CASE fetch' = fetch
  BY <1>0
<1>1. CASE \E r \in Requests : RequestStep(r) \/ StreamGivesUp(r) \/ StartFails(r) \/ PlayerLeaves(r)
  BY <1>0, <1>1, ZenonT(40)
     DEF RequestStep, StreamTarget, StreamLook, StreamGivesUp, Join, StartStream, StartFails, Serve,
         PlayerSeeks, PlayerReads, PlayerAtEnd, PlayerCut, PlayerLeaves, Release
<1>2. CASE \E s \in Streams : LoopStep(s) \/ RangeFails(s) \/ RangeIgnored(s)
  BY <1>0, <1>2
     DEF LoopStep, NextSpan, Stopped, Verify, RangeFails, RangeIgnored, LoopEnds, Land, Report
<1>3. ASSUME NEW s \in Streams, FinishStep(s), ~RecoverAsked(s) PROVE fetch' = fetch
  BY <1>3
     DEF FinishStep, FinishLook, FinishRename, FinishIndex, FinishComplete, FinishLog, RecoverDrop,
         RecoverClose, RecoverTell
<1>4. ASSUME NEW s \in Streams, RecoverAsked(s)
      PROVE  fetch'[Instead(t)].pc = "idle" \/ (s = t /\ finisher'[t].pc = "fetching")
  BY <1>4, Kinds DEF RecoverAsked, Step, FinisherShape
<1>5. ASSUME NEW f \in Loaders, Load(f) PROVE fetch'[Instead(t)].pc = "idle"
  BY <1>5, Kinds DEF Load, Calls
<1>6. ASSUME NEW f \in Fetches, FetchStep(f) \/ FetchFails(f) PROVE fetch'[Instead(t)].pc = "idle"
  <2>1. f # Instead(t)
    BY <1>6 DEF FetchStep, FetchStart, FetchJoined, FetchTake, FetchAdmitted, FetchGivesUp,
                FetchLands, FetchFails, FetchLogs, FetchLeaves
  <2>2. \E x : Calls(f, x)
    BY <1>6 DEF FetchStep, FetchStart, FetchJoined, FetchTake, FetchAdmitted, FetchGivesUp,
                FetchLands, FetchFails, FetchLogs, FetchLeaves
  <2> QED
    BY <2>1, <2>2, Kinds DEF Calls
<1>7. CASE CancelLook \/ CancelStep \/ UNCHANGED vars
  BY <1>7, Kinds DEF CancelLook, CancelStep, CancelDrop, CancelClose, CancelEnd, vars
<1>8. CASE Crash
  BY <1>8, Kinds DEF Crash
<1> QED
  BY <1>0, <1>1, <1>2, <1>3, <1>4, <1>5, <1>6, <1>7, <1>8 DEF Next

LEMMA FreshStep == Shape /\ Born /\ Fresh /\ [Next]_vars => Fresh'
<1> SUFFICES ASSUME Shape, Born, Fresh, [Next]_vars, NEW t \in Streams
             PROVE  /\ stream'[t].ended = "no" => finisher'[t].pc = "none"
                    /\ stream'[t].ended = "no" \/ finisher'[t].pc \notin {"none", "fetching"}
                         => fetch'[Instead(t)].pc = "idle"
  BY DEF Fresh
<1>1. stream'[t].ended = "no" => stream[t].ended = "no"
  <2>1. CASE SameStreams
    BY <2>1 DEF SameStreams
  <2>2. ASSUME NEW v \in Known, Ends(v) PROVE stream'[t].ended = "no" => stream[t].ended = "no"
    BY <2>2 DEF Ends
  <2>3. ASSUME NEW r \in Requests, StartStream(r) PROVE stream'[t].ended = "no" => stream[t].ended = "no"
    BY <2>3 DEF StartStream, Started, Shape, StreamShape
  <2>4. CASE Crash
    BY <2>4 DEF Crash, Shape, StreamShape
  <2> QED
    BY <2>1, <2>2, <2>3, <2>4, StreamStep
<1>2. Finishes(t)
  BY FinisherStep
<1>3. stream'[t].ended = "no" => finisher'[t].pc = "none"
  BY <1>1, <1>2 DEF Finishes, Fresh
<1>4. RecoverAsked(t) => finisher[t].pc = "asked"
  BY DEF RecoverAsked
<1> QED
  BY <1>1, <1>2, <1>3, <1>4, IdleStays DEF Finishes, Fresh

-----------------------------------------------------------------------------
(* Who has a slot is on the way to a fetch or fetches; who waits, waits.    *)

Waiting(x) == \/ x \in Requests /\ call[x].pc = "queued"
              \/ x \in Fetches /\ fetch[x].pc = "queued"
Kept ==
    /\ SlotsOK(slots)
    /\ \A x \in slots.held : Running(x)
    /\ \A x \in Lined(slots) : Waiting(x)

NoneTaken == [free |-> Slots, asked |-> << >>, auto |-> << >>, held |-> {}]

LEMMA NoneTakenOK == SlotsOK(NoneTaken) /\ Lined(NoneTaken) = {} /\ NoneTaken.held = {}
BY LimitAssumption, EmptyLine, FS_EmptySet DEF NoneTaken, SlotsOK, Lined

LEMMA WaitingRuns ==
    ASSUME NEW x, Waiting(x)
    PROVE  Running(x)
BY DEF Waiting, Running

(* Who does not run has no slot and waits for none. *)
LEMMA NotRunning ==
    ASSUME Kept, NEW x, ~Running(x)
    PROVE  x \notin slots.held /\ x \notin Lined(slots)
BY WaitingRuns DEF Kept

(* All who run go on as they were, but perhaps for x. *)
Others(x) ==
    /\ \A r \in Requests : r # x /\ call[r].pc \in {"queued", "ensure"} => call'[r].pc = call[r].pc
    /\ \A t \in Streams : t # x /\ stream[t].pc # "unborn" /\ stream[t].ended = "no" =>
                            stream'[t].pc # "unborn" /\ stream'[t].ended = "no"
    /\ \A f \in Fetches : f # x /\ fetch[f].pc \in {"queued", "get", "log"} => fetch'[f].pc = fetch[f].pc

LEMMA OthersGoOn ==
    ASSUME NEW x, Others(x), NEW y, y # x
    PROVE  (Running(y) => Running(y)') /\ (Waiting(y) => Waiting(y)')
BY DEF Others, Running, Waiting

(* x is out of the lines and has no slot: nobody else is worse off. *)
LEMMA OneLeaves ==
    ASSUME Kept, NEW x, Others(x), SlotsOK(slots'), Lined(slots') \subseteq Lined(slots) \ {x},
           slots'.held \subseteq (slots.held \cup Lined(slots)) \ {x}
    PROVE  Kept'
<1>1. ASSUME NEW y \in slots'.held PROVE Running(y)'
  <2>1. y # x /\ (y \in slots.held \/ y \in Lined(slots))
    BY <1>1
  <2> QED
    BY <2>1, OthersGoOn, WaitingRuns DEF Kept
<1>2. ASSUME NEW y \in Lined(slots') PROVE Waiting(y)'
  BY <1>2, OthersGoOn DEF Kept
<1> QED
  BY <1>1, <1>2 DEF Kept, Lined, SlotsOK, In, Once

(* x comes to wait, or goes on with its slot. *)
LEMMA OneStays ==
    ASSUME Kept, NEW x, Others(x), SlotsOK(slots'), Lined(slots') \subseteq Lined(slots) \cup {x},
           slots'.held \subseteq slots.held \cup {x},
           x \in slots'.held => Running(x)', x \in Lined(slots') => Waiting(x)'
    PROVE  Kept'
<1>1. ASSUME NEW y \in slots'.held PROVE Running(y)'
  BY <1>1, OthersGoOn DEF Kept
<1>2. ASSUME NEW y \in Lined(slots') PROVE Waiting(y)'
  BY <1>2, OthersGoOn DEF Kept
<1> QED
  BY <1>1, <1>2 DEF Kept, Lined, SlotsOK, In, Once

LEMMA SlotsStand ==
    ASSUME Kept, NEW x, Others(x), ~Running(x), slots' = slots
    PROVE  Kept'
BY OneLeaves, NotRunning DEF Kept

LEMMA SlotBack ==
    ASSUME Kept, NEW x, Others(x), ~Waiting(x) \/ x \in slots.held, slots' = Released(slots, x)
    PROVE  Kept'
<1>1. x \notin Lined(slots)
  BY DEF Kept, SlotsOK
<1>2. /\ SlotsOK(slots') /\ Lined(slots') \subseteq Lined(slots)
      /\ slots'.held \subseteq (slots.held \ {x}) \cup (Lined(slots) \ {x})
  BY ReleasedOK DEF Kept
<1> QED
  BY <1>1, <1>2, OneLeaves

LEMMA SlotGivenUp ==
    ASSUME Kept, NEW x, Others(x), slots' = GivenUp(x)
    PROVE  Kept'
BY OneLeaves, GivenUpOK DEF Kept

LEMMA SlotTaken ==
    ASSUME Kept, NEW x \in Who, Others(x), ~Running(x), NEW asked, slots' = Taken(x, asked),
           Waiting(x)'
    PROVE  Kept'
<1>1. x \notin slots.held /\ x \notin Lined(slots)
  BY NotRunning
<1>2. /\ SlotsOK(slots') /\ Lined(slots') \subseteq Lined(slots) \cup {x}
      /\ slots'.held \subseteq slots.held \cup {x}
  BY <1>1, TakenOK DEF Kept
<1>3. Running(x)'
  BY DEF Waiting, Running
<1> QED
  BY <1>2, <1>3, OneStays

(* The streams move and no call or fetch that counts does. *)
LEMMA MovesKeep ==
    ASSUME Born, Kept, Moves,
           \A r \in Requests : call[r].pc \in {"queued", "ensure"} => call'[r].pc = call[r].pc,
           \A f \in Fetches : fetch[f].pc \in {"queued", "get", "log"} => fetch'[f].pc = fetch[f].pc
    PROVE  Kept'
<1>0. ~Running(None)
  BY Kinds DEF Running, Who
<1>1. CASE SameStreams /\ slots' = slots
  <2>1. Others(None)
    BY <1>1 DEF SameStreams, Others
  <2> QED
    BY <1>0, <1>1, <2>1, SlotsStand
<1>2. ASSUME NEW v \in Known, Ends(v) PROVE Kept'
  <2>1. Others(v)
    BY <1>2 DEF Ends, Others
  <2>2. ~Waiting(v)
    BY Kinds DEF Known, Waiting, Who
  <2>3. CASE stream[v].ended = "no"
    BY <1>2, <2>1, <2>2, <2>3, SlotBack DEF Ends
  <2>4. CASE stream[v].ended # "no"
    <3>1. ~Running(v)
      BY <2>4, Kinds DEF Running, Known, Who
    <3> QED
      BY <1>2, <2>1, <2>4, <3>1, SlotsStand DEF Ends
  <2> QED
    BY <2>3, <2>4
<1> QED
  BY <1>1, <1>2 DEF Moves

-----------------------------------------------------------------------------
(* The steps of requests and of fetches. *)

LEMMA RequestRuns ==
    ASSUME NEW r \in Requests
    PROVE  /\ Running(r) <=> call[r].pc \in {"queued", "ensure"}
           /\ Waiting(r) <=> call[r].pc = "queued"
BY Kinds DEF Running, Waiting

LEMMA FetchRuns ==
    ASSUME NEW f \in Fetches
    PROVE  /\ Running(f) <=> fetch[f].pc \in {"queued", "get", "log"}
           /\ Waiting(f) <=> fetch[f].pc = "queued"
BY Kinds DEF Running, Waiting

LEMMA StartKeeps ==
    ASSUME Shape, Born, Kept, NEW r \in Requests, StartStream(r)
    PROVE  Kept'
<1>1. PICK s \in Streams :
        /\ stream[s].pc = "unborn" /\ stream' = [stream EXCEPT ![s] = Started(s)]
        /\ slots' = [slots EXCEPT !.held = IF r \in @ THEN (@ \ {r}) \cup {s} ELSE @]
  BY DEF StartStream
<1>2. stream'[s].pc = "loop" /\ stream'[s].ended = "no" /\ \A t \in Streams : t # s => stream'[t] = stream[t]
  <2>1. s \notin Known
    BY <1>1, Kinds DEF Known, Who
  <2> QED
    BY <1>1, <2>1 DEF Started, Shape, StreamShape, Born
<1>3. fetch' = fetch /\ \A q \in Requests : q # r => call'[q] = call[q]
  BY DEF StartStream
<1>4. ~Running(s) /\ r # s /\ s \in Who /\ r \in Who
  BY <1>1, Kinds DEF Running, Who
<1>5. s \notin slots.held /\ s \notin Lined(slots)
  BY <1>4, NotRunning
<1>6. r \notin Lined(slots)
  BY RequestRuns DEF StartStream, Ready, Kept, SlotsOK
<1>7. Others(r)
  BY <1>1, <1>2, <1>3 DEF Others
<1>8. CASE r \notin slots.held
  <2>1. slots' = slots
    BY <1>1, <1>8 DEF Kept, SlotsOK
  <2> QED
    BY <1>6, <1>7, <1>8, <2>1, OneLeaves DEF Kept
<1>9. CASE r \in slots.held
  <2> DEFINE rest == slots.held \ {r}
  <2>1. slots' = [free |-> slots.free, asked |-> slots.asked, auto |-> slots.auto, held |-> rest \cup {s}]
    BY <1>1, <1>9 DEF Kept, SlotsOK
  <2>2. IsFiniteSet(rest) /\ Cardinality(rest) = Cardinality(slots.held) - 1
    BY <1>9, FS_RemoveElement DEF Kept, SlotsOK
  <2>3. /\ IsFiniteSet(rest \cup {s})
        /\ Cardinality(rest \cup {s}) = Cardinality(slots.held) - 1 + 1
    BY <1>5, <2>2, FS_AddElement
  <2>4. Cardinality(slots.held) \in Nat
    BY FS_CardinalityType DEF Kept, SlotsOK
  <2>5. Cardinality(rest \cup {s}) = Cardinality(slots.held)
    BY <2>3, <2>4
  <2>6. slots'.held = rest \cup {s} /\ Lined(slots') = Lined(slots)
    BY <2>1 DEF Lined
  <2>7. SlotsOK(slots')
    BY <1>4, <1>5, <2>1, <2>3, <2>5, <2>6 DEF Kept, SlotsOK
  <2>8. ASSUME NEW y \in slots'.held PROVE Running(y)'
    <3>1. CASE y = s
      BY <1>2, <3>1 DEF Running
    <3>2. CASE y # s
      BY <1>7, <2>6, <2>8, <3>2, OthersGoOn DEF Kept
    <3> QED
      BY <3>1, <3>2
  <2>9. ASSUME NEW y \in Lined(slots') PROVE Waiting(y)'
    BY <1>6, <1>7, <2>6, <2>9, OthersGoOn DEF Kept
  <2> QED
    BY <2>7, <2>8, <2>9 DEF Kept, Lined, SlotsOK, In, Once
<1> QED
  BY <1>8, <1>9

LEMMA RequestKeeps ==
    ASSUME Shape, Born, Kept, NEW r \in Requests,
           RequestStep(r) \/ StreamGivesUp(r) \/ StartFails(r) \/ PlayerLeaves(r)
    PROVE  Kept'
<1> USE DEF Shape, CallShape
<1>1. CASE StreamTarget(r) \/ Serve(r) \/ PlayerSeeks(r) \/ PlayerReads(r)
  <2>1. Others(r)
    <3>1. fetch' = fetch /\ \A q \in Requests : q # r => call'[q] = call[q]
      BY <1>1 DEF StreamTarget, Serve, PlayerSeeks, PlayerReads
    <3>2. SameStreams
      <4>1. CASE PlayerSeeks(r)
        BY <4>1 DEF PlayerSeeks, SameStreams, StreamShape
      <4>2. CASE stream' = stream
        BY <4>2 DEF SameStreams
      <4> QED
        BY <1>1, <4>1, <4>2 DEF StreamTarget, Serve, PlayerReads
    <3> QED
      BY <3>1, <3>2 DEF Others, SameStreams
  <2>2. ~Running(r) /\ slots' = slots
    BY <1>1, RequestRuns DEF StreamTarget, Serve, PlayerSeeks, PlayerReads, Reading
  <2> QED
    BY <2>1, <2>2, SlotsStand
<1>2. CASE StreamLook(r)
  <2>1. Others(r) /\ ~Running(r)
    BY <1>2, RequestRuns DEF StreamLook, Others
  <2>2. CASE slots' = slots
    BY <2>1, <2>2, SlotsStand
  <2>3. CASE slots' = Taken(r, TRUE) /\ call'[r].pc = "queued"
    BY <2>1, <2>3, SlotTaken DEF Waiting, Who
  <2> QED
    BY <1>2, <2>2, <2>3 DEF StreamLook
<1>3. CASE StreamGivesUp(r)
  BY <1>3, SlotGivenUp DEF StreamGivesUp, Others
<1>4. CASE Join(r) \/ StartFails(r)
  <2>1. Others(r) /\ slots' = Released(slots, r) /\ Ready(r)
    BY <1>4 DEF Join, StartFails, Others
  <2>2. ~Waiting(r) \/ r \in slots.held
    BY <2>1, RequestRuns DEF Ready
  <2> QED
    BY <2>1, <2>2, SlotBack
<1>5. CASE Reading(r) /\ Release(r)
  <2>1. fetch' = fetch /\ \A q \in Requests : call[q].pc \in {"queued", "ensure"} => call'[q].pc = call[q].pc
    BY <1>5 DEF Reading, Release
  <2> QED
    BY <1>5, <2>1, ReleaseMoves, MovesKeep
<1> QED
  BY <1>1, <1>2, <1>3, <1>4, <1>5, StartKeeps DEF RequestStep, PlayerAtEnd, PlayerCut, PlayerLeaves

LEMMA FetchKeeps ==
    ASSUME Shape, Kept, NEW f \in Fetches, FetchStep(f) \/ FetchFails(f) \/ Load(f)
    PROVE  Kept'
<1> USE DEF Shape, FetchShape
<1>1. stream' = stream /\ call' = call /\ \E x : Calls(f, x)
  BY DEF FetchStep, FetchStart, FetchJoined, FetchTake, FetchAdmitted, FetchGivesUp, FetchLands,
         FetchFails, FetchLogs, FetchLeaves, Load
<1>2. Others(f)
  BY <1>1 DEF Calls, Others
<1>3. CASE FetchStart(f) \/ FetchJoined(f) \/ FetchLeaves(f) \/ Load(f)
  <2>1. ~Running(f) /\ slots' = slots
    BY <1>3, FetchRuns DEF FetchStart, FetchJoined, FetchLeaves, Load
  <2> QED
    BY <1>2, <2>1, SlotsStand
<1>4. CASE FetchTake(f)
  <2>1. ~Running(f) /\ slots' = Taken(f, fetch[f].asked) /\ fetch'[f].pc = "queued"
    BY <1>4, FetchRuns DEF FetchTake, Calls
  <2> QED
    BY <1>2, <2>1, SlotTaken DEF Waiting, Who
<1>5. CASE FetchAdmitted(f) \/ FetchLands(f)
  <2>1. slots' = slots /\ fetch'[f].pc \in {"get", "log"} /\ (f \in slots.held \/ ~Waiting(f))
    BY <1>5, FetchRuns DEF FetchAdmitted, FetchLands, Calls
  <2>2. f \notin Lined(slots)
    BY <2>1 DEF Kept, SlotsOK
  <2>3. Running(f)'
    BY <2>1 DEF Running
  <2> QED
    BY <1>2, <2>1, <2>2, <2>3, OneStays DEF Kept
<1>6. CASE FetchGivesUp(f)
  BY <1>2, <1>6, SlotGivenUp DEF FetchGivesUp
<1>7. CASE FetchFails(f) \/ FetchLogs(f)
  <2>1. slots' = Released(slots, f) /\ ~Waiting(f)
    BY <1>7, FetchRuns DEF FetchFails, FetchLogs
  <2> QED
    BY <1>2, <2>1, SlotBack
<1> QED
  BY <1>3, <1>4, <1>5, <1>6, <1>7 DEF FetchStep

LEMMA KeptStep == Shape /\ Born /\ Fresh /\ Kept /\ [Next]_vars => Kept'
<1> SUFFICES ASSUME Shape, Born, Fresh, Kept, [Next]_vars PROVE Kept'
  OBVIOUS
<1>1. ASSUME NEW s \in Streams, LoopStep(s) \/ RangeFails(s) \/ RangeIgnored(s) PROVE Kept'
  <2>1. call' = call /\ fetch' = fetch
    BY <1>1 DEF LoopStep, NextSpan, Stopped, Verify, RangeFails, RangeIgnored, LoopEnds, Land, Report
  <2> QED
    BY <1>1, <2>1, LoopMoves, MovesKeep
<1>2. ASSUME NEW s \in Streams, FinishStep(s) PROVE Kept'
  <2>1. \A r \in Requests : call[r].pc \in {"queued", "ensure"} => call'[r].pc = call[r].pc
    <3>1. CASE RecoverTell(s)
      BY <3>1 DEF RecoverTell, Shape, CallShape
    <3> QED
      BY <1>2, <3>1
         DEF FinishStep, FinishLook, FinishRename, FinishIndex, FinishComplete, FinishLog, RecoverDrop,
             RecoverClose, RecoverAsked
  <2>2. \A f \in Fetches : fetch[f].pc \in {"queued", "get", "log"} => fetch'[f].pc = fetch[f].pc
    <3>1. CASE RecoverAsked(s)
      <4>1. finisher[s].pc = "asked" /\ fetch' = [fetch EXCEPT ![Instead(s)].pc = "start"]
        BY <3>1 DEF RecoverAsked
      <4>2. fetch[Instead(s)].pc = "idle"
        BY <4>1 DEF Fresh
      <4> QED
        BY <4>1, <4>2 DEF Shape, FetchShape
    <3> QED
      BY <1>2, <3>1
         DEF FinishStep, FinishLook, FinishRename, FinishIndex, FinishComplete, FinishLog, RecoverDrop,
             RecoverClose, RecoverTell
  <2> QED
    BY <1>2, <2>1, <2>2, FinishMoves, MovesKeep
<1>3. CASE CancelLook \/ CancelStep \/ UNCHANGED vars
  <2>1. call' = call /\ \A f \in Fetches : fetch'[f].pc = fetch[f].pc
    BY <1>3 DEF CancelLook, CancelStep, CancelDrop, CancelClose, CancelEnd, vars, Shape, FetchShape
  <2> QED
    BY <1>3, <2>1, CancelMoves, MovesKeep
<1>4. CASE Crash
  <2>1. slots' = NoneTaken
    BY <1>4 DEF Crash, NoneTaken
  <2>2. SlotsOK(slots') /\ Lined(slots') = {} /\ slots'.held = {}
    BY <2>1, NoneTakenOK
  <2> QED
    BY <2>2 DEF Kept, SlotsOK, Lined, In, Once
<1> QED
  BY <1>1, <1>2, <1>3, <1>4, RequestKeeps, FetchKeeps DEF Next, Fetches

(* No slot is lost or made up, and none is free while somebody waits: a     *)
(* waiter that gives up passes on what it was handed just then, a stream    *)
(* gives its slot back once, and a request that found a stream gives back   *)
(* the one it had waited for (admission, ensureStream).                     *)
THEOREM NoSlotLost == Spec => []SlotsKept
<1>1. Init => Kept
  <2>1. Init => slots = NoneTaken
    BY DEF Init, NoneTaken
  <2> QED
    BY <2>1, NoneTakenOK DEF Kept
<1>2. Kept => SlotsKept
  BY DEF Kept, SlotsOK, SlotsKept
<1> QED
  BY <1>1, <1>2, InitShape, InitBorn, InitFresh, ShapeStep, BornStep, FreshStep, KeptStep, PTL DEF Spec

-----------------------------------------------------------------------------
(* The file a row points to. *)

DiskShape ==
    /\ DOMAIN good = Streams
    /\ "part" \in DOMAIN disk /\ "final" \in DOMAIN disk
    /\ "pc" \in DOMAIN cancel /\ "used" \in DOMAIN cancel
    /\ \A s \in Streams : "file" \in DOMAIN stream[s]

(* A stream comes to its verdict when its loop is over, and only then does  *)
(* finishStream work on it.                                                 *)
Verdicts == {"ok", "failed", "ranges"}
AtWork   == {"rename", "index", "complete", "log", "drop", "close", "asked", "fetching"}
Judged ==
    \A s \in Streams :
      /\ stream[s].ended \in Verdicts \cup {"no", "cancelled"}
      /\ stream[s].pc = "over" => stream[s].ended # "no"
      /\ stream[s].ended \in Verdicts => stream[s].pc = "over"
      /\ finisher[s].pc \in AtWork => stream[s].ended \in Verdicts
      /\ finisher[s].pc = "rename" => stream[s].ended = "ok"
      /\ stream[s].ended = "ok" => Chunks \subseteq good[stream[s].file]

(* What the names can name. *)
Named ==
    /\ disk.part \in Streams \cup {None}
    /\ disk.final \in Streams \cup {None, Fetched}
    /\ \A s \in Streams : stream[s].pc # "unborn" => stream[s].file \in Streams
    /\ row => disk.final # None
    /\ \A s \in Streams : finisher[s].pc \in {"index", "complete", "log"} => disk.final # None
    /\ \A f \in Fetches : fetch[f].pc = "log" => disk.final # None

(* While nobody cancelled, the stream that runs or waits for its rename is  *)
(* the one the map has, and the part file is its file.                      *)
Runs(s)    == stream[s].pc \notin {"unborn", "over"}
Pending(s) == Runs(s) \/ finisher[s].pc \in {"begin", "rename"}
Alone ==
    /\ cancel.pc = "none"
    /\ disk.final # None => Chunks \subseteq Good(disk.final)
    /\ \A s \in Streams : Pending(s) \/ finisher[s].pc \in {"index", "complete", "drop"} => current = s
    /\ \A s \in Streams : Pending(s) => disk.part \in {None, stream[s].file}

WholeInv == DiskShape /\ Judged /\ Named /\ (~cancel.used => Alone)

LEMMA InitWhole == Init => WholeInv
BY Kinds DEF Init, WholeInv, DiskShape, Judged, Named, Alone, Verdicts, AtWork, Pending, Runs, Who

LEMMA WholeRow == WholeInv => RowIsWhole
BY DEF WholeInv, Named, Alone, RowIsWhole

(* Closing a stream whose loop runs ends it, and begins its finishStream.   *)
Closes(v) ==
    /\ \A t \in Streams :
         /\ stream'[t].pc = stream[t].pc /\ stream'[t].file = stream[t].file
         /\ "file" \in DOMAIN stream'[t]
         /\ stream'[t].ended = IF t = v /\ stream[t].ended = "no" THEN "cancelled" ELSE stream[t].ended

LEMMA CloseCloses ==
    ASSUME Shape, DiskShape, NEW v, Close(v)
    PROVE  /\ Closes(v)
           /\ \A t \in Streams :
                finisher'[t].pc = IF t = v /\ stream[t].ended = "no" THEN "begin" ELSE finisher[t].pc
BY DEF Shape, StreamShape, FinisherShape, DiskShape, Close, Finish, Closes

LEMMA CloseAndStepCloses ==
    ASSUME Shape, DiskShape, NEW v, NEW s \in Streams, NEW f, CloseAndStep(v, s, f), "pc" \in DOMAIN f,
           stream[s].ended # "no"
    PROVE  /\ Closes(v)
           /\ \A t \in Streams :
                finisher'[t].pc = IF t = s THEN f.pc
                                  ELSE IF t = v /\ stream[t].ended = "no" THEN "begin" ELSE finisher[t].pc
BY DEF Shape, StreamShape, FinisherShape, DiskShape, CloseAndStep, Closes

(* DiskShape is kept by every step. *)
LEMMA DiskShapeStep == Shape /\ DiskShape /\ [Next]_vars => DiskShape'
<1> SUFFICES ASSUME Shape, DiskShape, [Next]_vars PROVE DiskShape'
  OBVIOUS
<1> DEFINE Files == \A s \in Streams : "file" \in DOMAIN stream[s]
<1>1. ASSUME NEW r \in Requests, RequestStep(r) \/ StreamGivesUp(r) \/ StartFails(r) \/ PlayerLeaves(r)
      PROVE  DiskShape'
  <2>1. good' = good /\ cancel' = cancel
    BY <1>1 DEF RequestStep, StreamTarget, StreamLook, StreamGivesUp, Join, StartStream, StartFails, Serve,
                PlayerSeeks, PlayerReads, PlayerAtEnd, PlayerCut, PlayerLeaves, Release, files, user
  <2>2. "part" \in DOMAIN disk' /\ "final" \in DOMAIN disk'
    BY <1>1 DEF RequestStep, StreamTarget, StreamLook, StreamGivesUp, Join, StartStream, StartFails, Serve,
                PlayerSeeks, PlayerReads, PlayerAtEnd, PlayerCut, PlayerLeaves, Release, files, DiskShape
  <2>3. Files'
    <3>1. CASE StartStream(r)
      BY <3>1 DEF StartStream, Started, DiskShape, Shape, StreamShape
    <3>2. CASE PlayerSeeks(r)
      BY <3>2 DEF PlayerSeeks, DiskShape, Shape, StreamShape
    <3>3. CASE stream' = stream
      BY <3>3 DEF DiskShape
    <3>4. CASE Release(r)
      BY <3>3, <3>4, CloseCloses DEF Release, Closes
    <3> QED
      BY <1>1, <3>1, <3>2, <3>3, <3>4
         DEF RequestStep, StreamTarget, StreamLook, StreamGivesUp, Join, StartFails, Serve,
             PlayerReads, PlayerAtEnd, PlayerCut, PlayerLeaves
  <2> QED
    BY <2>1, <2>2, <2>3 DEF DiskShape
<1>2. ASSUME NEW s \in Streams, LoopStep(s) \/ RangeFails(s) \/ RangeIgnored(s) PROVE DiskShape'
  <2>1. CASE NextSpan(s)
    BY <2>1 DEF NextSpan, DiskShape, Shape, StreamShape, files, user
  <2>2. CASE Report(s)
    BY <2>2 DEF Report, DiskShape, Shape, StreamShape, files, user
  <2>3. CASE Land(s)
    BY <2>3 DEF Land, DiskShape, Shape, StreamShape
  <2>4. ASSUME NEW how, LoopEnds(s, how), cancel' = cancel PROVE DiskShape'
    BY <2>4 DEF LoopEnds, Finish, DiskShape, Shape, StreamShape, files
  <2> QED
    BY <1>2, <2>1, <2>2, <2>3, <2>4 DEF LoopStep, Stopped, Verify, RangeFails, RangeIgnored, user
<1>3. ASSUME NEW s \in Streams, FinishStep(s) PROVE DiskShape'
  <2>1. good' = good /\ cancel' = cancel
    BY <1>3 DEF FinishStep, FinishLook, FinishRename, FinishIndex, FinishComplete, FinishLog, RecoverDrop,
                RecoverClose, RecoverAsked, RecoverTell, files, user
  <2>2. "part" \in DOMAIN disk' /\ "final" \in DOMAIN disk'
    BY <1>3 DEF FinishStep, FinishLook, FinishRename, FinishIndex, FinishComplete, FinishLog, RecoverDrop,
                RecoverClose, RecoverAsked, RecoverTell, files, DiskShape
  <2>3. Files'
    <3>1. stream' = stream \/ \E v, f : CloseAndStep(v, s, f)
      BY <1>3 DEF FinishStep, FinishLook, FinishRename, FinishIndex, FinishComplete, FinishLog,
                  RecoverDrop, RecoverClose, RecoverAsked, RecoverTell
    <3> QED
      BY <3>1 DEF CloseAndStep, DiskShape, Shape, StreamShape
  <2> QED
    BY <2>1, <2>2, <2>3 DEF DiskShape
<1>4. ASSUME NEW f \in Fetches, FetchStep(f) \/ FetchFails(f) \/ Load(f) PROVE DiskShape'
  BY <1>4 DEF FetchStep, FetchStart, FetchJoined, FetchTake, FetchAdmitted, FetchGivesUp,
              FetchLands, FetchFails, FetchLogs, FetchLeaves, Load, DiskShape, files, user
<1>5. CASE CancelLook \/ CancelStep \/ UNCHANGED vars
  <2>1. good' = good /\ disk' = disk /\ "pc" \in DOMAIN cancel' /\ "used" \in DOMAIN cancel'
    BY <1>5 DEF CancelLook, CancelStep, CancelDrop, CancelClose, CancelEnd, vars, files, DiskShape
  <2>2. stream' = stream \/ Close(cancel.victim)
    BY <1>5 DEF CancelLook, CancelStep, CancelDrop, CancelClose, CancelEnd, vars
  <2> QED
    BY <2>1, <2>2, CloseCloses DEF Closes, DiskShape
<1>6. CASE Crash
  BY <1>6 DEF Crash, DiskShape, files
<1> QED
  BY <1>1, <1>2, <1>3, <1>4, <1>5, <1>6 DEF Next, Fetches

(* Steps that leave the files but for the part file's name, and on which a  *)
(* finishStream goes on or a stream that runs is closed.                    *)
GoesOn ==
    /\ ~cancel'.used => ~cancel.used /\ current' = current /\ cancel'.pc = "none"
    /\ row' => row \/ disk.final # None
    /\ disk'.final = disk.final /\ disk'.part \in {disk.part, None}
    /\ \A n \in Streams : good[n] \subseteq good'[n]
    /\ \A t \in Streams :
         /\ stream'[t].file = stream[t].file
         /\ (stream'[t].pc = "unborn" <=> stream[t].pc = "unborn")
         /\ (stream'[t].pc = "over" <=> stream[t].pc = "over")
         /\ \/ stream'[t].ended = stream[t].ended
            \/ stream[t].ended = "no" /\ stream'[t].ended = "cancelled"
         /\ \/ finisher'[t].pc \in {finisher[t].pc, "none"}
            \/ finisher'[t].pc = "begin" /\ stream[t].ended = "no" /\ stream[t].pc # "unborn"
            \/ finisher[t].pc \in AtWork /\ finisher'[t].pc \in {"asked", "fetching"}
            \/ finisher[t].pc = "index" /\ finisher'[t].pc = "complete"
            \/ finisher[t].pc = "complete" /\ finisher'[t].pc = "log"
    /\ \A f \in Fetches : fetch'[f].pc = "log" => fetch[f].pc = "log"

LEMMA GoesOnWhole == WholeInv /\ Fresh /\ DiskShape' /\ GoesOn => WholeInv'
<1> SUFFICES ASSUME WholeInv, Fresh, DiskShape', GoesOn PROVE WholeInv'
  OBVIOUS
<1>1. ASSUME NEW t \in Streams
      PROVE  /\ stream'[t].ended \in Verdicts \cup {"no", "cancelled"}
             /\ stream'[t].pc = "over" => stream'[t].ended # "no"
             /\ stream'[t].ended \in Verdicts => stream'[t].pc = "over"
             /\ finisher'[t].pc \in AtWork => stream'[t].ended \in Verdicts
             /\ finisher'[t].pc = "rename" => stream'[t].ended = "ok"
             /\ stream'[t].ended = "ok" => Chunks \subseteq good'[stream'[t].file]
  <2>1. stream[t].ended = "no" => finisher[t].pc = "none"
    BY DEF Fresh
  <2>2. stream'[t].ended \in Verdicts => stream'[t].ended = stream[t].ended
    BY DEF GoesOn, Verdicts
  <2>3. (stream'[t].ended \in Verdicts \cup {"no", "cancelled"})
        /\ (stream'[t].pc = "over" => stream'[t].ended # "no")
        /\ (stream'[t].ended \in Verdicts => stream'[t].pc = "over")
    BY <2>2 DEF WholeInv, Judged, GoesOn, Verdicts
  <2>4. finisher'[t].pc \in AtWork => finisher[t].pc \in AtWork
    BY DEF GoesOn, AtWork
  <2>5. finisher'[t].pc = "rename" => finisher[t].pc = "rename"
    BY DEF GoesOn
  <2>6. finisher[t].pc \in AtWork => stream'[t].ended = stream[t].ended
    BY <2>1 DEF GoesOn, AtWork
  <2>7. (finisher'[t].pc \in AtWork => stream'[t].ended \in Verdicts)
        /\ (finisher'[t].pc = "rename" => stream'[t].ended = "ok")
    BY <2>4, <2>5, <2>6 DEF WholeInv, Judged, AtWork
  <2>8. stream'[t].ended = "ok" => Chunks \subseteq good'[stream'[t].file]
    <3>1. stream'[t].ended = "ok" =>
            /\ stream[t].pc # "unborn" /\ stream'[t].file = stream[t].file
            /\ Chunks \subseteq good[stream[t].file]
      BY <2>2 DEF WholeInv, Judged, GoesOn, Verdicts
    <3> QED
      BY <3>1 DEF WholeInv, Named, GoesOn
  <2> QED
    BY <2>3, <2>7, <2>8
<1>2. Named'
  BY DEF WholeInv, Named, GoesOn
<1>3. ASSUME ~cancel'.used PROVE Alone'
  <2>0. ~cancel.used /\ current' = current /\ cancel'.pc = "none" /\ Alone
    BY <1>3 DEF GoesOn, WholeInv
  <2>1. ASSUME NEW t \in Streams, Pending(t)' PROVE Pending(t)
    BY <2>1 DEF GoesOn, Pending, Runs, WholeInv, Judged
  <2>2. ASSUME disk'.final # None PROVE Chunks \subseteq Good(disk.final)'
    <3>1. disk.final # None /\ Chunks \subseteq Good(disk.final)
      BY <2>0, <2>2 DEF Alone, GoesOn
    <3>2. disk.final \in Streams \cup {Fetched}
      BY <3>1 DEF WholeInv, Named
    <3> QED
      BY <3>1, <3>2 DEF Good, GoesOn
  <2>3. ASSUME NEW t \in Streams, finisher'[t].pc \in {"index", "complete", "drop"}
        PROVE  finisher[t].pc \in {"index", "complete", "drop"}
    BY <2>3 DEF GoesOn
  <2>4. \A t \in Streams : Pending(t)' \/ finisher'[t].pc \in {"index", "complete", "drop"} => current' = t
    BY <2>0, <2>1, <2>3 DEF Alone
  <2>5. \A t \in Streams : Pending(t)' => disk'.part \in {None, stream'[t].file}
    BY <2>0, <2>1 DEF Alone, GoesOn
  <2> QED
    BY <2>0, <2>2, <2>4, <2>5 DEF Alone
<1> QED
  BY <1>1, <1>2, <1>3 DEF WholeInv, Judged

(* The steps, one by one. *)
LEMMA RequestGoesOn ==
    ASSUME Shape, Born, WholeInv, NEW r \in Requests,
           RequestStep(r) \/ StreamGivesUp(r) \/ StartFails(r) \/ PlayerLeaves(r), ~StartStream(r)
    PROVE  GoesOn
<1>1. /\ cancel' = cancel /\ current' = current /\ row' = row /\ disk' = disk /\ good' = good
      /\ fetch' = fetch
  BY DEF RequestStep, StreamTarget, StreamLook, StreamGivesUp, Join, StartFails, Serve, PlayerSeeks,
         PlayerReads, PlayerAtEnd, PlayerCut, PlayerLeaves, Release, files, user
<1>2. CASE stream' = stream /\ finisher' = finisher
  BY <1>1, <1>2 DEF GoesOn, WholeInv, Alone
<1>3. CASE PlayerSeeks(r)
  BY <1>1, <1>3 DEF PlayerSeeks, GoesOn, WholeInv, Alone, DiskShape, Shape, StreamShape
<1>4. CASE Release(r)
  <2>1. CASE call[r].of = current /\ Close(call[r].of)
    <3>1. Closes(current) /\ \A t \in Streams :
            finisher'[t].pc = IF t = current /\ stream[t].ended = "no" THEN "begin" ELSE finisher[t].pc
      BY <2>1, CloseCloses DEF WholeInv
    <3>2. \A t \in Streams : t = current => stream[t].pc # "unborn"
      BY Kinds DEF Born, Known, Who
    <3> QED
      BY <1>1, <3>1, <3>2 DEF GoesOn, WholeInv, Alone, Closes
  <2> QED
    BY <1>2, <1>4, <2>1 DEF Release
<1> QED
  BY <1>2, <1>3, <1>4
     DEF RequestStep, StreamTarget, StreamLook, StreamGivesUp, Join, StartFails, Serve, PlayerReads,
         PlayerAtEnd, PlayerCut, PlayerLeaves

LEMMA StartWhole ==
    ASSUME Shape, Born, Fresh, WholeInv, DiskShape', NEW r \in Requests, StartStream(r)
    PROVE  WholeInv'
<1>1. PICK s \in Streams :
        /\ stream[s].pc = "unborn" /\ stream' = [stream EXCEPT ![s] = Started(s)]
        /\ disk' = [disk EXCEPT !.part = Started(s).file] /\ current' = s
  BY DEF StartStream
<1>2. current = None /\ UNCHANGED <<good, row, finisher, fetch, cancel>>
  BY DEF StartStream, user
<1>3. /\ stream'[s].pc = "loop" /\ stream'[s].ended = "no" /\ finisher[s].pc = "none"
      /\ \A t \in Streams : t # s => stream'[t] = stream[t]
  <2>1. s \notin Known
    BY <1>1, Kinds DEF Known, Who
  <2> QED
    BY <1>1, <2>1 DEF Started, Shape, StreamShape, Born, Fresh
<1>4. /\ stream'[s].file \in Streams
      /\ disk'.part = stream'[s].file /\ disk'.final = disk.final
  <2>1. Started(s).file \in Streams /\ stream'[s] = Started(s)
    BY <1>1 DEF Started, Shape, StreamShape, WholeInv, DiskShape, Named
  <2> QED
    BY <1>1, <2>1 DEF WholeInv, DiskShape
<1>5. Judged'
  BY <1>2, <1>3 DEF WholeInv, Judged, Verdicts, AtWork
<1>6. Named'
  BY <1>2, <1>3, <1>4 DEF WholeInv, Named
<1>7. ASSUME ~cancel'.used PROVE Alone'
  <2>1. Alone
    BY <1>2, <1>7 DEF WholeInv
  <2>2. \A t \in Streams : ~Pending(t) /\ finisher[t].pc \notin {"index", "complete", "drop"}
    BY <1>2, <2>1, Kinds DEF Alone, Who
  <2>3. \A t \in Streams : Pending(t)' => t = s
    BY <1>2, <1>3, <2>2 DEF Pending, Runs
  <2>4. disk'.final # None => Chunks \subseteq Good(disk.final)'
    BY <1>2, <1>4, <2>1 DEF Alone, Good
  <2> QED
    BY <1>1, <1>2, <1>4, <2>1, <2>2, <2>3, <2>4 DEF Alone
<1> QED
  BY <1>5, <1>6, <1>7 DEF WholeInv

LEMMA LoopEndWhole ==
    ASSUME Shape, Fresh, WholeInv, DiskShape', NEW s \in Streams, Runs(s),
           NEW how \in Verdicts \cup {"cancelled"}, LoopEnds(s, how), cancel' = cancel,
           how = "ok" => Chunks \subseteq good[stream[s].file]
    PROVE  WholeInv'
<1>1. UNCHANGED <<disk, good, row, current, fetch, cancel>>
  BY DEF LoopEnds, files
<1>2. /\ stream'[s].pc = "over" /\ stream'[s].file = stream[s].file
      /\ stream'[s].ended = IF stream[s].ended = "no" THEN how ELSE stream[s].ended
      /\ \A t \in Streams : t # s => stream'[t] = stream[t]
  BY DEF LoopEnds, Finish, Shape, StreamShape, WholeInv, DiskShape
<1>3. \A t \in Streams :
        finisher'[t].pc = IF t = s /\ stream[t].ended = "no" THEN "begin" ELSE finisher[t].pc
  BY DEF LoopEnds, Finish, Shape, FinisherShape
<1>4. finisher[s].pc \notin AtWork
  BY DEF WholeInv, Judged, Runs
<1>5. Judged'
  <2>1. ASSUME NEW t \in Streams, t # s
        PROVE  stream'[t] = stream[t] /\ finisher'[t].pc = finisher[t].pc
    BY <1>2, <1>3, <2>1
  <2>2. finisher'[s].pc \notin AtWork
    BY <1>3, <1>4 DEF AtWork
  <2>3. stream'[s].ended \in Verdicts \cup {"cancelled"}
    BY <1>2 DEF WholeInv, Judged
  <2>4. stream'[s].ended = "ok" => Chunks \subseteq good[stream[s].file]
    BY <1>2 DEF WholeInv, Judged
  <2> QED
    BY <1>1, <1>2, <2>1, <2>2, <2>3, <2>4 DEF WholeInv, Judged, AtWork, Verdicts
<1>6. Named'
  BY <1>1, <1>2, <1>3 DEF WholeInv, Named, Runs
<1>7. ASSUME ~cancel'.used PROVE Alone'
  <2>1. Alone
    BY <1>1, <1>7 DEF WholeInv
  <2>2. ASSUME NEW t \in Streams, Pending(t)' PROVE Pending(t) /\ stream'[t].file = stream[t].file
    BY <1>2, <1>3, <2>2 DEF Pending, Runs
  <2>3. \A t \in Streams : finisher'[t].pc \in {"index", "complete", "drop"} => finisher[t].pc = finisher'[t].pc
    BY <1>3
  <2>4. disk'.final # None => Chunks \subseteq Good(disk.final)'
    BY <1>1, <2>1 DEF Alone, Good
  <2> QED
    BY <1>1, <2>1, <2>2, <2>3, <2>4 DEF Alone
<1> QED
  BY <1>5, <1>6, <1>7 DEF WholeInv

LEMMA LoopWhole ==
    ASSUME Shape, Born, Fresh, WholeInv, DiskShape', NEW s \in Streams,
           LoopStep(s) \/ RangeFails(s) \/ RangeIgnored(s)
    PROVE  WholeInv'
<1> USE DEF Shape, StreamShape, DiskShape
<1>1. CASE NextSpan(s)
  <2>1. GoesOn
    BY <1>1 DEF NextSpan, GoesOn, WholeInv, Alone, files, user
  <2> QED
    BY <2>1, GoesOnWhole
<1>2. CASE Report(s)
  <2>1. GoesOn
    BY <1>2 DEF Report, GoesOn, WholeInv, Alone, files, user
  <2> QED
    BY <2>1, GoesOnWhole
<1>3. CASE Land(s)
  <2>1. \A n \in Streams : good[n] \subseteq good'[n]
    BY <1>3 DEF Land, WholeInv
  <2>2. /\ cancel' = cancel /\ current' = current /\ row' = row /\ fetch' = fetch /\ finisher' = finisher
        /\ disk'.part = disk.part /\ disk'.final = disk.final
    BY <1>3 DEF Land, WholeInv
  <2>3. \A t \in Streams :
         /\ stream'[t].file = stream[t].file /\ stream'[t].ended = stream[t].ended
         /\ (stream'[t].pc = "unborn" <=> stream[t].pc = "unborn")
         /\ (stream'[t].pc = "over" <=> stream[t].pc = "over")
    BY <1>3 DEF Land, WholeInv
  <2>4. GoesOn
    BY <2>1, <2>2, <2>3 DEF GoesOn, WholeInv, Alone
  <2> QED
    BY <2>4, GoesOnWhole
<1>4. CASE Stopped(s) \/ Verify(s) \/ RangeFails(s) \/ RangeIgnored(s)
  <2>1. /\ Runs(s) /\ cancel' = cancel
        /\ \E how \in Verdicts \cup {"cancelled"} :
             LoopEnds(s, how) /\ (how = "ok" => Chunks \subseteq good[stream[s].file])
    BY <1>4 DEF Stopped, Verify, RangeFails, RangeIgnored, Runs, Verdicts, user
  <2> QED
    BY <2>1, LoopEndWhole
<1> QED
  BY <1>1, <1>2, <1>3, <1>4 DEF LoopStep

LEMMA FinishLookWhole ==
    ASSUME Shape, Fresh, WholeInv, DiskShape', NEW s \in Streams, FinishLook(s)
    PROVE  WholeInv'
<1>1. /\ UNCHANGED <<disk, good, row, current, stream, fetch, cancel>> /\ finisher[s].pc = "begin"
      /\ \A t \in Streams : t # s => finisher'[t] = finisher[t]
  BY DEF FinishLook, Step, files, user, Shape, FinisherShape
<1>2. CASE finisher'[s].pc = "none"
  <2>1. GoesOn
    BY <1>1, <1>2 DEF GoesOn, WholeInv, Alone
  <2> QED
    BY <2>1, GoesOnWhole
<1>3. CASE /\ stream[s].ended # "cancelled"
           /\ finisher'[s].pc = IF stream[s].ended = "ok" THEN "rename" ELSE "drop"
  <2>1. stream[s].ended \in Verdicts
    BY <1>1, <1>3 DEF Fresh, WholeInv, Judged
  <2>2. Judged'
    BY <1>1, <1>3, <2>1 DEF WholeInv, Judged
  <2>3. Named'
    BY <1>1, <1>3 DEF WholeInv, Named
  <2>4. ASSUME ~cancel'.used PROVE Alone'
    <3>1. Alone /\ Pending(s)
      BY <1>1, <2>4 DEF WholeInv, Pending
    <3>2. \A t \in Streams : Pending(t)' => Pending(t)
      BY <1>1, <3>1 DEF Pending, Runs
    <3> QED
      BY <1>1, <1>3, <3>1, <3>2 DEF Alone, Good
  <2> QED
    BY <2>2, <2>3, <2>4 DEF WholeInv
<1> QED
  BY <1>2, <1>3 DEF FinishLook, Step, Shape, FinisherShape

LEMMA FinishRenameWhole ==
    ASSUME Shape, Fresh, WholeInv, DiskShape', NEW s \in Streams, FinishRename(s)
    PROVE  WholeInv'
<1>1. /\ UNCHANGED <<good, row, current, stream, fetch, cancel>> /\ finisher[s].pc = "rename"
      /\ \A t \in Streams : t # s => finisher'[t] = finisher[t]
  BY DEF FinishRename, Step, user, Shape, FinisherShape
<1>2. \/ /\ disk.part # None /\ disk'.final = disk.part /\ disk'.part = None
         /\ finisher'[s].pc = "index"
      \/ disk' = disk /\ finisher'[s].pc = "drop"
  <2>1. "part" \in DOMAIN disk /\ "final" \in DOMAIN disk
    BY DEF WholeInv, DiskShape
  <2>2. CASE disk.part # None
    <3>1. disk' = [disk EXCEPT !.final = disk.part, !.part = None]
      BY <2>2 DEF FinishRename
    <3>2. disk'.final = disk.part /\ disk'.part = None
      BY <2>1, <3>1
    <3>3. finisher'[s].pc = "index"
      BY <2>2 DEF FinishRename, Step, Shape, FinisherShape
    <3> QED
      BY <2>2, <3>2, <3>3
  <2>3. CASE disk.part = None
    BY <2>3 DEF FinishRename, Step, Shape, FinisherShape
  <2> QED
    BY <2>2, <2>3
<1>3. stream[s].ended = "ok" /\ stream[s].pc = "over" /\ Chunks \subseteq good[stream[s].file]
  BY <1>1 DEF WholeInv, Judged, Verdicts
<1>4. Judged'
  BY <1>1, <1>2, <1>3 DEF WholeInv, Judged, Verdicts
<1>5. Named'
  BY <1>1, <1>2 DEF WholeInv, Named
<1>6. ASSUME ~cancel'.used PROVE Alone'
  <2>1. Alone /\ Pending(s)
    BY <1>1, <1>6 DEF WholeInv, Pending
  <2>2. \A t \in Streams : Pending(t)' => Pending(t)
    BY <1>1, <1>2, <2>1 DEF Pending, Runs
  <2>3. disk'.part \in {disk.part, None}
    BY <1>2
  <2>4. disk'.final # None => Chunks \subseteq Good(disk.final)'
    <3>1. CASE disk'.final = disk.final
      BY <1>1, <2>1, <3>1 DEF Alone, Good
    <3>2. CASE disk.part # None /\ disk'.final = disk.part
      <4>1. disk'.final = stream[s].file
        BY <2>1, <3>2 DEF Alone
      <4>2. stream[s].file \in Streams
        BY <1>3 DEF WholeInv, Named
      <4>3. stream[s].file # Fetched /\ stream[s].file # None
        BY <4>2, LimitAssumption DEF Fetched, None, Streams
      <4> QED
        BY <1>1, <1>3, <4>1, <4>3 DEF Good
    <3> QED
      BY <1>2, <3>1, <3>2
  <2>5. \A t \in Streams : Pending(t)' => disk'.part \in {None, stream'[t].file}
    BY <1>1, <2>1, <2>2, <2>3 DEF Alone
  <2>6. \A t \in Streams : Pending(t)' \/ finisher'[t].pc \in {"index", "complete", "drop"} => current' = t
    BY <1>1, <2>1, <2>2 DEF Alone
  <2> QED
    BY <1>1, <2>1, <2>4, <2>5, <2>6 DEF Alone
<1> QED
  BY <1>4, <1>5, <1>6 DEF WholeInv

LEMMA RecoverDropWhole ==
    ASSUME Shape, Fresh, WholeInv, DiskShape', NEW s \in Streams, RecoverDrop(s)
    PROVE  WholeInv'
<1>1. /\ UNCHANGED <<disk, good, row, stream, fetch, cancel>> /\ finisher[s].pc = "drop"
      /\ finisher'[s].pc = "close" /\ current' = None
      /\ \A t \in Streams : t # s => finisher'[t] = finisher[t]
  BY DEF RecoverDrop, Step, files, user, Shape, FinisherShape
<1>2. stream[s].ended \in Verdicts /\ stream[s].pc = "over"
  BY <1>1 DEF WholeInv, Judged, AtWork
<1>3. Judged'
  BY <1>1, <1>2 DEF WholeInv, Judged
<1>4. Named'
  BY <1>1 DEF WholeInv, Named
<1>5. ASSUME ~cancel'.used PROVE Alone'
  <2>1. Alone
    BY <1>1, <1>5 DEF WholeInv
  <2>2. \A t \in Streams : Pending(t) \/ finisher[t].pc \in {"index", "complete", "drop"} => t = s
    BY <1>1, <2>1 DEF Alone
  <2>3. \A t \in Streams : Pending(t)' => Pending(t)
    BY <1>1 DEF Pending, Runs
  <2>4. ~Pending(s)'
    BY <1>1, <1>2 DEF Pending, Runs
  <2>5. \A t \in Streams : ~Pending(t)' /\ finisher'[t].pc \notin {"index", "complete", "drop"}
    BY <1>1, <2>2, <2>3, <2>4
  <2> QED
    BY <1>1, <2>1, <2>5 DEF Alone, Good
<1> QED
  BY <1>3, <1>4, <1>5 DEF WholeInv

(* What finishStream's goroutine does else is to go on. *)
LEMMA FinishGoesOn ==
    ASSUME Shape, Born, WholeInv, NEW s \in Streams,
           \/ FinishIndex(s) \/ FinishComplete(s) \/ FinishLog(s)
           \/ RecoverClose(s) \/ RecoverAsked(s) \/ RecoverTell(s)
    PROVE  GoesOn
<1> DEFINE OnFrom(t) ==
      \/ finisher'[t].pc \in {finisher[t].pc, "none"}
      \/ finisher'[t].pc = "begin" /\ stream[t].ended = "no" /\ stream[t].pc # "unborn"
      \/ finisher[t].pc \in AtWork /\ finisher'[t].pc \in {"asked", "fetching"}
      \/ finisher[t].pc = "index" /\ finisher'[t].pc = "complete"
      \/ finisher[t].pc = "complete" /\ finisher'[t].pc = "log"
<1>1. /\ cancel' = cancel /\ current' = current /\ good' = good
      /\ disk'.final = disk.final /\ disk'.part \in {disk.part, None}
      /\ row' => row \/ disk.final # None
  <2>1. "part" \in DOMAIN disk /\ "final" \in DOMAIN disk
    BY DEF WholeInv, DiskShape
  <2>2. cancel' = cancel /\ current' = current /\ good' = good
    BY DEF FinishIndex, FinishComplete, FinishLog, RecoverClose, RecoverAsked, RecoverTell, files, user
  <2>3. \/ disk' = disk \/ disk' = [disk EXCEPT !.index = NoIndex]
        \/ disk' = [disk EXCEPT !.part = None, !.index = NoIndex]
    BY DEF FinishIndex, FinishComplete, FinishLog, RecoverClose, RecoverAsked, RecoverTell, files
  <2>4. disk'.final = disk.final /\ disk'.part \in {disk.part, None}
    BY <2>1, <2>3
  <2>5. row' = row \/ FinishLog(s)
    BY DEF FinishIndex, FinishComplete, RecoverClose, RecoverAsked, RecoverTell, files
  <2>6. FinishLog(s) => disk.final # None
    BY DEF FinishLog, WholeInv, Named
  <2> QED
    BY <2>2, <2>4, <2>5, <2>6
<1>2. \A f \in Fetches : fetch'[f].pc = "log" => fetch[f].pc = "log"
  <2>1. CASE fetch' = fetch
    BY <2>1
  <2>2. CASE RecoverAsked(s)
    BY <2>2 DEF RecoverAsked, Shape, FetchShape
  <2> QED
    BY <2>1, <2>2 DEF FinishIndex, FinishComplete, FinishLog, RecoverClose, RecoverTell
<1> DEFINE Goes(f) ==
      /\ "pc" \in DOMAIN f
      /\ \/ f.pc = "none"
         \/ finisher[s].pc \in AtWork /\ f.pc \in {"asked", "fetching"}
         \/ finisher[s].pc = "index" /\ f.pc = "complete"
         \/ finisher[s].pc = "complete" /\ f.pc = "log"
<1>3. ASSUME NEW f, Step(s, f), stream' = stream, Goes(f) PROVE GoesOn
  <2>1. \A t \in Streams : finisher'[t].pc = IF t = s THEN f.pc ELSE finisher[t].pc
    BY <1>3 DEF Step, Shape, FinisherShape
  <2>2. \A t \in Streams : OnFrom(t)
    BY <1>3, <2>1
  <2> QED
    BY <1>1, <1>2, <1>3, <2>2 DEF GoesOn, WholeInv, Alone
<1>4. ASSUME NEW v \in Known, NEW f, CloseAndStep(v, s, f), "pc" \in DOMAIN f, finisher[s].pc \in AtWork,
             \/ f.pc \in {"asked", "fetching"}
             \/ finisher[s].pc = "complete" /\ f.pc = "log"
      PROVE  GoesOn
  <2>1. stream[s].ended # "no"
    BY <1>4 DEF WholeInv, Judged, Verdicts
  <2>2. /\ Closes(v)
        /\ \A t \in Streams :
             finisher'[t].pc = IF t = s THEN f.pc
                               ELSE IF t = v /\ stream[t].ended = "no" THEN "begin" ELSE finisher[t].pc
    BY <1>4, <2>1, CloseAndStepCloses DEF WholeInv
  <2>3. \A t \in Streams : t = v => stream[t].pc # "unborn"
    BY <1>4, Kinds DEF Known, Who
  <2>4. \A t \in Streams : OnFrom(t)
    BY <1>4, <2>2, <2>3
  <2> QED
    BY <1>1, <1>2, <2>2, <2>4 DEF GoesOn, Closes, WholeInv, Alone
<1> HIDE DEF OnFrom, Goes
<1>5. CASE FinishIndex(s)
  <2> DEFINE next == [finisher[s] EXCEPT !.pc = "complete"]
  <2>1. Goes(next)
    BY <1>5 DEF FinishIndex, Goes, Shape, FinisherShape
  <2>2. Step(s, next) /\ stream' = stream
    BY <1>5 DEF FinishIndex
  <2> HIDE DEF next
  <2> QED
    BY <1>3, <2>1, <2>2
<1>6. CASE FinishLog(s)
  <2> DEFINE next == [finisher[s] EXCEPT !.pc = "none"]
  <2>1. next.pc = "none" /\ "pc" \in DOMAIN next
    BY DEF Shape, FinisherShape
  <2>2. Step(s, next) /\ stream' = stream
    BY <1>6 DEF FinishLog
  <2> HIDE DEF next
  <2> QED
    BY <1>3, <2>1, <2>2 DEF Goes
<1>7. CASE RecoverAsked(s)
  <2> DEFINE next == [finisher[s] EXCEPT !.pc = "fetching", !.asked = entry[finisher[s].saw].asked]
  <2>1. Goes(next)
    BY <1>7 DEF RecoverAsked, Goes, AtWork, Shape, FinisherShape
  <2>2. Step(s, next) /\ stream' = stream
    BY <1>7 DEF RecoverAsked
  <2> HIDE DEF next
  <2> QED
    BY <1>3, <2>1, <2>2
<1>8. CASE RecoverTell(s)
  <2> DEFINE next == [finisher[s] EXCEPT !.pc = "none", !.asked = {}]
  <2>1. next.pc = "none" /\ "pc" \in DOMAIN next
    BY DEF Shape, FinisherShape
  <2>2. Step(s, next) /\ stream' = stream
    BY <1>8 DEF RecoverTell
  <2> HIDE DEF next
  <2> QED
    BY <1>3, <2>1, <2>2 DEF Goes
<1>9. CASE FinishComplete(s)
  <2> DEFINE next == [finisher[s] EXCEPT !.pc = "log"]
  <2>1. next.pc = "log" /\ "pc" \in DOMAIN next /\ finisher[s].pc = "complete" /\ finisher[s].saw \in Known
    BY <1>9 DEF FinishComplete, Shape, FinisherShape, Born
  <2>2. CloseAndStep(finisher[s].saw, s, next) \/ (Step(s, next) /\ stream' = stream)
    BY <1>9 DEF FinishComplete
  <2> HIDE DEF next
  <2> QED
    BY <1>3, <1>4, <2>1, <2>2 DEF AtWork, Goes
<1>10. CASE RecoverClose(s)
  <2> DEFINE next == [finisher[s] EXCEPT !.pc = "asked", !.victim = None]
  <2>1. next.pc = "asked" /\ "pc" \in DOMAIN next /\ finisher[s].pc = "close" /\ finisher[s].victim \in Known
    BY <1>10 DEF RecoverClose, Shape, FinisherShape, Born
  <2>2. CloseAndStep(finisher[s].victim, s, next) \/ (Step(s, next) /\ stream' = stream)
    BY <1>10 DEF RecoverClose
  <2> HIDE DEF next
  <2> QED
    BY <1>3, <1>4, <2>1, <2>2 DEF AtWork, Goes
<1> QED
  BY <1>5, <1>6, <1>7, <1>8, <1>9, <1>10

LEMMA FetchWhole ==
    ASSUME Shape, Fresh, WholeInv, DiskShape', NEW f \in Fetches, FetchStep(f) \/ FetchFails(f) \/ Load(f)
    PROVE  WholeInv'
<1>1. good' = good /\ current' = current /\ stream' = stream /\ finisher' = finisher /\ cancel' = cancel
  BY DEF FetchStep, FetchStart, FetchJoined, FetchTake, FetchAdmitted, FetchGivesUp, FetchLands,
         FetchLogs, FetchLeaves, FetchFails, Load, files, user
<1>2. CASE FetchLands(f)
  <2>1. disk'.final = Fetched /\ disk'.part = disk.part /\ row' = row /\ Fetched # None
    BY <1>2, LimitAssumption DEF FetchLands, WholeInv, DiskShape, Fetched, None
  <2>2. Judged'
    BY <1>1 DEF WholeInv, Judged
  <2>3. Named'
    BY <1>1, <2>1 DEF WholeInv, Named
  <2>4. ASSUME ~cancel'.used PROVE Alone'
    BY <1>1, <2>1, <2>4 DEF WholeInv, Alone, Good, Pending, Runs
  <2> QED
    BY <2>2, <2>3, <2>4 DEF WholeInv
<1>3. CASE ~FetchLands(f)
  <2>1. disk' = disk
    BY <1>3 DEF FetchStep, FetchStart, FetchJoined, FetchTake, FetchAdmitted, FetchGivesUp,
                FetchLogs, FetchLeaves, FetchFails, Load, files
  <2>2. row' => row \/ disk.final # None
    <3>1. row' = row \/ FetchLogs(f)
      BY <1>3 DEF FetchStep, FetchStart, FetchJoined, FetchTake, FetchAdmitted, FetchGivesUp,
                  FetchLeaves, FetchFails, Load, files
    <3>2. FetchLogs(f) => disk.final # None
      BY DEF FetchLogs, WholeInv, Named
    <3> QED
      BY <3>1, <3>2
  <2>3. \A g \in Fetches : fetch'[g].pc = "log" => fetch[g].pc = "log"
    <3> USE DEF Shape, FetchShape, Calls
    <3>1. CASE FetchStart(f)
      BY <3>1 DEF FetchStart
    <3>2. CASE FetchJoined(f)
      BY <3>2 DEF FetchJoined
    <3>3. CASE FetchTake(f)
      BY <3>3 DEF FetchTake
    <3>4. CASE FetchAdmitted(f)
      BY <3>4 DEF FetchAdmitted
    <3>5. CASE FetchGivesUp(f)
      BY <3>5 DEF FetchGivesUp
    <3>6. CASE FetchFails(f)
      BY <3>6 DEF FetchFails
    <3>7. CASE FetchLogs(f)
      BY <3>7 DEF FetchLogs
    <3>8. CASE FetchLeaves(f)
      BY <3>8 DEF FetchLeaves
    <3>9. CASE Load(f)
      BY <3>9 DEF Load
    <3> QED
      BY <1>3, <3>1, <3>2, <3>3, <3>4, <3>5, <3>6, <3>7, <3>8, <3>9 DEF FetchStep
  <2>4. GoesOn
    BY <1>1, <2>1, <2>2, <2>3 DEF GoesOn, WholeInv, Alone
  <2> QED
    BY <2>4, GoesOnWhole
<1> QED
  BY <1>2, <1>3

LEMMA CancelGoesOn ==
    ASSUME Shape, WholeInv, Born, CancelLook \/ CancelStep \/ UNCHANGED vars
    PROVE  GoesOn
<1>1. disk' = disk /\ good' = good /\ row' = row
  BY DEF CancelLook, CancelStep, CancelDrop, CancelClose, CancelEnd, vars, files
<1>2. \A f \in Fetches : fetch'[f].pc = "log" => fetch[f].pc = "log"
  <2>1. fetch' = fetch \/ \E g : fetch' = [fetch EXCEPT ![g].cancelled = TRUE]
    BY DEF CancelLook, CancelStep, CancelDrop, CancelClose, CancelEnd, vars
  <2> QED
    BY <2>1 DEF Shape, FetchShape
<1>3. ~cancel'.used => ~cancel.used /\ current' = current /\ cancel'.pc = "none"
  <2>1. CASE CancelLook
    BY <2>1 DEF CancelLook, WholeInv, DiskShape
  <2>2. CASE CancelStep
    <3>1. cancel.pc # "none" /\ cancel'.used = cancel.used
      BY <2>2 DEF CancelStep, CancelDrop, CancelClose, CancelEnd, WholeInv, DiskShape
    <3> QED
      BY <3>1 DEF WholeInv, Alone
  <2>3. CASE UNCHANGED vars
    BY <2>3 DEF vars, WholeInv, Alone
  <2> QED
    BY <2>1, <2>2, <2>3
<1>4. CASE stream' = stream /\ finisher' = finisher
  BY <1>1, <1>2, <1>3, <1>4 DEF GoesOn
<1>5. CASE Close(cancel.victim)
  <2>1. /\ Closes(cancel.victim)
        /\ \A t \in Streams : finisher'[t].pc =
             IF t = cancel.victim /\ stream[t].ended = "no" THEN "begin" ELSE finisher[t].pc
    BY <1>5, CloseCloses DEF WholeInv
  <2>2. \A t \in Streams : t = cancel.victim => stream[t].pc # "unborn"
    BY Kinds DEF Born, Known, Who
  <2> QED
    BY <1>1, <1>2, <1>3, <2>1, <2>2 DEF GoesOn, Closes
<1> QED
  BY <1>4, <1>5 DEF CancelLook, CancelStep, CancelDrop, CancelClose, CancelEnd, vars

LEMMA CrashWhole ==
    ASSUME Shape, Born, WholeInv, DiskShape', Crash
    PROVE  WholeInv'
<1>1. /\ UNCHANGED <<disk, good, row>> /\ cancel'.pc = "none" /\ cancel'.used = cancel.used
      /\ \A f \in Fetches : fetch'[f].pc # "log"
      /\ \A t \in Streams : finisher'[t].pc = "none"
  BY DEF Crash, files, Shape, FinisherShape, FetchShape, CancelShape, WholeInv, DiskShape
<1>2. ASSUME NEW t \in Streams
      PROVE  \/ stream[t].pc = "unborn" /\ stream'[t] = stream[t] /\ stream[t].ended = "no"
             \/ /\ stream[t].pc # "unborn" /\ stream'[t].pc = "over" /\ stream'[t].ended = "cancelled"
                /\ stream'[t].file = stream[t].file
  <2>1. stream[t].pc = "unborn" => t \notin Known
    BY Kinds DEF Known, Who
  <2> QED
    BY <2>1 DEF Crash, Shape, StreamShape, WholeInv, DiskShape, Born
<1>3. Judged'
  BY <1>1, <1>2 DEF WholeInv, Judged, AtWork, Verdicts
<1>4. Named'
  BY <1>1, <1>2 DEF WholeInv, Named
<1>5. ASSUME ~cancel'.used PROVE Alone'
  <2>1. Alone
    BY <1>1, <1>5 DEF WholeInv
  <2>2. \A t \in Streams : ~Pending(t)'
    BY <1>1, <1>2 DEF Pending, Runs
  <2> QED
    BY <1>1, <2>1, <2>2 DEF Alone, Good
<1> QED
  BY <1>3, <1>4, <1>5 DEF WholeInv

LEMMA WholeStep == Shape /\ Born /\ Fresh /\ WholeInv /\ [Next]_vars => WholeInv'
<1> SUFFICES ASSUME Shape, Born, Fresh, WholeInv, [Next]_vars PROVE WholeInv'
  OBVIOUS
<1>1. DiskShape'
  BY DiskShapeStep DEF WholeInv
<1>2. ASSUME NEW r \in Requests, RequestStep(r) \/ StreamGivesUp(r) \/ StartFails(r) \/ PlayerLeaves(r)
      PROVE  WholeInv'
  BY <1>1, <1>2, RequestGoesOn, GoesOnWhole, StartWhole
<1>3. ASSUME NEW s \in Streams, LoopStep(s) \/ RangeFails(s) \/ RangeIgnored(s) PROVE WholeInv'
  BY <1>1, <1>3, LoopWhole
<1>4. ASSUME NEW s \in Streams, FinishStep(s) PROVE WholeInv'
  BY <1>1, <1>4, FinishLookWhole, FinishRenameWhole, RecoverDropWhole, FinishGoesOn, GoesOnWhole
     DEF FinishStep
<1>5. ASSUME NEW f \in Fetches, FetchStep(f) \/ FetchFails(f) \/ Load(f) PROVE WholeInv'
  BY <1>1, <1>5, FetchWhole
<1>6. CASE CancelLook \/ CancelStep \/ UNCHANGED vars
  BY <1>1, <1>6, CancelGoesOn, GoesOnWhole
<1>7. CASE Crash
  BY <1>1, <1>7, CrashWhole
<1> QED
  BY <1>2, <1>3, <1>4, <1>5, <1>6, <1>7 DEF Next, Fetches

(* The file a row points to is the message's media, whole, unless the user  *)
(* cancelled: finishStream renames the part file by name, and it is still   *)
(* its stream's because a new one can begin only when the entry is gone,    *)
(* which only a cancel takes from a stream that verified (run, finishStream, *)
(* recover).                                                                *)
THEOREM RowStaysWhole == Spec => []RowIsWhole
<1>1. Shape /\ Born /\ Fresh /\ WholeInv /\ [Next]_vars => WholeInv'
  BY WholeStep
<1> QED
  BY <1>1, InitShape, InitBorn, InitFresh, InitWhole, ShapeStep, BornStep, FreshStep, WholeRow, PTL DEF Spec
=============================================================================
