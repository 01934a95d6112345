----------------------------- MODULE WindowProofs -----------------------------
(* Proofs about a window: nothing follows the answer to an unsubscribe, and *)
(* as long as no read fails the frontend's copy replays to what was sent    *)
(* and stays within what it asked for.                                      *)
EXTENDS Window, FiniteSetTheorems, SequenceTheorems, WellFoundedInduction, TLAPS

(* What the frontend f goes through as it takes the frames q.               *)
Course(h, f, q) ==
    /\ h \in [0..Len(q) -> Fronts] /\ h[0] = f
    /\ \A k \in 1..Len(q) : h[k] = Delivered(h[k - 1], q[k])

Answers == [kind : {"subscribed", "done", "refused", "bye"}]

(* The copy an update leaves.                                               *)
Shows(f, u) == Over(u.changes, IF u.reset \/ f.fresh THEN Nothing ELSE f.copy)

-----------------------------------------------------------------------------
(* Induction, and what a course is. *)

LEMMA Smallest ==
    ASSUME NEW n \in Nat, NEW S \in SUBSET (1..n), S # {}
    PROVE  \E m \in S : \A k \in S : m <= k
<1>. DEFINE T == {1..i : i \in S}
            R == StrictSubsetOrdering(1..n)
<1>1. FiniteSubsetsOf(1..n) = SUBSET (1..n)
  <2>1. IsFiniteSet(1..n)
    BY FS_Interval, 1 \in Int, n \in Int
  <2>. QED
    BY <2>1, FS_FiniteSubsetsOfFinite
<1>2. T \subseteq SUBSET (1..n) /\ T # {}
  <2>1. \A i \in S : 1..i \subseteq 1..n
    <3>1. \A i \in S : i \in Nat /\ i <= n
      OBVIOUS
    <3>. QED
      BY <3>1
  <2>. QED
    BY <2>1
<1>3. PICK x \in T : \A y \in T : ~(<<y, x>> \in R)
  <2>1. IsWellFoundedOn(R, SUBSET (1..n))
    BY <1>1, FS_StrictSubsetOrderingWellFounded
  <2>. HIDE DEF T, R
  <2>. QED
    BY <1>2, <2>1, WFMin
<1>4. PICK m \in S : x = 1..m
  OBVIOUS
<1>5. ASSUME NEW k \in S, k < m PROVE FALSE
  <2>1. 1..k \subseteq 1..m /\ 1..k # 1..m /\ 1..k \in SUBSET (1..n) /\ 1..m \in SUBSET (1..n)
    <3>1. m \notin 1..k /\ m \in 1..m
      BY <1>5
    <3>. QED
      BY <1>5, <3>1
  <2>2. <<1..k, x>> \in R
    BY <1>4, <2>1 DEF StrictSubsetOrdering
  <2>. QED
    BY <1>3, <2>2
<1>. QED
  BY <1>5

LEMMA Induct ==
    ASSUME NEW n \in Nat, NEW S, 0 \in S, \A k \in 1..n : k - 1 \in S => k \in S
    PROVE  \A k \in 0..n : k \in S
<1>. DEFINE Out == {k \in 1..n : k \notin S}
<1>1. CASE Out = {}
  <2>1. \A k \in 1..n : k \in S
    BY <1>1
  <2>. QED
    BY <2>1
<1>2. CASE Out # {}
  <2>1. PICK m \in Out : \A k \in Out : m <= k
    BY <1>2, Smallest
  <2>2. m \in 1..n /\ m \notin S /\ m - 1 \in 0..n
    BY <2>1
  <2>3. m - 1 \notin S
    BY <2>2
  <2>4. m - 1 \in 1..n
    BY <2>2, <2>3
  <2>5. m - 1 \in Out
    BY <2>3, <2>4
  <2>. QED
    BY <2>1, <2>2, <2>5
<1>. QED
  BY <1>1, <1>2

LEMMA Kinds ==
    /\ \A e \in Frames : IsUpdate(e) <=> e \in Updates
    /\ \A e \in Frames : ~IsUpdate(e) <=> e \in Answers
    /\ Updates \subseteq Frames /\ Answers \subseteq Frames
BY DEF IsUpdate, Frames, Updates, Answers

(* Contents. *)
LEMMA NothingIs == Nothing \in Contents /\ \A i \in Items : Nothing[i] = 0
BY ItemAssumption DEF Nothing, Contents

LEMMA ChangesAre ==
    \A d \in Changes : DOMAIN d \subseteq Items /\ \A i \in DOMAIN d : d[i] \in 0..MaxVersion
BY DEF Changes

LEMMA OverIs ==
    ASSUME NEW d \in Changes, NEW c \in Contents
    PROVE  Over(d, c) \in Contents
BY ChangesAre DEF Over, Contents

LEMMA NoChangeIs == << >> \in Changes /\ DOMAIN << >> = {} /\ \A c \in Contents : Over(<< >>, c) = c
<1>1. << >> = [i \in {} |-> 0] /\ DOMAIN << >> = {}
  OBVIOUS
<1>2. << >> \in [{} -> 0..MaxVersion]
  BY <1>1
<1>. QED
  BY <1>1, <1>2 DEF Over, Contents, Changes

(* A difference takes the one content to the other. *)
LEMMA DiffIs ==
    ASSUME NEW c \in Contents, NEW d \in Contents
    PROVE  /\ Diff(c, d) \in Changes /\ Over(Diff(c, d), c) = d
           /\ DOMAIN Diff(c, d) = {} => c = d
<1>1. Diff(c, d) \in [{j \in Items : c[j] # d[j]} -> 0..MaxVersion]
  BY DEF Diff, Contents
<1>2. Diff(c, d) \in Changes
  BY <1>1 DEF Changes
<1>3. Over(Diff(c, d), c) = d
  BY DEF Over, Diff, Contents
<1>. QED
  BY <1>2, <1>3 DEF Diff, Contents

LEMMA Twice ==
    ASSUME NEW c \in Contents, NEW w \in Updates, NEW u \in Updates
    PROVE  /\ Merged(w, u) \in Updates /\ Merged(w, u).reset = w.reset
           /\ Over(Merged(w, u).changes, c) = Over(u.changes, Over(w.changes, c))
<1>. DEFINE m == [i \in DOMAIN w.changes \cup DOMAIN u.changes |->
                    IF i \in DOMAIN u.changes THEN u.changes[i] ELSE w.changes[i]]
<1>1. w.changes \in Changes /\ u.changes \in Changes
  BY DEF Updates
<1>2. m \in [DOMAIN w.changes \cup DOMAIN u.changes -> 0..MaxVersion]
  BY <1>1, ChangesAre
<1>3. m \in Changes
  BY <1>1, <1>2, ChangesAre DEF Changes
<1>4. Merged(w, u).changes = m /\ Merged(w, u).reset = w.reset /\ Merged(w, u).kind = "update"
  BY DEF Merged, Updates
<1>5. Merged(w, u) \in Updates
  BY <1>3 DEF Merged, Updates
<1>6. Over(m, c) = Over(u.changes, Over(w.changes, c))
  BY <1>1, ChangesAre DEF Over
<1>. QED
  BY <1>4, <1>5, <1>6

-----------------------------------------------------------------------------
(* What the frontend does with a frame. *)

LEMMA Answered ==
    ASSUME NEW f \in Fronts, NEW e \in Answers,
           e.kind = "done" /\ f.state # "closed" => f.limit + 1 <= Cap
    PROVE  /\ Delivered(f, e) \in Fronts /\ Delivered(f, e).copy = f.copy
           /\ f.state = "closed" => Delivered(f, e) = f
           /\ f.state # "closed" =>
                /\ e.kind = "subscribed" => /\ Delivered(f, e).state = "open" /\ Delivered(f, e).fresh
                                            /\ Delivered(f, e).limit = Limit0
                /\ e.kind = "done" => Delivered(f, e).limit = f.limit + 1
                /\ e.kind \in {"refused", "bye"} => Delivered(f, e) = f
                /\ e.kind # "subscribed" =>
                     Delivered(f, e).state = f.state /\ Delivered(f, e).fresh = f.fresh
<1>1. f.state = "closed" \/ e.kind \in {"refused", "bye"} => Delivered(f, e) = f
  BY DEF Delivered
<1>2. CASE f.state # "closed" /\ e.kind = "subscribed"
  <2>1. Delivered(f, e) = [f EXCEPT !.state = "open", !.fresh = TRUE, !.asked = TRUE, !.limit = Limit0]
    BY <1>2 DEF Delivered
  <2>2. Limit0 \in Limit0..Cap
    BY SizeAssumption
  <2>. QED
    BY <1>2, <2>1, <2>2 DEF Fronts
<1>3. CASE f.state # "closed" /\ e.kind = "done"
  <2>1. Delivered(f, e) = [f EXCEPT !.limit = @ + 1, !.asked = TRUE]
    BY <1>3 DEF Delivered
  <2>2. f.limit + 1 \in Limit0..Cap
    BY <1>3, SizeAssumption DEF Fronts
  <2>. QED
    BY <1>3, <2>1, <2>2 DEF Fronts
<1>4. CASE f.state = "closed" \/ e.kind \in {"refused", "bye"}
  BY <1>1, <1>4
<1>. QED
  BY <1>2, <1>3, <1>4 DEF Answers

LEMMA Showed ==
    ASSUME NEW f \in Fronts, NEW u \in Updates
    PROVE  /\ Delivered(f, u) \in Fronts /\ Shows(f, u) \in Contents
           /\ Delivered(f, u).state = f.state /\ Delivered(f, u).limit = f.limit
           /\ f.state = "closed" => Delivered(f, u) = f
           /\ f.state # "closed" => ~Delivered(f, u).fresh /\ Delivered(f, u).copy = Shows(f, u)
<1>1. u.changes \in Changes /\ u.reset \in BOOLEAN /\ u.kind = "update" /\ u.ready \in BOOLEAN
  BY DEF Updates
<1>2. f.copy \in Contents /\ f.fresh \in BOOLEAN
  BY DEF Fronts
<1>3. Shows(f, u) \in Contents
  BY <1>1, <1>2, OverIs, NothingIs DEF Shows
<1>4. Applied(f.copy, [u EXCEPT !.reset = @ \/ f.fresh]) = Shows(f, u)
  <2>1. [u EXCEPT !.reset = @ \/ f.fresh].changes = u.changes
    BY DEF Updates
  <2>2. [u EXCEPT !.reset = @ \/ f.fresh].reset = (u.reset \/ f.fresh)
    BY DEF Updates
  <2>. QED
    BY <2>1, <2>2 DEF Applied, Shows
<1>5. CASE f.state = "closed"
  BY <1>3, <1>5 DEF Delivered
<1>6. CASE f.state # "closed"
  <2>1. Delivered(f, u) = [f EXCEPT !.copy = Shows(f, u), !.fresh = FALSE, !.asked = @ /\ ~u.ready]
    BY <1>1, <1>4, <1>6 DEF Delivered
  <2>. QED
    BY <1>1, <1>2, <1>3, <1>6, <2>1 DEF Fronts
<1>. QED
  BY <1>5, <1>6

(* Which updates are open to merging is no matter to it. *)
LEMMA SealedSame ==
    ASSUME NEW f \in Fronts, NEW u \in Updates
    PROVE  [u EXCEPT !.open = FALSE] \in Updates /\ Delivered(f, [u EXCEPT !.open = FALSE]) = Delivered(f, u)
<1>1. [u EXCEPT !.open = FALSE] \in Updates
  BY DEF Updates
<1>2. /\ [u EXCEPT !.open = FALSE].changes = u.changes /\ [u EXCEPT !.open = FALSE].ready = u.ready
      /\ [u EXCEPT !.open = FALSE].reset = u.reset /\ [u EXCEPT !.open = FALSE].kind = u.kind
  BY DEF Updates
<1>3. Applied(f.copy, [[u EXCEPT !.open = FALSE] EXCEPT !.reset = @ \/ f.fresh])
        = Applied(f.copy, [u EXCEPT !.reset = @ \/ f.fresh])
  BY DEF Updates, Applied
<1>. QED
  BY <1>1, <1>2, <1>3 DEF Delivered

-----------------------------------------------------------------------------
(* Courses. *)

LEMMA CourseOne ==
    ASSUME NEW q \in Seq(Frames), NEW f, NEW h, NEW g, Course(h, f, q), Course(g, f, q)
    PROVE  h = g
<1>1. Len(q) \in Nat
  OBVIOUS
<1>. DEFINE S == {k \in 0..Len(q) : h[k] = g[k]}
<1>2. 0 \in S
  BY <1>1 DEF Course
<1>3. \A k \in 1..Len(q) : k - 1 \in S => k \in S
  BY <1>1 DEF Course
<1>4. \A k \in 0..Len(q) : k \in S
  <2>. HIDE DEF S
  <2>. QED
    BY <1>1, <1>2, <1>3, Induct
<1>. QED
  BY <1>4 DEF Course

LEMMA AfterIs ==
    ASSUME NEW q \in Seq(Frames), NEW f, NEW h, Course(h, f, q)
    PROVE  After(f, q) = h[Len(q)]
<1>1. Len(q) \in Nat
  OBVIOUS
<1>. DEFINE Step(g) == [k \in 0..Len(q) |-> IF k = 0 THEN f ELSE Delivered(g[k - 1], q[k])]
            at == CHOOSE g : g = Step(g)
<1>2. h = Step(h)
  <2>1. h \in [0..Len(q) -> Fronts]
    BY DEF Course
  <2>2. \A k \in 0..Len(q) : h[k] = IF k = 0 THEN f ELSE Delivered(h[k - 1], q[k])
    BY <1>1 DEF Course
  <2>. QED
    BY <2>1, <2>2
<1>3. at = Step(at)
  <2>. HIDE DEF Step
  <2>. QED
    BY <1>2
<1>4. After(f, q) = at[Len(q)]
  BY DEF After
<1>. HIDE DEF at
<1>5. at[0] = f /\ \A k \in 1..Len(q) : at[k] = Delivered(at[k - 1], q[k])
  <2>1. \A k \in 0..Len(q) : at[k] = IF k = 0 THEN f ELSE Delivered(at[k - 1], q[k])
    BY <1>3
  <2>. QED
    BY <1>1, <2>1
<1>. DEFINE S == {k \in 0..Len(q) : h[k] = at[k]}
<1>6. 0 \in S
  BY <1>1, <1>5 DEF Course
<1>7. \A k \in 1..Len(q) : k - 1 \in S => k \in S
  BY <1>1, <1>5 DEF Course
<1>8. \A k \in 0..Len(q) : k \in S
  <2>. HIDE DEF S
  <2>. QED
    BY <1>1, <1>6, <1>7, Induct
<1>. QED
  BY <1>1, <1>4, <1>8

(* A frame more. *)
LEMMA CourseMore ==
    ASSUME NEW q \in Seq(Frames), NEW f, NEW h, Course(h, f, q),
           NEW e \in Frames, Delivered(h[Len(q)], e) \in Fronts
    PROVE  \E g : /\ Course(g, f, Append(q, e)) /\ g[Len(q) + 1] = Delivered(h[Len(q)], e)
                  /\ \A k \in 0..Len(q) : g[k] = h[k]
<1>1. /\ Len(q) \in Nat /\ Len(Append(q, e)) = Len(q) + 1 /\ Append(q, e)[Len(q) + 1] = e
      /\ \A k \in 1..Len(q) : Append(q, e)[k] = q[k]
  OBVIOUS
<1>. DEFINE g == [k \in 0..Len(q) + 1 |-> IF k = Len(q) + 1 THEN Delivered(h[Len(q)], e) ELSE h[k]]
<1>2. g \in [0..Len(q) + 1 -> Fronts]
  BY <1>1 DEF Course
<1>3. g[0] = f /\ g[Len(q) + 1] = Delivered(h[Len(q)], e) /\ \A k \in 0..Len(q) : g[k] = h[k]
  BY <1>1 DEF Course
<1>4. \A k \in 1..Len(q) + 1 : g[k] = Delivered(g[k - 1], Append(q, e)[k])
  BY <1>1, <1>3 DEF Course
<1>5. Course(g, f, Append(q, e))
  <2>. HIDE DEF g
  <2>. QED
    BY <1>1, <1>2, <1>3, <1>4 DEF Course
<1>. QED
  BY <1>3, <1>5

(* A frame less. *)
LEMMA CourseRest ==
    ASSUME NEW q \in Seq(Frames), q # << >>, NEW f, NEW h, Course(h, f, q)
    PROVE  /\ h[1] = Delivered(f, Head(q)) /\ h[1] \in Fronts
           /\ \E g : /\ Course(g, h[1], Tail(q)) /\ Len(Tail(q)) = Len(q) - 1
                     /\ \A k \in 0..Len(Tail(q)) : g[k] = h[k + 1]
<1>1. /\ Len(q) \in Nat /\ Len(q) > 0 /\ Head(q) = q[1] /\ Tail(q) \in Seq(Frames)
      /\ Len(Tail(q)) = Len(q) - 1 /\ \A k \in 1..Len(q) - 1 : Tail(q)[k] = q[k + 1]
  <2>1. /\ Len(q) \in Nat /\ Len(q) > 0 /\ Tail(q) \in Seq(Frames) /\ Len(Tail(q)) = Len(q) - 1
    BY HeadTailProperties, EmptySeq
  <2>2. Head(q) = q[1] /\ \A k \in 1..Len(q) - 1 : Tail(q)[k] = q[k + 1]
    BY <2>1
  <2>. QED
    BY <2>1, <2>2
<1>. DEFINE g == [k \in 0..Len(q) - 1 |-> h[k + 1]]
<1>2. h[1] = Delivered(f, Head(q)) /\ h[1] \in Fronts
  BY <1>1 DEF Course
<1>3. g \in [0..Len(q) - 1 -> Fronts] /\ g[0] = h[1]
  BY <1>1 DEF Course
<1>4. \A k \in 1..Len(q) - 1 : g[k] = Delivered(g[k - 1], Tail(q)[k])
  <2>. TAKE k \in 1..Len(q) - 1
  <2>1. k + 1 \in 1..Len(q) /\ k - 1 \in 0..Len(q) - 1 /\ (k - 1) + 1 = k /\ (k + 1) - 1 = k
    BY <1>1
  <2>2. g[k] = h[k + 1] /\ g[k - 1] = h[k]
    BY <1>1, <2>1
  <2>3. h[k + 1] = Delivered(h[k], q[k + 1])
    BY <2>1 DEF Course
  <2>. QED
    BY <1>1, <2>2, <2>3
<1>5. Course(g, h[1], Tail(q))
  <2>. HIDE DEF g
  <2>. QED
    BY <1>1, <1>3, <1>4 DEF Course
<1>6. \A k \in 0..Len(Tail(q)) : g[k] = h[k + 1]
  BY <1>1
<1>. QED
  BY <1>1, <1>2, <1>5, <1>6

(* The last frame another. *)
LEMMA CourseOther ==
    ASSUME NEW q \in Seq(Frames), q # << >>, NEW f, NEW h, Course(h, f, q),
           NEW e \in Frames, Delivered(h[Len(q) - 1], e) \in Fronts
    PROVE  \E g : /\ Course(g, f, [q EXCEPT ![Len(q)] = e])
                  /\ g[Len(q)] = Delivered(h[Len(q) - 1], e)
                  /\ \A k \in 0..Len(q) - 1 : g[k] = h[k]
<1>1. Len(q) \in Nat /\ Len(q) > 0
  BY EmptySeq
<1>. DEFINE p == [q EXCEPT ![Len(q)] = e]
            g == [h EXCEPT ![Len(q)] = Delivered(h[Len(q) - 1], e)]
<1>2. Len(p) = Len(q) /\ p[Len(q)] = e /\ \A k \in 1..Len(q) - 1 : p[k] = q[k]
  BY <1>1
<1>3. /\ g \in [0..Len(q) -> Fronts] /\ g[Len(q)] = Delivered(h[Len(q) - 1], e)
      /\ \A k \in 0..Len(q) - 1 : g[k] = h[k]
  BY <1>1 DEF Course
<1>. HIDE DEF g, p
<1>4. g[0] = f /\ \A k \in 1..Len(q) : g[k] = Delivered(g[k - 1], p[k])
  <2>1. g[0] = f /\ g[Len(q)] = Delivered(g[Len(q) - 1], p[Len(q)])
    BY <1>1, <1>2, <1>3 DEF Course
  <2>2. ASSUME NEW k \in 1..Len(q) - 1 PROVE g[k] = Delivered(g[k - 1], p[k])
    <3>1. g[k] = h[k] /\ g[k - 1] = h[k - 1] /\ p[k] = q[k] /\ k \in 1..Len(q)
      BY <1>1, <1>2, <1>3
    <3>. QED
      BY <3>1 DEF Course
  <2>. QED
    BY <1>1, <2>1, <2>2
<1>5. Course(g, f, p)
  <2>. QED
    BY <1>2, <1>3, <1>4 DEF Course
<1>. QED
  BY <1>3, <1>5 DEF p

(* The same frames, but for what is open to merging. *)
LEMMA CourseSealed ==
    ASSUME NEW q \in Seq(Frames), NEW f, NEW h, Course(h, f, q)
    PROVE  Course(h, f, [k \in DOMAIN q |->
                           IF IsUpdate(q[k]) THEN [q[k] EXCEPT !.open = FALSE] ELSE q[k]])
<1>. DEFINE p == [k \in DOMAIN q |-> IF IsUpdate(q[k]) THEN [q[k] EXCEPT !.open = FALSE] ELSE q[k]]
<1>1. Len(q) \in Nat /\ DOMAIN q = 1..Len(q) /\ \A k \in 1..Len(q) : q[k] \in Frames
  OBVIOUS
<1>2. Len(p) = Len(q)
  BY <1>1
<1>3. \A k \in 1..Len(q) : Delivered(h[k - 1], p[k]) = Delivered(h[k - 1], q[k])
  <2>. TAKE k \in 1..Len(q)
  <2>1. h[k - 1] \in Fronts
    BY <1>1 DEF Course
  <2>. QED
    BY <1>1, <2>1, Kinds, SealedSame
<1>. HIDE DEF p
<1>. QED
  BY <1>2, <1>3 DEF Course, p

-----------------------------------------------------------------------------
(* What a purge leaves: the answers, first the first, and for the frontend  *)
(* the same state and limit.                                                *)

Next1(q, kept, k) == IF IsUpdate(q[k]) THEN kept[k - 1] ELSE Append(kept[k - 1], q[k])
Keeps(kept, q, n) ==
    /\ kept \in [0..n -> Seq(Answers)] /\ kept[0] = << >>
    /\ \A k \in 1..n : kept[k] = Next1(q, kept, k)

LEMMA KeepsOn ==
    ASSUME NEW q \in Seq(Frames), NEW n \in 1..Len(q), NEW kept, Keeps(kept, q, n - 1)
    PROVE  \E g : Keeps(g, q, n)
<1>1. n \in Nat /\ n - 1 \in 0..n - 1 /\ kept[n - 1] \in Seq(Answers) /\ q[n] \in Frames
  BY DEF Keeps
<1>2. Next1(q, kept, n) \in Seq(Answers)
  BY <1>1, Kinds DEF Next1
<1>. DEFINE g == [k \in 0..n |-> IF k = n THEN Next1(q, kept, n) ELSE kept[k]]
<1>3. g \in [0..n -> Seq(Answers)]
  BY <1>1, <1>2 DEF Keeps
<1>4. g[n] = Next1(q, kept, n) /\ g[0] = << >> /\ \A k \in 0..n - 1 : g[k] = kept[k]
  BY <1>1 DEF Keeps
<1>. HIDE DEF g
<1>5. ASSUME NEW k \in 1..n PROVE g[k] = Next1(q, g, k)
  <2>1. g[k - 1] = kept[k - 1]
    BY <1>1, <1>4
  <2>2. CASE k = n
    BY <1>4, <2>1, <2>2 DEF Next1
  <2>3. CASE k # n
    <3>1. k \in 1..n - 1
      BY <1>1, <2>3
    <3>. QED
      BY <1>1, <1>4, <2>1, <3>1, SMTT(30) DEF Keeps, Next1
  <2>. QED
    BY <2>2, <2>3
<1>. QED
  BY <1>3, <1>4, <1>5 DEF Keeps

LEMMA KeptIs ==
    ASSUME NEW q \in Seq(Frames)
    PROVE  \E kept : Keeps(kept, q, Len(q)) /\ Responses(q) = kept[Len(q)]
<1>1. Len(q) \in Nat
  OBVIOUS
<1>. DEFINE S == {n \in 0..Len(q) : \E g : Keeps(g, q, n)}
<1>2. 0 \in S
  <2>. DEFINE g == [k \in 0..0 |-> << >>]
  <2>1. Keeps(g, q, 0)
    <3>1. << >> \in Seq(Answers)
      OBVIOUS
    <3>. QED
      BY <3>1 DEF Keeps
  <2>. QED
    BY <1>1, <2>1
<1>3. \A n \in 1..Len(q) : n - 1 \in S => n \in S
  BY <1>1, KeepsOn
<1>4. PICK kept : Keeps(kept, q, Len(q))
  <2>. HIDE DEF S
  <2>1. \A k \in 0..Len(q) : k \in S
    BY <1>1, <1>2, <1>3, Induct
  <2>2. Len(q) \in S
    BY <1>1, <2>1
  <2>. QED
    BY <2>2 DEF S
<1>. DEFINE Step(g) == [k \in 0..Len(q) |->
                          IF k = 0 THEN << >>
                          ELSE IF IsUpdate(q[k]) THEN g[k - 1] ELSE Append(g[k - 1], q[k])]
            at == CHOOSE g : g = Step(g)
<1>5. kept = Step(kept)
  <2>1. \A k \in 0..Len(q) : kept[k] = IF k = 0 THEN << >> ELSE Next1(q, kept, k)
    BY <1>1, <1>4 DEF Keeps
  <2>. QED
    BY <1>4, <2>1 DEF Keeps, Next1
<1>6. at = Step(at)
  <2>. HIDE DEF Step
  <2>. QED
    BY <1>5
<1>7. Responses(q) = at[Len(q)]
  BY DEF Responses
<1>. HIDE DEF at
<1>8. at[0] = << >> /\ \A k \in 1..Len(q) : at[k] = Next1(q, at, k)
  <2>1. \A k \in 0..Len(q) : at[k] = IF k = 0 THEN << >> ELSE Next1(q, at, k)
    BY <1>6 DEF Next1
  <2>. QED
    BY <1>1, <2>1
<1>. DEFINE T == {k \in 0..Len(q) : kept[k] = at[k]}
<1>9. 0 \in T
  BY <1>1, <1>4, <1>8 DEF Keeps
<1>10. \A k \in 1..Len(q) : k - 1 \in T => k \in T
  BY <1>1, <1>4, <1>8 DEF Keeps, Next1
<1>11. Len(q) \in T
  <2>. HIDE DEF T
  <2>1. \A k \in 0..Len(q) : k \in T
    BY <1>1, <1>9, <1>10, Induct
  <2>. QED
    BY <1>1, <2>1
<1>. QED
  BY <1>4, <1>7, <1>11

(* What holds of the answers among the first n frames. *)
Fits(f) == f.state = "open" /\ ~f.fresh => Cardinality(Present(f.copy)) <= f.limit
PurgedTo(p, f, h, q, n) ==
    /\ p \in Seq(Answers) /\ Len(p) <= n
    /\ \A k \in 1..Len(p) : \E j \in k..n : p[k] = q[j]
    /\ n >= 1 /\ ~IsUpdate(q[1]) => p # << >> /\ p[1] = q[1]
    /\ \E g : /\ Course(g, f, p)
              /\ g[Len(p)].state = h[n].state /\ g[Len(p)].limit = h[n].limit
              /\ Fits(f) => \A k \in 0..Len(p) : Fits(g[k])

LEMMA FitsStill ==
    ASSUME NEW f \in Fronts, NEW e \in Answers, Fits(f),
           e.kind = "done" /\ f.state # "closed" => f.limit + 1 <= Cap
    PROVE  Fits(Delivered(f, e))
<1>1. f.limit \in Nat /\ f.limit <= f.limit + 1
  BY SizeAssumption DEF Fronts
<1>2. Cardinality(Present(f.copy)) \in Nat
  BY ItemAssumption, FS_Subset, FS_CardinalityType DEF Present
<1>. QED
  BY <1>1, <1>2, Answered DEF Fits, Answers

LEMMA PurgesOn ==
    ASSUME NEW q \in Seq(Frames), NEW f, NEW h, Course(h, f, q), NEW n \in 1..Len(q),
           NEW p, PurgedTo(p, f, h, q, n - 1)
    PROVE  PurgedTo(IF IsUpdate(q[n]) THEN p ELSE Append(p, q[n]), f, h, q, n)
<1>1. /\ n \in Nat /\ n >= 1 /\ Len(q) \in Nat /\ n - 1 \in 0..Len(q) /\ n \in 0..Len(q)
      /\ q[n] \in Frames /\ h[n] \in Fronts /\ h[n - 1] \in Fronts /\ h[n] = Delivered(h[n - 1], q[n])
  BY DEF Course
<1>2. p \in Seq(Answers) /\ p \in Seq(Frames) /\ Len(p) \in Nat /\ Len(p) <= n - 1
  BY Kinds DEF PurgedTo
<1>3. \A k \in 1..Len(p) : \E j \in k..n : p[k] = q[j]
  <2>1. \A k \in 1..Len(p) : \A j \in k..(n - 1) : j \in k..n
    BY <1>1, <1>2
  <2>. QED
    BY <2>1 DEF PurgedTo
<1>4. PICK g : /\ Course(g, f, p)
               /\ g[Len(p)].state = h[n - 1].state /\ g[Len(p)].limit = h[n - 1].limit
               /\ Fits(f) => \A k \in 0..Len(p) : Fits(g[k])
  BY DEF PurgedTo
<1>5. g[Len(p)] \in Fronts
  BY <1>2, <1>4 DEF Course
<1>6. CASE IsUpdate(q[n])
  <2>1. q[n] \in Updates
    BY <1>1, <1>6, Kinds
  <2>2. h[n].state = h[n - 1].state /\ h[n].limit = h[n - 1].limit
    BY <1>1, <2>1, Showed
  <2>3. ~IsUpdate(q[1]) => n - 1 >= 1
    BY <1>1, <1>6
  <2>. QED
    BY <1>1, <1>2, <1>3, <1>4, <1>6, <2>2, <2>3 DEF PurgedTo
<1>7. CASE ~IsUpdate(q[n])
  <2>. DEFINE e == q[n]
              r == Append(p, e)
  <2>1. e \in Answers
    BY <1>1, <1>7, Kinds
  <2>2. e.kind = "done" /\ h[n - 1].state # "closed" => h[n - 1].limit + 1 <= Cap
    <3>. SUFFICES ASSUME e.kind = "done", h[n - 1].state # "closed" PROVE h[n - 1].limit + 1 <= Cap
      OBVIOUS
    <3>1. Delivered(h[n - 1], e) = [h[n - 1] EXCEPT !.limit = @ + 1, !.asked = TRUE]
      BY DEF Delivered
    <3>2. h[n].limit = h[n - 1].limit + 1
      BY <1>1, <3>1 DEF Fronts
    <3>. QED
      BY <1>1, <3>2, SizeAssumption DEF Fronts
  <2>3. e.kind = "done" /\ g[Len(p)].state # "closed" => g[Len(p)].limit + 1 <= Cap
    BY <1>4, <2>2
  <2>4. /\ Delivered(g[Len(p)], e) \in Fronts
        /\ Delivered(g[Len(p)], e).state = h[n].state /\ Delivered(g[Len(p)], e).limit = h[n].limit
    <3>. HIDE DEF e
    <3>1. h[n] = Delivered(h[n - 1], e)
      BY <1>1 DEF e
    <3>. QED
      BY <1>1, <1>4, <1>5, <2>1, <2>2, <2>3, <3>1, Answered DEF Answers
  <2>5. PICK g2 : /\ Course(g2, f, r) /\ g2[Len(p) + 1] = Delivered(g[Len(p)], e)
                  /\ \A k \in 0..Len(p) : g2[k] = g[k]
    BY <1>1, <1>2, <1>4, <2>4, CourseMore
  <2>6. Len(r) = Len(p) + 1 /\ r[Len(p) + 1] = e /\ r \in Seq(Answers) /\ \A k \in 1..Len(p) : r[k] = p[k]
    BY <1>2, <2>1
  <2>7. Fits(f) => \A k \in 0..Len(r) : Fits(g2[k])
    <3>1. Fits(f) => Fits(Delivered(g[Len(p)], e))
      <4>1. Fits(f) => Fits(g[Len(p)])
        BY <1>2, <1>4
      <4>. QED
        BY <1>5, <2>1, <2>3, <4>1, FitsStill
    <3>. QED
      BY <1>2, <1>4, <2>5, <2>6, <3>1
  <2>8. r # << >> /\ (~IsUpdate(q[1]) => r[1] = q[1])
    <3>. HIDE DEF r
    <3>1. r # << >>
      BY <1>2, <2>6
    <3>2. CASE n = 1
      <4>1. p = << >>
        <5>1. Len(p) = 0
          BY <1>2, <3>2
        <5>. QED
          BY <1>2, <5>1, EmptySeq
      <4>. QED
        BY <2>6, <3>1, <3>2, <4>1
    <3>3. CASE n # 1
      <4>1. ~IsUpdate(q[1]) => p # << >> /\ p[1] = q[1]
        BY <1>1, <3>3 DEF PurgedTo
      <4>2. p # << >> => 1 \in 1..Len(p)
        BY <1>2, EmptySeq
      <4>. QED
        BY <2>6, <3>1, <4>1, <4>2
    <3>. QED
      BY <3>2, <3>3
  <2>9. Len(r) <= n /\ \A k \in 1..Len(r) : \E j \in k..n : r[k] = q[j]
    <3>. HIDE DEF r
    <3>1. r[Len(p) + 1] = q[n] /\ n \in (Len(p) + 1)..n
      BY <1>1, <1>2, <2>6
    <3>. QED
      BY <1>2, <1>3, <2>6, <3>1
  <2>10. /\ g2[Len(r)].state = h[n].state /\ g2[Len(r)].limit = h[n].limit
    BY <2>4, <2>5, <2>6
  <2>. HIDE DEF r, e
  <2>11. PurgedTo(r, f, h, q, n)
    BY <2>5, <2>6, <2>7, <2>8, <2>9, <2>10 DEF PurgedTo
  <2>. QED
    BY <1>7, <2>11 DEF r, e
<1>. QED
  BY <1>6, <1>7

LEMMA PurgeIs ==
    ASSUME NEW q \in Seq(Frames), NEW f \in Fronts, NEW h, Course(h, f, q)
    PROVE  PurgedTo(Responses(q), f, h, q, Len(q))
<1>1. PICK kept : Keeps(kept, q, Len(q)) /\ Responses(q) = kept[Len(q)]
  BY KeptIs
<1>2. Len(q) \in Nat
  OBVIOUS
<1>. DEFINE S == {n \in 0..Len(q) : PurgedTo(kept[n], f, h, q, n)}
<1>3. 0 \in S
  <2>1. kept[0] = << >> /\ << >> \in Seq(Answers) /\ Len(<< >>) = 0 /\ h[0] = f
    BY <1>1 DEF Keeps, Course
  <2>. DEFINE g == [k \in 0..0 |-> f]
  <2>2. Course(g, f, << >>) /\ g[0] = f
    BY DEF Course
  <2>3. \A k \in 0..Len(<< >>) : g[k] = f
    OBVIOUS
  <2>. HIDE DEF g
  <2>4. PurgedTo(<< >>, f, h, q, 0)
    BY <2>1, <2>2, <2>3 DEF PurgedTo
  <2>. QED
    BY <1>2, <2>1, <2>4
<1>4. \A n \in 1..Len(q) : n - 1 \in S => n \in S
  <2>. SUFFICES ASSUME NEW n \in 1..Len(q), n - 1 \in S PROVE n \in S
    OBVIOUS
  <2>1. kept[n] = IF IsUpdate(q[n]) THEN kept[n - 1] ELSE Append(kept[n - 1], q[n])
    BY <1>1 DEF Keeps, Next1
  <2>2. PurgedTo(kept[n], f, h, q, n)
    BY <2>1, PurgesOn
  <2>. QED
    BY <1>2, <2>2
<1>5. Len(q) \in S
  <2>. HIDE DEF S
  <2>1. \A k \in 0..Len(q) : k \in S
    BY <1>2, <1>3, <1>4, Induct
  <2>. QED
    BY <1>2, <2>1
<1>. QED
  BY <1>1, <1>5

-----------------------------------------------------------------------------
(* The first n items are n at most. *)

LEMMA FirstIs ==
    ASSUME NEW c \in Contents, NEW n \in Nat
    PROVE  First(c, n) \in Contents /\ Cardinality(Present(First(c, n))) <= n
<1>. DEFINE P == Present(c)
            upto(i) == {j \in P : j <= i}
            rank(i) == Cardinality(upto(i))
            Q == {i \in P : rank(i) <= n}
<1>1. IsFiniteSet(P) /\ P \subseteq Nat
  BY ItemAssumption, FS_Subset DEF Present
<1>2. First(c, n) \in Contents /\ Present(First(c, n)) = Q
  BY ItemAssumption DEF First, Present, Contents
<1>3. \A i \in Nat : upto(i) \subseteq P /\ IsFiniteSet(upto(i)) /\ rank(i) \in Nat
  BY <1>1, FS_Subset, FS_CardinalityType
<1>4. CASE Q = {}
  <2>. HIDE DEF Q, P
  <2>. QED
    BY <1>2, <1>4, FS_EmptySet
<1>5. CASE Q # {}
  <2>. DEFINE D == {n + 1 - rank(i) : i \in Q}
  <2>1. \A i \in Q : rank(i) \in Nat /\ rank(i) <= n /\ i \in Nat /\ i \in P
    BY <1>1, <1>3
  <2>. HIDE DEF rank, Q
  <2>2. D \in SUBSET (1..(n + 1)) /\ D # {} /\ n + 1 \in Nat
    BY <1>5, <2>1
  <2>3. PICK m \in D : \A k \in D : m <= k
    <3>. HIDE DEF D
    <3>. QED
      BY <2>2, Smallest
  <2>4. PICK i \in Q : m = n + 1 - rank(i)
    BY <2>3
  <2>5. \A j \in Q : rank(j) <= rank(i)
    <3>. TAKE j \in Q
    <3>1. n + 1 - rank(i) <= n + 1 - rank(j)
      BY <2>3, <2>4
    <3>. QED
      BY <2>1, <3>1
  <2>6. ASSUME NEW j \in Q PROVE j <= i
    <3>. SUFFICES ASSUME i < j PROVE FALSE
      BY <2>1, <2>4
    <3>1. upto(i) \subseteq upto(j) /\ upto(i) # upto(j)
      <4>1. j \in upto(j) /\ j \notin upto(i)
        BY <2>1, <2>4
      <4>2. \A k \in upto(i) : k \in upto(j)
        BY <1>1, <2>1, <2>4
      <4>. QED
        BY <4>1, <4>2
    <3>2. rank(i) < rank(j)
      <4>1. IsFiniteSet(upto(j)) /\ i \in Nat /\ j \in Nat
        BY <1>3, <2>1, <2>4
      <4>. HIDE DEF upto
      <4>. QED
        <5>1. rank(i) <= rank(j) /\ rank(i) # rank(j)
          BY <3>1, <4>1, FS_Subset DEF rank
        <5>2. rank(i) \in Nat /\ rank(j) \in Nat
          BY <2>1, <2>4
        <5>. QED
          BY <5>1, <5>2
    <3>. QED
      BY <1>3, <2>1, <2>4, <2>5, <3>2
  <2>7. Q \subseteq upto(i) /\ i \in Nat
    BY <2>1, <2>4, <2>6
  <2>8. Cardinality(Q) <= rank(i) /\ Cardinality(Q) \in Nat
    <3>1. IsFiniteSet(upto(i))
      BY <1>3, <2>7
    <3>. HIDE DEF upto
    <3>. QED
      BY <2>7, <3>1, FS_Subset, FS_CardinalityType DEF rank
  <2>. QED
    BY <1>2, <2>1, <2>4, <2>8
<1>. QED
  BY <1>4, <1>5

-----------------------------------------------------------------------------
(* The queue. *)

OpenIn(q) == {k \in DOMAIN q : IsUpdate(q[k]) /\ q[k].open}
Sealed(q) == [k \in DOMAIN q |-> IF IsUpdate(q[k]) THEN [q[k] EXCEPT !.open = FALSE] ELSE q[k]]

LEMMA SealedIs ==
    ASSUME NEW q \in Seq(Frames)
    PROVE  /\ Sealed(q) \in Seq(Frames) /\ Len(Sealed(q)) = Len(q) /\ OpenIn(Sealed(q)) = {}
           /\ \A k \in 1..Len(q) : Sealed(q)[k].kind = q[k].kind
<1>1. Len(q) \in Nat /\ DOMAIN q = 1..Len(q) /\ \A k \in 1..Len(q) : q[k] \in Frames
  OBVIOUS
<1>2. \A e \in Updates : /\ [e EXCEPT !.open = FALSE] \in Frames /\ ~[e EXCEPT !.open = FALSE].open
                         /\ [e EXCEPT !.open = FALSE].kind = e.kind
  BY DEF Updates, Frames
<1>3. \A k \in 1..Len(q) : /\ Sealed(q)[k] \in Frames /\ Sealed(q)[k].kind = q[k].kind
                           /\ ~(IsUpdate(Sealed(q)[k]) /\ Sealed(q)[k].open)
  <2>. TAKE k \in 1..Len(q)
  <2>1. CASE IsUpdate(q[k])
    BY <1>1, <1>2, <2>1, Kinds DEF Sealed
  <2>2. CASE ~IsUpdate(q[k])
    BY <1>1, <2>2 DEF Sealed
  <2>. QED
    BY <2>1, <2>2
<1>4. DOMAIN Sealed(q) = 1..Len(q)
  BY <1>1 DEF Sealed
<1>5. Sealed(q) \in [1..Len(q) -> Frames]
  BY <1>1, <1>3 DEF Sealed
<1>6. Sealed(q) \in Seq(Frames) /\ Len(Sealed(q)) = Len(q)
  <2>. HIDE DEF Sealed
  <2>. QED
    BY <1>1, <1>5
<1>. QED
  BY <1>3, <1>4, <1>6 DEF OpenIn

(* An answer goes behind the sealed queue. *)
LEMMA PushedIs ==
    ASSUME queue \in Seq(Frames), NEW e \in Answers
    PROVE  /\ Pushed(e) = Append(Sealed(queue), e) /\ Pushed(e) \in Seq(Frames)
           /\ Len(Pushed(e)) = Len(queue) + 1 /\ Pushed(e)[Len(queue) + 1] = e
           /\ \A k \in 1..Len(queue) : Pushed(e)[k].kind = queue[k].kind
           /\ OpenIn(Pushed(e)) = {}
<1>1. Pushed(e) = Append(Sealed(queue), e)
  BY DEF Pushed, Sealed
<1>2. e \in Frames /\ ~IsUpdate(e)
  BY Kinds
<1>3. /\ Sealed(queue) \in Seq(Frames) /\ Len(Sealed(queue)) = Len(queue) /\ OpenIn(Sealed(queue)) = {}
      /\ \A k \in 1..Len(queue) : Sealed(queue)[k].kind = queue[k].kind /\ Len(queue) \in Nat
  BY SealedIs
<1>. HIDE DEF Pushed, Sealed
<1>4. /\ Pushed(e) \in Seq(Frames)
      /\ Len(Pushed(e)) = Len(queue) + 1 /\ Pushed(e)[Len(queue) + 1] = e
      /\ \A k \in 1..Len(queue) : Pushed(e)[k] = Sealed(queue)[k]
  BY <1>1, <1>2, <1>3
<1>5. OpenIn(Pushed(e)) = {}
  <2>1. \A k \in 1..Len(queue) : ~(IsUpdate(Sealed(queue)[k]) /\ Sealed(queue)[k].open)
    BY <1>3 DEF OpenIn
  <2>2. \A k \in 1..Len(queue) + 1 : ~(IsUpdate(Pushed(e)[k]) /\ Pushed(e)[k].open)
    BY <1>2, <1>4, <2>1
  <2>. QED
    BY <1>3, <1>4, <2>2 DEF OpenIn
<1>. QED
  BY <1>1, <1>3, <1>4, <1>5

(* And the frontend goes on by it. *)
LEMMA CoursePushed ==
    ASSUME queue \in Seq(Frames), NEW f, NEW h, Course(h, f, queue),
           NEW e \in Answers, Delivered(h[Len(queue)], e) \in Fronts
    PROVE  \E g : /\ Course(g, f, Pushed(e)) /\ g[Len(queue) + 1] = Delivered(h[Len(queue)], e)
                  /\ \A k \in 0..Len(queue) : g[k] = h[k]
<1>1. Course(h, f, Sealed(queue)) /\ Sealed(queue) \in Seq(Frames) /\ Len(Sealed(queue)) = Len(queue)
  BY CourseSealed, SealedIs DEF Sealed
<1>2. e \in Frames /\ Pushed(e) = Append(Sealed(queue), e)
  BY Kinds, PushedIs
<1>3. Delivered(h[Len(Sealed(queue))], e) \in Fronts
  BY <1>1
<1>4. PICK g : /\ Course(g, f, Append(Sealed(queue), e))
               /\ g[Len(Sealed(queue)) + 1] = Delivered(h[Len(Sealed(queue))], e)
               /\ \A k \in 0..Len(Sealed(queue)) : g[k] = h[k]
  BY <1>1, <1>2, <1>3, CourseMore
<1>. QED
  BY <1>1, <1>2, <1>4

(* What may become of the queue when an update comes. *)
Refused(u) == ~live /\ PushUpdate(u) = [queue |-> queue, ok |-> TRUE]
Overflows(u) == live /\ ~u.reset /\ PushUpdate(u) = [queue |-> Purged, ok |-> FALSE]
Resets(u) == live /\ u.reset /\ PushUpdate(u) = [queue |-> Append(Purged, u), ok |-> TRUE]
Appends(u) == live /\ ~u.reset /\ OpenAt = {} /\ PushUpdate(u) = [queue |-> Append(queue, u), ok |-> TRUE]
Merges(u) ==
    /\ live /\ ~u.reset /\ queue # << >> /\ Len(queue) \in OpenAt
    /\ PushUpdate(u) = [queue |-> [queue EXCEPT ![Len(queue)] = Merged(@, u)], ok |-> TRUE]

LEMMA PushIs ==
    ASSUME queue \in Seq(Frames), OpenAt \subseteq {Len(queue)}, NEW u \in Updates
    PROVE  Refused(u) \/ Overflows(u) \/ Resets(u) \/ Appends(u) \/ Merges(u)
<1>1. CASE ~live
  BY <1>1 DEF PushUpdate, Refused
<1>2. CASE live /\ u.reset
  BY <1>2 DEF PushUpdate, Resets
<1>3. CASE live /\ ~u.reset /\ OpenAt = {}
  BY <1>3 DEF PushUpdate, Appends, Overflows
<1>4. CASE live /\ ~u.reset /\ OpenAt # {}
  <2>1. OpenAt = {Len(queue)} /\ queue # << >>
    BY <1>4 DEF OpenAt
  <2>2. (CHOOSE k \in OpenAt : TRUE) = Len(queue)
    BY <2>1
  <2>. QED
    BY <1>4, <2>1, <2>2 DEF PushUpdate, Merges, Overflows
<1>. QED
  BY <1>1, <1>2, <1>3, <1>4

-----------------------------------------------------------------------------
(* What the two sides say to each other.                                    *)

(* The parts of the type invariant. *)
SubType == [started : BOOLEAN, dirty : BOOLEAN, ready : BOOLEAN, resetting : BOOLEAN,
            running : BOOLEAN, closed : BOOLEAN, limit : Limit0..Cap, sent : Contents]
PassType == [stage : {"none", "top", "read", "push"}, limit : 0..Cap, ready : BOOLEAN,
             reset : BOOLEAN, ok : BOOLEAN, update : Updates]
Asks == {"subscribe", "extend", "unsubscribe"}
SubOK == sub \in SubType /\ pass \in PassType /\ sub.running = (pass.stage # "none")
NetOK ==
    /\ live \in BOOLEAN /\ opening \in BOOLEAN
    /\ queue \in Seq(Frames) /\ OpenIn(queue) \subseteq {Len(queue)}
    /\ inbox \in Seq(Asks) /\ serving \in {"idle", "extending", "leaving"} /\ front \in Fronts
RestOK == world \in Contents /\ wake \in BOOLEAN /\ failed \in BOOLEAN /\ died \in BOOLEAN
          /\ left \in [Events -> Nat]

(* Nothing of a subscription is there. *)
Quiet == queue = << >> /\ ~live /\ pass = NoPass /\ sub = NoSub /\ serving = "idle" /\ ~opening

(* A connection begins with a subscribe, and its answer is the first frame. *)
AwayIsQuiet == front.state = "away" => Quiet /\ inbox = << >>
SubscribeFirst ==
    \A k \in 1..Len(inbox) :
        inbox[k] = "subscribe" => Quiet /\ inbox = <<"subscribe">> /\ front.state = "subscribing"
AnswerFirst ==
    front.state = "subscribing" =>
        \/ inbox = <<"subscribe">>
        \/ live /\ inbox = << >> /\ queue # << >> /\ queue[1].kind = "subscribed"
(* Only a frontend that closed asks to unsubscribe; that is the end.        *)
OpenIsLive == front.state = "open" => live /\ \A k \in 1..Len(inbox) : inbox[k] = "extend"
LeftIsClosed ==
    /\ serving = "leaving" \/ sub.closed => front.state = "closed" /\ ~live
    /\ \A k \in 1..Len(inbox) : inbox[k] = "unsubscribe" => front.state = "closed"
QueueTells ==
    \A k \in 1..Len(queue) :
        /\ IsUpdate(queue[k]) => live
        /\ queue[k].kind = "bye" => ~live
        /\ queue[k].kind = "subscribed" => k = 1 /\ front.state = "subscribing"
ExtendFits == serving = "extending" => sub.limit + 1 <= Cap

(* The frontend will be told of the daemon's limit.                         *)
Told == IF serving = "extending" THEN sub.limit + 1 ELSE sub.limit
Hears ==
    \E h : /\ Course(h, front, queue)
           /\ live /\ front.state # "closed" => h[Len(queue)].limit = Told

Talks == AwayIsQuiet /\ SubscribeFirst /\ AnswerFirst /\ OpenIsLive /\ LeftIsClosed /\ QueueTells
         /\ ExtendFits
TalkInv == SubOK /\ NetOK /\ RestOK /\ Talks /\ Hears

LEMMA TypeParts == TypeOK <=> SubOK /\ NetOK /\ RestOK
BY DEF TypeOK, SubOK, NetOK, RestOK, SubType, PassType, Asks, OpenAt, OpenIn

LEMMA UpdateIs ==
    ASSUME NEW r \in BOOLEAN, NEW d \in Changes, NEW y \in BOOLEAN
    PROVE  /\ Update(r, d, y) \in Updates /\ Update(r, d, y).reset = r
           /\ Update(r, d, y).changes = d /\ Update(r, d, y).ready = y
BY DEF Update, Updates

LEMMA NothingYet ==
    /\ NoSub \in SubType /\ NoPass \in PassType
    /\ NoSub.sent = Nothing /\ NoSub.limit = Limit0 /\ ~NoSub.closed /\ ~NoSub.resetting /\ ~NoSub.running
    /\ NoPass.stage = "none" /\ NoPass.ok /\ ~NoPass.reset /\ NoPass.limit = 0
<1>1. Update(FALSE, << >>, FALSE) \in Updates
  BY UpdateIs, NoChangeIs
<1>2. Limit0 \in Limit0..Cap /\ 0 \in 0..Cap
  BY SizeAssumption
<1>. QED
  BY <1>1, <1>2, NothingIs DEF NoSub, NoPass, SubType, PassType

LEMMA CourseEmpty ==
    ASSUME NEW f \in Fronts
    PROVE  Course([k \in 0..0 |-> f], f, << >>) /\ [k \in 0..0 |-> f][0] = f
BY DEF Course

LEMMA CourseClosed ==
    ASSUME NEW f \in Fronts, f.state = "closed", NEW q \in Seq(Frames)
    PROVE  Course([k \in 0..Len(q) |-> f], f, q)
<1>1. \A e : Delivered(f, e) = f
  BY DEF Delivered
<1>2. Len(q) \in Nat
  OBVIOUS
<1>. QED
  BY <1>1, <1>2 DEF Course

(* A frontend that is told of its subscription is open from then on.        *)
LEMMA OpensUp ==
    ASSUME NEW q \in Seq(Frames), NEW f, NEW h, Course(h, f, q),
           f.state = "open" \/ (f.state = "subscribing" /\ q # << >> /\ q[1].kind = "subscribed")
    PROVE  /\ \A k \in 1..Len(q) : h[k].state = "open"
           /\ h[Len(q)].state = "open" /\ h[Len(q)] \in Fronts
<1>1. Len(q) \in Nat /\ h[Len(q)] \in Fronts
  BY DEF Course
<1>. DEFINE S == {0} \cup {k \in 1..Len(q) : h[k].state = "open"}
<1>2. \A k \in 1..Len(q) : k - 1 \in S => k \in S
  <2>. SUFFICES ASSUME NEW k \in 1..Len(q), k - 1 \in S PROVE h[k].state = "open"
    OBVIOUS
  <2>1. h[k] = Delivered(h[k - 1], q[k]) /\ h[k - 1] \in Fronts /\ h[k] \in Fronts
    BY DEF Course
  <2>2. CASE k = 1 /\ f.state = "subscribing"
    <3>1. h[k - 1] = f /\ q[k].kind = "subscribed"
      BY <2>2 DEF Course
    <3>. QED
      BY <2>1, <2>2, <3>1 DEF Delivered, Fronts
  <2>3. CASE ~(k = 1 /\ f.state = "subscribing")
    <3>1. h[k - 1].state = "open"
      BY <2>3 DEF Course
    <3>. QED
      BY <2>1, <3>1 DEF Delivered, Fronts
  <2>. QED
    BY <2>2, <2>3
<1>3. \A k \in 0..Len(q) : k \in S
  <2>. HIDE DEF S
  <2>1. 0 \in S
    BY DEF S
  <2>. QED
    BY <1>1, <1>2, <2>1, Induct
<1>4. \A k \in 1..Len(q) : h[k].state = "open"
  BY <1>3
<1>5. CASE Len(q) = 0
  <2>1. q = << >> /\ h[0] = f
    BY <1>5, EmptySeq DEF Course
  <2>. QED
    BY <1>1, <1>5, <1>4, <2>1
<1>6. CASE Len(q) # 0
  BY <1>1, <1>4, <1>6
<1>. QED
  BY <1>5, <1>6

LEMMA Follows ==
    ASSUME NetOK, Talks, live, front.state # "closed"
    PROVE  \/ front.state = "open"
           \/ front.state = "subscribing" /\ queue # << >> /\ queue[1].kind = "subscribed"
<1>1. ~Quiet
  BY DEF Quiet
<1>2. inbox # <<"subscribe">>
  <2>. SUFFICES ASSUME inbox = <<"subscribe">> PROVE FALSE
    OBVIOUS
  <2>1. 1 \in 1..Len(inbox) /\ inbox[1] = "subscribe"
    OBVIOUS
  <2>. QED
    BY <1>1, <2>1 DEF Talks, SubscribeFirst
<1>. QED
  BY <1>1, <1>2 DEF Talks, AwayIsQuiet, AnswerFirst, NetOK, Fronts

LEMMA RunIs ==
    ASSUME SubOK, NEW s \in SubType, s.running = sub.running, RunLocked(s)
    PROVE  /\ SubOK' /\ sub'.limit = s.limit /\ sub'.closed = s.closed /\ sub'.sent = s.sent
           /\ sub'.resetting = s.resetting
           /\ pass' = pass \/ (pass.stage = "none" /\ pass' = [NoPass EXCEPT !.stage = "top"])
<1>1. CASE s.started /\ ~s.running /\ ~s.closed
  <2>1. sub' = [s EXCEPT !.running = TRUE] /\ pass' = [NoPass EXCEPT !.stage = "top"]
    BY <1>1 DEF RunLocked, Run, Begun, SubType
  <2>2. pass' \in PassType /\ pass'.stage = "top"
    BY <2>1, NothingYet DEF PassType
  <2>3. pass.stage = "none"
    BY <1>1 DEF SubOK
  <2>. QED
    BY <2>1, <2>2, <2>3 DEF SubOK, SubType
<1>2. CASE ~(s.started /\ ~s.running /\ ~s.closed)
  <2>1. sub' = s /\ pass' = pass
    BY <1>2 DEF RunLocked, Run, Begun
  <2>. QED
    BY <2>1 DEF SubOK
<1>. QED
  BY <1>1, <1>2

-----------------------------------------------------------------------------
(* The invariant of the protocol, action by action. *)

(* Nothing is said. *)
LEMMA Silence ==
    ASSUME TalkInv, SubOK', RestOK', opening' \in BOOLEAN,
           UNCHANGED <<queue, inbox, serving, front, live>>,
           sub'.limit = sub.limit, sub'.closed = sub.closed, Quiet => Quiet'
    PROVE  TalkInv'
<1>1. NetOK'
  BY DEF TalkInv, NetOK, OpenIn
<1>2. Talks'
  BY DEF TalkInv, Talks, AwayIsQuiet, SubscribeFirst, AnswerFirst, OpenIsLive, LeftIsClosed,
         QueueTells, ExtendFits
<1>3. Told' = Told
  BY DEF Told
<1>4. Hears'
  BY <1>3 DEF TalkInv, Hears
<1>. QED
  BY <1>1, <1>2, <1>4 DEF TalkInv

LEMMA Goings ==
    ASSUME TalkInv, Change \/ Kick \/ Start PROVE TalkInv'
<1>. USE DEF TalkInv
<1>1. CASE Change
  <2>1. RestOK'
    BY <1>1 DEF Change, Spend, RestOK, Contents, Events
  <2>2. SubOK' /\ opening' \in BOOLEAN /\ (Quiet => Quiet')
    BY <1>1 DEF Change, SubOK, NetOK, Quiet
  <2>. QED
    BY <1>1, <2>1, <2>2, Silence DEF Change
<1>2. CASE Kick
  <2>1. RestOK'
    BY <1>2 DEF Kick, RestOK
  <2>2. CASE live
    <3>1. [sub EXCEPT !.dirty = TRUE] \in SubType /\ RunLocked([sub EXCEPT !.dirty = TRUE])
      BY <1>2, <2>2 DEF Kick, SubOK, SubType
    <3>2. SubOK' /\ sub'.limit = sub.limit /\ sub'.closed = sub.closed
      BY <3>1, RunIs DEF SubOK, SubType
    <3>3. ~Quiet /\ opening' \in BOOLEAN
      BY <1>2, <2>2 DEF Quiet, Kick, NetOK
    <3>. QED
      BY <1>2, <2>1, <3>2, <3>3, Silence DEF Kick
  <2>3. CASE ~live
    <3>1. UNCHANGED <<sub, pass>> /\ opening' \in BOOLEAN
      BY <1>2, <2>3 DEF Kick, NetOK
    <3>2. SubOK' /\ (Quiet => Quiet')
      BY <1>2, <3>1 DEF SubOK, Quiet, Kick
    <3>. QED
      BY <1>2, <2>1, <3>1, <3>2, Silence DEF Kick
  <2>. QED
    BY <2>2, <2>3
<1>3. CASE Start
  <2>. DEFINE s == [sub EXCEPT !.started = TRUE, !.dirty = TRUE, !.ready = TRUE]
  <2>1. s \in SubType /\ s.running = sub.running /\ s.limit = sub.limit /\ s.closed = sub.closed
    BY DEF SubOK, SubType
  <2>2. SubOK' /\ sub'.limit = sub.limit /\ sub'.closed = sub.closed
    BY <1>3, <2>1, RunIs DEF Start
  <2>3. RestOK' /\ opening' \in BOOLEAN /\ ~Quiet
    BY <1>3 DEF Start, RestOK, Quiet
  <2>. QED
    BY <1>3, <2>2, <2>3, Silence DEF Start
<1>. QED
  BY <1>1, <1>2, <1>3

(* The update a pass makes is one. *)
LEMMA ReadIs ==
    ASSUME TalkInv, pass.stage = "read"
    PROVE  LET next == First(world, pass.limit)
               u == Update(pass.reset, Diff(sub.sent, next), pass.ready)
           IN  /\ next \in Contents /\ Cardinality(Present(next)) <= pass.limit
               /\ Diff(sub.sent, next) \in Changes /\ u \in Updates
               /\ u.reset = pass.reset /\ u.changes = Diff(sub.sent, next)
               /\ Size(u) = 0 => sub.sent = next
<1>. DEFINE next == First(world, pass.limit)
            d == Diff(sub.sent, next)
            u == Update(pass.reset, d, pass.ready)
<1>1. /\ world \in Contents /\ pass.limit \in Nat /\ sub.sent \in Contents
      /\ pass.reset \in BOOLEAN /\ pass.ready \in BOOLEAN
  BY SizeAssumption DEF TalkInv, RestOK, SubOK, PassType, SubType
<1>2. next \in Contents /\ Cardinality(Present(next)) <= pass.limit
  BY <1>1, FirstIs
<1>. HIDE DEF next
<1>3. d \in Changes /\ (DOMAIN d = {} => sub.sent = next)
  BY <1>1, <1>2, DiffIs
<1>. HIDE DEF d
<1>4. u \in Updates /\ u.reset = pass.reset /\ u.changes = d
  BY <1>1, <1>3, UpdateIs
<1>. HIDE DEF u
<1>5. Size(u) = 0 => DOMAIN d = {}
  <2>1. IsFiniteSet(DOMAIN d)
    BY <1>3, ChangesAre, ItemAssumption, FS_Subset
  <2>. QED
    BY <1>4, <2>1, FS_EmptySet DEF Size
<1>. QED
  BY <1>2, <1>3, <1>4, <1>5 DEF next, d, u

LEMMA Passes ==
    ASSUME TalkInv, TakePass \/ ReadWindow \/ ReadFails PROVE TalkInv'
<1>. USE DEF TalkInv
<1>0. pass.stage # "none" => ~Quiet
  BY NothingYet DEF Quiet
<1>1. CASE TakePass
  <2>. DEFINE s == IF pass.ok THEN sub
                   ELSE [sub EXCEPT !.sent = Nothing, !.dirty = TRUE, !.ready = TRUE,
                                    !.resetting = TRUE]
  <2>1. s \in SubType /\ s.limit = sub.limit /\ s.closed = sub.closed /\ s.running
    <3>1. Nothing \in Contents /\ sub.running
      BY <1>1, NothingIs DEF TakePass, SubOK
    <3>. QED
      BY <3>1 DEF SubOK, SubType
  <2>2. SubOK' /\ sub'.limit = sub.limit /\ sub'.closed = sub.closed
    <3>1. CASE s.dirty /\ ~s.closed
      <4>1. /\ pass' = [NoPass EXCEPT !.stage = "read", !.limit = s.limit,
                                      !.ready = s.ready, !.reset = s.resetting]
            /\ sub' = [s EXCEPT !.dirty = FALSE, !.ready = FALSE, !.resetting = FALSE]
        BY <1>1, <3>1 DEF TakePass
      <4>. HIDE DEF s
      <4>2. s.limit \in 0..Cap /\ s.ready \in BOOLEAN /\ s.resetting \in BOOLEAN
        BY <2>1, SizeAssumption DEF SubType
      <4>3. pass' \in PassType /\ pass'.stage = "read"
        BY <4>1, <4>2, NothingYet DEF PassType
      <4>. QED
        BY <2>1, <4>1, <4>3 DEF SubOK, SubType
    <3>2. CASE ~(s.dirty /\ ~s.closed)
      <4>1. pass' = NoPass /\ sub' = [s EXCEPT !.running = FALSE]
        BY <1>1, <3>2 DEF TakePass
      <4>. HIDE DEF s
      <4>. QED
        BY <2>1, <4>1, NothingYet DEF SubOK, SubType
    <3>. QED
      BY <3>1, <3>2
  <2>3. RestOK' /\ opening' \in BOOLEAN /\ ~Quiet
    BY <1>0, <1>1 DEF TakePass, RestOK, NetOK
  <2>. QED
    BY <1>1, <2>2, <2>3, Silence DEF TakePass
<1>2. CASE ReadWindow
  <2>. DEFINE next == First(world, pass.limit)
              u == Update(pass.reset, Diff(sub.sent, next), pass.ready)
  <2>0. pass.stage = "read"
    BY <1>2 DEF ReadWindow
  <2>1. next \in Contents /\ u \in Updates
    BY <2>0, ReadIs
  <2>2. /\ sub' = [sub EXCEPT !.sent = next]
        /\ \/ pass' = [NoPass EXCEPT !.stage = "top", !.ok = FALSE]
           \/ pass' = [NoPass EXCEPT !.stage = "top", !.ok = TRUE]
           \/ pass' = [NoPass EXCEPT !.stage = "push", !.update = u]
    BY <1>2 DEF ReadWindow
  <2>. HIDE DEF next, u
  <2>3. SubOK' /\ sub'.limit = sub.limit /\ sub'.closed = sub.closed
    <3>1. pass' \in PassType /\ pass'.stage # "none"
      <4>1. CASE pass' = [NoPass EXCEPT !.stage = "push", !.update = u]
        BY <2>1, <4>1, NothingYet DEF PassType
      <4>2. CASE pass' = [NoPass EXCEPT !.stage = "top", !.ok = FALSE]
        BY <4>2, NothingYet DEF PassType
      <4>3. CASE pass' = [NoPass EXCEPT !.stage = "top", !.ok = TRUE]
        BY <4>3, NothingYet DEF PassType
      <4>. QED
        BY <2>2, <4>1, <4>2, <4>3
    <3>. QED
      BY <2>0, <2>1, <2>2, <3>1 DEF SubOK, SubType
  <2>4. RestOK' /\ opening' \in BOOLEAN /\ ~Quiet
    BY <1>0, <1>2, <2>0 DEF ReadWindow, RestOK, NetOK
  <2>. QED
    BY <1>2, <2>3, <2>4, Silence DEF ReadWindow
<1>3. CASE ReadFails
  <2>1. BareReady \in Updates
    <3>1. Update(FALSE, << >>, TRUE) \in Updates
      BY UpdateIs, NoChangeIs
    <3>. QED
      BY <3>1 DEF BareReady, Updates
  <2>2. /\ pass.stage = "read" /\ sub' = sub
        /\ \/ pass' = [NoPass EXCEPT !.stage = "push", !.update = BareReady]
           \/ pass' = [NoPass EXCEPT !.stage = "top"]
    BY <1>3 DEF ReadFails
  <2>3. SubOK' /\ sub'.limit = sub.limit /\ sub'.closed = sub.closed
    <3>1. pass' \in PassType /\ pass'.stage # "none"
      <4>1. CASE pass' = [NoPass EXCEPT !.stage = "push", !.update = BareReady]
        BY <2>1, <4>1, NothingYet DEF PassType
      <4>2. CASE pass' = [NoPass EXCEPT !.stage = "top"]
        BY <4>2, NothingYet DEF PassType
      <4>. QED
        BY <2>2, <4>1, <4>2
    <3>. QED
      BY <2>2, <3>1 DEF SubOK
  <2>4. RestOK' /\ opening' \in BOOLEAN /\ ~Quiet
    BY <1>0, <1>3, <2>2 DEF ReadFails, Spend, RestOK, NetOK, Events
  <2>. QED
    BY <1>3, <2>3, <2>4, Silence DEF ReadFails
<1>. QED
  BY <1>1, <1>2, <1>3

(* The connection is gone. *)
LEMMA Losing ==
    ASSUME TalkInv, Lost, RestOK' PROVE TalkInv'
<1>. USE DEF TalkInv
<1>1. /\ sub' = NoSub /\ pass' = NoPass /\ live' = FALSE /\ queue' = << >> /\ inbox' = << >>
      /\ serving' = "idle" /\ opening' = FALSE
      /\ front'.state \in {"away", "closed"} /\ front' \in Fronts
  BY DEF Lost, NetOK, Fronts
<1>2. SubOK'
  <2>1. sub' \in SubType /\ pass' \in PassType /\ ~sub'.running /\ pass'.stage = "none"
    BY <1>1, NothingYet
  <2>2. sub'.running = (pass'.stage # "none")
    BY <2>1 DEF SubType
  <2>. QED
    BY <2>1, <2>2 DEF SubOK
<1>3. NetOK'
  <2>1. << >> \in Seq(Frames) /\ << >> \in Seq(Asks) /\ OpenIn(<< >>) = {}
    BY DEF OpenIn
  <2>. QED
    BY <1>1, <2>1 DEF NetOK
<1>4. Talks'
  <2>1. Quiet'
    BY <1>1 DEF Quiet
  <2>2. ~sub'.closed
    BY <1>1, NothingYet
  <2>. QED
    BY <1>1, <2>1, <2>2 DEF Talks, AwayIsQuiet, SubscribeFirst, AnswerFirst, OpenIsLive,
                            LeftIsClosed, QueueTells, ExtendFits
<1>5. Hears'
  BY <1>1, CourseEmpty DEF Hears
<1>. QED
  BY <1>2, <1>3, <1>4, <1>5

LEMMA Hangings == ASSUME TalkInv, Hangup \/ PassPanics PROVE TalkInv'
<1>1. CASE Hangup
  <2>1. RestOK' /\ Lost
    BY <1>1 DEF TalkInv, Hangup, Spend, RestOK, Events
  <2>. QED
    BY <2>1, Losing
<1>2. CASE PassPanics
  <2>1. RestOK' /\ Lost
    BY <1>2 DEF TalkInv, PassPanics, RestOK
  <2>. QED
    BY <2>1, Losing
<1>. QED
  BY <1>1, <1>2

-----------------------------------------------------------------------------
(* What becomes of the queue when a pass pushes its update. *)

(* A queue the frontend may find while its subscription lives.              *)
Speaks(q) ==
    /\ q \in Seq(Frames) /\ OpenIn(q) \subseteq {Len(q)}
    /\ \A k \in 1..Len(q) :
          q[k].kind # "bye" /\ (q[k].kind = "subscribed" => k = 1 /\ front.state = "subscribing")
    /\ front.state = "subscribing" => q # << >> /\ q[1].kind = "subscribed"

LEMMA SpeaksNow == ASSUME NetOK, Talks, live PROVE Speaks(queue)
<1>1. \A k \in 1..Len(queue) :
          queue[k].kind # "bye" /\ (queue[k].kind = "subscribed" => k = 1 /\ front.state = "subscribing")
  BY DEF Talks, QueueTells
<1>2. front.state = "subscribing" => queue # << >> /\ queue[1].kind = "subscribed"
  BY Follows
<1>. QED
  BY <1>1, <1>2 DEF Speaks, NetOK

(* Another queue, with the rest as it was. *)
LEMMA Requeued ==
    ASSUME TalkInv, live, SubOK', RestOK', sub'.limit = sub.limit, sub'.closed = sub.closed,
           UNCHANGED <<live, opening, serving, front, inbox>>, Speaks(queue'),
           NEW g, Course(g, front, queue'), front.state # "closed" => g[Len(queue')].limit = Told
    PROVE  TalkInv'
<1>. USE DEF TalkInv
<1>1. NetOK'
  BY DEF NetOK, Speaks
<1>2. Talks'
  <2>1. AwayIsQuiet' /\ SubscribeFirst'
    BY DEF Talks, AwayIsQuiet, SubscribeFirst, Quiet
  <2>2. AnswerFirst'
    BY DEF Talks, AnswerFirst, SubscribeFirst, Quiet, Speaks
  <2>3. OpenIsLive' /\ LeftIsClosed' /\ ExtendFits'
    BY DEF Talks, OpenIsLive, LeftIsClosed, ExtendFits
  <2>4. QueueTells'
    BY DEF QueueTells, Speaks
  <2>. QED
    BY <2>1, <2>2, <2>3, <2>4 DEF Talks
<1>3. Hears'
  BY DEF Hears, Told
<1>. QED
  BY <1>1, <1>2, <1>3

(* A purge. *)
LEMMA PurgeTells ==
    ASSUME NetOK, Talks, live, NEW h, Course(h, front, queue)
    PROVE  /\ Speaks(Purged) /\ OpenIn(Purged) = {}
           /\ \E g : /\ Course(g, front, Purged)
                     /\ g[Len(Purged)].state = h[Len(queue)].state
                     /\ g[Len(Purged)].limit = h[Len(queue)].limit
                     /\ Fits(front) => \A k \in 0..Len(Purged) : Fits(g[k])
<1>. DEFINE p == Purged
            n == Len(queue)
<1>1. queue \in Seq(Frames) /\ front \in Fronts /\ n \in Nat /\ Speaks(queue)
  BY SpeaksNow DEF NetOK
<1>2. PurgedTo(p, front, h, queue, n)
  BY <1>1, PurgeIs DEF Purged
<1>. HIDE DEF p
<1>3. p \in Seq(Answers) /\ p \in Seq(Frames) /\ \A k \in 1..Len(p) : p[k] \in Answers
  BY <1>2, Kinds DEF PurgedTo
<1>4. OpenIn(p) = {}
  BY <1>3, Kinds DEF OpenIn
<1>5. \A k \in 1..Len(p) :
          p[k].kind # "bye" /\ (p[k].kind = "subscribed" => k = 1 /\ front.state = "subscribing")
  <2>. TAKE k \in 1..Len(p)
  <2>1. PICK j \in k..n : p[k] = queue[j]
    BY <1>2 DEF PurgedTo
  <2>2. j \in 1..n /\ k \in Nat /\ k >= 1 /\ j >= k
    BY <1>1, <1>3
  <2>. QED
    BY <1>1, <2>1, <2>2 DEF Speaks
<1>6. front.state = "subscribing" => p # << >> /\ p[1].kind = "subscribed"
  <2>. SUFFICES ASSUME front.state = "subscribing" PROVE p # << >> /\ p[1].kind = "subscribed"
    OBVIOUS
  <2>1. queue # << >> /\ queue[1].kind = "subscribed"
    BY <1>1 DEF Speaks
  <2>2. n >= 1
    BY <1>1, <2>1, EmptySeq
  <2>3. ~IsUpdate(queue[1])
    BY <2>1 DEF IsUpdate
  <2>. QED
    BY <1>2, <2>1, <2>2, <2>3 DEF PurgedTo
<1>7. Speaks(p)
  BY <1>3, <1>4, <1>5, <1>6 DEF Speaks
<1>. QED
  BY <1>2, <1>4, <1>7 DEF PurgedTo, p

(* The queue takes the update u: what the frontend goes through until then  *)
(* is g, and in the end it has what it would show next.                     *)
TakesIn(q, u, h, g) ==
    /\ Speaks(q) /\ q # << >> /\ Course(g, front, q)
    /\ g[Len(q)].state = h[Len(queue)].state /\ g[Len(q)].limit = h[Len(queue)].limit
    /\ h[Len(queue)].state # "closed" =>
         ~g[Len(q)].fresh /\ g[Len(q)].copy = Shows(h[Len(queue)], u)
    /\ (\A k \in 0..Len(queue) : Fits(h[k])) => \A k \in 0..Len(q) - 1 : Fits(g[k])

LEMMA AppendsIs ==
    ASSUME NEW q, Speaks(q), OpenIn(q) = {}, NEW u \in Updates,
           NEW h, Course(h, front, queue), queue \in Seq(Frames), NEW b, Course(b, front, q),
           b[Len(q)].state = h[Len(queue)].state, b[Len(q)].limit = h[Len(queue)].limit,
           Shows(b[Len(q)], u) = Shows(h[Len(queue)], u),
           (\A k \in 0..Len(queue) : Fits(h[k])) => \A k \in 0..Len(q) : Fits(b[k])
    PROVE  \E g : TakesIn(Append(q, u), u, h, g)
<1>. DEFINE r == Append(q, u)
            n == Len(q)
<1>1. q \in Seq(Frames) /\ n \in Nat /\ u \in Frames /\ IsUpdate(u) /\ u.kind = "update"
  BY Kinds DEF Speaks, Updates
<1>2. Len(r) = n + 1 /\ r[n + 1] = u /\ r \in Seq(Frames) /\ \A k \in 1..n : r[k] = q[k]
  BY <1>1
<1>. HIDE DEF r
<1>3. b[n] \in Fronts
  <2>1. n \in 0..n /\ b \in [0..n -> Fronts]
    BY <1>1 DEF Course
  <2>. QED
    BY <2>1
<1>4. /\ Delivered(b[n], u) \in Fronts
      /\ Delivered(b[n], u).state = b[n].state /\ Delivered(b[n], u).limit = b[n].limit
      /\ b[n].state # "closed" => ~Delivered(b[n], u).fresh /\ Delivered(b[n], u).copy = Shows(b[n], u)
  BY <1>3, Showed
<1>5. PICK g : /\ Course(g, front, r) /\ g[n + 1] = Delivered(b[n], u)
               /\ \A k \in 0..n : g[k] = b[k]
  BY <1>1, <1>4, CourseMore DEF r
<1>6. OpenIn(r) \subseteq {Len(r)}
  <2>1. \A k \in 1..n : ~(IsUpdate(q[k]) /\ q[k].open)
    BY <1>1 DEF OpenIn
  <2>2. \A k \in 1..Len(r) : k = Len(r) \/ ~(IsUpdate(r[k]) /\ r[k].open)
    BY <1>1, <1>2, <2>1
  <2>. QED
    BY <1>2, <2>2 DEF OpenIn
<1>7. Speaks(r) /\ r # << >>
  <2>1. r # << >>
    BY <1>1, <1>2, EmptySeq
  <2>2. \A k \in 1..Len(r) :
          r[k].kind # "bye" /\ (r[k].kind = "subscribed" => k = 1 /\ front.state = "subscribing")
    <3>. TAKE k \in 1..Len(r)
    <3>1. CASE k = n + 1
      BY <1>1, <1>2, <3>1
    <3>2. CASE k \in 1..n
      BY <1>2, <3>2 DEF Speaks
    <3>. QED
      BY <1>1, <1>2, <3>1, <3>2
  <2>3. front.state = "subscribing" => r[1].kind = "subscribed"
    <3>. SUFFICES ASSUME front.state = "subscribing" PROVE r[1].kind = "subscribed"
      OBVIOUS
    <3>1. q # << >> /\ q[1].kind = "subscribed"
      BY DEF Speaks
    <3>2. 1 \in 1..n
      BY <1>1, <3>1, EmptySeq
    <3>. QED
      BY <1>2, <3>1, <3>2
  <2>. QED
    BY <1>2, <1>6, <2>1, <2>2, <2>3 DEF Speaks
<1>8. TakesIn(r, u, h, g)
  BY <1>1, <1>2, <1>4, <1>5, <1>7 DEF TakesIn
<1>. QED
  BY <1>8 DEF r

LEMMA MergesIs ==
    ASSUME NetOK, Talks, live, NEW u \in Updates, ~u.reset, queue # << >>,
           Len(queue) \in OpenAt, NEW h, Course(h, front, queue)
    PROVE  \E g : TakesIn([queue EXCEPT ![Len(queue)] = Merged(@, u)], u, h, g)
<1>. DEFINE n == Len(queue)
            w == queue[n]
            m == Merged(w, u)
            r == [queue EXCEPT ![n] = m]
<1>1. queue \in Seq(Frames) /\ n \in Nat /\ n >= 1 /\ Speaks(queue)
  BY SpeaksNow, EmptySeq DEF NetOK
<1>2. w \in Updates
  BY <1>1, Kinds DEF OpenAt
<1>3. h[n - 1] \in Fronts /\ h[n] \in Fronts /\ h[n] = Delivered(h[n - 1], w)
  BY <1>1 DEF Course
<1>. HIDE DEF w
<1>4. m \in Updates /\ m.reset = w.reset /\ m \in Frames /\ IsUpdate(m) /\ m.kind = "update"
  <2>1. m \in Updates /\ m.reset = w.reset
    BY <1>2, Twice, NothingIs
  <2>2. \A x \in Updates : x \in Frames /\ IsUpdate(x) /\ x.kind = "update"
    BY Kinds DEF Updates
  <2>. HIDE DEF m
  <2>. QED
    BY <2>1, <2>2
<1>5. /\ Delivered(h[n - 1], m) \in Fronts
      /\ Delivered(h[n - 1], m).state = h[n].state /\ Delivered(h[n - 1], m).limit = h[n].limit
  <2>. HIDE DEF m
  <2>1. h[n].state = h[n - 1].state /\ h[n].limit = h[n - 1].limit
    BY <1>2, <1>3, Showed
  <2>2. \A f \in Fronts : /\ Delivered(f, m) \in Fronts
                          /\ Delivered(f, m).state = f.state /\ Delivered(f, m).limit = f.limit
    BY <1>4, Showed
  <2>. QED
    BY <1>3, <2>1, <2>2
<1>6. h[n].state # "closed" =>
        ~Delivered(h[n - 1], m).fresh /\ Delivered(h[n - 1], m).copy = Shows(h[n], u)
  <2>. SUFFICES ASSUME h[n].state # "closed"
                PROVE  ~Delivered(h[n - 1], m).fresh /\ Delivered(h[n - 1], m).copy = Shows(h[n], u)
    OBVIOUS
  <2>. DEFINE c == IF w.reset \/ h[n - 1].fresh THEN Nothing ELSE h[n - 1].copy
  <2>1. h[n - 1].state # "closed"
    BY <1>2, <1>3, Showed
  <2>2. ~h[n].fresh /\ h[n].copy = Over(w.changes, c)
    BY <1>2, <1>3, <2>1, Showed DEF Shows
  <2>3. c \in Contents
    BY <1>3, NothingIs DEF Fronts
  <2>4. Over(m.changes, c) = Over(u.changes, Over(w.changes, c))
    <3>. HIDE DEF c
    <3>. QED
      BY <1>2, <2>3, Twice
  <2>5. Shows(h[n], u) = Over(u.changes, h[n].copy)
    BY <2>2 DEF Shows
  <2>6. Shows(h[n - 1], m) = Over(m.changes, c)
    BY <1>4 DEF Shows
  <2>7. ~Delivered(h[n - 1], m).fresh /\ Delivered(h[n - 1], m).copy = Shows(h[n - 1], m)
    BY <1>3, <1>4, <2>1, Showed
  <2>. HIDE DEF m, c
  <2>. QED
    BY <2>2, <2>4, <2>5, <2>6, <2>7
<1>. HIDE DEF m
<1>7. PICK g : /\ Course(g, front, r) /\ g[n] = Delivered(h[n - 1], m)
               /\ \A k \in 0..n - 1 : g[k] = h[k]
  BY <1>1, <1>4, <1>5, CourseOther
<1>8. Len(r) = n /\ r \in Seq(Frames) /\ r[n] = m /\ \A k \in 1..n - 1 : r[k] = queue[k]
  BY <1>1, <1>4
<1>9. r = [queue EXCEPT ![Len(queue)] = Merged(@, u)]
  BY DEF m, w
<1>. HIDE DEF r
<1>10. Speaks(r) /\ r # << >>
  <2>1. OpenIn(r) \subseteq {n}
    <3>1. \A k \in 1..n - 1 : ~(IsUpdate(queue[k]) /\ queue[k].open)
      BY <1>1 DEF Speaks, OpenIn
    <3>2. \A k \in 1..n : k = n \/ ~(IsUpdate(r[k]) /\ r[k].open)
      BY <1>1, <1>8, <3>1
    <3>. QED
      BY <1>8, <3>2 DEF OpenIn
  <2>2. \A k \in 1..n :
          r[k].kind # "bye" /\ (r[k].kind = "subscribed" => k = 1 /\ front.state = "subscribing")
    <3>. TAKE k \in 1..n
    <3>1. CASE k = n
      BY <1>4, <1>8, <3>1
    <3>2. CASE k \in 1..n - 1
      BY <1>1, <1>8, <3>2 DEF Speaks
    <3>. QED
      BY <1>1, <3>1, <3>2
  <2>3. front.state = "subscribing" => r[1].kind = "subscribed"
    <3>1. front.state = "subscribing" => n # 1
      BY <1>1, <1>2 DEF Speaks, w, Updates
    <3>. QED
      BY <1>1, <1>8, <3>1 DEF Speaks
  <2>4. r # << >>
    BY <1>1, <1>8, EmptySeq
  <2>. QED
    BY <1>8, <2>1, <2>2, <2>3, <2>4 DEF Speaks
<1>11. TakesIn(r, u, h, g)
  BY <1>1, <1>5, <1>6, <1>7, <1>8, <1>10 DEF TakesIn
<1>. QED
  BY <1>9, <1>11

(* Taken, or all that was queued of the subscription is gone. *)
LEMMA PushTakes ==
    ASSUME NetOK, Talks, live, NEW u \in Updates, NEW h, Course(h, front, queue)
    PROVE  \/ PushUpdate(u) = [queue |-> Purged, ok |-> FALSE]
           \/ /\ PushUpdate(u).ok
              /\ \E g : TakesIn(PushUpdate(u).queue, u, h, g)
<1>1. queue \in Seq(Frames) /\ OpenAt \subseteq {Len(queue)} /\ Speaks(queue)
  BY SpeaksNow DEF NetOK, OpenAt, OpenIn
<1>2. CASE Resets(u)
  <2>1. PICK g : /\ Course(g, front, Purged)
                 /\ g[Len(Purged)].state = h[Len(queue)].state
                 /\ g[Len(Purged)].limit = h[Len(queue)].limit
                 /\ Fits(front) => \A k \in 0..Len(Purged) : Fits(g[k])
    BY PurgeTells
  <2>2. Speaks(Purged) /\ OpenIn(Purged) = {}
    BY PurgeTells
  <2>3. Shows(g[Len(Purged)], u) = Shows(h[Len(queue)], u)
    BY <1>2 DEF Resets, Shows
  <2>4. h[0] = front /\ Len(queue) \in Nat
    BY <1>1 DEF Course
  <2>5. (\A k \in 0..Len(queue) : Fits(h[k])) => \A k \in 0..Len(Purged) : Fits(g[k])
    BY <2>1, <2>4
  <2>6. \E b : TakesIn(Append(Purged, u), u, h, b)
    BY <1>1, <2>1, <2>2, <2>3, <2>5, AppendsIs
  <2>. QED
    BY <1>2, <2>6 DEF Resets
<1>3. CASE Appends(u)
  <2>1. OpenIn(queue) = {}
    BY <1>3 DEF Appends, OpenIn, OpenAt
  <2>2. \E b : TakesIn(Append(queue, u), u, h, b)
    BY <1>1, <2>1, AppendsIs
  <2>. QED
    BY <1>3, <2>2 DEF Appends
<1>4. CASE Merges(u)
  <2>1. \E b : TakesIn([queue EXCEPT ![Len(queue)] = Merged(@, u)], u, h, b)
    BY <1>4, MergesIs DEF Merges
  <2>. QED
    BY <1>4, <2>1 DEF Merges
<1>. QED
  BY <1>1, <1>2, <1>3, <1>4, PushIs DEF Refused, Overflows

LEMMA Pushing == ASSUME TalkInv, PushPass PROVE TalkInv'
<1>. USE DEF TalkInv
<1>. DEFINE u == pass.update
<1>1. /\ pass.stage = "push" /\ u \in Updates
      /\ queue' = PushUpdate(u).queue /\ pass' = [NoPass EXCEPT !.stage = "top", !.ok = PushUpdate(u).ok]
      /\ UNCHANGED <<sub, live, inbox, serving, opening, front>>
  BY DEF PushPass, SubOK, PassType
<1>2. RestOK'
  BY DEF PushPass, RestOK
<1>. HIDE DEF u
<1>3. PushUpdate(u).ok \in BOOLEAN
  <2>1. OpenAt \subseteq {Len(queue)} /\ queue \in Seq(Frames)
    BY DEF NetOK, OpenAt, OpenIn
  <2>2. Refused(u) \/ Overflows(u) \/ Resets(u) \/ Appends(u) \/ Merges(u)
    BY <1>1, <2>1, PushIs
  <2>3. \E q : \E ok \in BOOLEAN : PushUpdate(u) = [queue |-> q, ok |-> ok]
    BY <2>2 DEF Refused, Overflows, Resets, Appends, Merges
  <2>. QED
    BY <2>3
<1>4. SubOK'
  <2>1. pass' \in PassType /\ pass'.stage = "top"
    BY <1>1, <1>3, NothingYet DEF PassType
  <2>. QED
    BY <1>1, <2>1 DEF SubOK
<1>5. CASE ~live
  <2>1. queue' = queue
    BY <1>1, <1>5 DEF PushUpdate
  <2>2. ~Quiet
    BY <1>1, NothingYet DEF Quiet
  <2>3. opening' \in BOOLEAN
    BY <1>1 DEF NetOK
  <2>. QED
    BY <1>1, <1>2, <1>4, <2>1, <2>2, <2>3, Silence
<1>6. CASE live
  <2>1. PICK h : Course(h, front, queue) /\ (front.state # "closed" => h[Len(queue)].limit = Told)
    BY <1>6 DEF Hears
  <2>2. CASE PushUpdate(u) = [queue |-> Purged, ok |-> FALSE]
    <3>1. queue' = Purged
      BY <1>1, <2>2
    <3>2. Speaks(Purged)
      BY <1>6, <2>1, PurgeTells
    <3>3. PICK g : Course(g, front, Purged) /\ g[Len(Purged)].limit = h[Len(queue)].limit
      BY <1>6, <2>1, PurgeTells
    <3>. QED
      BY <1>1, <1>2, <1>4, <1>6, <2>1, <3>1, <3>2, <3>3, Requeued
  <2>3. CASE PushUpdate(u).ok /\ \E g : TakesIn(PushUpdate(u).queue, u, h, g)
    <3>1. PICK g : TakesIn(queue', u, h, g)
      BY <1>1, <2>3
    <3>. QED
      BY <1>1, <1>2, <1>4, <1>6, <2>1, <3>1, Requeued DEF TakesIn
  <2>. QED
    BY <1>1, <1>6, <2>1, <2>2, <2>3, PushTakes
<1>. QED
  BY <1>5, <1>6 DEF NetOK

-----------------------------------------------------------------------------
(* The dispatcher takes a request. *)
LEMMA Request ==
    ASSUME NetOK, Talks, NEW r, NextRequest(r)
    PROVE  /\ serving = "idle" /\ 1 \in 1..Len(inbox) /\ inbox[1] = r /\ inbox' \in Seq(Asks)
           /\ \A k \in 1..Len(inbox') : k + 1 \in 1..Len(inbox) /\ inbox'[k] = inbox[k + 1]
           /\ r # "subscribe" =>
                /\ \A k \in 1..Len(inbox) : inbox[k] # "subscribe"
                /\ front.state \in {"open", "closed"} /\ (front.state = "open" => live)
                /\ \A k \in 1..Len(inbox') : inbox'[k] = "unsubscribe" => front.state = "closed"
                /\ front.state = "open" => \A k \in 1..Len(inbox') : inbox'[k] = "extend"
<1>1. inbox \in Seq(Asks) /\ inbox # << >> /\ inbox' = Tail(inbox) /\ Head(inbox) = r /\ serving = "idle"
  BY DEF NetOK, NextRequest
<1>2. /\ Len(inbox) \in Nat /\ Len(inbox) > 0 /\ inbox' \in Seq(Asks) /\ Len(inbox') = Len(inbox) - 1
  BY <1>1, HeadTailProperties, EmptySeq
<1>3. inbox[1] = r /\ \A k \in 1..Len(inbox) - 1 : inbox'[k] = inbox[k + 1]
  BY <1>1, <1>2
<1>4. \A k \in 1..Len(inbox') : k + 1 \in 1..Len(inbox) /\ inbox'[k] = inbox[k + 1]
  BY <1>2, <1>3
<1>5. ASSUME r # "subscribe"
      PROVE  /\ \A k \in 1..Len(inbox) : inbox[k] # "subscribe"
             /\ front.state \in {"open", "closed"} /\ (front.state = "open" => live)
             /\ \A k \in 1..Len(inbox') : inbox'[k] = "unsubscribe" => front.state = "closed"
             /\ front.state = "open" => \A k \in 1..Len(inbox') : inbox'[k] = "extend"
  <2>1. inbox # <<"subscribe">>
    BY <1>3, <1>5
  <2>2. \A k \in 1..Len(inbox) : inbox[k] # "subscribe"
    BY <2>1 DEF Talks, SubscribeFirst
  <2>3. front.state \in {"open", "closed"}
    BY <1>1, <2>1 DEF Talks, AwayIsQuiet, AnswerFirst, NetOK, Fronts
  <2>4. \A k \in 1..Len(inbox') : inbox'[k] = "unsubscribe" => front.state = "closed"
    BY <1>4 DEF Talks, LeftIsClosed
  <2>5. front.state = "open" => live /\ \A k \in 1..Len(inbox') : inbox'[k] = "extend"
    BY <1>4 DEF Talks, OpenIsLive
  <2>. QED
    BY <2>2, <2>3, <2>4, <2>5
<1>. QED
  BY <1>1, <1>2, <1>3, <1>4, <1>5

(* The frontend's end of a course. *)
LEMMA EndIs ==
    ASSUME NetOK, Talks, NEW h, Course(h, front, queue)
    PROVE  /\ h[Len(queue)] \in Fronts
           /\ front.state = "closed" => h[Len(queue)] = front
           /\ live /\ front.state # "closed" => h[Len(queue)].state = "open"
<1>1. queue \in Seq(Frames) /\ Len(queue) \in Nat /\ front \in Fronts
  BY DEF NetOK
<1>2. h[Len(queue)] \in Fronts
  BY <1>1 DEF Course
<1>3. front.state = "closed" => h[Len(queue)] = front
  <2>. SUFFICES ASSUME front.state = "closed" PROVE h[Len(queue)] = front
    OBVIOUS
  <2>. DEFINE g == [k \in 0..Len(queue) |-> front]
  <2>1. Course(g, front, queue) /\ g[Len(queue)] = front
    BY <1>1, CourseClosed
  <2>. HIDE DEF g
  <2>2. h = g
    BY <1>1, <2>1, CourseOne
  <2>. QED
    BY <2>1, <2>2
<1>4. live /\ front.state # "closed" => h[Len(queue)].state = "open"
  BY <1>1, Follows, OpensUp
<1>. QED
  BY <1>2, <1>3, <1>4

LEMMA Subscribing == ASSUME TalkInv, Subscribe PROVE TalkInv'
<1>. USE DEF TalkInv
<1>. DEFINE e == Response("subscribed")
<1>1. /\ sub' = NoSub /\ live' = TRUE /\ opening' = TRUE /\ queue' = Pushed(e)
      /\ UNCHANGED <<pass, serving, front>> /\ NextRequest("subscribe")
  BY DEF Subscribe
<1>2. Quiet /\ inbox = <<"subscribe">> /\ front.state = "subscribing" /\ serving = "idle"
  <2>1. serving = "idle" /\ 1 \in 1..Len(inbox) /\ inbox[1] = "subscribe"
    BY <1>1, Request
  <2>. QED
    BY <2>1 DEF Talks, SubscribeFirst
<1>3. inbox' = << >>
  BY <1>1, <1>2 DEF NextRequest
<1>4. e \in Answers /\ e.kind = "subscribed"
  BY DEF Response, Answers
<1>. HIDE DEF e
<1>5. queue = << >> /\ queue \in Seq(Frames) /\ front \in Fronts /\ Len(queue) = 0
  BY <1>2 DEF Quiet, NetOK
<1>6. /\ queue' \in Seq(Frames) /\ Len(queue') = 1 /\ queue'[1] = e /\ OpenIn(queue') = {}
  BY <1>1, <1>4, <1>5, PushedIs
<1>7. SubOK'
  <2>1. pass' = NoPass
    BY <1>1, <1>2 DEF Quiet
  <2>2. NoSub.running = (NoPass.stage # "none")
    BY DEF NoSub, NoPass
  <2>. QED
    BY <1>1, <2>1, <2>2, NothingYet DEF SubOK
<1>8. NetOK'
  <2>1. << >> \in Seq(Asks)
    OBVIOUS
  <2>. QED
    BY <1>1, <1>3, <1>6, <2>1 DEF NetOK
<1>9. RestOK'
  BY DEF Subscribe, RestOK
<1>10. Talks'
  <2>1. AwayIsQuiet' /\ SubscribeFirst' /\ OpenIsLive' /\ ExtendFits'
    BY <1>1, <1>2, <1>3 DEF AwayIsQuiet, SubscribeFirst, OpenIsLive, ExtendFits
  <2>2. AnswerFirst'
    <3>1. queue' # << >>
      BY <1>6
    <3>. QED
      BY <1>1, <1>3, <1>4, <1>6, <3>1 DEF AnswerFirst
  <2>3. LeftIsClosed'
    BY <1>1, <1>2, <1>3, NothingYet DEF LeftIsClosed
  <2>4. QueueTells'
    BY <1>1, <1>2, <1>4, <1>6 DEF QueueTells
  <2>. QED
    BY <2>1, <2>2, <2>3, <2>4 DEF Talks
<1>11. Hears'
  <2>. DEFINE h == [k \in 0..0 |-> front]
  <2>1. Course(h, front, queue) /\ h[Len(queue)] = front
    BY <1>5, CourseEmpty
  <2>2. Delivered(front, e) \in Fronts /\ Delivered(front, e).limit = Limit0
    BY <1>2, <1>4, <1>5, Answered
  <2>. HIDE DEF h
  <2>3. PICK g : Course(g, front, queue') /\ g[Len(queue) + 1] = Delivered(front, e)
    BY <1>1, <1>4, <1>5, <2>1, <2>2, CoursePushed
  <2>4. Told' = Limit0
    BY <1>1, <1>2, NothingYet DEF Told
  <2>. QED
    BY <1>1, <1>5, <1>6, <2>2, <2>3, <2>4 DEF Hears
<1>. QED
  BY <1>7, <1>8, <1>9, <1>10, <1>11

(* An answer to an extend, and what the frontend goes through. *)
LEMMA ExtendTells ==
    ASSUME TalkInv, AnswerExtend, NEW h, Course(h, front, queue),
           live /\ front.state # "closed" => h[Len(queue)].limit = Told
    PROVE  \E e, g :
              /\ e \in Answers
              /\ queue' = Pushed(e) /\ e.kind \in {"done", "refused"}
              /\ Delivered(h[Len(queue)], e) \in Fronts
              /\ e.kind = "done" => /\ live /\ sub.limit + 1 <= Cap /\ serving' = "extending"
                                    /\ h[Len(queue)].state # "closed" => h[Len(queue)].limit + 1 <= Cap
              /\ e.kind = "refused" => serving' = serving
              /\ Course(g, front, queue') /\ g[Len(queue) + 1] = Delivered(h[Len(queue)], e)
              /\ \A k \in 0..Len(queue) : g[k] = h[k]
<1>. USE DEF TalkInv
<1>1. PICK e \in Answers :
         /\ queue' = Pushed(e) /\ e.kind \in {"done", "refused"}
         /\ e.kind = "done" => live /\ sub.limit + 1 <= Cap /\ serving' = "extending"
         /\ e.kind = "refused" => serving' = serving
  <2>1. Response("done") \in Answers /\ Response("refused") \in Answers
    BY DEF Response, Answers
  <2>2. Response("done").kind = "done" /\ Response("refused").kind = "refused"
    BY DEF Response
  <2>. QED
    BY <2>1, <2>2 DEF AnswerExtend
<1>2. serving = "idle"
  BY Request DEF AnswerExtend
<1>3. h[Len(queue)] \in Fronts /\ (front.state = "closed" => h[Len(queue)].state = "closed")
  BY EndIs
<1>4. e.kind = "done" /\ h[Len(queue)].state # "closed" => h[Len(queue)].limit + 1 <= Cap
  BY <1>1, <1>2, <1>3 DEF Told
<1>5. Delivered(h[Len(queue)], e) \in Fronts
  BY <1>3, <1>4, Answered
<1>6. PICK g : /\ Course(g, front, Pushed(e)) /\ g[Len(queue) + 1] = Delivered(h[Len(queue)], e)
               /\ \A k \in 0..Len(queue) : g[k] = h[k]
  BY <1>5, CoursePushed DEF NetOK
<1>. QED
  BY <1>1, <1>4, <1>5, <1>6

LEMMA Answering == ASSUME TalkInv, AnswerExtend PROVE TalkInv'
<1>. USE DEF TalkInv
<1>1. PICK h : Course(h, front, queue) /\ (live /\ front.state # "closed" => h[Len(queue)].limit = Told)
  BY DEF Hears
<1>2. PICK e, g :
         /\ e \in Answers
         /\ queue' = Pushed(e) /\ e.kind \in {"done", "refused"}
         /\ e.kind = "done" => /\ live /\ sub.limit + 1 <= Cap /\ serving' = "extending"
                               /\ h[Len(queue)].state # "closed" => h[Len(queue)].limit + 1 <= Cap
         /\ e.kind = "refused" => serving' = serving
         /\ Course(g, front, queue') /\ g[Len(queue) + 1] = Delivered(h[Len(queue)], e)
  BY <1>1, ExtendTells
<1>3. UNCHANGED <<sub, pass, live, opening, front>> /\ NextRequest("extend")
  BY DEF AnswerExtend
<1>4. /\ queue' \in Seq(Frames) /\ Len(queue') = Len(queue) + 1 /\ queue'[Len(queue) + 1] = e
      /\ \A k \in 1..Len(queue) : queue'[k].kind = queue[k].kind
      /\ OpenIn(queue') = {} /\ Len(queue) \in Nat
  BY <1>2, PushedIs DEF NetOK
<1>5. /\ serving = "idle" /\ inbox' \in Seq(Asks)
      /\ \A k \in 1..Len(inbox') : k + 1 \in 1..Len(inbox) /\ inbox'[k] = inbox[k + 1]
      /\ \A k \in 1..Len(inbox) : inbox[k] # "subscribe"
      /\ front.state \in {"open", "closed"} /\ (front.state = "open" => live)
      /\ \A k \in 1..Len(inbox') : inbox'[k] = "unsubscribe" => front.state = "closed"
      /\ front.state = "open" => \A k \in 1..Len(inbox') : inbox'[k] = "extend"
  BY <1>3, Request
<1>6. SubOK' /\ RestOK'
  BY <1>3 DEF AnswerExtend, SubOK, RestOK
<1>7. NetOK'
  BY <1>2, <1>3, <1>4, <1>5 DEF NetOK
<1>8. Talks'
  <2>1. AwayIsQuiet' /\ SubscribeFirst' /\ AnswerFirst' /\ OpenIsLive'
    BY <1>3, <1>5 DEF AwayIsQuiet, SubscribeFirst, AnswerFirst, OpenIsLive
  <2>2. LeftIsClosed' /\ ExtendFits'
    BY <1>2, <1>3, <1>5 DEF Talks, LeftIsClosed, ExtendFits
  <2>3. QueueTells'
    BY <1>2, <1>3, <1>4 DEF Talks, QueueTells, IsUpdate
  <2>. QED
    BY <2>1, <2>2, <2>3 DEF Talks
<1>9. Hears'
  <2>1. live' /\ front'.state # "closed" => g[Len(queue')].limit = Told'
    <3>. SUFFICES ASSUME live, front.state # "closed" PROVE g[Len(queue) + 1].limit = Told'
      BY <1>3, <1>4
    <3>1. h[Len(queue)].limit = sub.limit /\ h[Len(queue)] \in Fronts /\ h[Len(queue)].state = "open"
      BY <1>1, <1>5, EndIs DEF Told
    <3>2. e.kind = "done" => g[Len(queue) + 1].limit = sub.limit + 1
      BY <1>2, <3>1, Answered
    <3>3. e.kind = "refused" => g[Len(queue) + 1].limit = sub.limit
      BY <1>2, <3>1, Answered
    <3>. QED
      BY <1>2, <1>3, <1>5, <3>2, <3>3 DEF Told
  <2>. QED
    BY <1>2, <1>3, <2>1 DEF Hears
<1>. QED
  BY <1>6, <1>7, <1>8, <1>9

LEMMA Extending == ASSUME TalkInv, Extend PROVE TalkInv'
<1>. USE DEF TalkInv
<1>. DEFINE s == [sub EXCEPT !.limit = @ + 1, !.ready = TRUE, !.dirty = TRUE]
<1>1. /\ serving = "extending" /\ serving' = "idle" /\ RunLocked(s)
      /\ UNCHANGED <<live, queue, inbox, opening, front>>
  BY DEF Extend
<1>2. sub.limit + 1 \in Limit0..Cap
  BY <1>1, SizeAssumption DEF Talks, ExtendFits, SubOK, SubType
<1>3. s \in SubType /\ s.running = sub.running /\ s.limit = sub.limit + 1 /\ s.closed = sub.closed
  BY <1>2 DEF SubOK, SubType
<1>. HIDE DEF s
<1>4. SubOK' /\ sub'.limit = sub.limit + 1 /\ sub'.closed = sub.closed
  BY <1>1, <1>3, RunIs
<1>5. RestOK' /\ NetOK'
  BY <1>1 DEF Extend, RestOK, NetOK, OpenIn
<1>6. ~Quiet
  BY <1>1 DEF Quiet
<1>7. Talks'
  BY <1>1, <1>4, <1>6 DEF Talks, AwayIsQuiet, SubscribeFirst, AnswerFirst, OpenIsLive, LeftIsClosed,
                          QueueTells, ExtendFits
<1>8. Hears'
  <2>1. Told' = Told
    BY <1>1, <1>4 DEF Told
  <2>. QED
    BY <1>1, <2>1 DEF Hears
<1>. QED
  BY <1>4, <1>5, <1>7, <1>8

LEMMA Leaving == ASSUME TalkInv, CloseSub \/ AnswerUnsubscribe PROVE TalkInv'
<1>. USE DEF TalkInv
<1>0. queue \in Seq(Frames) /\ front \in Fronts /\ Len(queue) \in Nat
  BY DEF NetOK
<1>1. CASE CloseSub
  <2>. DEFINE p == Purged
  <2>1. /\ live' = FALSE /\ queue' = p /\ serving' = "leaving"
        /\ UNCHANGED <<sub, pass, opening, front>> /\ NextRequest("unsubscribe")
    BY <1>1 DEF CloseSub
  <2>2. /\ inbox' \in Seq(Asks)
        /\ \A k \in 1..Len(inbox') : k + 1 \in 1..Len(inbox) /\ inbox'[k] = inbox[k + 1]
        /\ \A k \in 1..Len(inbox) : inbox[k] # "subscribe"
        /\ 1 \in 1..Len(inbox) /\ inbox[1] = "unsubscribe"
    BY <2>1, Request
  <2>3. front.state = "closed"
    BY <2>2 DEF Talks, LeftIsClosed
  <2>4. PICK h : Course(h, front, queue)
    BY DEF Hears
  <2>5. PurgedTo(p, front, h, queue, Len(queue))
    BY <1>0, <2>4, PurgeIs DEF Purged
  <2>. HIDE DEF p
  <2>6. p \in Seq(Answers) /\ p \in Seq(Frames) /\ \A k \in 1..Len(p) : p[k] \in Answers
    BY <2>5, Kinds DEF PurgedTo
  <2>7. OpenIn(p) = {}
    BY <2>6, Kinds DEF OpenIn
  <2>8. \A k \in 1..Len(p) : ~IsUpdate(p[k]) /\ p[k].kind # "subscribed"
    <3>. TAKE k \in 1..Len(p)
    <3>1. PICK j \in k..Len(queue) : p[k] = queue[j]
      BY <2>5 DEF PurgedTo
    <3>2. j \in 1..Len(queue)
      BY <1>0, <2>6
    <3>. QED
      BY <2>3, <2>6, <3>1, <3>2, Kinds DEF Talks, QueueTells
  <2>9. SubOK' /\ RestOK' /\ NetOK'
    BY <1>1, <2>1, <2>2, <2>6, <2>7 DEF CloseSub, SubOK, RestOK, NetOK
  <2>10. Talks'
    <3>1. AwayIsQuiet' /\ SubscribeFirst' /\ AnswerFirst' /\ OpenIsLive' /\ ExtendFits'
      BY <2>1, <2>2, <2>3 DEF AwayIsQuiet, SubscribeFirst, AnswerFirst, OpenIsLive, ExtendFits
    <3>2. LeftIsClosed' /\ QueueTells'
      BY <2>1, <2>3, <2>8 DEF LeftIsClosed, QueueTells
    <3>. QED
      BY <3>1, <3>2 DEF Talks
  <2>11. Hears'
    BY <1>0, <2>1, <2>3, <2>6, CourseClosed DEF Hears
  <2>. QED
    BY <2>9, <2>10, <2>11
<1>2. CASE AnswerUnsubscribe
  <2>. DEFINE e == Response("bye")
  <2>1. /\ serving = "leaving" /\ serving' = "idle" /\ sub' = [sub EXCEPT !.closed = TRUE]
        /\ queue' = Pushed(e) /\ UNCHANGED <<pass, live, inbox, opening, front>>
    BY <1>2 DEF AnswerUnsubscribe
  <2>2. front.state = "closed" /\ ~live /\ ~Quiet
    BY <2>1 DEF Talks, LeftIsClosed, Quiet
  <2>3. e \in Answers /\ e.kind = "bye"
    BY DEF Response, Answers
  <2>. HIDE DEF e
  <2>4. /\ queue' \in Seq(Frames) /\ Len(queue') = Len(queue) + 1 /\ queue'[Len(queue) + 1] = e
        /\ \A k \in 1..Len(queue) : queue'[k].kind = queue[k].kind
        /\ OpenIn(queue') = {}
    BY <1>0, <2>1, <2>3, PushedIs
  <2>5. SubOK'
    BY <2>1 DEF SubOK, SubType
  <2>6. RestOK' /\ NetOK'
    BY <1>2, <2>1, <2>4 DEF AnswerUnsubscribe, RestOK, NetOK
  <2>7. Talks'
    <3>1. AwayIsQuiet' /\ SubscribeFirst' /\ AnswerFirst' /\ OpenIsLive' /\ ExtendFits'
      BY <2>1, <2>2 DEF Talks, AwayIsQuiet, SubscribeFirst, AnswerFirst, OpenIsLive, ExtendFits
    <3>2. LeftIsClosed'
      BY <2>1, <2>2 DEF Talks, LeftIsClosed
    <3>3. QueueTells'
      BY <1>0, <2>1, <2>2, <2>3, <2>4 DEF Talks, QueueTells, IsUpdate
    <3>. QED
      BY <3>1, <3>2, <3>3 DEF Talks
  <2>8. Hears'
    BY <1>0, <2>1, <2>2, <2>4, CourseClosed DEF Hears
  <2>. QED
    BY <2>5, <2>6, <2>7, <2>8
<1>. QED
  BY <1>1, <1>2

-----------------------------------------------------------------------------
(* The frontend takes a frame: it goes on along its course. *)
LEMMA WriteIs ==
    ASSUME NetOK, Talks, Write, NEW h, Course(h, front, queue)
    PROVE  /\ queue' \in Seq(Frames) /\ Len(queue') = Len(queue) - 1 /\ Len(queue) \in Nat
           /\ \A k \in 1..Len(queue') : k + 1 \in 1..Len(queue) /\ queue'[k] = queue[k + 1]
           /\ OpenIn(queue') \subseteq {Len(queue')} /\ ~Quiet
           /\ front' = h[1] /\ front' \in Fronts /\ front.state \in {"subscribing", "open", "closed"}
           /\ front'.state = IF front.state = "closed" THEN "closed" ELSE "open"
           /\ front.state # "closed" => live /\ \A k \in 1..Len(inbox) : inbox[k] = "extend"
           /\ \E g : /\ Course(g, front', queue') /\ g[Len(queue')] = h[Len(queue)]
                     /\ \A k \in 0..Len(queue') : g[k] = h[k + 1]
<1>1. queue \in Seq(Frames) /\ queue # << >> /\ queue' = Tail(queue) /\ front \in Fronts
  BY DEF NetOK, Write
<1>2. /\ Len(queue) \in Nat /\ Len(queue) > 0 /\ queue' \in Seq(Frames) /\ Len(queue') = Len(queue) - 1
  BY <1>1, HeadTailProperties, EmptySeq
<1>3. Head(queue) = queue[1] /\ \A k \in 1..Len(queue') : k + 1 \in 1..Len(queue) /\ queue'[k] = queue[k + 1]
  BY <1>1, <1>2
<1>4. OpenIn(queue') \subseteq {Len(queue')}
  <2>1. \A k \in 1..Len(queue) : k = Len(queue) \/ ~(IsUpdate(queue[k]) /\ queue[k].open)
    BY <1>1 DEF NetOK, OpenIn
  <2>2. \A k \in 1..Len(queue') : k = Len(queue') \/ ~(IsUpdate(queue'[k]) /\ queue'[k].open)
    BY <1>2, <1>3, <2>1
  <2>. QED
    BY <1>2, <2>2 DEF OpenIn
<1>5. ~Quiet
  BY <1>1 DEF Quiet
<1>6. front.state \in {"subscribing", "open", "closed"}
  BY <1>1, <1>5 DEF Talks, AwayIsQuiet, Fronts
<1>7. front.state # "closed" => live /\ \A k \in 1..Len(inbox) : inbox[k] = "extend"
  <2>1. inbox # <<"subscribe">>
    <3>. SUFFICES ASSUME inbox = <<"subscribe">> PROVE FALSE
      OBVIOUS
    <3>1. 1 \in 1..Len(inbox) /\ inbox[1] = "subscribe"
      OBVIOUS
    <3>. QED
      BY <1>5, <3>1 DEF Talks, SubscribeFirst
  <2>. QED
    BY <1>6, <2>1 DEF Talks, AnswerFirst, OpenIsLive
<1>8. PICK g : /\ Course(g, h[1], queue')
               /\ \A k \in 0..Len(queue') : g[k] = h[k + 1]
  BY <1>1, CourseRest
<1>9. h[1] = Delivered(front, queue[1]) /\ h[1] \in Fronts /\ front' = h[1]
  BY <1>1, <1>3, CourseRest DEF Write
<1>10. front'.state = IF front.state = "closed" THEN "closed" ELSE "open"
  <2>1. front.state = "subscribing" => queue[1].kind = "subscribed"
    BY <1>7, Follows
  <2>. QED
    BY <1>1, <1>6, <1>9, <2>1 DEF Delivered, Fronts
<1>11. g[Len(queue')] = h[Len(queue)]
  BY <1>2, <1>8
<1>. QED
  BY <1>2, <1>3, <1>4, <1>5, <1>6, <1>7, <1>8, <1>9, <1>10, <1>11

LEMMA Writing == ASSUME TalkInv, Write PROVE TalkInv'
<1>. USE DEF TalkInv
<1>1. PICK h : Course(h, front, queue) /\ (live /\ front.state # "closed" => h[Len(queue)].limit = Told)
  BY DEF Hears
<1>2. /\ queue' \in Seq(Frames) /\ Len(queue') = Len(queue) - 1 /\ Len(queue) \in Nat
      /\ \A k \in 1..Len(queue') : k + 1 \in 1..Len(queue) /\ queue'[k] = queue[k + 1]
      /\ OpenIn(queue') \subseteq {Len(queue')} /\ ~Quiet
      /\ front' \in Fronts /\ front.state \in {"subscribing", "open", "closed"}
      /\ front'.state = IF front.state = "closed" THEN "closed" ELSE "open"
      /\ front.state # "closed" => live /\ \A k \in 1..Len(inbox) : inbox[k] = "extend"
  BY <1>1, WriteIs
<1>3. PICK g : Course(g, front', queue') /\ g[Len(queue')] = h[Len(queue)]
  BY <1>1, WriteIs
<1>4. UNCHANGED <<sub, pass, live, inbox, serving, opening>>
  BY DEF Write
<1>5. SubOK' /\ RestOK' /\ NetOK'
  BY <1>2, <1>4 DEF Write, SubOK, RestOK, NetOK
<1>6. Talks'
  <2>1. AwayIsQuiet' /\ AnswerFirst' /\ ExtendFits'
    BY <1>2, <1>4 DEF Talks, AwayIsQuiet, AnswerFirst, ExtendFits
  <2>2. SubscribeFirst'
    BY <1>2, <1>4 DEF Talks, SubscribeFirst
  <2>3. OpenIsLive' /\ LeftIsClosed'
    BY <1>2, <1>4 DEF Talks, OpenIsLive, LeftIsClosed
  <2>4. QueueTells'
    <3>. SUFFICES ASSUME NEW k \in 1..Len(queue')
                  PROVE  /\ IsUpdate(queue[k + 1]) => live
                         /\ queue[k + 1].kind = "bye" => ~live
                         /\ queue[k + 1].kind # "subscribed"
      BY <1>2, <1>4 DEF QueueTells
    <3>1. k + 1 \in 1..Len(queue) /\ k + 1 # 1
      BY <1>2
    <3>. QED
      BY <3>1 DEF Talks, QueueTells
  <2>. QED
    BY <2>1, <2>2, <2>3, <2>4 DEF Talks
<1>7. Hears'
  <2>1. Told' = Told
    BY <1>4 DEF Told
  <2>2. front'.state # "closed" => front.state # "closed"
    BY <1>2
  <2>. QED
    BY <1>1, <1>3, <1>4, <2>1, <2>2 DEF Hears
<1>. QED
  BY <1>5, <1>6, <1>7

LEMMA Asking == ASSUME TalkInv, Connect \/ AskExtend \/ AskClose PROVE TalkInv'
<1>. USE DEF TalkInv
<1>0. queue \in Seq(Frames) /\ front \in Fronts /\ inbox \in Seq(Asks) /\ Len(queue) \in Nat
  BY DEF NetOK
<1>1. CASE Connect
  <2>1. /\ front.state = "away" /\ front' = [front EXCEPT !.state = "subscribing"]
        /\ inbox' = <<"subscribe">>
        /\ UNCHANGED <<sub, pass, live, queue, serving, opening>>
    BY <1>1 DEF Connect
  <2>2. Quiet /\ Quiet' /\ queue = << >> /\ ~live
    BY <2>1 DEF Talks, AwayIsQuiet, Quiet
  <2>3. front' \in Fronts /\ front'.state = "subscribing"
    BY <1>0, <2>1 DEF Fronts
  <2>4. inbox' \in Seq(Asks) /\ \A k \in 1..Len(inbox') : inbox'[k] = "subscribe"
    BY <2>1 DEF Asks
  <2>5. SubOK' /\ RestOK' /\ NetOK'
    BY <1>1, <2>1, <2>3, <2>4 DEF Connect, SubOK, RestOK, NetOK, OpenIn
  <2>6. Talks'
    <3>1. AwayIsQuiet' /\ SubscribeFirst' /\ AnswerFirst' /\ OpenIsLive' /\ ExtendFits'
      BY <2>1, <2>2, <2>3 DEF Talks, AwayIsQuiet, SubscribeFirst, AnswerFirst, OpenIsLive, ExtendFits
    <3>2. LeftIsClosed'
      BY <2>1, <2>4 DEF Talks, LeftIsClosed
    <3>3. QueueTells'
      BY <2>1, <2>2 DEF QueueTells
    <3>. QED
      BY <3>1, <3>2, <3>3 DEF Talks
  <2>7. Hears'
    BY <2>1, <2>2, <2>3, CourseEmpty DEF Hears
  <2>. QED
    BY <2>5, <2>6, <2>7
<1>2. CASE AskExtend
  <2>1. /\ front.state = "open" /\ inbox' = Append(inbox, "extend")
        /\ UNCHANGED <<sub, pass, live, queue, serving, opening, front>>
    BY <1>2 DEF AskExtend
  <2>2. live /\ \A k \in 1..Len(inbox) : inbox[k] = "extend"
    BY <2>1 DEF Talks, OpenIsLive
  <2>3. inbox' \in Seq(Asks) /\ \A k \in 1..Len(inbox') : inbox'[k] = "extend"
    <3>1. "extend" \in Asks
      BY DEF Asks
    <3>2. inbox' \in Seq(Asks) /\ Len(inbox') = Len(inbox) + 1 /\ Len(inbox) \in Nat
      BY <1>0, <2>1, <3>1
    <3>3. \A k \in 1..Len(inbox') : inbox'[k] = IF k = Len(inbox) + 1 THEN "extend" ELSE inbox[k]
      BY <1>0, <2>1, <3>2
    <3>. QED
      BY <2>2, <3>2, <3>3
  <2>4. RestOK'
    BY <1>2 DEF AskExtend, Spend, RestOK, Events
  <2>5. SubOK' /\ NetOK'
    BY <2>1, <2>3 DEF SubOK, NetOK, OpenIn
  <2>6. Talks'
    BY <2>1, <2>2, <2>3 DEF Talks, AwayIsQuiet, SubscribeFirst, AnswerFirst, OpenIsLive,
                            LeftIsClosed, QueueTells, ExtendFits
  <2>7. Hears'
    BY <2>1 DEF Hears, Told
  <2>. QED
    BY <2>4, <2>5, <2>6, <2>7
<1>3. CASE AskClose
  <2>1. /\ front.state = "open" /\ front' = [front EXCEPT !.state = "closed", !.asked = FALSE]
        /\ inbox' = Append(inbox, "unsubscribe")
        /\ UNCHANGED <<sub, pass, live, queue, serving, opening>>
    BY <1>3 DEF AskClose
  <2>2. live /\ \A k \in 1..Len(inbox) : inbox[k] = "extend"
    BY <2>1 DEF Talks, OpenIsLive
  <2>3. inbox' \in Seq(Asks) /\ \A k \in 1..Len(inbox') : inbox'[k] # "subscribe"
    <3>1. "unsubscribe" \in Asks
      BY DEF Asks
    <3>2. inbox' \in Seq(Asks) /\ Len(inbox') = Len(inbox) + 1 /\ Len(inbox) \in Nat
      BY <1>0, <2>1, <3>1
    <3>3. \A k \in 1..Len(inbox') : inbox'[k] = IF k = Len(inbox) + 1 THEN "unsubscribe" ELSE inbox[k]
      BY <1>0, <2>1, <3>2
    <3>. QED
      BY <2>2, <3>2, <3>3
  <2>4. front' \in Fronts /\ front'.state = "closed"
    BY <1>0, <2>1 DEF Fronts
  <2>5. RestOK'
    BY <1>3 DEF AskClose, Spend, RestOK, Events
  <2>6. SubOK' /\ NetOK'
    BY <2>1, <2>3, <2>4 DEF SubOK, NetOK, OpenIn
  <2>7. Talks'
    <3>1. AwayIsQuiet' /\ SubscribeFirst' /\ AnswerFirst' /\ OpenIsLive' /\ ExtendFits'
      BY <2>1, <2>3, <2>4 DEF Talks, AwayIsQuiet, SubscribeFirst, AnswerFirst, OpenIsLive, ExtendFits
    <3>2. LeftIsClosed' /\ QueueTells'
      BY <2>1, <2>2, <2>4 DEF Talks, LeftIsClosed, QueueTells
    <3>. QED
      BY <3>1, <3>2 DEF Talks
  <2>8. Hears'
    BY <1>0, <2>1, <2>4, CourseClosed DEF Hears
  <2>. QED
    BY <2>5, <2>6, <2>7, <2>8
<1>. QED
  BY <1>1, <1>2, <1>3

-----------------------------------------------------------------------------
LEMMA BeginsTalking == ASSUME Init PROVE TalkInv
<1>. USE DEF Init
<1>1. /\ sub = NoSub /\ pass = NoPass /\ ~live /\ queue = << >> /\ inbox = << >>
      /\ serving = "idle" /\ opening = FALSE /\ front.state = "away"
  OBVIOUS
<1>2. SubOK
  <2>1. NoSub.running = (NoPass.stage # "none")
    BY DEF NoSub, NoPass
  <2>. QED
    BY <1>1, <2>1, NothingYet DEF SubOK
<1>3. front \in Fronts
  <2>1. Limit0 \in Limit0..Cap
    BY SizeAssumption
  <2>. QED
    BY <2>1, NothingIs DEF Fronts
<1>4. NetOK
  <2>1. << >> \in Seq(Asks) /\ << >> \in Seq(Frames) /\ OpenIn(<< >>) = {}
    BY DEF OpenIn
  <2>. QED
    BY <1>1, <1>3, <2>1 DEF NetOK
<1>5. RestOK
  BY WorldAssumption DEF RestOK
<1>6. Talks
  <2>1. Quiet
    BY <1>1 DEF Quiet
  <2>2. ~sub.closed
    BY <1>1, NothingYet
  <2>. QED
    BY <1>1, <2>1, <2>2 DEF Talks, AwayIsQuiet, SubscribeFirst, AnswerFirst, OpenIsLive,
                            LeftIsClosed, QueueTells, ExtendFits
<1>7. Hears
  BY <1>1, <1>3, CourseEmpty DEF Hears
<1>. QED
  BY <1>2, <1>4, <1>5, <1>6, <1>7 DEF TalkInv

LEMMA TalksOn == ASSUME TalkInv, [Next]_vars PROVE TalkInv'
<1>1. CASE UNCHANGED vars
  <2>1. SubOK' /\ NetOK' /\ RestOK' /\ Talks'
    BY <1>1 DEF vars, TalkInv, SubOK, NetOK, OpenIn, RestOK, Talks, AwayIsQuiet, SubscribeFirst,
                AnswerFirst, OpenIsLive, LeftIsClosed, QueueTells, ExtendFits, Quiet
  <2>2. Hears'
    BY <1>1 DEF vars, TalkInv, Hears, Told
  <2>. QED
    BY <2>1, <2>2 DEF TalkInv
<1>2. CASE Next
  <2>1. CASE Change \/ Kick \/ Start
    BY <2>1, Goings
  <2>2. CASE TakePass \/ ReadWindow \/ ReadFails
    BY <2>2, Passes
  <2>3. CASE PushPass
    BY <2>3, Pushing
  <2>4. CASE Hangup \/ PassPanics
    BY <2>4, Hangings
  <2>5. CASE Subscribe
    BY <2>5, Subscribing
  <2>6. CASE AnswerExtend \/ Extend
    BY <2>6, Answering, Extending
  <2>7. CASE CloseSub \/ AnswerUnsubscribe
    BY <2>7, Leaving
  <2>8. CASE Write
    BY <2>8, Writing
  <2>9. CASE Connect \/ AskExtend \/ AskClose
    BY <2>9, Asking
  <2>. QED
    BY <1>2, <2>1, <2>2, <2>3, <2>4, <2>5, <2>6, <2>7, <2>8, <2>9
       DEF Next, PassStep, HandlerStep, FrontStep
<1>. QED
  BY <1>1, <1>2

(* Whatever the views, the caps and the events, every variable keeps its    *)
(* type: no pass outlives its subscription, only the last frame of a queue  *)
(* is open to merging, and neither side's limit passes the view's cap       *)
(* (runLocked, pushUpdate and the extend handler).                          *)
THEOREM WindowTypeSafe == Spec => []TypeOK
<1>1. Init => TalkInv
  BY BeginsTalking
<1>2. TalkInv /\ [Next]_vars => TalkInv'
  BY TalksOn
<1>3. TalkInv => TypeOK
  BY TypeParts DEF TalkInv
<1>. QED
  BY <1>1, <1>2, <1>3, PTL DEF Spec

(* No update is queued or left in the queue once the answer to the          *)
(* unsubscribe is there, though a pass may run on and push (closeSub purges *)
(* and shuts the queue for the subscription before the answer is pushed).   *)
THEOREM ByeIsLast == Spec => []NothingAfterBye
<1>1. Init => TalkInv
  BY BeginsTalking
<1>2. TalkInv /\ [Next]_vars => TalkInv'
  BY TalksOn
<1>3. TalkInv => NothingAfterBye
  <2>. SUFFICES ASSUME TalkInv PROVE NothingAfterBye
    OBVIOUS
  <2>1. DOMAIN queue = 1..Len(queue)
    BY DEF TalkInv, NetOK
  <2>2. \A k, m \in 1..Len(queue) : queue[k].kind = "bye" => ~IsUpdate(queue[m])
    BY DEF TalkInv, Talks, QueueTells
  <2>. QED
    BY <2>1, <2>2 DEF NothingAfterBye
<1>. QED
  BY <1>1, <1>2, <1>3, PTL DEF Spec

-----------------------------------------------------------------------------
(* The copy. *)

(* What a difference for the frontend f starts from. *)
Shown(f) == IF f.fresh THEN Nothing ELSE f.copy

(* The frontend that took the whole queue has what was sent, or will by the *)
(* update a pass is about to queue, or is owed a reset.                     *)
InStep(f) ==
    IF pass.stage = "push" THEN Shows(f, pass.update) = sub.sent
    ELSE Owed \/ Shown(f) = sub.sent

Flags ==
    /\ Cardinality(Present(sub.sent)) <= sub.limit /\ pass.limit <= sub.limit
    /\ sub.resetting => sub.closed
    /\ ~pass.ok => pass.stage = "top"
    /\ pass.reset => pass.stage = "read" /\ sub.sent = Nothing
Copies ==
    live /\ front.state # "closed" =>
      \E h : /\ Course(h, front, queue) /\ \A k \in 0..Len(queue) : Fits(h[k])
             /\ InStep(h[Len(queue)])
CopyInv == TalkInv /\ Flags /\ Copies

(* No read fails in a pass that has taken a reset upon it. *)
ResetsAreRead == [][ReadFails => ~pass.reset]_vars

LEMMA NoneIsFew ==
    /\ Cardinality(Present(Nothing)) = 0 /\ Limit0 \in Nat /\ \A f : f.fresh => Fits(f)
    /\ NoPass.stage = "none" /\ NoPass.ok /\ ~NoPass.reset /\ NoPass.limit = 0
<1>1. Present(Nothing) = {}
  BY DEF Present, Nothing
<1>. QED
  BY <1>1, NothingYet, SizeAssumption, FS_EmptySet DEF Fits

LEMMA ShowsIs ==
    ASSUME NEW f, NEW u
    PROVE  /\ ~u.reset => Shows(f, u) = Over(u.changes, Shown(f))
           /\ u.reset => Shows(f, u) = Over(u.changes, Nothing)
BY DEF Shows, Shown

LEMMA SameCourse ==
    ASSUME CopyInv, live, front.state # "closed"
    PROVE  \E h : /\ Course(h, front, queue) /\ \A k \in 0..Len(queue) : Fits(h[k])
                  /\ InStep(h[Len(queue)]) /\ h[Len(queue)].limit = Told
                  /\ h[Len(queue)] \in Fronts /\ h[Len(queue)].state = "open"
<1>1. PICK h : /\ Course(h, front, queue) /\ \A k \in 0..Len(queue) : Fits(h[k])
               /\ InStep(h[Len(queue)])
  BY DEF CopyInv, Copies
<1>2. PICK g : Course(g, front, queue) /\ g[Len(queue)].limit = Told
  BY DEF CopyInv, TalkInv, Hears
<1>3. h = g
  BY <1>1, <1>2, CourseOne DEF CopyInv, TalkInv, NetOK
<1>4. h[Len(queue)] \in Fronts /\ h[Len(queue)].state = "open"
  BY <1>1, EndIs DEF CopyInv, TalkInv
<1>. QED
  BY <1>1, <1>2, <1>3, <1>4

(* Nothing is said. *)
LEMMA CopySilence ==
    ASSUME CopyInv, TalkInv', Flags', UNCHANGED <<queue, front, live>>,
           \A f \in Fronts : live /\ InStep(f) => InStep(f)'
    PROVE  CopyInv'
<1>1. ASSUME live, front.state # "closed"
      PROVE  \E h : /\ Course(h, front, queue) /\ \A k \in 0..Len(queue) : Fits(h[k])
                    /\ InStep(h[Len(queue)])'
  <2>1. PICK h : /\ Course(h, front, queue) /\ \A k \in 0..Len(queue) : Fits(h[k])
                 /\ InStep(h[Len(queue)]) /\ h[Len(queue)] \in Fronts
    BY <1>1, SameCourse
  <2>2. InStep(h[Len(queue)])'
    BY <1>1, <2>1
  <2>. QED
    BY <2>1, <2>2
<1>2. Copies'
  BY <1>1 DEF Copies, InStep
<1>. QED
  BY <1>2 DEF CopyInv

LEMMA RunKeeps ==
    ASSUME CopyInv, TalkInv', NEW s \in SubType, s.running = sub.running, RunLocked(s),
           s.limit \in {sub.limit, sub.limit + 1}, s.sent = sub.sent, s.closed = sub.closed,
           s.resetting = sub.resetting, UNCHANGED <<queue, front, live>>
    PROVE  CopyInv'
<1>1. /\ sub'.limit = s.limit /\ sub'.closed = sub.closed /\ sub'.sent = sub.sent
      /\ sub'.resetting = sub.resetting
      /\ pass' = pass \/ (pass.stage = "none" /\ pass' = [NoPass EXCEPT !.stage = "top"])
  BY RunIs DEF CopyInv, TalkInv
<1>2. sub.limit \in Nat /\ s.limit >= sub.limit /\ pass.limit \in Nat
  BY SizeAssumption DEF CopyInv, TalkInv, SubOK, SubType, PassType
<1>3. Cardinality(Present(sub.sent)) \in Nat
  BY ItemAssumption, FS_Subset, FS_CardinalityType DEF Present
<1>4. CASE pass' = pass
  <2>1. Flags'
    BY <1>1, <1>2, <1>3, <1>4 DEF CopyInv, Flags
  <2>2. \A f \in Fronts : live /\ InStep(f) => InStep(f)'
    BY <1>1, <1>4 DEF InStep, Owed
  <2>. QED
    BY <2>1, <2>2, CopySilence
<1>5. CASE pass.stage = "none" /\ pass' = [NoPass EXCEPT !.stage = "top"]
  <2>1. pass'.stage = "top" /\ pass'.ok /\ ~pass'.reset /\ pass'.limit = 0
    BY <1>5, NoneIsFew DEF NoPass
  <2>2. Flags'
    BY <1>1, <1>2, <1>3, <2>1 DEF CopyInv, Flags
  <2>3. \A f \in Fronts : live /\ InStep(f) => InStep(f)'
    <3>1. live => ~Owed
      BY <1>5 DEF Owed, CopyInv, Flags, TalkInv, Talks, LeftIsClosed
    <3>. QED
      BY <1>1, <1>5, <2>1, <3>1 DEF InStep
  <2>. QED
    BY <2>2, <2>3, CopySilence
<1>. QED
  BY <1>1, <1>4, <1>5

LEMMA CopyGoings == ASSUME CopyInv, Change \/ Kick \/ Start \/ Extend PROVE CopyInv'
<1>0. TalkInv' /\ sub \in SubType
  BY Goings, Extending DEF CopyInv, TalkInv, SubOK
<1>1. CASE Change \/ (Kick /\ ~live)
  <2>1. UNCHANGED <<sub, pass, queue, front, live>>
    BY <1>1 DEF Change, Kick
  <2>2. Flags'
    BY <2>1 DEF CopyInv, Flags
  <2>3. \A f \in Fronts : live /\ InStep(f) => InStep(f)'
    BY <2>1 DEF InStep, Owed
  <2>. QED
    BY <1>0, <2>1, <2>2, <2>3, CopySilence
<1>2. CASE Kick /\ live
  <2>. DEFINE s == [sub EXCEPT !.dirty = TRUE]
  <2>1. /\ s \in SubType /\ s.running = sub.running /\ s.limit = sub.limit /\ s.sent = sub.sent
        /\ s.closed = sub.closed /\ s.resetting = sub.resetting
    BY <1>0 DEF SubType
  <2>2. RunLocked(s) /\ UNCHANGED <<queue, front, live>>
    BY <1>2 DEF Kick
  <2>. HIDE DEF s
  <2>. QED
    BY <1>0, <2>1, <2>2, RunKeeps
<1>3. CASE Start
  <2>. DEFINE s == [sub EXCEPT !.started = TRUE, !.dirty = TRUE, !.ready = TRUE]
  <2>1. /\ s \in SubType /\ s.running = sub.running /\ s.limit = sub.limit /\ s.sent = sub.sent
        /\ s.closed = sub.closed /\ s.resetting = sub.resetting
    BY <1>0 DEF SubType
  <2>2. RunLocked(s) /\ UNCHANGED <<queue, front, live>>
    BY <1>3 DEF Start
  <2>. HIDE DEF s
  <2>. QED
    BY <1>0, <2>1, <2>2, RunKeeps
<1>4. CASE Extend
  <2>. DEFINE s == [sub EXCEPT !.limit = @ + 1, !.ready = TRUE, !.dirty = TRUE]
  <2>1. sub.limit + 1 \in Limit0..Cap
    BY <1>0, <1>4, SizeAssumption DEF Extend, CopyInv, TalkInv, Talks, ExtendFits, SubType
  <2>2. /\ s \in SubType /\ s.running = sub.running /\ s.limit = sub.limit + 1 /\ s.sent = sub.sent
        /\ s.closed = sub.closed /\ s.resetting = sub.resetting
    BY <1>0, <2>1 DEF SubType
  <2>3. RunLocked(s) /\ UNCHANGED <<queue, front, live>>
    BY <1>4 DEF Extend
  <2>. HIDE DEF s
  <2>. QED
    BY <1>0, <2>2, <2>3, RunKeeps
<1>. QED
  BY <1>1, <1>2, <1>3, <1>4

LEMMA CopyPasses ==
    ASSUME CopyInv, TakePass \/ ReadWindow \/ (ReadFails /\ ~pass.reset) PROVE CopyInv'
<1>0. /\ TalkInv' /\ UNCHANGED <<queue, front, live>>
      /\ sub \in SubType /\ pass \in PassType /\ Flags
  BY Passes DEF CopyInv, TalkInv, SubOK, TakePass, ReadWindow, ReadFails
<1>00. sub.limit \in Nat /\ pass.limit \in Nat
  BY <1>0, SizeAssumption DEF SubType, PassType
<1>1. CASE TakePass
  <2>. DEFINE s == IF pass.ok THEN sub
                   ELSE [sub EXCEPT !.sent = Nothing, !.dirty = TRUE, !.ready = TRUE,
                                    !.resetting = TRUE]
  <2>1. /\ s.limit = sub.limit /\ s.closed = sub.closed
        /\ pass.ok => s.sent = sub.sent /\ s.resetting = sub.resetting
        /\ ~pass.ok => s.sent = Nothing /\ s.resetting /\ s.dirty
    BY <1>0 DEF SubType
  <2>2. pass.stage = "top"
    BY <1>1 DEF TakePass
  <2>3. CASE s.dirty /\ ~s.closed
    <3>1. /\ pass' = [NoPass EXCEPT !.stage = "read", !.limit = s.limit,
                                    !.ready = s.ready, !.reset = s.resetting]
          /\ sub' = [s EXCEPT !.dirty = FALSE, !.ready = FALSE, !.resetting = FALSE]
      BY <1>1, <2>3 DEF TakePass
    <3>2. s \in SubType
      BY <1>0, NothingIs DEF SubType
    <3>. HIDE DEF s
    <3>3. /\ pass'.stage = "read" /\ pass'.limit = s.limit /\ pass'.reset = s.resetting /\ pass'.ok
      BY <3>1 DEF NoPass
    <3>4. ~sub'.resetting /\ sub'.sent = s.sent /\ sub'.limit = s.limit
      BY <3>1, <3>2 DEF SubType
    <3>5. s.resetting => ~pass.ok
      BY <1>0, <2>1, <2>3 DEF Flags
    <3>6. Flags'
      BY <1>0, <1>00, <2>1, <3>3, <3>4, <3>5, NoneIsFew DEF Flags
    <3>7. \A f \in Fronts : live /\ InStep(f) => InStep(f)'
      <4>1. s.resetting => Owed'
        BY <3>3 DEF Owed
      <4>2. ~s.resetting => pass.ok /\ ~sub.resetting /\ ~pass.reset
        BY <1>0, <2>1, <2>2 DEF Flags
      <4>. QED
        BY <2>1, <2>2, <3>3, <3>4, <4>1, <4>2 DEF InStep, Owed
    <3>. QED
      BY <1>0, <3>6, <3>7, CopySilence
  <2>4. CASE ~(s.dirty /\ ~s.closed)
    <3>1. pass' = NoPass /\ sub' = [s EXCEPT !.running = FALSE]
      BY <1>1, <2>4 DEF TakePass
    <3>2. s \in SubType
      BY <1>0, NothingIs DEF SubType
    <3>. HIDE DEF s
    <3>3. sub'.sent = s.sent /\ sub'.limit = s.limit /\ sub'.closed = s.closed /\ sub'.resetting = s.resetting
      BY <3>1, <3>2 DEF SubType
    <3>4. Flags'
      BY <1>0, <1>00, <2>1, <2>4, <3>1, <3>3, NoneIsFew DEF Flags
    <3>5. \A f \in Fronts : live /\ InStep(f) => InStep(f)'
      <4>1. live => pass.ok /\ ~sub.resetting /\ ~pass.reset
        BY <1>0, <2>1, <2>2, <2>4 DEF Flags, CopyInv, TalkInv, Talks, LeftIsClosed
      <4>. QED
        BY <2>1, <2>2, <3>1, <3>3, <4>1, NoneIsFew DEF InStep, Owed
    <3>. QED
      BY <1>0, <3>4, <3>5, CopySilence
  <2>. QED
    BY <2>3, <2>4
<1>2. CASE ReadWindow
  <2>. DEFINE next == First(world, pass.limit)
              u == Update(pass.reset, Diff(sub.sent, next), pass.ready)
              over == ~u.reset /\ Size(u) > FrameMax
  <2>1. pass.stage = "read" /\ sub' = [sub EXCEPT !.sent = next]
    BY <1>2 DEF ReadWindow
  <2>2. /\ next \in Contents /\ Cardinality(Present(next)) <= pass.limit
        /\ u \in Updates /\ u.reset = pass.reset /\ u.changes = Diff(sub.sent, next)
        /\ Size(u) = 0 => sub.sent = next
    BY <2>1, ReadIs DEF CopyInv
  <2>3. \/ pass' = [NoPass EXCEPT !.stage = "top", !.ok = FALSE]
        \/ pass' = [NoPass EXCEPT !.stage = "top", !.ok = TRUE] /\ ~pass.reset /\ Size(u) = 0
        \/ pass' = [NoPass EXCEPT !.stage = "push", !.update = u]
    <3>1. pass' = IF over \/ (Size(u) = 0 /\ ~u.ready /\ ~u.reset)
                  THEN [NoPass EXCEPT !.stage = "top", !.ok = ~over]
                  ELSE [NoPass EXCEPT !.stage = "push", !.update = u]
      BY <1>2 DEF ReadWindow
    <3>2. CASE over
      BY <3>1, <3>2
    <3>3. CASE ~over /\ Size(u) = 0 /\ ~u.ready /\ ~u.reset
      BY <2>2, <3>1, <3>3
    <3>4. CASE ~over /\ ~(Size(u) = 0 /\ ~u.ready /\ ~u.reset)
      BY <3>1, <3>4
    <3>. QED
      BY <3>2, <3>3, <3>4
  <2>. HIDE DEF u, next
  <2>4. sub'.sent = next /\ UNCHANGED <<sub.limit, sub.closed, sub.resetting>>
    BY <1>0, <2>1 DEF SubType
  <2>5. /\ pass'.limit = 0 /\ ~pass'.reset
        /\ pass'.stage = "push" => pass'.ok /\ pass'.update = u
        /\ pass'.stage # "push" => /\ pass'.stage = "top"
                                   /\ pass'.ok => ~pass.reset /\ Size(u) = 0
    BY <2>3 DEF NoPass
  <2>6. Flags'
    <3>1. Cardinality(Present(next)) \in Nat
      BY ItemAssumption, FS_Subset, FS_CardinalityType DEF Present
    <3>2. Cardinality(Present(next)) <= sub.limit
      BY <1>0, <1>00, <2>2, <3>1 DEF Flags
    <3>3. pass'.stage \in {"top", "push"}
      BY <2>3 DEF NoPass
    <3>. QED
      BY <1>0, <1>00, <2>4, <2>5, <3>2, <3>3 DEF Flags
  <2>7. ASSUME NEW f \in Fronts, live, InStep(f) PROVE InStep(f)'
    <3>1. ~sub.resetting /\ pass.ok
      BY <1>0, <2>1, <2>7 DEF Flags, CopyInv, TalkInv, Talks, LeftIsClosed
    <3>2. ~pass.reset => Shown(f) = sub.sent
      BY <2>1, <2>7, <3>1 DEF InStep, Owed
    <3>3. pass.reset => sub.sent = Nothing
      BY <1>0 DEF Flags
    <3>4. Shows(f, u) = next
      <4>1. Over(Diff(sub.sent, next), sub.sent) = next
        BY <1>0, <2>2, DiffIs DEF SubType
      <4>. QED
        BY <2>2, <3>2, <3>3, <4>1, ShowsIs
    <3>5. CASE pass'.stage = "push"
      BY <2>4, <2>5, <3>4, <3>5 DEF InStep
    <3>6. CASE pass'.stage # "push"
      BY <2>2, <2>4, <2>5, <3>2, <3>6 DEF InStep, Owed
    <3>. QED
      BY <3>5, <3>6
  <2>. QED
    BY <1>0, <2>6, <2>7, CopySilence
<1>3. CASE ReadFails /\ ~pass.reset
  <2>1. /\ pass.stage = "read" /\ sub' = sub
        /\ \/ pass' = [NoPass EXCEPT !.stage = "push", !.update = BareReady]
           \/ pass' = [NoPass EXCEPT !.stage = "top"]
    BY <1>3 DEF ReadFails
  <2>2. pass'.stage \in {"push", "top"} /\ pass'.limit = 0 /\ ~pass'.reset /\ pass'.ok
    BY <2>1 DEF NoPass
  <2>3. Flags'
    BY <1>0, <1>00, <2>1, <2>2 DEF Flags
  <2>4. ASSUME NEW f \in Fronts, live, InStep(f) PROVE InStep(f)'
    <3>1. ~Owed
      BY <1>0, <1>3, <2>1, <2>4 DEF Owed, Flags, CopyInv, TalkInv, Talks, LeftIsClosed
    <3>2. Shown(f) = sub.sent /\ Shown(f) \in Contents
      BY <2>1, <2>4, <3>1, NothingIs DEF InStep, Shown, Fronts
    <3>3. CASE pass'.stage = "push"
      <4>1. pass'.update = BareReady
        BY <2>1, <3>3 DEF NoPass
      <4>2. ~BareReady.reset /\ BareReady.changes = << >>
        BY DEF BareReady, Update
      <4>3. Shows(f, BareReady) = Shown(f)
        BY <3>2, <4>2, ShowsIs, NoChangeIs
      <4>. QED
        BY <2>1, <3>2, <3>3, <4>1, <4>3 DEF InStep
    <3>4. CASE pass'.stage # "push"
      BY <2>1, <3>2, <3>4 DEF InStep
    <3>. QED
      BY <3>3, <3>4
  <2>. QED
    BY <1>0, <2>3, <2>4, CopySilence
<1>. QED
  BY <1>1, <1>2, <1>3

LEMMA CopyPushing == ASSUME CopyInv, PushPass PROVE CopyInv'
<1>. DEFINE u == pass.update
<1>1. /\ pass.stage = "push" /\ u \in Updates /\ UNCHANGED <<sub, live, serving, front>>
      /\ queue' = PushUpdate(u).queue /\ pass' = [NoPass EXCEPT !.stage = "top", !.ok = PushUpdate(u).ok]
  BY DEF PushPass, CopyInv, TalkInv, SubOK, PassType
<1>2. TalkInv' /\ Flags /\ TalkInv
  BY Pushing DEF CopyInv
<1>. HIDE DEF u
<1>3. pass'.stage = "top" /\ pass'.ok = PushUpdate(u).ok /\ ~pass'.reset /\ pass'.limit = 0
  BY <1>1 DEF NoPass
<1>4. Flags'
  <2>1. sub.limit \in Nat
    BY <1>2, SizeAssumption DEF TalkInv, SubOK, SubType
  <2>. QED
    BY <1>1, <1>2, <1>3, <2>1 DEF Flags
<1>5. ASSUME live, front.state # "closed"
      PROVE  \E g, f : /\ Course(g, front, queue') /\ \A k \in 0..Len(queue') : Fits(g[k])
                       /\ f = g[Len(queue')] /\ InStep(f)'
  <2>1. PICK h : /\ Course(h, front, queue) /\ \A k \in 0..Len(queue) : Fits(h[k])
                 /\ InStep(h[Len(queue)]) /\ h[Len(queue)].limit = Told
                 /\ h[Len(queue)] \in Fronts /\ h[Len(queue)].state = "open"
    BY <1>5, SameCourse
  <2>2. Len(queue) \in Nat /\ h[0] = front
    BY <1>2, <2>1 DEF TalkInv, NetOK, Course
  <2>3. CASE PushUpdate(u) = [queue |-> Purged, ok |-> FALSE]
    <3>1. queue' = Purged /\ ~pass'.ok
      BY <1>1, <1>3, <2>3
    <3>2. Fits(front)
      BY <2>1, <2>2
    <3>3. PICK g : Course(g, front, queue') /\ \A k \in 0..Len(queue') : Fits(g[k])
      BY <1>2, <1>5, <2>1, <3>1, <3>2, PurgeTells DEF TalkInv
    <3>4. \A f : InStep(f)'
      BY <1>3, <3>1 DEF InStep, Owed
    <3>. QED
      BY <3>3, <3>4
  <2>4. CASE PushUpdate(u).ok /\ \E g : TakesIn(PushUpdate(u).queue, u, h, g)
    <3>1. PICK g : TakesIn(queue', u, h, g)
      BY <1>1, <2>4
    <3>. DEFINE n == Len(queue')
    <3>2. /\ Course(g, front, queue') /\ n \in Nat
          /\ g[n].limit = Told /\ ~g[n].fresh /\ g[n].copy = Shows(h[Len(queue)], u)
          /\ \A k \in 0..n - 1 : Fits(g[k])
      <4>1. Speaks(queue')
        BY <3>1 DEF TakesIn
      <4>. QED
        BY <2>1, <3>1, <4>1 DEF TakesIn, Speaks
    <3>3. g[n].copy = sub.sent
      BY <1>1, <2>1, <3>2 DEF InStep, u
    <3>4. Fits(g[n])
      <4>1. /\ sub.limit \in Nat /\ Told \in {sub.limit, sub.limit + 1}
            /\ Cardinality(Present(sub.sent)) <= sub.limit
        BY <1>2, SizeAssumption DEF TalkInv, SubOK, SubType, Told, Flags
      <4>2. Cardinality(Present(sub.sent)) \in Nat
        BY ItemAssumption, FS_Subset, FS_CardinalityType DEF Present
      <4>3. Cardinality(Present(sub.sent)) <= Told
        BY <4>1, <4>2
      <4>. QED
        BY <3>2, <3>3, <4>3 DEF Fits
    <3>5. \A k \in 0..n : Fits(g[k])
      BY <3>2, <3>4
    <3>6. PICK f : f = g[n]
      OBVIOUS
    <3>7. InStep(f)'
      BY <1>1, <1>3, <3>2, <3>3, <3>6 DEF InStep, Shown
    <3>. QED
      BY <3>2, <3>5, <3>6, <3>7
  <2>. QED
    BY <1>1, <1>2, <1>5, <2>1, <2>3, <2>4, PushTakes DEF TalkInv
<1>6. Copies'
  BY <1>1, <1>5 DEF Copies, InStep
<1>. QED
  BY <1>2, <1>4, <1>6 DEF CopyInv

(* Without a subscription there is nothing to keep. *)
LEMMA CopyGone == ASSUME CopyInv, TalkInv', ~live' \/ front'.state = "closed", Flags' PROVE CopyInv'
BY DEF CopyInv, Copies

LEMMA CopyLeaving ==
    ASSUME CopyInv, CloseSub \/ AnswerUnsubscribe \/ Connect \/ AskClose \/ Hangup \/ PassPanics
    PROVE  CopyInv'
<1>1. TalkInv' /\ sub \in SubType /\ Flags
  BY Leaving, Asking, Hangings DEF CopyInv, TalkInv, SubOK
<1>2. CASE CloseSub \/ AnswerUnsubscribe
  <2>1. sub'.sent = sub.sent /\ sub'.limit = sub.limit /\ sub'.resetting = sub.resetting
        /\ (sub.closed => sub'.closed) /\ pass' = pass
    BY <1>1, <1>2 DEF CloseSub, AnswerUnsubscribe, SubType
  <2>2. Flags'
    BY <1>1, <2>1 DEF Flags
  <2>3. ~live'
    <3>1. CASE CloseSub
      BY <3>1 DEF CloseSub
    <3>2. CASE AnswerUnsubscribe
      BY <3>2 DEF AnswerUnsubscribe, CopyInv, TalkInv, Talks, LeftIsClosed
    <3>. QED
      BY <1>2, <3>1, <3>2
  <2>. QED
    BY <1>1, <2>2, <2>3, CopyGone
<1>3. CASE Connect \/ AskClose
  <2>1. Flags'
    BY <1>1, <1>3 DEF Flags, Connect, AskClose
  <2>2. ~live' \/ front'.state = "closed"
    <3>1. CASE Connect
      BY <3>1 DEF Connect, CopyInv, TalkInv, Talks, AwayIsQuiet, Quiet
    <3>2. CASE AskClose
      BY <3>2 DEF AskClose, CopyInv, TalkInv, NetOK, Fronts
    <3>. QED
      BY <1>3, <3>1, <3>2
  <2>. QED
    BY <1>1, <2>1, <2>2, CopyGone
<1>4. CASE Hangup \/ PassPanics
  <2>1. sub' = NoSub /\ pass' = NoPass /\ ~live'
    BY <1>4 DEF Hangup, PassPanics, Lost
  <2>2. Flags'
    BY <2>1, NothingYet, NoneIsFew DEF Flags
  <2>. QED
    BY <1>1, <2>1, <2>2, CopyGone
<1>. QED
  BY <1>2, <1>3, <1>4

LEMMA CopySubscribing == ASSUME CopyInv, Subscribe PROVE CopyInv'
<1>. DEFINE e == Response("subscribed")
<1>1. /\ sub' = NoSub /\ UNCHANGED <<pass, front>> /\ queue' = Pushed(e) /\ NextRequest("subscribe")
  BY DEF Subscribe
<1>2. TalkInv' /\ TalkInv
  BY Subscribing DEF CopyInv
<1>3. queue = << >> /\ pass = NoPass /\ front.state = "subscribing"
  <2>1. 1 \in 1..Len(inbox) /\ inbox[1] = "subscribe"
    BY <1>1, <1>2, Request DEF TalkInv
  <2>. QED
    BY <1>2, <2>1 DEF TalkInv, Talks, SubscribeFirst, Quiet
<1>4. e \in Answers /\ e.kind = "subscribed" /\ front \in Fronts
  BY <1>2 DEF Response, Answers, TalkInv, NetOK
<1>. HIDE DEF e
<1>5. Flags'
  BY <1>1, <1>3, NothingYet, NoneIsFew DEF Flags
<1>6. Delivered(front, e) \in Fronts /\ Delivered(front, e).fresh
  BY <1>3, <1>4, Answered
<1>. DEFINE h == [k \in 0..0 |-> front]
<1>7. Course(h, front, queue) /\ h[Len(queue)] = front /\ queue \in Seq(Frames) /\ Len(queue) = 0
  <2>1. << >> \in Seq(Frames) /\ Len(<< >>) = 0
    OBVIOUS
  <2>. QED
    BY <1>3, <1>4, <2>1, CourseEmpty
<1>. HIDE DEF h
<1>8. PICK g : /\ Course(g, front, queue') /\ g[1] = Delivered(front, e)
               /\ \A k \in 0..0 : g[k] = h[k]
  BY <1>1, <1>4, <1>6, <1>7, CoursePushed
<1>9. Len(queue') = 1
  BY <1>1, <1>4, <1>7, PushedIs
<1>10. \A k \in 0..Len(queue') : Fits(g[k])
  <2>1. g[0] = front
    BY <1>8 DEF Course
  <2>2. Fits(g[0])
    BY <1>3, <2>1 DEF Fits
  <2>3. Fits(g[1])
    BY <1>6, <1>8, NoneIsFew
  <2>4. \A k \in 0..1 : k = 0 \/ k = 1
    OBVIOUS
  <2>. QED
    BY <1>9, <2>2, <2>3, <2>4
<1>11. PICK f : f = g[Len(queue')]
  OBVIOUS
<1>12. InStep(f)'
  BY <1>1, <1>3, <1>6, <1>8, <1>9, <1>11, NothingYet DEF InStep, Shown
<1>13. Copies'
  BY <1>1, <1>8, <1>10, <1>11, <1>12 DEF Copies, InStep
<1>. QED
  BY <1>2, <1>5, <1>13 DEF CopyInv

LEMMA CopyAnswering == ASSUME CopyInv, AnswerExtend PROVE CopyInv'
<1>1. UNCHANGED <<sub, pass, live, front>>
  BY DEF AnswerExtend
<1>2. TalkInv' /\ TalkInv
  BY Answering DEF CopyInv
<1>3. Flags'
  BY <1>1 DEF CopyInv, Flags
<1>4. ASSUME live, front.state # "closed"
      PROVE  \E g, f : /\ Course(g, front, queue') /\ \A k \in 0..Len(queue') : Fits(g[k])
                       /\ f = g[Len(queue')] /\ InStep(f)'
  <2>1. PICK h : /\ Course(h, front, queue) /\ \A k \in 0..Len(queue) : Fits(h[k])
                 /\ InStep(h[Len(queue)]) /\ h[Len(queue)].limit = Told
                 /\ h[Len(queue)] \in Fronts /\ h[Len(queue)].state = "open"
    BY <1>4, SameCourse
  <2>2. PICK e, g :
           /\ e \in Answers /\ queue' = Pushed(e) /\ e.kind \in {"done", "refused"}
           /\ e.kind = "done" => h[Len(queue)].limit + 1 <= Cap
           /\ Course(g, front, queue') /\ g[Len(queue) + 1] = Delivered(h[Len(queue)], e)
           /\ \A k \in 0..Len(queue) : g[k] = h[k]
    BY <1>2, <2>1, ExtendTells
  <2>3. Len(queue') = Len(queue) + 1 /\ Len(queue) \in Nat
    BY <1>2, <2>2, PushedIs DEF TalkInv, NetOK
  <2>4. /\ Fits(h[Len(queue)])
        /\ e.kind = "done" /\ h[Len(queue)].state # "closed" => h[Len(queue)].limit + 1 <= Cap
    BY <2>1, <2>2, <2>3
  <2>5. /\ Delivered(h[Len(queue)], e).copy = h[Len(queue)].copy
        /\ Delivered(h[Len(queue)], e).fresh = h[Len(queue)].fresh
        /\ Fits(Delivered(h[Len(queue)], e))
    BY <2>1, <2>2, <2>4, Answered, FitsStill
  <2>6. \A k \in 0..Len(queue') : Fits(g[k])
    BY <2>1, <2>2, <2>3, <2>5
  <2>7. PICK f : f = g[Len(queue')]
    OBVIOUS
  <2>8. f.copy = h[Len(queue)].copy /\ f.fresh = h[Len(queue)].fresh
    BY <2>2, <2>3, <2>5, <2>7
  <2>9. InStep(f)'
    BY <1>1, <2>1, <2>8 DEF InStep, Owed, Shown, Shows
  <2>. QED
    BY <2>2, <2>6, <2>7, <2>9
<1>5. Copies'
  BY <1>1, <1>4 DEF Copies, InStep
<1>. QED
  BY <1>2, <1>3, <1>5 DEF CopyInv

LEMMA CopyWriting == ASSUME CopyInv, Write PROVE CopyInv'
<1>1. UNCHANGED <<sub, pass, live>>
  BY DEF Write
<1>2. TalkInv' /\ TalkInv
  BY Writing DEF CopyInv
<1>3. Flags'
  BY <1>1 DEF CopyInv, Flags
<1>4. ASSUME live, front'.state # "closed"
      PROVE  \E g, f : /\ Course(g, front', queue') /\ \A k \in 0..Len(queue') : Fits(g[k])
                       /\ f = g[Len(queue')] /\ InStep(f)'
  <2>0. front.state # "closed"
    <3>1. PICK h : Course(h, front, queue)
      BY <1>2 DEF TalkInv, Hears
    <3>. QED
      BY <1>2, <1>4, <3>1, WriteIs DEF TalkInv
  <2>1. PICK h : /\ Course(h, front, queue) /\ \A k \in 0..Len(queue) : Fits(h[k])
                 /\ InStep(h[Len(queue)])
    BY <1>4, <2>0, SameCourse
  <2>2. /\ Len(queue') = Len(queue) - 1 /\ Len(queue) \in Nat
        /\ \E g : /\ Course(g, front', queue') /\ g[Len(queue')] = h[Len(queue)]
                  /\ \A k \in 0..Len(queue') : g[k] = h[k + 1]
    BY <1>2, <2>1, WriteIs DEF TalkInv
  <2>3. PICK g : /\ Course(g, front', queue') /\ g[Len(queue')] = h[Len(queue)]
                 /\ \A k \in 0..Len(queue') : g[k] = h[k + 1]
    BY <2>2
  <2>4. \A k \in 0..Len(queue') : Fits(g[k])
    BY <2>1, <2>2, <2>3
  <2>5. PICK f : f = h[Len(queue)]
    OBVIOUS
  <2>6. InStep(f)'
    BY <1>1, <2>1, <2>5 DEF InStep, Owed
  <2>. QED
    BY <2>3, <2>4, <2>5, <2>6
<1>5. Copies'
  BY <1>1, <1>4 DEF Copies, InStep
<1>. QED
  BY <1>2, <1>3, <1>5 DEF CopyInv

LEMMA BeginsInStep == ASSUME Init PROVE CopyInv
<1>1. TalkInv
  BY BeginsTalking
<1>2. Flags
  BY NothingYet, NoneIsFew DEF Init, Flags
<1>3. Copies
  BY DEF Init, Copies
<1>. QED
  BY <1>1, <1>2, <1>3 DEF CopyInv

LEMMA StaysInStep ==
    ASSUME CopyInv, [Next]_vars, [ReadFails => ~pass.reset]_vars PROVE CopyInv'
<1>1. CASE UNCHANGED vars
  <2>1. TalkInv'
    BY <1>1, TalksOn DEF CopyInv
  <2>2. Flags' /\ Copies'
    BY <1>1 DEF vars, CopyInv, Flags, Copies, InStep, Owed
  <2>. QED
    BY <2>1, <2>2 DEF CopyInv
<1>2. CASE Next /\ (ReadFails => ~pass.reset)
  <2>1. CASE Change \/ Kick \/ Start \/ Extend
    BY <2>1, CopyGoings
  <2>2. CASE TakePass \/ ReadWindow \/ ReadFails
    BY <1>2, <2>2, CopyPasses
  <2>3. CASE PushPass
    BY <2>3, CopyPushing
  <2>4. CASE CloseSub \/ AnswerUnsubscribe \/ Connect \/ AskClose \/ Hangup \/ PassPanics
    BY <2>4, CopyLeaving
  <2>5. CASE Subscribe
    BY <2>5, CopySubscribing
  <2>6. CASE AnswerExtend
    BY <2>6, CopyAnswering
  <2>7. CASE Write
    BY <2>7, CopyWriting
  <2>8. CASE AskExtend
    <3>1. UNCHANGED <<sub, pass, live, queue, front>>
      BY <2>8 DEF AskExtend
    <3>2. TalkInv' /\ Flags'
      BY <2>8, <3>1, Asking DEF CopyInv, Flags
    <3>3. \A f \in Fronts : live /\ InStep(f) => InStep(f)'
      BY <3>1 DEF InStep, Owed
    <3>. QED
      BY <3>1, <3>2, <3>3, CopySilence
  <2>. QED
    BY <1>2, <2>1, <2>2, <2>3, <2>4, <2>5, <2>6, <2>7, <2>8
       DEF Next, PassStep, HandlerStep, FrontStep
<1>3. UNCHANGED vars \/ (Next /\ (ReadFails => ~pass.reset))
  OBVIOUS
<1>. QED
  BY <1>1, <1>2, <1>3

LEMMA InStepReplays == ASSUME CopyInv PROVE ReplayIsSent
<1>. SUFFICES ASSUME live, front.state # "closed", ~Owed
              PROVE  IF Replayed.fresh THEN sub.sent = Nothing ELSE Replayed.copy = sub.sent
  BY DEF ReplayIsSent
<1>1. PICK h : /\ Course(h, front, queue) /\ InStep(h[Len(queue)])
               /\ h[Len(queue)] \in Fronts /\ h[Len(queue)].state = "open"
  BY SameCourse
<1>2. queue \in Seq(Frames) /\ pass.update \in Updates /\ pass.update \in Frames
  BY Kinds DEF CopyInv, TalkInv, NetOK, SubOK, PassType
<1>3. CASE pass.stage # "push"
  <2>1. queue \o << >> = queue
    BY <1>2
  <2>2. Replayed = h[Len(queue)]
    BY <1>1, <1>2, <1>3, <2>1, AfterIs DEF Replayed
  <2>. QED
    BY <1>1, <1>3, <2>2 DEF InStep, Shown
<1>4. CASE pass.stage = "push"
  <2>1. queue \o <<pass.update>> = Append(queue, pass.update)
    BY <1>2
  <2>2. Append(queue, pass.update) \in Seq(Frames) /\ Len(Append(queue, pass.update)) = Len(queue) + 1
    BY <1>2
  <2>3. /\ Delivered(h[Len(queue)], pass.update) \in Fronts
        /\ ~Delivered(h[Len(queue)], pass.update).fresh
        /\ Delivered(h[Len(queue)], pass.update).copy = Shows(h[Len(queue)], pass.update)
    BY <1>1, <1>2, Showed
  <2>4. PICK g : /\ Course(g, front, Append(queue, pass.update))
                 /\ g[Len(queue) + 1] = Delivered(h[Len(queue)], pass.update)
    BY <1>1, <1>2, <2>3, CourseMore
  <2>5. Replayed = Delivered(h[Len(queue)], pass.update)
    BY <1>4, <2>1, <2>2, <2>4, AfterIs DEF Replayed
  <2>. QED
    BY <1>1, <1>4, <2>3, <2>5 DEF InStep
<1>. QED
  BY <1>3, <1>4

(* The copy the frontend will have once it took all that is queued for it,  *)
(* merged, sealed, purged or refused as it was, is what the subscription    *)
(* takes as sent, or a reset is owed: whenever no read fails in the pass    *)
(* that has the reset to send (pass returns before it makes an update, and  *)
(* run has already cleared the flag).                                       *)
THEOREM CopyIsSent == Spec /\ ResetsAreRead => []ReplayIsSent
<1>1. Init => CopyInv
  BY BeginsInStep
<1>2. CopyInv /\ [Next]_vars /\ [ReadFails => ~pass.reset]_vars => CopyInv'
  BY StaysInStep
<1>3. CopyInv => ReplayIsSent
  BY InStepReplays
<1>. QED
  BY <1>1, <1>2, <1>3, PTL DEF Spec, ResetsAreRead

(* Under the same condition the frontend never shows more than it asked     *)
(* for: the answer to an extend is queued before the limit grows, and no    *)
(* update merges back past it.                                              *)
THEOREM CopyFits == Spec /\ ResetsAreRead => []WithinLimit
<1>1. Init => CopyInv
  BY BeginsInStep
<1>2. CopyInv /\ [Next]_vars /\ [ReadFails => ~pass.reset]_vars => CopyInv'
  BY StaysInStep
<1>3. CopyInv => WithinLimit
  <2>. SUFFICES ASSUME CopyInv, front.state = "open" PROVE Fits(front)
    BY DEF WithinLimit, Fits
  <2>1. live
    BY DEF CopyInv, TalkInv, Talks, OpenIsLive
  <2>2. PICK h : Course(h, front, queue) /\ \A k \in 0..Len(queue) : Fits(h[k])
    BY <2>1 DEF CopyInv, Copies
  <2>3. h[0] = front /\ Len(queue) \in Nat
    BY <2>2 DEF Course, CopyInv, TalkInv, NetOK
  <2>. QED
    BY <2>2, <2>3
<1>. QED
  BY <1>1, <1>2, <1>3, PTL DEF Spec, ResetsAreRead

=============================================================================
