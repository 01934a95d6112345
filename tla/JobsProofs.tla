----------------------------- MODULE JobsProofs -----------------------------
(* Proofs about history downloads: a token of the pool that somebody needs  *)
(* is never lost, no key is in the pool twice, no notification is forgotten *)
(* and a blob the log has as downloaded is there as a whole.                *)
EXTENDS Jobs, FiniteSetTheorems, SequenceTheorems, WellFoundedInduction, TLAPS

Busy == {w \in Workers : worker[w].pc \in Running}

(* The records of the pool and of who uses it; what is queued is known.     *)
PoolOver(keys) ==
    [queue : Seq(keys), known : {keys}, running : Int, wake : 0..size, drained : 0..1]
PoolShape == pool \in PoolOver(pool.known)
WorkerShape == worker = [w \in Workers |-> worker[w]]
HandlerShape ==
    handler.pc # "idle" => handler = [pc |-> handler.pc, blob |-> handler.blob]
RequeueShape ==
    requeue = [pc |-> requeue.pc, want |-> requeue.want, page |-> requeue.page, next |-> requeue.next]
Shape == PoolShape /\ WorkerShape /\ HandlerShape /\ RequeueShape

(* Each key is in one place: queued once or with one worker.                *)
OnlyOnce ==
    /\ \A i, j \in 1..Len(pool.queue) : pool.queue[i] = pool.queue[j] => i = j
    /\ \A v, w \in Busy : worker[v].blob = worker[w].blob => v = w
    /\ \A i \in 1..Len(pool.queue), w \in Busy : pool.queue[i] # worker[w].blob
    /\ pool.known = Queued \cup {worker[w].blob : w \in Busy}
    /\ pool.running = Cardinality(Busy)

LEMMA SomeWorkers == size \in Nat /\ size > 0 /\ IsFiniteSet(Workers)
BY SizeAssumption, FS_CardinalityType, FS_EmptySet DEF size

-----------------------------------------------------------------------------
(* What the steps do to the pool. *)

(* Most steps of a worker leave it at the job it has. *)
SameJob(w) ==
    /\ pool' = pool /\ handler' = handler /\ requeue' = requeue
    /\ worker[w].pc \in Running
    /\ \E s : /\ worker' = [worker EXCEPT ![w] = s]
              /\ s.pc \in Running /\ s.blob = worker[w].blob

LEMMA KeepsJob ==
    ASSUME NEW w \in Workers,
           Download(w) \/ DownloadFails(w) \/ Piece(w) \/ Broken(w) \/ Whole(w) \/ FlushRest(w)
             \/ Lose(w) \/ AppendFails(w)
    PROVE  SameJob(w)
<1>1. CASE Download(w)
  BY <1>1 DEF Download, SameJob, Becomes, Streaming, Ended, Running
<1>2. CASE DownloadFails(w) \/ AppendFails(w)
  BY <1>2 DEF DownloadFails, AppendFails, SameJob, Becomes, Starting, Running
<1>3. CASE Piece(w)
  BY <1>3 DEF Piece, SameJob, Becomes, Streaming, Starting, Running
<1>4. CASE Broken(w) \/ Whole(w) \/ FlushRest(w) \/ Lose(w)
  BY <1>4 DEF Broken, Whole, FlushRest, Lose, SameJob, Becomes, Ended, Running
<1> QED
  BY <1>1, <1>2, <1>3, <1>4

(* What reading a page does outside of the page. *)
Reads ==
    /\ UNCHANGED <<logVars, netVars, handler, pool, worker, groups, left>>
    /\ MayRead
    /\ \E pc \in {"over", "add"} : \E page, next :
          requeue' = [requeue EXCEPT !.pc = pc, !.page = page, !.next = next]

LEMMA ReadIs == ReadPage => Reads
<1>. SUFFICES ASSUME ReadPage PROVE Reads
  OBVIOUS
<1>1. PICK page \in PendingHistory(IF requeue.pc = "folding" THEN 0 ELSE requeue.next) :
        requeue' = [requeue EXCEPT
                      !.pc = IF page = << >> THEN "over" ELSE "add",
                      !.page = page,
                      !.next = IF Len(page) = PageSize THEN NoteSeq(folded, page[Len(page)]) ELSE 0]
  BY DEF ReadPage
<1>. DEFINE pc == IF page = << >> THEN "over" ELSE "add"
            next == IF Len(page) = PageSize THEN NoteSeq(folded, page[Len(page)]) ELSE 0
<1>2. pc \in {"over", "add"} /\ requeue' = [requeue EXCEPT !.pc = pc, !.page = page, !.next = next]
  BY <1>1
<1>. HIDE DEF pc, next
<1>. QED
  BY <1>2 DEF ReadPage, Reads

(* Steps of others, which touch neither the pool nor a worker. *)
LEMMA LeavesPool ==
    ASSUME \/ \E b \in Blobs : Deliver(b) \/ DeliverFails(b)
           \/ ReadPage \/ ReadFails \/ Below \/ Fold \/ GoOnline \/ GoOffline \/ Logout
           \/ UNCHANGED vars
    PROVE  pool' = pool /\ worker' = worker
BY ReadIs DEF Deliver, DeliverFails, Reads, ReadFails, Below, Fold, GoOnline, GoOffline, Logout, vars

(* Every step is one of these. *)
Others ==
    \/ \E b \in Blobs : Deliver(b) \/ DeliverFails(b)
    \/ ReadPage \/ ReadFails \/ Below \/ Fold \/ GoOnline \/ GoOffline \/ Logout
    \/ UNCHANGED vars

LEMMA LeavesHandler ==
    ASSUME Others
    PROVE  handler' = handler \/ (handler = Idle /\ \E b \in Blobs : handler' = [pc |-> "add", blob |-> b])
<1>1. CASE ReadPage \/ ReadFails \/ Below
  BY <1>1, ReadIs DEF Reads, ReadFails, Below
<1>2. CASE ~(ReadPage \/ ReadFails \/ Below)
  BY <1>2 DEF Others, Deliver, DeliverFails, Fold, GoOnline, GoOffline, Logout, vars
<1> QED
  BY <1>1, <1>2

(* The steps that touch the pool, and no job. *)
Tokens == Ack \/ RequeueWakes \/ BelowWakes
Adds   == HandlerAdds \/ RequeueAdds

LEMMA StepIs ==
    ASSUME [Next]_vars
    PROVE  \/ Others \/ Tokens \/ Adds \/ Crash
           \/ \E w \in Workers : SameJob(w) \/ WorkerWakes(w) \/ Done(w) \/ Drain(w)
BY KeepsJob DEF Next, Handle, Requeue, Work, Logs, Trouble, Others, Tokens, Adds

-----------------------------------------------------------------------------
LEMMA InitShape == Init => Shape
<1> SUFFICES ASSUME Init PROVE Shape
  OBVIOUS
<1>1. pool = EmptyPool /\ handler = Idle /\ worker = [w \in Workers |-> Parked]
  BY DEF Init
<1>2. PoolShape
  BY <1>1, SomeWorkers DEF PoolShape, PoolOver, EmptyPool
<1>3. RequeueShape
  BY DEF Init, RequeueShape, Folding
<1> QED
  BY <1>1, <1>2, <1>3 DEF Shape, WorkerShape, HandlerShape, Idle, Parked

(* Adding a job, taking one and finishing one keep the pool's shape. *)
LEMMA AddedShape ==
    ASSUME Shape, NEW k, pool' = Added(pool, k)
    PROVE  PoolShape'
<1>1. CASE k \in pool.known
  BY <1>1 DEF Shape, PoolShape, PoolOver, Added
<1>2. CASE k \notin pool.known
  <2> DEFINE all == pool.known \cup {k}
  <2>1. pool.queue \in Seq(all) /\ k \in all
    BY DEF Shape, PoolShape, PoolOver
  <2>2. Append(pool.queue, k) \in Seq(all)
    BY <2>1
  <2> QED
    BY <1>2, <2>2 DEF Shape, PoolShape, PoolOver, Added
<1> QED
  BY <1>1, <1>2

LEMMA LooksAtShape ==
    ASSUME NEW w \in Workers, NEW p, WorkerShape, LooksAt(w, p),
           p \in PoolOver(p.known)
    PROVE  PoolShape' /\ WorkerShape'
<1>1. CASE p.queue = << >>
  BY <1>1 DEF LooksAt, PoolShape, PoolOver, WorkerShape, Becomes
<1>2. CASE p.queue # << >>
  <2>1. pool' = [queue |-> Tail(p.queue), known |-> p.known, running |-> p.running + 1,
                 wake |-> p.wake, drained |-> p.drained]
    BY <1>2 DEF LooksAt, Taken, PoolOver
  <2>2. Tail(p.queue) \in Seq(p.known)
    BY <1>2 DEF PoolOver
  <2>3. PoolShape'
    BY <2>1, <2>2 DEF PoolShape, PoolOver
  <2> QED
    BY <1>2, <2>3 DEF LooksAt, WorkerShape, Becomes
<1> QED
  BY <1>1, <1>2

(* Every step keeps the shape; done takes away a key that is not queued.    *)
LEMMA ShapeStep == Shape /\ OnlyOnce /\ [Next]_vars => Shape'
<1> SUFFICES ASSUME Shape, OnlyOnce, [Next]_vars PROVE Shape'
  OBVIOUS
<1> USE DEF Shape
<1>1. CASE Others
  <2>1. PoolShape' /\ WorkerShape'
    BY <1>1, LeavesPool DEF Others, PoolShape, PoolOver, WorkerShape
  <2>2. HandlerShape'
    BY <1>1, LeavesHandler DEF HandlerShape, Idle
  <2>3. RequeueShape'
    BY <1>1, ReadIs DEF Others, Deliver, DeliverFails, Reads, ReadFails, Below, Fold, GoOnline, GoOffline,
                Logout, vars, RequeueShape
  <2> QED
    BY <2>1, <2>2, <2>3
<1>2. CASE Tokens
  <2>1. PoolShape'
    BY <1>2, SomeWorkers DEF Tokens, Ack, RequeueWakes, BelowWakes, Woken, PoolShape, PoolOver
  <2>2. WorkerShape' /\ HandlerShape'
    BY <1>2 DEF Tokens, Ack, RequeueWakes, BelowWakes, WorkerShape, HandlerShape, Idle
  <2>3. RequeueShape'
    BY <1>2 DEF Tokens, Ack, RequeueWakes, BelowWakes, RequeueShape
  <2> QED
    BY <2>1, <2>2, <2>3
<1>3. CASE Adds
  <2>1. PoolShape'
    BY <1>3, AddedShape DEF Adds, HandlerAdds, RequeueAdds
  <2>2. WorkerShape' /\ HandlerShape'
    BY <1>3 DEF Adds, HandlerAdds, RequeueAdds, WorkerShape, HandlerShape
  <2>3. RequeueShape'
    BY <1>3 DEF Adds, HandlerAdds, RequeueAdds, RequeueShape
  <2> QED
    BY <2>1, <2>2, <2>3
<1>4. CASE Crash
  <2>1. PoolShape'
    BY <1>4, SomeWorkers DEF Crash, EmptyPool, PoolShape, PoolOver
  <2> QED
    BY <1>4, <2>1 DEF Crash, WorkerShape, HandlerShape, RequeueShape, Idle, Folding
<1>5. ASSUME NEW w \in Workers, SameJob(w) PROVE Shape'
  BY <1>5 DEF SameJob, PoolShape, PoolOver, WorkerShape, HandlerShape, RequeueShape
<1>6. ASSUME NEW w \in Workers, WorkerWakes(w) PROVE Shape'
  <2> DEFINE p == [pool EXCEPT !.wake = @ - 1]
  <2>1. p \in PoolOver(p.known)
    BY <1>6, SomeWorkers DEF WorkerWakes, PoolShape, PoolOver
  <2>2. LooksAt(w, p) /\ handler' = handler /\ requeue' = requeue
    BY <1>6 DEF WorkerWakes
  <2> QED
    BY <2>1, <2>2, LooksAtShape DEF HandlerShape, RequeueShape
<1>7. ASSUME NEW w \in Workers, Done(w) PROVE Shape'
  <2> DEFINE k == worker[w].blob
  <2>1. w \in Busy
    BY <1>7 DEF Done, Busy, Running
  <2>2. \A i \in 1..Len(pool.queue) : pool.queue[i] \in pool.known \ {k}
    BY <2>1 DEF OnlyOnce, PoolShape, PoolOver
  <2>3. pool.queue \in Seq(pool.known \ {k})
    BY <2>2, IsASeq DEF PoolShape, PoolOver
  <2>4. pool' = [queue |-> pool.queue, known |-> pool.known \ {k}, running |-> pool.running - 1,
                 wake |-> pool.wake, drained |-> pool.drained]
    BY <1>7 DEF Done, Finished, PoolShape, PoolOver
  <2>5. PoolShape'
    BY <2>3, <2>4 DEF PoolShape, PoolOver
  <2> QED
    BY <1>7, <2>5 DEF Done, Becomes, WorkerShape, HandlerShape, RequeueShape
<1>8. ASSUME NEW w \in Workers, Drain(w) PROVE Shape'
  <2> DEFINE p == Drained(pool)
  <2>1. p \in PoolOver(p.known)
    BY DEF Drained, PoolShape, PoolOver
  <2>2. LooksAt(w, p) /\ handler' = handler /\ requeue' = requeue
    BY <1>8 DEF Drain
  <2> QED
    BY <2>1, <2>2, LooksAtShape DEF HandlerShape, RequeueShape
<1> QED
  BY <1>1, <1>2, <1>3, <1>4, <1>5, <1>6, <1>7, <1>8, StepIs

-----------------------------------------------------------------------------
(* No key twice. *)

LEMMA InitOnce == Init => OnlyOnce
<1> SUFFICES ASSUME Init PROVE OnlyOnce
  OBVIOUS
<1>1. pool = EmptyPool /\ Busy = {}
  BY DEF Init, Busy, Parked, Running
<1> QED
  BY <1>1, FS_EmptySet DEF OnlyOnce, EmptyPool, Queued

(* Nothing of this changes when the queue, the keys and who has which job   *)
(* stay.                                                                    *)
LEMMA SameOnce ==
    ASSUME OnlyOnce, Busy' = Busy, \A w \in Busy : worker'[w].blob = worker[w].blob,
           pool'.queue = pool.queue, pool'.known = pool.known, pool'.running = pool.running
    PROVE  OnlyOnce'
BY DEF OnlyOnce, Queued

LEMMA AddedOnce ==
    ASSUME Shape, OnlyOnce, NEW k, pool' = Added(pool, k), worker' = worker
    PROVE  OnlyOnce'
<1>1. Busy' = Busy /\ \A w \in Busy : worker'[w].blob = worker[w].blob
  BY DEF Busy
<1>2. CASE k \in pool.known
  BY <1>1, <1>2, SameOnce DEF Added
<1>3. CASE k \notin pool.known
  <2>1. /\ pool'.queue = Append(pool.queue, k) /\ pool'.known = pool.known \cup {k}
        /\ pool'.running = pool.running
    BY <1>3 DEF Added, Shape, PoolShape, PoolOver
  <2>2. /\ Len(pool.queue) \in Nat /\ Len(pool'.queue) = Len(pool.queue) + 1
        /\ pool'.queue[Len(pool.queue) + 1] = k
        /\ \A i \in 1..Len(pool.queue) : pool'.queue[i] = pool.queue[i]
    BY <2>1 DEF Shape, PoolShape, PoolOver
  <2>3. Queued' = Queued \cup {k}
    BY <2>2, SMTT(30) DEF Queued
  <2>4. (\A i \in 1..Len(pool.queue) : pool.queue[i] # k) /\ \A w \in Busy : worker[w].blob # k
    BY <1>3 DEF OnlyOnce, Queued
  <2> QED
    BY <1>1, <2>1, <2>2, <2>3, <2>4 DEF OnlyOnce
<1> QED
  BY <1>2, <1>3

LEMMA LooksAtOnce ==
    ASSUME Shape, OnlyOnce, NEW w \in Workers, w \notin Busy, NEW p, p \in PoolOver(p.known), LooksAt(w, p),
           p.queue = pool.queue, p.known = pool.known, p.running = pool.running
    PROVE  OnlyOnce'
<1>1. CASE p.queue = << >>
  <2>1. pool' = p /\ worker' = [worker EXCEPT ![w] = Parked]
    BY <1>1 DEF LooksAt, Becomes
  <2>2. Busy' = Busy /\ \A v \in Busy : worker'[v].blob = worker[v].blob
    BY <2>1 DEF Busy, Shape, WorkerShape, Parked, Running
  <2> QED
    BY <2>1, <2>2, SameOnce
<1>2. CASE p.queue # << >>
  <2> DEFINE k == Head(pool.queue)
  <2>1. /\ pool'.queue = Tail(pool.queue) /\ pool'.known = pool.known
        /\ pool'.running = pool.running + 1
        /\ worker' = [worker EXCEPT ![w] = Starting(k)]
    BY <1>2 DEF LooksAt, Becomes, Taken, PoolOver
  <2>2. /\ Len(pool.queue) \in Nat \ {0} /\ Len(pool'.queue) = Len(pool.queue) - 1
        /\ k = pool.queue[1]
        /\ \A i \in 1..Len(pool'.queue) : pool'.queue[i] = pool.queue[i + 1]
    BY <1>2, <2>1 DEF Shape, PoolShape, PoolOver
  <2>3. /\ Busy' = Busy \cup {w} /\ worker'[w].blob = k
        /\ \A v \in Busy : worker'[v].blob = worker[v].blob
    BY <2>1 DEF Busy, Shape, WorkerShape, Starting, Running
  <2>4. Cardinality(Busy') = Cardinality(Busy) + 1
    BY <2>3, SomeWorkers, FS_Subset, FS_AddElement DEF Busy
  <2>5. Queued = Queued' \cup {k}
    <3>1. \A i \in 1..Len(pool.queue) : i = 1 \/ i - 1 \in 1..Len(pool'.queue)
      BY <2>2
    <3>2. \A i \in 1..Len(pool.queue) : i # 1 => pool.queue[i] = pool'.queue[i - 1]
      BY <2>2, <3>1
    <3>3. \A i \in 1..Len(pool'.queue) : i + 1 \in 1..Len(pool.queue)
      BY <2>2
    <3>4. ASSUME NEW x \in Queued PROVE x \in Queued' \cup {k}
      BY <2>2, <3>1, <3>2, <3>4 DEF Queued
    <3>5. ASSUME NEW x \in Queued' PROVE x \in Queued
      BY <2>2, <3>3, <3>5 DEF Queued
    <3>6. k \in Queued
      BY <2>2 DEF Queued
    <3> QED
      BY <3>4, <3>5, <3>6
  <2>6. \A i, j \in 1..Len(pool'.queue) : pool'.queue[i] = pool'.queue[j] => i = j
    <3>1. \A i \in 1..Len(pool'.queue) : i \in Int /\ i + 1 \in 1..Len(pool.queue)
      BY <2>2
    <3>2. \A i, j \in 1..Len(pool'.queue) : pool'.queue[i] = pool'.queue[j] => i + 1 = j + 1
      BY <2>2, <3>1, SMTT(30) DEF OnlyOnce
    <3> QED
      BY <3>1, <3>2
  <2>7. \A i \in 1..Len(pool'.queue) : pool'.queue[i] # k
    BY <2>2 DEF OnlyOnce
  <2>8. \A i \in 1..Len(pool'.queue), v \in Busy : pool'.queue[i] # worker[v].blob
    BY <2>2 DEF OnlyOnce
  <2>9. \A v \in Busy : worker[v].blob # k
    BY <2>2 DEF OnlyOnce
  <2>10. {worker'[v].blob : v \in Busy'} = {worker[v].blob : v \in Busy} \cup {k}
    BY <2>3
  <2>11. \A u, v \in Busy' : worker'[u].blob = worker'[v].blob => u = v
    BY <2>3, <2>9 DEF OnlyOnce
  <2>12. \A i \in 1..Len(pool'.queue), v \in Busy' : pool'.queue[i] # worker'[v].blob
    BY <2>3, <2>7, <2>8
  <2>13. pool'.known = Queued' \cup {worker'[v].blob : v \in Busy'}
    BY <2>1, <2>5, <2>10 DEF OnlyOnce
  <2>14. pool'.running = Cardinality(Busy')
    BY <2>1, <2>4 DEF OnlyOnce
  <2> QED
    BY <2>6, <2>11, <2>12, <2>13, <2>14 DEF OnlyOnce
<1> QED
  BY <1>1, <1>2

LEMMA DoneOnce ==
    ASSUME Shape, OnlyOnce, NEW w \in Workers, Done(w)
    PROVE  OnlyOnce'
<1> DEFINE k == worker[w].blob
<1>1. w \in Busy
  BY DEF Done, Busy, Running
<1>2. /\ pool'.queue = pool.queue /\ pool'.known = pool.known \ {k}
      /\ pool'.running = pool.running - 1
      /\ worker' = [worker EXCEPT ![w] = [pc |-> "drain"]]
  BY DEF Done, Finished, Becomes, Shape, PoolShape, PoolOver
<1>3. Busy' = Busy \ {w} /\ \A v \in Busy' : worker'[v].blob = worker[v].blob
  BY <1>2 DEF Busy, Shape, WorkerShape, Running
<1>4. Cardinality(Busy') = Cardinality(Busy) - 1
  BY <1>1, <1>3, SomeWorkers, FS_Subset, FS_RemoveElement DEF Busy
<1>5. k \notin Queued /\ \A v \in Busy' : worker[v].blob # k
  BY <1>1, <1>3 DEF OnlyOnce, Queued
<1>6. {worker[v].blob : v \in Busy} = {worker'[v].blob : v \in Busy'} \cup {k}
  BY <1>1, <1>3
<1>7. Queued' = Queued
  BY <1>2 DEF Queued
<1>8. k \notin {worker'[v].blob : v \in Busy'}
  BY <1>3, <1>5
<1>9. pool'.known = Queued' \cup {worker'[v].blob : v \in Busy'}
  BY <1>2, <1>5, <1>6, <1>7, <1>8, ZenonT(40) DEF OnlyOnce
<1> QED
  BY <1>2, <1>3, <1>4, <1>9 DEF OnlyOnce

LEMMA OnceStep == Shape /\ OnlyOnce /\ [Next]_vars => OnlyOnce'
<1> SUFFICES ASSUME Shape, OnlyOnce, [Next]_vars PROVE OnlyOnce'
  OBVIOUS
<1>1. CASE Others
  BY <1>1, LeavesPool, SameOnce DEF Others, Busy
<1>2. CASE Tokens
  <2>1. worker' = worker
    BY <1>2 DEF Tokens, Ack, RequeueWakes, BelowWakes
  <2>2. pool'.queue = pool.queue /\ pool'.known = pool.known /\ pool'.running = pool.running
    BY <1>2 DEF Tokens, Ack, RequeueWakes, BelowWakes, Woken, Shape, PoolShape, PoolOver
  <2> QED
    BY <2>1, <2>2, SameOnce DEF Busy
<1>3. CASE Adds
  BY <1>3, AddedOnce DEF Adds, HandlerAdds, RequeueAdds
<1>4. CASE Crash
  <2>1. pool' = EmptyPool /\ Busy' = {}
    BY <1>4 DEF Crash, Busy, Parked, Running
  <2> QED
    BY <2>1, FS_EmptySet DEF OnlyOnce, EmptyPool, Queued
<1>5. ASSUME NEW w \in Workers, SameJob(w) PROVE OnlyOnce'
  <2>1. Busy' = Busy /\ \A v \in Busy : worker'[v].blob = worker[v].blob
    BY <1>5 DEF SameJob, Busy, Shape, WorkerShape
  <2> QED
    BY <1>5, <2>1, SameOnce DEF SameJob
<1>6. ASSUME NEW w \in Workers, WorkerWakes(w) PROVE OnlyOnce'
  <2> DEFINE p == [pool EXCEPT !.wake = @ - 1]
  <2>1. LooksAt(w, p) /\ w \notin Busy
    BY <1>6 DEF WorkerWakes, Busy, Running
  <2>2. /\ p.queue = pool.queue /\ p.known = pool.known /\ p.running = pool.running
        /\ p \in PoolOver(p.known)
    BY <1>6, SomeWorkers DEF WorkerWakes, Shape, PoolShape, PoolOver
  <2> QED
    BY <2>1, <2>2, LooksAtOnce
<1>7. ASSUME NEW w \in Workers, Drain(w) PROVE OnlyOnce'
  <2> DEFINE p == Drained(pool)
  <2>1. LooksAt(w, p) /\ w \notin Busy
    BY <1>7 DEF Drain, Busy, Running
  <2>2. /\ p.queue = pool.queue /\ p.known = pool.known /\ p.running = pool.running
        /\ p \in PoolOver(p.known)
    BY DEF Drained, Shape, PoolShape, PoolOver
  <2> QED
    BY <2>1, <2>2, LooksAtOnce
<1> QED
  BY <1>1, <1>2, <1>3, <1>4, <1>5, <1>6, <1>7, DoneOnce, StepIs

LEMMA PoolHolds == Spec => [](Shape /\ OnlyOnce)
BY InitShape, InitOnce, ShapeStep, OnceStep, PTL DEF Spec

(* A queue without repetitions has as many jobs as places.                  *)
LEMMA KeysCounted == Shape /\ OnlyOnce => EachOnce
<1> SUFFICES ASSUME Shape, OnlyOnce PROVE EachOnce
  OBVIOUS
<1> DEFINE n == Len(pool.queue)
           q == [i \in 1..n |-> pool.queue[i]]
           b == [w \in Busy |-> worker[w].blob]
           B == {worker[w].blob : w \in Busy}
<1>0. n \in Nat
  BY DEF Shape, PoolShape, PoolOver
<1>1. IsFiniteSet(Busy) /\ Cardinality(Busy) \in Nat
  BY SomeWorkers, FS_Subset, FS_CardinalityType DEF Busy
<1>2. q \in Bijection(1..n, Queued)
  BY <1>0 DEF OnlyOnce, Queued, Bijection, Injection, Surjection, IsInjective
<1>3. IsFiniteSet(Queued) /\ Cardinality(Queued) = n
  <2>1. IsFiniteSet(1..n) /\ Cardinality(1..n) = n
    BY <1>0, FS_Interval, SMTT(30)
  <2>2. ExistsBijection(1..n, Queued)
    BY <1>2 DEF ExistsBijection
  <2> QED
    BY <2>1, <2>2, FS_Bijection
<1>4. b \in Bijection(Busy, B)
  BY DEF OnlyOnce, Bijection, Injection, Surjection, IsInjective
<1>5. IsFiniteSet(B) /\ Cardinality(B) = Cardinality(Busy)
  BY <1>1, <1>4, FS_Bijection DEF ExistsBijection
<1>6. Queued \cap B = {}
  BY DEF OnlyOnce, Queued
<1>7. Cardinality(Queued \cup B) = n + Cardinality(Busy)
  <2> HIDE DEF B
  <2>1. Cardinality(Queued \cup B) = Cardinality(Queued) + Cardinality(B) - Cardinality(Queued \cap B)
    BY <1>1, <1>3, <1>5, FS_Union
  <2>2. Cardinality(Queued \cap B) = 0
    BY <1>6, FS_EmptySet
  <2> QED
    BY <1>0, <1>1, <1>3, <1>5, <2>1, <2>2
<1>8. Busy = {w \in Workers : worker[w].pc \in Running} /\ RunningBlobs = B
  BY DEF Busy, RunningBlobs
<1> QED
  BY <1>7, <1>8 DEF EachOnce, OnlyOnce

(* "each key once while it is queued or running": the queue and the workers *)
(* never hold a blob twice, whichever of the handler and requeueHistory     *)
(* adds it first, and a key is known exactly as long.                       *)
THEOREM KeysOnce == Spec => []EachOnce
BY PoolHolds, KeysCounted, PTL

-----------------------------------------------------------------------------
(* Nobody waits for a token that is gone. *)

LEMMA NoneAsleepStep == Shape /\ NoneAsleep /\ [Next]_vars => NoneAsleep'
<1> SUFFICES ASSUME Shape, NoneAsleep, [Next]_vars PROVE NoneAsleep'
  OBVIOUS
<1> USE DEF Shape
<1>1. CASE Others
  <2>1. pool' = pool /\ worker' = worker
    BY <1>1, LeavesPool DEF Others
  <2>2. handler.pc = "wake" => handler'.pc = "wake"
    BY <1>1, LeavesHandler DEF Idle
  <2>3. requeue.pc = "wake" => requeue'.pc = "wake"
    BY <1>1, ReadIs DEF Others, Deliver, DeliverFails, Reads, ReadFails, Below, Fold, GoOnline, GoOffline,
                Logout, vars, MayRead
  <2> QED
    BY <2>1, <2>2, <2>3 DEF NoneAsleep
<1>2. CASE Ack
  BY <1>2, SomeWorkers DEF Ack, NoneAsleep, Woken, PoolShape, PoolOver, HandlerShape
<1>3. CASE RequeueWakes
  BY <1>3, SomeWorkers DEF RequeueWakes, NoneAsleep, Woken, PoolShape, PoolOver
<1>4. CASE BelowWakes
  BY <1>4 DEF BelowWakes, NoneAsleep, PoolShape, PoolOver
<1>5. CASE HandlerAdds
  BY <1>5 DEF HandlerAdds, NoneAsleep, HandlerShape, Added
<1>6. CASE RequeueAdds
  BY <1>6 DEF RequeueAdds, NoneAsleep, RequeueShape, Added
<1>7. CASE Crash
  BY <1>7 DEF Crash, NoneAsleep, EmptyPool
<1>8. ASSUME NEW w \in Workers, SameJob(w) PROVE NoneAsleep'
  BY <1>8 DEF SameJob, NoneAsleep, WorkerShape, Running
<1>9. ASSUME NEW w \in Workers, NEW p, LooksAt(w, p) PROVE NoneAsleep'
  BY <1>9 DEF LooksAt, NoneAsleep, WorkerShape, Becomes, Starting
<1>10. ASSUME NEW w \in Workers, Done(w) PROVE NoneAsleep'
  BY <1>10 DEF Done, NoneAsleep, WorkerShape, Becomes
<1> QED
  BY <1>1, <1>2, <1>3, <1>4, <1>5, <1>6, <1>7, <1>8, <1>9, <1>10, StepIs
     DEF Tokens, Adds, WorkerWakes, Drain

(* A job never waits with every worker asleep: add sends its token after    *)
(* the unlock, and the channel keeps it for a worker that looks too early.  *)
THEOREM NobodyOversleeps == Spec => []NoneAsleep
<1>1. Init => NoneAsleep
  BY DEF Init, NoneAsleep, EmptyPool
<1> QED
  BY <1>1, PoolHolds, NoneAsleepStep, PTL DEF Spec

LEMMA RoomStep == Shape /\ RoomIsHeard /\ [Next]_vars => RoomIsHeard'
<1> SUFFICES ASSUME Shape, RoomIsHeard, [Next]_vars PROVE RoomIsHeard'
  OBVIOUS
<1> USE DEF Shape
<1>0. size \in Nat /\ Pending(pool) \in Int
  BY SomeWorkers DEF Pending, PoolShape, PoolOver
<1>1. CASE Others
  <2>1. pool' = pool /\ worker' = worker
    BY <1>1, LeavesPool DEF Others
  <2>2. requeue'.pc = "parked" => requeue.pc = "parked" \/ Pending(pool) >= size
    <3>1. CASE ReadPage \/ ReadFails
      BY <3>1, ReadIs DEF Reads, ReadFails, RequeueShape
    <3>2. CASE ~(ReadPage \/ ReadFails)
      BY <1>1, <3>2 DEF Others, Deliver, DeliverFails, Below, Fold, GoOnline, GoOffline, Logout, vars
    <3> QED
      BY <3>1, <3>2
  <2> QED
    BY <1>0, <2>1, <2>2 DEF RoomIsHeard, Pending
<1>2. CASE Ack
  BY <1>2 DEF Ack, RoomIsHeard, Woken, Pending, PoolShape, PoolOver
<1>3. CASE RequeueWakes \/ BelowWakes
  BY <1>3 DEF RequeueWakes, BelowWakes, RoomIsHeard, Rest, RequeueShape
<1>4. CASE HandlerAdds
  <2>1. Pending(pool') >= Pending(pool) /\ pool'.drained = pool.drained
    BY <1>4 DEF HandlerAdds, Added, Pending, PoolShape, PoolOver
  <2>2. pool' \in PoolOver(pool'.known)
    BY <1>4, AddedShape DEF HandlerAdds, PoolShape, PoolOver
  <2>3. Pending(pool') \in Int
    BY <2>2 DEF Pending, PoolOver
  <2> QED
    BY <1>0, <1>4, <2>1, <2>3 DEF HandlerAdds, RoomIsHeard
<1>5. CASE RequeueAdds
  BY <1>5 DEF RequeueAdds, RoomIsHeard, Rest, RequeueShape
<1>6. CASE Crash
  BY <1>6 DEF Crash, RoomIsHeard, Folding
<1>7. ASSUME NEW w \in Workers, SameJob(w) PROVE RoomIsHeard'
  BY <1>7 DEF SameJob, RoomIsHeard, WorkerShape, Running
<1>8. ASSUME NEW w \in Workers, NEW p, p \in PoolOver(p.known), LooksAt(w, p),
             requeue' = requeue,
             p.queue = pool.queue, p.running = pool.running, p.drained \in 0..1,
             worker[w].pc # "drain" => p.drained = pool.drained,
             worker[w].pc = "drain" => p.drained = 1
      PROVE  RoomIsHeard'
  <2>1. Pending(pool') = Pending(pool) /\ pool'.drained = p.drained
    <3>1. CASE p.queue = << >>
      BY <1>8, <3>1 DEF LooksAt, Pending
    <3>2. CASE p.queue # << >>
      <4>1. /\ pool'.queue = Tail(p.queue) /\ pool'.running = p.running + 1
            /\ pool'.drained = p.drained
        BY <1>8, <3>2 DEF LooksAt, Taken, PoolOver
      <4>2. Len(Tail(pool.queue)) = Len(pool.queue) - 1
        BY <1>8, <3>2 DEF PoolShape, PoolOver
      <4>3. Len(pool.queue) \in Nat /\ pool.running \in Int
        BY DEF PoolShape, PoolOver
      <4> QED
        BY <1>8, <4>1, <4>2, <4>3 DEF Pending
    <3> QED
      BY <3>1, <3>2
  <2>2. \A v \in Workers : v # w => worker'[v] = worker[v]
    BY <1>8 DEF LooksAt, Becomes, WorkerShape
  <2>3. pool'.drained > 0 \/ p.drained = pool.drained
    BY <1>8, <2>1
  <2> QED
    BY <1>8, <2>1, <2>2, <2>3 DEF RoomIsHeard
<1>9. ASSUME NEW w \in Workers, WorkerWakes(w) PROVE RoomIsHeard'
  <2> DEFINE p == [pool EXCEPT !.wake = @ - 1]
  <2>1. /\ p \in PoolOver(p.known) /\ p.queue = pool.queue /\ p.running = pool.running
        /\ p.drained = pool.drained /\ p.drained \in 0..1
    BY <1>9, SomeWorkers DEF WorkerWakes, PoolShape, PoolOver
  <2>2. LooksAt(w, p) /\ requeue' = requeue /\ worker[w].pc # "drain"
    BY <1>9 DEF WorkerWakes
  <2> HIDE DEF p
  <2> QED
    BY <1>8, <2>1, <2>2
<1>10. ASSUME NEW w \in Workers, Drain(w) PROVE RoomIsHeard'
  BY <1>8, <1>10 DEF Drain, Drained, PoolShape, PoolOver
<1>11. ASSUME NEW w \in Workers, Done(w) PROVE RoomIsHeard'
  BY <1>11 DEF Done, RoomIsHeard, WorkerShape, Becomes
<1> QED
  BY <1>1, <1>2, <1>3, <1>4, <1>5, <1>6, <1>7, <1>9, <1>10, <1>11, StepIs DEF Tokens, Adds

(* requeueHistory never sleeps on a pool with room: a job leaves the count  *)
(* before its token is sent, and the channel keeps one for a late sleeper.  *)
THEOREM RoomHeard == Spec => []RoomIsHeard
<1>1. Init => RoomIsHeard
  BY DEF Init, RoomIsHeard, Folding
<1> QED
  BY <1>1, PoolHolds, RoomStep, PTL DEF Spec

-----------------------------------------------------------------------------
(* What the log says. *)

Inputs == [blob : Blobs, what : {"note", "got", "lost"}]
LogOK ==
    /\ acct \in 1..2 /\ log \in Seq(Inputs)
    /\ erased \in 0..Len(log) /\ folded \in 0..Len(log)
    /\ parts \in [Blobs -> SUBSET Nat] /\ \A b \in Blobs : parts[b] \subseteq 1..Convs[b]

(* The log keeps what it has, and at most one input comes.                  *)
LogKept == UNCHANGED <<acct, erased>> /\ folded' \in folded..Len(log')
Comes(b, what) == LogKept /\ log' = Append(log, Entry(b, what))
Stays == LogKept /\ log' = log

LEMMA Smallest ==
    ASSUME NEW n \in Nat, NEW S \in SUBSET (1..n), S # {}
    PROVE  \E m \in S : \A k \in S : m <= k
<1>. DEFINE T == {1..i : i \in S}
            R == StrictSubsetOrdering(1..n)
<1>1. FiniteSubsetsOf(1..n) = SUBSET (1..n)
  <2>1. IsFiniteSet(1..n)
    BY FS_Interval, 1 \in Int, n \in Int
  <2>. QED
    BY <2>1, FS_FiniteSubsetsOfFinite
<1>2. T \subseteq SUBSET (1..n) /\ T # {}
  <2>1. \A i \in S : 1..i \subseteq 1..n
    <3>1. \A i \in S : i \in Nat /\ i <= n
      OBVIOUS
    <3>. QED
      BY <3>1
  <2>. QED
    BY <2>1
<1>3. PICK x \in T : \A y \in T : ~(<<y, x>> \in R)
  <2>1. IsWellFoundedOn(R, SUBSET (1..n))
    BY <1>1, FS_StrictSubsetOrderingWellFounded
  <2>. HIDE DEF T, R
  <2>. QED
    BY <1>2, <2>1, WFMin
<1>4. PICK m \in S : x = 1..m
  OBVIOUS
<1>5. ASSUME NEW k \in S, k < m PROVE FALSE
  <2>1. 1..k \subseteq 1..m /\ 1..k # 1..m /\ 1..k \in SUBSET (1..n) /\ 1..m \in SUBSET (1..n)
    <3>1. m \notin 1..k /\ m \in 1..m
      BY <1>5
    <3>. QED
      BY <1>5, <3>1
  <2>2. <<1..k, x>> \in R
    BY <1>4, <2>1 DEF StrictSubsetOrdering
  <2>. QED
    BY <1>3, <2>2
<1>. QED
  BY <1>5

(* The seq of a note is the first of its blob's.                            *)
NoteIsFirst ==
    \A b \in Blobs, n \in 0..Len(log) :
        Has(n, b, "note") =>
            /\ NoteSeq(n, b) \in Logged(n) /\ Is(NoteSeq(n, b), b, "note")
            /\ \A j \in Logged(n) : Is(j, b, "note") => NoteSeq(n, b) <= j

LEMMA NoteIs == LogOK => NoteIsFirst
<1>. SUFFICES ASSUME LogOK, NEW b \in Blobs, NEW n \in 0..Len(log), Has(n, b, "note")
              PROVE  /\ NoteSeq(n, b) \in Logged(n) /\ Is(NoteSeq(n, b), b, "note")
                     /\ \A j \in Logged(n) : Is(j, b, "note") => NoteSeq(n, b) <= j
  BY DEF NoteIsFirst
<1>. DEFINE S == {i \in Logged(n) : Is(i, b, "note")}
<1>1. n \in Nat /\ S \in SUBSET (1..n) /\ S # {}
  BY DEF LogOK, Logged, Has
<1>2. \E m \in S : \A k \in S : m <= k
  BY <1>1, Smallest
<1>3. \E i \in Logged(n) : Is(i, b, "note") /\ \A j \in Logged(n) : Is(j, b, "note") => i <= j
  BY <1>2
<1>. QED
  BY <1>3 DEF NoteSeq

LEMMA NoteIsNext == LogOK' => NoteIsFirst'
BY NoteIs, PTL

(* It stays that while the log grows, and a fold that reaches it sees it.   *)
LEMMA NoteKept ==
    ASSUME LogOK, LogOK', Stays \/ \E c \in Blobs, what \in {"note", "got", "lost"} : Comes(c, what),
           NEW b \in Blobs, Has(Len(log), b, "note")
    PROVE  Has(Len(log), b, "note")' /\ NoteSeq(Len(log), b)' = NoteSeq(Len(log), b)
<1>1. /\ erased' = erased /\ Len(log') >= Len(log) /\ Len(log') \in Nat /\ Len(log) \in Nat
      /\ erased \in Nat /\ \A i \in 1..Len(log) : log'[i] = log[i]
  BY SMTT(30) DEF LogOK, Stays, Comes, LogKept
<1>. DEFINE m == NoteSeq(Len(log), b)
<1>2. /\ m \in Logged(Len(log)) /\ Is(m, b, "note")
      /\ \A j \in Logged(Len(log)) : Is(j, b, "note") => m <= j
  BY <1>1, NoteIs DEF NoteIsFirst
<1>. HIDE DEF m
<1>3. PICK o : o = m
  OBVIOUS
<1>4. /\ o \in Logged(Len(log))' /\ log'[o] = log[o] /\ o \in 1..Len(log)
  BY <1>1, <1>2, <1>3 DEF Logged
<1>5. Is(o, b, "note")'
  BY <1>2, <1>3, <1>4 DEF Is
<1>6. Has(Len(log), b, "note")'
  BY <1>4, <1>5 DEF Has
<1>7. PICK k : k = NoteSeq(Len(log), b)'
  OBVIOUS
<1>8. k \in Logged(Len(log))' /\ Is(k, b, "note")' /\ k <= o
  BY <1>1, <1>4, <1>5, <1>6, <1>7, NoteIsNext DEF NoteIsFirst
<1>9. k \in Logged(Len(log)) /\ log'[k] = log[k]
  BY <1>1, <1>4, <1>8 DEF Logged
<1>10. o <= k
  BY <1>2, <1>3, <1>8, <1>9 DEF Is
<1>11. k = o
  BY <1>1, <1>4, <1>8, <1>9, <1>10 DEF Logged
<1>. QED
  BY <1>3, <1>6, <1>7, <1>11 DEF m

-----------------------------------------------------------------------------
(* Every variable has its type. *)

(* What a worker holds: a piece it has decoded is one of its blob's.        *)
JobOK(s) ==
    /\ s.pc \in {"parked", "drain"} \cup Running
    /\ s.pc \in Running => s.blob \in Blobs
    /\ s.pc = "stream" => s.seen \in 0..Convs[s.blob] /\ s.batch \subseteq 1..s.seen
    /\ s.pc = "flush" => s.batch \subseteq 1..Convs[s.blob]
WorkersOK == \A w \in Workers : JobOK(worker[w])
KnownOK == pool.known \subseteq Blobs
HandlerOK ==
    /\ handler.pc \in {"idle", "add", "wake", "ack"}
    /\ handler.pc # "idle" => handler.blob \in Blobs
RequeueOK ==
    /\ requeue.pc \in {"folding", "add", "wake", "below", "parked", "over", "failed"}
    /\ requeue.want \in 0..Len(log) /\ requeue.next \in Nat /\ requeue.page \in Seq(Blobs)
    /\ requeue.page # << >> <=> requeue.pc \in {"add", "wake"}
    /\ requeue.pc \in {"below", "parked"} => requeue.next > 0
NetOK ==
    /\ owed \subseteq Blobs /\ media \in [Blobs -> {"there", "gone", "bad"}]
    /\ online \in BOOLEAN /\ groups \in BOOLEAN
    /\ left \in [Disturbances -> Nat]
Types == LogOK /\ WorkersOK /\ KnownOK /\ HandlerOK /\ RequeueOK /\ NetOK

LEMMA Sizes ==
    /\ \A b \in Blobs : Convs[b] \in Nat
    /\ \A b \in Blobs : Owner[b] \in 1..2
BY BlobAssumption

LEMMA NewJobs ==
    /\ JobOK(Parked) /\ JobOK([pc |-> "drain"])
    /\ \A b \in Blobs : JobOK(Starting(b)) /\ JobOK(Streaming(b, {}, 0))
    /\ \A b \in Blobs, pc \in {"flush", "lost", "delete", "done"} : JobOK(Ended(b, pc, {}))
BY Sizes DEF JobOK, Parked, Starting, Streaming, Ended, Running

LEMMA BecomesOK ==
    ASSUME WorkerShape, WorkersOK, NEW w \in Workers, NEW s, JobOK(s), Becomes(w, s)
    PROVE  WorkersOK'
<1>1. \A v \in Workers : worker'[v] = IF v = w THEN s ELSE worker[v]
  BY DEF Becomes, WorkerShape
<1>. QED
  BY <1>1 DEF WorkersOK, JobOK

LEMMA InitTypes == Init => Types
<1>. SUFFICES ASSUME Init PROVE Types
  OBVIOUS
<1>. PICK world \in Worlds :
        /\ acct = 1 /\ parts = [b \in Blobs |-> {}] /\ erased = 0
        /\ log = [i \in 1..Len(world.noted) |-> Entry(world.noted[i], "note")]
        /\ folded \in 0..Len(log)
        /\ owed = world.owed /\ media = world.media /\ online = FALSE
        /\ handler = Idle /\ pool = EmptyPool /\ worker = [w \in Workers |-> Parked]
        /\ requeue = IF log = << >> THEN [Folding(0) EXCEPT !.pc = "over"] ELSE Folding(Len(log))
        /\ groups = FALSE
        /\ left = world.left
  BY DEF Init
<1>1. LogOK
  <2>0. world.noted \in Seq({b \in Blobs : Owner[b] = 1})
    BY WorldAssumption
  <2>1. world.noted \in Seq(Blobs)
    BY <2>0
  <2>2. log \in Seq(Inputs)
    BY <2>1 DEF Entry, Inputs
  <2>3. Len(log) \in Nat
    BY <2>2
  <2>. QED
    BY <2>2, <2>3 DEF LogOK
<1>2. WorkersOK
  BY NewJobs DEF WorkersOK
<1>3. KnownOK /\ HandlerOK
  BY DEF KnownOK, HandlerOK, EmptyPool, Idle
<1>4. RequeueOK
  <2>1. Len(log) \in Nat
    BY <1>1 DEF LogOK
  <2>. QED
    BY <2>1 DEF RequeueOK, Folding
<1>5. NetOK
  BY WorldAssumption DEF NetOK
<1>. QED
  BY <1>1, <1>2, <1>3, <1>4, <1>5 DEF Types

(* The page is a list of notifications that are folded and undecided. *)
LEMMA PageOf ==
    ASSUME NEW after, NEW page \in PendingHistory(after)
    PROVE  /\ page \in Seq(Blobs)
           /\ \A i \in 1..Len(page) : page[i] \in Unfetched(folded) /\ NoteSeq(folded, page[i]) > after
<1>. DEFINE rows == {b \in Unfetched(folded) : NoteSeq(folded, b) > after}
<1>1. PICK n \in 0..PageSize : page \in [1..n -> rows]
  BY DEF PendingHistory
<1>2. page \in Seq(rows) /\ Len(page) = n
  BY <1>1, SizeAssumption
<1>3. rows \subseteq Blobs
  BY DEF Unfetched
<1>. QED
  BY <1>1, <1>2, <1>3

LEMMA WorkersStep == Types /\ Shape /\ OnlyOnce /\ [Next]_vars => WorkersOK'
<1>. SUFFICES ASSUME Types, Shape, OnlyOnce, [Next]_vars PROVE WorkersOK'
  OBVIOUS
<1>. USE DEF Types, Shape
<1>1. CASE Others \/ Tokens \/ Adds
  <2>1. worker' = worker
    BY <1>1, LeavesPool DEF Others, Tokens, Adds, Ack, RequeueWakes, BelowWakes, HandlerAdds, RequeueAdds
  <2>. QED
    BY <2>1 DEF WorkersOK, JobOK
<1>2. CASE Crash
  BY <1>2, NewJobs DEF Crash, WorkersOK, JobOK, Parked
<1>3. ASSUME NEW w \in Workers, NEW p, LooksAt(w, p), p.queue = pool.queue PROVE WorkersOK'
  <2>1. pool.queue \in Seq(Blobs)
    BY DEF PoolShape, PoolOver, KnownOK
  <2>2. pool.queue # << >> => Head(pool.queue) \in Blobs
    BY <2>1
  <2>. QED
    BY <1>3, <2>2, NewJobs, BecomesOK DEF LooksAt
<1>4. ASSUME NEW w \in Workers, WorkerWakes(w) \/ Drain(w) PROVE WorkersOK'
  <2>1. [pool EXCEPT !.wake = @ - 1].queue = pool.queue /\ Drained(pool).queue = pool.queue
    BY DEF PoolShape, PoolOver, Drained
  <2>. QED
    BY <1>3, <1>4, <2>1 DEF WorkerWakes, Drain
<1>5. ASSUME NEW w \in Workers, Work(w) \/ DownloadFails(w) \/ AppendFails(w) PROVE WorkersOK'
  <2>. DEFINE b == worker[w].blob
  <2>1. JobOK(worker[w])
    BY DEF WorkersOK
  <2>2. CASE Download(w)
    BY <2>1, <2>2, NewJobs, BecomesOK DEF Download, JobOK, Running
  <2>3. CASE DownloadFails(w) \/ AppendFails(w)
    BY <2>1, <2>3, NewJobs, BecomesOK DEF DownloadFails, AppendFails, JobOK, Running
  <2>4. CASE Piece(w)
    <3>. DEFINE n == worker[w].seen + 1
    <3>1. worker[w].pc = "stream" /\ worker[w].seen < Convs[b] /\ b \in Blobs /\ Convs[b] \in Nat
      BY <2>1, <2>4, Sizes DEF Piece, JobOK, Running
    <3>2. n \in 0..Convs[b] /\ worker[w].batch \cup {n} \subseteq 1..n
      BY <2>1, <3>1 DEF JobOK
    <3>3. JobOK(Streaming(b, worker[w].batch \cup {n}, n)) /\ JobOK(Streaming(b, {}, n))
      BY <3>1, <3>2 DEF JobOK, Streaming, Running
    <3>. QED
      BY <2>4, <3>1, <3>3, NewJobs, BecomesOK DEF Piece
  <2>5. CASE Broken(w)
    <3>1. worker[w].pc = "stream" /\ b \in Blobs /\ Convs[b] \in Nat
      BY <2>1, <2>5, Sizes DEF Broken, JobOK, Running
    <3>2. worker[w].batch \subseteq 1..Convs[b]
      BY <2>1, <3>1 DEF JobOK
    <3>3. JobOK(Ended(b, "flush", worker[w].batch))
      BY <3>1, <3>2 DEF JobOK, Ended, Running
    <3>. QED
      BY <2>5, <3>3, BecomesOK DEF Broken
  <2>6. CASE Whole(w) \/ FlushRest(w) \/ Lose(w)
    BY <2>1, <2>6, NewJobs, BecomesOK DEF Whole, FlushRest, Lose, JobOK, Running
  <2>7. CASE Done(w)
    BY <2>7, NewJobs, BecomesOK DEF Done
  <2>. QED
    BY <1>4, <1>5, <2>2, <2>3, <2>4, <2>5, <2>6, <2>7 DEF Work, Logs
<1>. QED
  BY <1>1, <1>2, <1>5 DEF Next, Handle, Requeue, Trouble, Others, Tokens, Adds

(* Appending one input, or some pieces, keeps the log's types. *)
LEMMA LogGrows ==
    ASSUME LogOK, NEW b \in Blobs, NEW what \in {"note", "got", "lost"},
           NEW pieces \in SUBSET (1..Convs[b]), Appends(b, what, pieces) \/ AppendsPieces(b, pieces)
    PROVE  /\ LogOK'
           /\ Appends(b, what, pieces) => Comes(b, what)
           /\ AppendsPieces(b, pieces) => Stays
<1>1. parts' \in [Blobs -> SUBSET Nat] /\ \A c \in Blobs : parts'[c] \subseteq 1..Convs[c]
  <2>1. parts' = [parts EXCEPT ![b] = @ \cup pieces]
    BY DEF Appends, AppendsPieces
  <2>2. pieces \in SUBSET Nat
    BY Sizes
  <2>. QED
    BY <2>1, <2>2 DEF LogOK
<1>2. CASE Appends(b, what, pieces)
  <2>1. /\ log' = Append(log, Entry(b, what)) /\ Entry(b, what) \in Inputs
        /\ acct' = acct /\ erased' = erased /\ folded' = folded
    BY <1>2 DEF Appends, Entry, Inputs
  <2>2. log' \in Seq(Inputs) /\ Len(log') = Len(log) + 1 /\ Len(log) \in Nat
    BY <2>1 DEF LogOK
  <2>3. ~AppendsPieces(b, pieces)
    BY <2>1, <2>2 DEF AppendsPieces
  <2>. QED
    BY <1>1, <1>2, <2>1, <2>2, <2>3 DEF LogOK, Comes, LogKept
<1>3. CASE AppendsPieces(b, pieces)
  <2>1. log' = log /\ acct' = acct /\ erased' = erased /\ folded' = folded
    BY <1>3 DEF AppendsPieces
  <2>2. ~Appends(b, what, pieces)
    <3>1. log \in Seq(Inputs) /\ Entry(b, what) \in Inputs
      BY DEF LogOK, Entry, Inputs
    <3>2. Len(Append(log, Entry(b, what))) = Len(log) + 1 /\ Len(log) \in Nat
      BY <3>1
    <3>. QED
      BY <2>1, <3>2 DEF Appends
  <2>. QED
    BY <1>1, <1>3, <2>1, <2>2 DEF LogOK, Stays, LogKept
<1>. QED
  BY <1>2, <1>3

(* The log grows by at most one input, unless a logout erases it. *)
Grows == Stays \/ \E b \in Blobs, what \in {"note", "got", "lost"} : Comes(b, what)

(* Who writes which input. *)
Writes ==
    \/ Stays
    \/ \E b \in Blobs : (Deliver(b) /\ Comes(b, "note"))
    \/ \E w \in Workers : \/ (Whole(w) /\ Comes(worker[w].blob, "got"))
                           \/ (Lose(w) /\ Comes(worker[w].blob, "lost"))

LEMMA WritesGrow == WorkersOK /\ Writes => Grows
<1>. SUFFICES ASSUME WorkersOK, NEW w \in Workers, Whole(w) \/ Lose(w) PROVE worker[w].blob \in Blobs
  BY DEF Writes, Grows
<1>. QED
  BY DEF WorkersOK, JobOK, Whole, Lose, Running

LEMMA LogStep == Types /\ Shape /\ OnlyOnce /\ [Next]_vars => LogOK' /\ (Writes \/ Logout)
<1>. SUFFICES ASSUME Types, Shape, OnlyOnce, [Next]_vars PROVE LogOK' /\ (Writes \/ Logout)
  OBVIOUS
<1>. USE DEF Types, Shape
<1>0. ASSUME logVars' = logVars PROVE LogOK' /\ Writes
  BY <1>0 DEF logVars, LogOK, Writes, Stays, LogKept
<1>1. ASSUME NEW b \in Blobs, Deliver(b) PROVE LogOK' /\ Writes
  <2>1. {} \in SUBSET (1..Convs[b]) /\ Appends(b, "note", {})
    BY <1>1 DEF Deliver
  <2>. QED
    BY <1>1, <2>1, LogGrows DEF Writes
<1>2. ASSUME NEW w \in Workers, Work(w) PROVE LogOK' /\ Writes
  <2>. DEFINE b == worker[w].blob
  <2>1. JobOK(worker[w])
    BY DEF WorkersOK
  <2>2. CASE Piece(w)
    <3>. DEFINE n == worker[w].seen + 1
                batch == worker[w].batch \cup {n}
    <3>1. worker[w].pc = "stream" /\ worker[w].seen < Convs[b] /\ b \in Blobs /\ Convs[b] \in Nat
      BY <2>1, <2>2, Sizes DEF Piece, JobOK, Running
    <3>2. batch \in SUBSET (1..Convs[b])
      BY <2>1, <3>1 DEF JobOK
    <3>3. UNCHANGED logVars \/ AppendsPieces(b, batch)
      BY <2>2 DEF Piece
    <3>. QED
      BY <1>0, <3>1, <3>2, <3>3, LogGrows DEF Writes
  <2>3. CASE Whole(w) \/ Lose(w) \/ FlushRest(w)
    <3>1. b \in Blobs /\ Convs[b] \in Nat
      BY <2>1, <2>3, Sizes DEF Whole, Lose, FlushRest, JobOK, Running
    <3>2. CASE Whole(w)
      <4>1. worker[w].batch \in SUBSET (1..Convs[b]) /\ Appends(b, "got", worker[w].batch)
        BY <2>1, <3>1, <3>2 DEF Whole, JobOK
      <4>. QED
        BY <3>1, <3>2, <4>1, LogGrows DEF Writes
    <3>3. CASE Lose(w)
      <4>1. {} \in SUBSET (1..Convs[b]) /\ Appends(b, "lost", {})
        BY <3>3 DEF Lose
      <4>. QED
        BY <3>1, <3>3, <4>1, LogGrows DEF Writes
    <3>4. CASE FlushRest(w)
      <4>1. worker[w].batch \in SUBSET (1..Convs[b]) /\ AppendsPieces(b, worker[w].batch)
        BY <2>1, <3>1, <3>4 DEF FlushRest, JobOK
      <4>. QED
        BY <3>1, <4>1, LogGrows DEF Writes
    <3>. QED
      BY <2>3, <3>2, <3>3, <3>4
  <2>4. CASE WorkerWakes(w) \/ Download(w) \/ Broken(w) \/ Done(w) \/ Drain(w)
    <3>1. logVars' = logVars
      BY <2>4 DEF WorkerWakes, Download, Broken, Done, Drain, logVars
    <3>. QED
      BY <1>0, <3>1
  <2>. QED
    BY <1>2, <2>2, <2>3, <2>4 DEF Work, Logs
<1>3. CASE Fold
  BY <1>3 DEF Fold, LogOK, Writes, Stays, LogKept
<1>4. CASE Logout
  BY <1>4 DEF Logout, LogOK
<1>5. CASE \/ Handle \/ Requeue \/ GoOnline \/ ReadFails \/ GoOffline \/ Crash \/ UNCHANGED vars
           \/ \E b \in Blobs : DeliverFails(b)
           \/ \E w \in Workers : DownloadFails(w) \/ AppendFails(w)
  <2>1. logVars' = logVars
    BY <1>5, ReadIs DEF Handle, HandlerAdds, Ack, Requeue, Reads, RequeueAdds, RequeueWakes, Below, BelowWakes,
       GoOnline, ReadFails, GoOffline, Crash, vars, DeliverFails, DownloadFails, AppendFails, logVars
  <2>. QED
    BY <1>0, <2>1
<1>. QED
  BY <1>1, <1>2, <1>3, <1>4, <1>5 DEF Next, Trouble

LEMMA LogGoesOn == Types /\ Shape /\ OnlyOnce /\ [Next]_vars => Grows \/ Logout
BY LogStep, WritesGrow DEF Types

LEMMA KnownStep == Types /\ Shape /\ OnlyOnce /\ [Next]_vars => KnownOK'
<1>. SUFFICES ASSUME Types, Shape, OnlyOnce, [Next]_vars PROVE KnownOK'
  OBVIOUS
<1>. USE DEF Types, Shape, KnownOK
<1>1. CASE Others \/ Tokens
  BY <1>1, LeavesPool DEF Others, Tokens, Ack, RequeueWakes, BelowWakes, Woken, PoolShape, PoolOver
<1>2. CASE HandlerAdds
  BY <1>2 DEF HandlerAdds, Added, HandlerOK, PoolShape, PoolOver
<1>3. CASE RequeueAdds
  <2>1. requeue.page # << >> => Head(requeue.page) \in Blobs
    BY DEF RequeueOK
  <2>2. requeue.page # << >>
    BY <1>3 DEF RequeueAdds, RequeueOK
  <2>. QED
    BY <1>3, <2>1, <2>2 DEF RequeueAdds, Added, PoolShape, PoolOver
<1>4. CASE Crash
  BY <1>4 DEF Crash, EmptyPool
<1>5. ASSUME NEW w \in Workers, SameJob(w) \/ WorkerWakes(w) \/ Done(w) \/ Drain(w) PROVE KnownOK'
  BY <1>5 DEF SameJob, WorkerWakes, Done, Drain, LooksAt, Taken, Drained, Finished, PoolShape, PoolOver
<1>. QED
  BY <1>1, <1>2, <1>3, <1>4, <1>5, StepIs DEF Adds

LEMMA HandlerStep == Types /\ Shape /\ OnlyOnce /\ [Next]_vars => HandlerOK'
<1>. SUFFICES ASSUME Types, Shape, OnlyOnce, [Next]_vars PROVE HandlerOK'
  OBVIOUS
<1>. USE DEF Types, Shape, HandlerOK
<1>1. CASE Others
  BY <1>1, LeavesHandler
<1>2. CASE Ack \/ Crash
  BY <1>2 DEF Ack, Crash, Idle
<1>3. CASE HandlerAdds
  BY <1>3 DEF HandlerAdds, HandlerShape
<1>4. CASE RequeueAdds \/ RequeueWakes \/ BelowWakes
  BY <1>4 DEF RequeueAdds, RequeueWakes, BelowWakes
<1>5. ASSUME NEW w \in Workers, SameJob(w) \/ WorkerWakes(w) \/ Done(w) \/ Drain(w) PROVE HandlerOK'
  BY <1>5 DEF SameJob, WorkerWakes, Done, Drain
<1>. QED
  BY <1>1, <1>2, <1>3, <1>4, <1>5, StepIs DEF Adds, Tokens

(* What a page is worth: it goes on behind its last row when it is full.    *)
LEMMA ReadTypes ==
    ASSUME Types, RequeueShape, ReadPage
    PROVE  RequeueOK'
<1>. PICK page \in PendingHistory(IF requeue.pc = "folding" THEN 0 ELSE requeue.next) :
        requeue' = [requeue EXCEPT
                      !.pc = IF page = << >> THEN "over" ELSE "add",
                      !.page = page,
                      !.next = IF Len(page) = PageSize THEN NoteSeq(folded, page[Len(page)]) ELSE 0]
  BY DEF ReadPage
<1>1. page \in Seq(Blobs) /\ \A i \in 1..Len(page) : page[i] \in Unfetched(folded)
  BY PageOf
<1>2. Len(page) = PageSize => NoteSeq(folded, page[Len(page)]) \in Nat
  <2>. SUFFICES ASSUME Len(page) = PageSize PROVE NoteSeq(folded, page[Len(page)]) \in Nat
    OBVIOUS
  <2>1. Len(page) \in 1..Len(page)
    BY SizeAssumption
  <2>2. page[Len(page)] \in Blobs /\ Has(folded, page[Len(page)], "note")
    BY <1>1, <2>1 DEF Unfetched
  <2>3. NoteSeq(folded, page[Len(page)]) \in Logged(folded)
    BY <2>2, NoteIs DEF NoteIsFirst, Types, LogOK
  <2>. QED
    BY <2>3 DEF Logged
<1>3. log' = log
  BY DEF ReadPage, logVars
<1>4. /\ requeue'.pc = IF page = << >> THEN "over" ELSE "add"
      /\ requeue'.page = page /\ requeue'.want = requeue.want
      /\ requeue'.next = IF Len(page) = PageSize THEN NoteSeq(folded, page[Len(page)]) ELSE 0
  BY DEF RequeueShape
<1>5. requeue'.next \in Nat
  BY <1>2, <1>4
<1>. HIDE DEF RequeueShape
<1>. QED
  BY <1>1, <1>3, <1>4, <1>5 DEF Types, RequeueOK

LEMMA RequeueStep == Types /\ Shape /\ OnlyOnce /\ [Next]_vars => RequeueOK'
<1>. SUFFICES ASSUME Types, Shape, OnlyOnce, [Next]_vars PROVE RequeueOK'
  OBVIOUS
<1>0. Len(log) \in Nat /\ Len(log') \in Nat /\ Len(log') >= Len(log)
  BY LogStep, LogGoesOn DEF Types, LogOK, Grows, Stays, Comes, Logout
<1>1. ASSUME requeue' = requeue PROVE RequeueOK'
  BY <1>0, <1>1 DEF Types, RequeueOK
<1>2. ASSUME requeue'.pc \in {"add", "over", "below"}, requeue'.want = requeue.want,
             requeue'.next = requeue.next, requeue'.page = Tail(requeue.page), requeue'.pc = Rest, requeue.page # << >>
      PROVE  RequeueOK'
  <2>1. /\ Tail(requeue.page) \in Seq(Blobs)
        /\ Tail(requeue.page) # << >> <=> Len(requeue.page) > 1
    <3>1. requeue.page \in Seq(Blobs) /\ requeue.page # << >>
      BY <1>2 DEF Types, RequeueOK
    <3>2. /\ Tail(requeue.page) \in Seq(Blobs) /\ Len(requeue.page) \in Nat
          /\ Len(Tail(requeue.page)) = Len(requeue.page) - 1 /\ Len(requeue.page) > 0
      BY <3>1, HeadTailProperties
    <3>3. Tail(requeue.page) = << >> <=> Len(Tail(requeue.page)) = 0
      BY <3>2, EmptySeq
    <3>. QED
      BY <3>2, <3>3, SMTT(30)
  <2>. QED
    BY <1>0, <1>2, <2>1 DEF Types, RequeueOK, Rest
<1>3. CASE RequeueAdds
  <2>1. requeue.page # << >> /\ requeue.pc = "add"
    BY <1>3 DEF RequeueAdds, Types, RequeueOK
  <2>2. CASE Head(requeue.page) \in pool.known
    BY <1>2, <1>3, <2>1, <2>2 DEF RequeueAdds, Shape, RequeueShape, Rest
  <2>3. CASE Head(requeue.page) \notin pool.known
    BY <1>0, <1>3, <2>1, <2>3 DEF RequeueAdds, Shape, RequeueShape, Types, RequeueOK
  <2>. QED
    BY <2>2, <2>3
<1>4. CASE RequeueWakes
  <2>1. requeue.page # << >>
    BY <1>4 DEF RequeueWakes, Types, RequeueOK
  <2>. QED
    BY <1>2, <1>4, <2>1 DEF RequeueWakes, Shape, RequeueShape, Rest
<1>5. CASE Below \/ BelowWakes
  BY <1>0, <1>5 DEF Below, BelowWakes, Shape, RequeueShape, Types, RequeueOK
<1>6. CASE ReadFails
  BY <1>0, <1>6 DEF ReadFails, MayRead, Shape, RequeueShape, Types, RequeueOK
<1>7. CASE Crash
  <2>1. requeue' = [pc |-> "folding", want |-> Len(log), page |-> << >>, next |-> 0]
    BY <1>7 DEF Crash, Folding
  <2>. QED
    BY <1>0, <2>1 DEF RequeueOK
<1>8. CASE ReadPage
  BY <1>8, ReadTypes DEF Shape
<1>9. CASE (Others /\ ~ReadPage /\ ~ReadFails /\ ~Below) \/ Ack \/ HandlerAdds
  BY <1>1, <1>9 DEF Others, Deliver, DeliverFails, Fold, GoOnline, GoOffline, Logout, vars, Ack, HandlerAdds
<1>10. ASSUME NEW w \in Workers, SameJob(w) \/ WorkerWakes(w) \/ Done(w) \/ Drain(w) PROVE RequeueOK'
  BY <1>1, <1>10 DEF SameJob, WorkerWakes, Done, Drain
<1>. QED
  BY <1>3, <1>4, <1>5, <1>6, <1>7, <1>8, <1>9, <1>10, StepIs DEF Adds, Tokens

LEMMA Spends ==
    ASSUME NetOK, NEW d \in Disturbances, Spend(d)
    PROVE  left' \in [Disturbances -> Nat]
BY DEF NetOK, Spend

LEMMA NetStep == Types /\ Shape /\ OnlyOnce /\ [Next]_vars => NetOK'
<1>. SUFFICES ASSUME Types, Shape, OnlyOnce, [Next]_vars PROVE NetOK'
  OBVIOUS
<1>. USE DEF Types
<1>1. left' \in [Disturbances -> Nat]
  <2>1. left' = left \/ \E d \in Disturbances : Spend(d)
    BY ReadIs DEF Next, Deliver, Handle, HandlerAdds, Ack, Requeue, Reads, RequeueAdds, RequeueWakes, Below,
       BelowWakes, Work, Logs, WorkerWakes, Download, Piece, Broken, Whole, FlushRest, Lose, Done, Drain,
       Fold, GoOnline, Trouble, ReadFails, GoOffline, Logout, Crash, DeliverFails, DownloadFails, AppendFails,
       vars, Disturbances
  <2>. QED
    BY <2>1, Spends DEF NetOK
<1>2. online' \in BOOLEAN
  <2>1. online' = online \/ online' = TRUE \/ online' = FALSE
    BY ReadIs DEF Next, netVars, Deliver, Handle, HandlerAdds, Ack, Requeue, Reads, RequeueAdds, RequeueWakes,
       Below, BelowWakes, Work, Logs, WorkerWakes, Download, Piece, Broken, Whole, FlushRest, Lose, Done, Drain,
       Fold, GoOnline, Trouble, ReadFails, GoOffline, Logout, Crash, DeliverFails, DownloadFails, AppendFails, vars
  <2>. QED
    BY <2>1 DEF NetOK
<1>3. groups' \in BOOLEAN
  <2>1. groups' = groups \/ groups' = TRUE \/ groups' = FALSE
    BY ReadIs DEF Next, Deliver, Handle, HandlerAdds, Ack, Requeue, Reads, RequeueAdds, RequeueWakes,
       Below, BelowWakes, Work, Logs, WorkerWakes, Download, Piece, Broken, Whole, FlushRest, Lose, Done, Drain,
       Fold, GoOnline, Trouble, ReadFails, GoOffline, Logout, Crash, DeliverFails, DownloadFails, AppendFails, vars
  <2>. QED
    BY <2>1 DEF NetOK
<1>4. owed' = owed \/ owed' = owed \ {handler.blob}
  BY ReadIs DEF Next, netVars, Deliver, Handle, HandlerAdds, Ack, Requeue, Reads, RequeueAdds, RequeueWakes,
     Below, BelowWakes, Work, Logs, WorkerWakes, Download, Piece, Broken, Whole, FlushRest, Lose, Done, Drain,
     Fold, GoOnline, Trouble, ReadFails, GoOffline, Logout, Crash, DeliverFails, DownloadFails, AppendFails, vars
<1>5. media' = media \/ \E b : media' = [media EXCEPT ![b] = "gone"]
  BY ReadIs DEF Next, netVars, Deliver, Handle, HandlerAdds, Ack, Requeue, Reads, RequeueAdds, RequeueWakes,
     Below, BelowWakes, Work, Logs, WorkerWakes, Download, Piece, Broken, Whole, FlushRest, Lose, Done, Drain,
     Fold, GoOnline, Trouble, ReadFails, GoOffline, Logout, Crash, DeliverFails, DownloadFails, AppendFails, vars
<1>6. media' \in [Blobs -> {"there", "gone", "bad"}]
  BY <1>5 DEF NetOK
<1>. QED
  BY <1>1, <1>2, <1>3, <1>4, <1>6 DEF NetOK

LEMMA TypesStep == Types /\ Shape /\ OnlyOnce /\ [Next]_vars => Types'
BY LogStep, WorkersStep, KnownStep, HandlerStep, RequeueStep, NetStep DEF Types

JobsInv == Types /\ Shape /\ OnlyOnce

LEMMA JobsHold == Spec => []JobsInv
<1>1. Init => JobsInv
  BY InitTypes, InitShape, InitOnce DEF JobsInv
<1>2. JobsInv /\ [Next]_vars => JobsInv'
  BY TypesStep, ShapeStep, OnceStep DEF JobsInv
<1>. QED
  BY <1>1, <1>2, PTL DEF Spec

LEMMA TypesAreOK == JobsInv => TypeOK
<1>. SUFFICES ASSUME JobsInv PROVE TypeOK
  OBVIOUS
<1>. USE DEF JobsInv, Types, Shape
<1>1. pool.queue \in Seq(Blobs)
  BY DEF PoolShape, PoolOver, KnownOK
<1>2. pool.running \in 0..size
  <2>1. Cardinality(Busy) \in Nat /\ Cardinality(Busy) <= Cardinality(Workers)
    BY SomeWorkers, FS_Subset, FS_CardinalityType DEF Busy
  <2>. QED
    BY <2>1, SomeWorkers DEF OnlyOnce, size
<1>3. IsPool(pool, Blobs, size)
  BY <1>1, <1>2 DEF IsPool, PoolShape, PoolOver, KnownOK
<1>4. \A i \in 1..Len(log) : log[i].blob \in Blobs /\ log[i].what \in {"note", "got", "lost"}
  <2>1. \A i \in 1..Len(log) : log[i] \in Inputs
    BY DEF LogOK
  <2>. QED
    BY <2>1 DEF Inputs
<1>5. \A w \in Workers : worker[w].pc \in {"parked", "drain"} \cup Running
  BY DEF WorkersOK, JobOK
<1>. QED
  BY <1>3, <1>4, <1>5 DEF TypeOK, LogOK, NetOK, HandlerOK, RequeueOK

(* Every variable keeps its type: above all, a worker never decodes more    *)
(* pieces than its blob has, and no more jobs run than there are workers.   *)
THEOREM JobsTypeSafe == Spec => []TypeOK
BY JobsHold, TypesAreOK, PTL

-----------------------------------------------------------------------------
(* What is noted, decided, or aside. *)

Noted(b) == Has(Len(log), b, "note")
Decided(b) == Outcome(Len(log), b) # "pending"

(* A notification nobody is about to download: only requeueHistory can.     *)
Aside(b) ==
    /\ Owner[b] = acct /\ Noted(b) /\ ~Decided(b)
    /\ b \notin pool.known /\ ~(handler.pc = "add" /\ handler.blob = b)

LEMMA GrowsIs ==
    ASSUME LogOK, LogOK', Grows
    PROVE  /\ acct' = acct /\ erased' = erased /\ Len(log') >= Len(log) /\ Len(log') \in Nat
           /\ Len(log) \in Nat /\ \A i \in 1..Len(log) : log'[i] = log[i]
BY DEF LogOK, Grows, Stays, Comes, LogKept

LEMMA HasKept ==
    ASSUME LogOK, LogOK', Grows, NEW b \in Blobs, NEW what, Has(Len(log), b, what)
    PROVE  Has(Len(log), b, what)'
<1>1. /\ erased' = erased /\ Len(log') >= Len(log) /\ Len(log') \in Nat /\ Len(log) \in Nat
      /\ \A i \in 1..Len(log) : log'[i] = log[i]
  BY GrowsIs
<1>2. PICK i \in Logged(Len(log)) : Is(i, b, what)
  BY DEF Has
<1>3. i \in Logged(Len(log))' /\ log'[i] = log[i]
  BY <1>1 DEF Logged
<1>4. Is(i, b, what)'
  BY <1>2, <1>3 DEF Is
<1>. QED
  BY <1>3, <1>4 DEF Has

LEMMA HasCome ==
    ASSUME LogOK, LogOK', NEW b \in Blobs, NEW what \in {"note", "got", "lost"}, Comes(b, what)
    PROVE  Has(Len(log), b, what)'
<1>1. /\ erased' = erased /\ erased <= Len(log) /\ Len(log) \in Nat /\ Len(log') = Len(log) + 1
      /\ erased \in Nat /\ log'[Len(log) + 1] = Entry(b, what)
  BY DEF LogOK, Comes, LogKept
<1>2. PICK i \in Nat : i = Len(log) + 1
  BY <1>1
<1>3. i \in Logged(Len(log))'
  BY <1>1, <1>2 DEF Logged
<1>4. Is(i, b, what)'
  BY <1>1, <1>2 DEF Is, Entry
<1>. QED
  BY <1>3, <1>4 DEF Has

LEMMA HasBefore ==
    ASSUME LogOK, LogOK', Grows, NEW b \in Blobs, NEW what, Has(Len(log), b, what)', ~Comes(b, what)
    PROVE  Has(Len(log), b, what)
<1>1. erased' = erased /\ Len(log) \in Nat /\ \A i \in 1..Len(log) : log'[i] = log[i]
  BY GrowsIs
<1>2. PICK i \in Logged(Len(log))' : Is(i, b, what)'
  BY DEF Has
<1>3. i \in 1..Len(log)
  <2>1. CASE Stays
    BY <2>1 DEF Stays, Logged
  <2>2. ASSUME NEW c \in Blobs, NEW s \in {"note", "got", "lost"}, Comes(c, s) PROVE i \in 1..Len(log)
    <3>1. Len(log') = Len(log) + 1 /\ log'[Len(log) + 1] = Entry(c, s)
      BY <1>1, <2>2 DEF Comes, LogOK
    <3>2. i \in 1..Len(log) + 1
      BY <1>2, <3>1 DEF Logged
    <3>3. i # Len(log) + 1
      BY <1>2, <2>2, <3>1 DEF Is, Entry
    <3>. QED
      BY <1>1, <3>2, <3>3
  <2>. QED
    BY <2>1, <2>2 DEF Grows
<1>4. i \in Logged(Len(log)) /\ log'[i] = log[i]
  BY <1>1, <1>2, <1>3 DEF Logged
<1>5. Is(i, b, what)
  BY <1>2, <1>4 DEF Is
<1>. QED
  BY <1>4, <1>5 DEF Has

(* What is noted or decided stays so. *)
LEMMA DecidedKept ==
    ASSUME LogOK, LogOK', Grows, NEW b \in Blobs
    PROVE  (Noted(b) => Noted(b)') /\ (Decided(b) => Decided(b)')
<1>1. \A what \in {"note", "got", "lost"} : Has(Len(log), b, what) => Has(Len(log), b, what)'
  BY HasKept
<1>. QED
  BY <1>1 DEF Noted, Decided, Outcome

LEMMA DecidedIs == \A b \in Blobs : Decided(b) <=> Has(Len(log), b, "got") \/ Has(Len(log), b, "lost")
BY DEF Decided, Outcome

LEMMA DecidedIsNext == (\A b \in Blobs : Decided(b) <=> Has(Len(log), b, "got") \/ Has(Len(log), b, "lost"))'
BY DecidedIs, PTL

-----------------------------------------------------------------------------
(* No notification is forgotten. *)

(* Of a later account nothing is logged: the server owes it all.            *)
OwedOrLogged ==
    \A b \in Blobs : (Owner[b] > acct => b \in owed) /\ (Owner[b] = acct /\ ~Noted(b) => b \in owed)
OwnOnly ==
    /\ \A i \in 1..Len(log) : Owner[log[i].blob] <= acct
    /\ \A b \in pool.known : Owner[b] <= acct
    /\ \A i \in 1..Len(requeue.page) : Owner[requeue.page[i]] <= acct
HandlerHas == handler.pc # "idle" => Owner[handler.blob] = acct /\ Noted(handler.blob)
WorkerHas ==
    \A w \in Workers :
        worker[w].pc \in {"delete", "done"} /\ Owner[worker[w].blob] = acct => Decided(worker[w].blob)
(* requeueHistory waits for what was logged when it started, and every      *)
(* notification aside was.                                                  *)
Waited == requeue.pc \notin {"folding", "failed"} => requeue.want <= folded
AsideWanted == \A b \in Blobs : Aside(b) => NoteSeq(Len(log), b) <= requeue.want
HeadIsAdded == requeue.pc = "wake" => \A b \in Blobs : b = Head(requeue.page) => ~Aside(b)
AsideAhead == \A b \in Blobs : Aside(b) => Ahead(b)

NoteInv ==
    /\ JobsInv /\ OwedOrLogged /\ OwnOnly /\ HandlerHas /\ WorkerHas
    /\ Waited /\ AsideWanted /\ HeadIsAdded /\ AsideAhead

LEMMA NoneForgottenIs == NoteInv => NoneForgotten
BY DEF NoteInv, OwedOrLogged, AsideAhead, Aside, Noted, Decided, NoneForgotten, AtHand

LEMMA InitNotes == Init => NoteInv
<1>. SUFFICES ASSUME Init PROVE NoteInv
  OBVIOUS
<1>. PICK world \in Worlds :
        /\ acct = 1 /\ erased = 0
        /\ log = [i \in 1..Len(world.noted) |-> Entry(world.noted[i], "note")]
        /\ owed = world.owed
        /\ handler = Idle /\ pool = EmptyPool /\ worker = [w \in Workers |-> Parked]
        /\ requeue = IF log = << >> THEN [Folding(0) EXCEPT !.pc = "over"] ELSE Folding(Len(log))
  BY DEF Init
<1>1. JobsInv
  BY InitTypes, InitShape, InitOnce DEF JobsInv
<1>2. world.noted \in Seq({b \in Blobs : Owner[b] = 1}) /\ Len(log) = Len(world.noted)
  BY WorldAssumption
<1>3. \A i \in 1..Len(log) : log[i] = Entry(world.noted[i], "note") /\ Owner[world.noted[i]] = 1
  BY <1>2
<1>4. OwedOrLogged
  <2>. SUFFICES ASSUME NEW b \in Blobs, b \notin owed PROVE Owner[b] = 1 /\ Noted(b)
    BY Sizes DEF OwedOrLogged
  <2>1. PICK i \in 1..Len(world.noted) : world.noted[i] = b
    BY WorldAssumption
  <2>2. i \in Logged(Len(log)) /\ Is(i, b, "note")
    BY <1>2, <1>3, <2>1 DEF Logged, Is, Entry
  <2>. QED
    BY <1>2, <1>3, <2>1, <2>2 DEF Noted, Has
<1>5. OwnOnly
  <2>1. \A i \in 1..Len(log) : log[i].blob = world.noted[i]
    BY <1>3 DEF Entry
  <2>2. requeue.page = << >> /\ pool.known = {}
    BY DEF EmptyPool, Folding
  <2>3. \A i \in 1..Len(log) : Owner[log[i].blob] <= acct
    <3>1. \A i \in 1..Len(log) : Owner[log[i].blob] = 1
      BY <1>3, <2>1, Zenon
    <3>2. 1 <= acct
      OBVIOUS
    <3>. QED
      BY <3>1, <3>2, Zenon
  <2>4. ~ \E i \in 1..Len(requeue.page) : TRUE
    BY <2>2
  <2>. QED
    BY <2>2, <2>3, <2>4, Zenon DEF OwnOnly
<1>6. HandlerHas /\ WorkerHas
  BY DEF HandlerHas, WorkerHas, Idle, Parked
<1>7. requeue.want = Len(log) /\ (requeue.pc = "folding" \/ (requeue.pc = "over" /\ log = << >>))
  BY DEF Folding
<1>8. Waited
  BY <1>1, <1>7 DEF Waited, JobsInv, Types, LogOK
<1>9. \A b \in Blobs : Noted(b) => NoteSeq(Len(log), b) \in 1..Len(log)
  BY <1>1, NoteIs DEF JobsInv, Types, LogOK, NoteIsFirst, Noted, Logged
<1>10. AsideWanted
  BY <1>7, <1>9 DEF AsideWanted, Aside
<1>11. HeadIsAdded
  BY <1>7 DEF HeadIsAdded
<1>12. AsideAhead
  <2>1. \A b \in Blobs : Noted(b) => log # << >>
    BY <1>9
  <2>. QED
    BY <1>7, <2>1 DEF AsideAhead, Aside, Ahead
<1>. QED
  BY <1>1, <1>4, <1>5, <1>6, <1>8, <1>10, <1>11, <1>12 DEF NoteInv

(* A key leaves the pool when its job is done, or in a crash. *)
LEMMA KnownLeaves ==
    ASSUME JobsInv, [Next]_vars, ~Crash, NEW k \in pool.known, k \notin pool'.known
    PROVE  \E w \in Workers : Done(w) /\ k = worker[w].blob
<1>. USE DEF JobsInv, Shape
<1>1. CASE Others \/ Tokens
  BY <1>1, LeavesPool DEF Others, Tokens, Ack, RequeueWakes, BelowWakes, Woken, PoolShape, PoolOver
<1>2. CASE Adds
  BY <1>2, ZenonT(40) DEF Adds, HandlerAdds, RequeueAdds, Added, PoolShape, PoolOver
<1>3. ASSUME NEW w \in Workers, SameJob(w) \/ WorkerWakes(w) \/ Drain(w) PROVE k \in pool'.known
  BY <1>3 DEF SameJob, WorkerWakes, Drain, LooksAt, Taken, Drained, PoolShape, PoolOver
<1>4. ASSUME NEW w \in Workers, Done(w) PROVE k = worker[w].blob
  BY <1>4 DEF Done, Finished, PoolShape, PoolOver
<1>. QED
  BY <1>1, <1>2, <1>3, <1>4, StepIs

(* What the handler is about to queue is queued next. *)
LEMMA HandlerGoesOn ==
    ASSUME JobsInv, [Next]_vars, ~Crash, handler.pc = "add"
    PROVE  handler' = handler \/ handler.blob \in pool'.known
<1>. USE DEF JobsInv, Shape
<1>1. CASE Others
  BY <1>1, LeavesHandler DEF Idle
<1>2. CASE Tokens \/ RequeueAdds
  BY <1>2 DEF Tokens, Ack, RequeueWakes, BelowWakes, RequeueAdds
<1>3. CASE HandlerAdds
  BY <1>3 DEF HandlerAdds, Added, PoolShape, PoolOver
<1>4. ASSUME NEW w \in Workers, SameJob(w) \/ WorkerWakes(w) \/ Done(w) \/ Drain(w) PROVE handler' = handler
  BY <1>4 DEF SameJob, WorkerWakes, Done, Drain
<1>. QED
  BY <1>1, <1>2, <1>3, <1>4, StepIs DEF Adds

(* But for a crash, no notification is put aside. *)
LEMMA AsideBefore ==
    ASSUME NoteInv, JobsInv', [Next]_vars, ~Crash, NEW b \in Blobs, Aside(b)'
    PROVE  Aside(b) /\ Grows
<1>. USE DEF NoteInv, JobsInv, Types
<1>1. ~Logout
  <2>. SUFFICES ASSUME Logout, NEW i \in Logged(Len(log))' PROVE FALSE
    BY DEF Aside, Noted, Has
  <2>1. log' = log /\ erased' = Len(log) /\ Len(log) \in Nat
    BY DEF Logout, LogOK
  <2>. QED
    BY <2>1 DEF Logged
<1>2. Grows
  BY <1>1, LogGoesOn
<1>3. Owner[b] = acct /\ ~Decided(b)
  BY <1>2, GrowsIs, DecidedKept DEF Aside
<1>4. Noted(b)
  <2>. SUFFICES ASSUME ~Noted(b) PROVE FALSE
    OBVIOUS
  <2>1. Comes(b, "note")
    BY <1>2, HasBefore DEF Aside, Noted
  <2>2. Len(log) \in Nat /\ log'[Len(log) + 1] = Entry(b, "note")
    BY <2>1 DEF Comes, LogOK
  <2>3. ASSUME NEW c, NEW what, Comes(c, what) PROVE c = b /\ what = "note"
    <3>1. log'[Len(log) + 1] = Entry(c, what)
      BY <2>2, <2>3 DEF Comes, LogOK
    <3>. QED
      BY <2>2, <3>1 DEF Entry
  <2>4. ~Stays
    BY <2>1, <2>2 DEF Stays, Comes, LogOK
  <2>5. Deliver(b)
    BY <1>1, <2>3, <2>4, LogStep DEF Writes
  <2>. QED
    BY <2>5 DEF Deliver, Aside
<1>5. b \notin pool.known
  BY <1>3, KnownLeaves DEF Aside, WorkerHas, Done
<1>6. ~(handler.pc = "add" /\ handler.blob = b)
  BY HandlerGoesOn DEF Aside
<1>. QED
  BY <1>2, <1>3, <1>4, <1>5, <1>6 DEF Aside

(* and its seq stays. *)
LEMMA SeqStays ==
    ASSUME NoteInv, JobsInv', [Next]_vars, ~Crash, NEW b \in Blobs, Aside(b)'
    PROVE  NoteSeq(Len(log), b)' = NoteSeq(Len(log), b)
<1>1. Aside(b) /\ Grows
  BY AsideBefore
<1>. QED
  BY <1>1, NoteKept DEF Aside, Noted, Grows, NoteInv, JobsInv, Types

(* Who moves requeueHistory, the handler, and the notifications owed. *)
LEMMA RequeueMoves ==
    ASSUME [Next]_vars
    PROVE  \/ requeue' = requeue \/ ReadPage \/ ReadFails \/ RequeueAdds \/ RequeueWakes \/ Crash
           \/ Below \/ BelowWakes
<1>1. CASE Others /\ ~ReadPage /\ ~ReadFails /\ ~Below
  BY <1>1 DEF Others, Deliver, DeliverFails, Fold, GoOnline, GoOffline, Logout, vars
<1>2. CASE Ack \/ HandlerAdds
  BY <1>2 DEF Ack, HandlerAdds
<1>3. ASSUME NEW w \in Workers, SameJob(w) \/ WorkerWakes(w) \/ Done(w) \/ Drain(w) PROVE requeue' = requeue
  BY <1>3 DEF SameJob, WorkerWakes, Done, Drain
<1>. QED
  BY <1>1, <1>2, <1>3, StepIs DEF Tokens, Adds

LEMMA HandlerMoves ==
    ASSUME [Next]_vars
    PROVE  \/ handler' = handler \/ handler' = Idle \/ HandlerAdds
           \/ \E b \in Blobs : Deliver(b) /\ handler' = [pc |-> "add", blob |-> b]
<1>1. CASE Others
  <2>1. CASE \E b \in Blobs : Deliver(b)
    BY <2>1 DEF Deliver
  <2>2. CASE ReadPage \/ ReadFails \/ Below
    BY <2>2, ReadIs DEF Reads, ReadFails, Below
  <2>3. CASE ~(\E b \in Blobs : Deliver(b)) /\ ~(ReadPage \/ ReadFails \/ Below)
    BY <1>1, <2>3 DEF Others, DeliverFails, Fold, GoOnline, GoOffline, Logout, vars
  <2>. QED
    BY <2>1, <2>2, <2>3
<1>2. CASE Tokens \/ RequeueAdds \/ Crash
  BY <1>2 DEF Tokens, Ack, RequeueWakes, BelowWakes, RequeueAdds, Crash
<1>3. ASSUME NEW w \in Workers, SameJob(w) \/ WorkerWakes(w) \/ Done(w) \/ Drain(w) PROVE handler' = handler
  BY <1>3 DEF SameJob, WorkerWakes, Done, Drain
<1>. QED
  BY <1>1, <1>2, <1>3, StepIs DEF Adds

LEMMA OwedMoves ==
    ASSUME [Next]_vars
    PROVE  owed' = owed \/ (Ack /\ owed' = owed \ {handler.blob})
<1>1. CASE Ack
  BY <1>1 DEF Ack
<1>2. CASE ~Ack
  BY <1>2, ReadIs DEF Next, netVars, Deliver, Handle, HandlerAdds, Requeue, Reads, RequeueAdds, RequeueWakes,
     Below, BelowWakes, Work, Logs, WorkerWakes, Download, Piece, Broken, Whole, FlushRest, Lose, Done, Drain,
     Fold, GoOnline, Trouble, ReadFails, GoOffline, Logout, Crash, DeliverFails, DownloadFails, AppendFails, vars
<1>. QED
  BY <1>1, <1>2

LEMMA OwedStep == NoteInv /\ JobsInv' /\ [Next]_vars => OwedOrLogged'
<1>. SUFFICES ASSUME NoteInv, JobsInv', [Next]_vars, NEW b \in Blobs
              PROVE  (Owner[b] > acct' => b \in owed') /\ (Owner[b] = acct' /\ ~Noted(b)' => b \in owed')
  BY DEF OwedOrLogged
<1>. USE DEF NoteInv, JobsInv, Types
<1>1. Owner[b] \in 1..2 /\ acct \in 1..2
  BY Sizes DEF LogOK
<1>2. CASE Logout
  BY <1>1, <1>2 DEF Logout, OwedOrLogged
<1>3. CASE Grows
  <2>1. acct' = acct /\ (Noted(b) => Noted(b)')
    BY <1>3, GrowsIs, DecidedKept
  <2>2. Ack => Owner[handler.blob] = acct /\ Noted(handler.blob) /\ handler.blob \in Blobs
    BY DEF Ack, HandlerHas, HandlerOK
  <2>. QED
    BY <1>1, <2>1, <2>2, OwedMoves DEF OwedOrLogged
<1>. QED
  BY <1>2, <1>3, LogGoesOn

LEMMA HandlerHasStep == NoteInv /\ JobsInv' /\ [Next]_vars => HandlerHas'
<1>. SUFFICES ASSUME NoteInv, JobsInv', [Next]_vars PROVE HandlerHas'
  OBVIOUS
<1>. USE DEF NoteInv, JobsInv, Types
<1>1. CASE handler' = Idle
  BY <1>1 DEF HandlerHas, Idle
<1>2. ASSUME NEW b \in Blobs, Deliver(b), handler' = [pc |-> "add", blob |-> b] PROVE HandlerHas'
  <2>1. Comes(b, "note")
    <3>1. {} \in SUBSET (1..Convs[b]) /\ Appends(b, "note", {})
      BY <1>2 DEF Deliver
    <3>. QED
      BY <3>1, LogGrows
  <2>2. Noted(b)'
    BY <2>1, HasCome DEF Noted
  <2>. QED
    BY <1>2, <2>1, <2>2 DEF HandlerHas, Deliver, Comes, LogKept
<1>3. CASE handler'.blob = handler.blob /\ (handler'.pc # "idle" => handler.pc # "idle") /\ ~Logout
  <2>1. Grows
    BY <1>3, LogGoesOn
  <2>2. acct' = acct /\ \A b \in Blobs : Noted(b) => Noted(b)'
    BY <2>1, GrowsIs, DecidedKept
  <2>3. handler.pc # "idle" => handler.blob \in Blobs
    BY DEF HandlerOK
  <2>4. PICK k : k = handler.blob /\ k = handler'.blob
    BY <1>3
  <2>5. handler.pc # "idle" => Noted(k)'
    BY <2>2, <2>3, <2>4 DEF HandlerHas
  <2>. QED
    BY <1>3, <2>2, <2>4, <2>5 DEF HandlerHas
<1>4. HandlerAdds => handler'.blob = handler.blob /\ handler.pc # "idle" /\ ~Logout
  BY DEF HandlerAdds, Shape, HandlerShape, Logout, Idle
<1>5. CASE Logout
  BY <1>5 DEF Logout, HandlerHas, Idle
<1>. QED
  BY <1>1, <1>2, <1>3, <1>4, <1>5, HandlerMoves

LEMMA RunningIsKnown ==
    ASSUME JobsInv, NEW w \in Workers, worker[w].pc \in Running
    PROVE  worker[w].blob \in pool.known /\ worker[w].blob \in Blobs
BY DEF JobsInv, Types, WorkersOK, JobOK, OnlyOnce, Busy

LEMMA OwnStep == NoteInv /\ JobsInv' /\ [Next]_vars => OwnOnly'
<1>. SUFFICES ASSUME NoteInv, JobsInv', [Next]_vars PROVE OwnOnly'
  OBVIOUS
<1>. USE DEF NoteInv, JobsInv, Types
<1>0. acct \in 1..2 /\ acct' \in 1..2 /\ acct' >= acct /\ \A b \in Blobs : Owner[b] \in 1..2
  BY Sizes, GrowsIs, LogGoesOn DEF LogOK, Logout
<1>1. \A b \in Blobs : Owner[b] <= acct => Owner[b] <= acct'
  BY <1>0
<1>2. \A i \in 1..Len(log') : Owner[log'[i].blob] <= acct'
  <2>1. \A i \in 1..Len(log) : log[i].blob \in Blobs /\ Owner[log[i].blob] <= acct'
    <3>1. \A i \in 1..Len(log) : log[i] \in Inputs
      BY DEF LogOK
    <3>. QED
      BY <1>1, <3>1 DEF OwnOnly, Inputs
  <2>2. CASE log' = log
    BY <2>1, <2>2
  <2>3. ASSUME NEW b \in Blobs, NEW what, Comes(b, what), Owner[b] <= acct
        PROVE  \A i \in 1..Len(log') : Owner[log'[i].blob] <= acct'
    <3>1. /\ Len(log') = Len(log) + 1 /\ log'[Len(log) + 1] = Entry(b, what) /\ Len(log) \in Nat
          /\ \A i \in 1..Len(log) : log'[i] = log[i]
      BY <2>3 DEF Comes, LogOK
    <3>2. log'[Len(log) + 1].blob = b
      BY <3>1 DEF Entry
    <3>3. \A i \in 1..Len(log') : i \in 1..Len(log) \/ i = Len(log) + 1
      BY <3>1
    <3>. QED
      BY <1>1, <2>1, <2>3, <3>1, <3>2, <3>3
  <2>4. \A b \in Blobs : Deliver(b) => Owner[b] <= acct
    BY <1>0 DEF Deliver
  <2>5. \A w \in Workers : Whole(w) \/ Lose(w) => worker[w].blob \in Blobs /\ Owner[worker[w].blob] <= acct
    BY RunningIsKnown DEF Whole, Lose, Running, OwnOnly
  <2>. QED
    BY <2>2, <2>3, <2>4, <2>5, LogStep DEF Writes, Stays, Logout
<1>3. \A k \in pool'.known : Owner[k] <= acct'
  <2>1. \A k \in pool.known : Owner[k] <= acct'
    BY <1>1 DEF OwnOnly, KnownOK
  <2>2. CASE Others \/ Tokens
    BY <2>1, <2>2, LeavesPool
       DEF Others, Tokens, Ack, RequeueWakes, BelowWakes, Woken, Shape, PoolShape, PoolOver
  <2>3. CASE HandlerAdds
    <3>1. Owner[handler.blob] <= acct'
      BY <1>0, <2>3 DEF HandlerAdds, HandlerHas, HandlerOK
    <3>. QED
      BY <2>1, <2>3, <3>1 DEF HandlerAdds, Added, Shape, PoolShape, PoolOver
  <2>4. CASE RequeueAdds
    <3>1. requeue.page \in Seq(Blobs) /\ requeue.page # << >>
      BY <2>4 DEF RequeueAdds, RequeueOK
    <3>2. 1 \in 1..Len(requeue.page) /\ Head(requeue.page) = requeue.page[1] /\ requeue.page[1] \in Blobs
      BY <3>1
    <3>3. Owner[Head(requeue.page)] <= acct'
      BY <1>1, <3>2 DEF OwnOnly
    <3>. QED
      BY <2>1, <2>4, <3>3 DEF RequeueAdds, Added, Shape, PoolShape, PoolOver
  <2>5. CASE Crash
    BY <2>5 DEF Crash, EmptyPool
  <2>6. ASSUME NEW w \in Workers, SameJob(w) \/ WorkerWakes(w) \/ Done(w) \/ Drain(w)
        PROVE  pool'.known \subseteq pool.known
    BY <2>6 DEF SameJob, WorkerWakes, Done, Drain, LooksAt, Taken, Drained, Finished, Shape, PoolShape, PoolOver
  <2>. QED
    BY <2>1, <2>2, <2>3, <2>4, <2>5, <2>6, StepIs DEF Adds
<1>4. \A i \in 1..Len(requeue'.page) : Owner[requeue'.page[i]] <= acct'
  <2>1. \A i \in 1..Len(requeue.page) : Owner[requeue.page[i]] <= acct'
    BY <1>1 DEF OwnOnly, RequeueOK
  <2>2. CASE requeue'.page = requeue.page
    BY <2>1, <2>2
  <2>3. CASE requeue'.page = Tail(requeue.page) /\ requeue.page # << >>
    <3>1. requeue.page \in Seq(Blobs) /\ Len(requeue.page) \in Nat
      BY DEF RequeueOK
    <3>2. /\ Len(requeue'.page) = Len(requeue.page) - 1
          /\ \A i \in 1..Len(requeue'.page) : requeue'.page[i] = requeue.page[i + 1]
      BY <2>3, <3>1
    <3>3. \A i \in 1..Len(requeue'.page) : i + 1 \in 1..Len(requeue.page)
      BY <3>1, <3>2
    <3>. QED
      BY <2>1, <3>2, <3>3
  <2>4. CASE Crash
    BY <2>4 DEF Crash, Folding
  <2>5. CASE ReadPage
    <3>1. requeue'.page \in PendingHistory(IF requeue.pc = "folding" THEN 0 ELSE requeue.next)
      BY <2>5 DEF ReadPage, Shape, RequeueShape
    <3>2. \A i \in 1..Len(requeue'.page) : requeue'.page[i] \in Unfetched(folded)
      BY <3>1, PageOf
    <3>3. ASSUME NEW b \in Unfetched(folded) PROVE Owner[b] <= acct'
      <4>1. PICK j \in Logged(folded) : Is(j, b, "note")
        BY DEF Unfetched, Has
      <4>2. j \in 1..Len(log)
        BY <4>1 DEF Logged, LogOK
      <4>. QED
        BY <1>1, <4>1, <4>2 DEF Is, OwnOnly, Unfetched
    <3>. QED
      BY <3>2, <3>3
  <2>6. requeue.pc \in {"add", "wake"} => requeue.page # << >>
    BY DEF RequeueOK
  <2>7. \/ requeue'.page = requeue.page \/ Crash \/ ReadPage
        \/ (requeue'.page = Tail(requeue.page) /\ requeue.page # << >>)
    BY <2>6, RequeueMoves DEF ReadFails, RequeueAdds, RequeueWakes, Below, BelowWakes, Shape, RequeueShape
  <2>. QED
    BY <2>2, <2>3, <2>4, <2>5, <2>7
<1>. QED
  BY <1>2, <1>3, <1>4 DEF OwnOnly

(* A worker comes to delete or to be done with the outcome in the log. *)
LEMMA EndsWith ==
    ASSUME JobsInv, [Next]_vars, NEW w \in Workers, worker'[w].pc \in {"delete", "done"}
    PROVE  worker'[w] = worker[w] \/ ((Whole(w) \/ Lose(w)) /\ worker'[w].blob = worker[w].blob)
<1>. USE DEF JobsInv, Shape
<1>1. CASE Others \/ Tokens \/ Adds
  BY <1>1, LeavesPool DEF Others, Tokens, Adds, Ack, RequeueWakes, BelowWakes, HandlerAdds, RequeueAdds
<1>2. CASE Crash
  BY <1>2 DEF Crash, Parked
<1>3. ASSUME NEW v \in Workers, v # w, NEW s, Becomes(v, s) PROVE worker'[w] = worker[w]
  BY <1>3 DEF Becomes, WorkerShape
<1>4. ASSUME NEW v \in Workers, v # w, Work(v) \/ DownloadFails(v) \/ AppendFails(v)
      PROVE  worker'[w] = worker[w]
  <2>1. \E s : Becomes(v, s)
    BY <1>4 DEF Work, Logs, WorkerWakes, LooksAt, Download, DownloadFails, AppendFails, Piece, Broken, Whole,
                FlushRest, Lose, Done, Drain
  <2>. QED
    BY <1>3, <1>4, <2>1
<1>5. CASE Work(w) \/ DownloadFails(w) \/ AppendFails(w)
  <2>1. Whole(w) \/ Lose(w) => worker'[w].blob = worker[w].blob
    BY DEF Whole, Lose, Becomes, Ended, WorkerShape
  <2>2. ~(Download(w) \/ DownloadFails(w) \/ Piece(w) \/ Broken(w) \/ FlushRest(w) \/ AppendFails(w))
    BY DEF Download, DownloadFails, Piece, Broken, FlushRest, AppendFails, Becomes, Ended, Starting, Streaming,
           WorkerShape
  <2>3. ~(WorkerWakes(w) \/ Drain(w) \/ Done(w))
    BY DEF WorkerWakes, Drain, Done, LooksAt, Becomes, Parked, Starting, WorkerShape
  <2>. QED
    BY <1>5, <2>1, <2>2, <2>3 DEF Work, Logs
<1>. QED
  BY <1>1, <1>2, <1>4, <1>5 DEF Next, Handle, Requeue, Trouble, Others, Tokens, Adds

LEMMA WorkerHasStep == NoteInv /\ JobsInv' /\ [Next]_vars => WorkerHas'
<1>. SUFFICES ASSUME NoteInv, JobsInv', [Next]_vars, NEW w \in Workers,
                     worker'[w].pc \in {"delete", "done"}, Owner[worker'[w].blob] = acct'
              PROVE  Decided(worker[w].blob)'
  BY DEF WorkerHas
<1>. USE DEF NoteInv, JobsInv, Types
<1>. PICK b : b = worker'[w].blob
  OBVIOUS
<1>1. ASSUME worker[w].pc \in Running PROVE worker[w].blob \in Blobs /\ Owner[worker[w].blob] <= acct
  BY <1>1, RunningIsKnown DEF OwnOnly
<1>2. CASE worker'[w] = worker[w]
  <2>1. b \in Blobs /\ Owner[b] <= acct /\ Owner[b] = acct'
    BY <1>1, <1>2 DEF Running
  <2>2. ~Logout
    BY <2>1 DEF Logout
  <2>3. Grows /\ acct' = acct
    BY <2>2, LogGoesOn, GrowsIs
  <2>4. Decided(b)
    BY <1>2, <2>3 DEF WorkerHas
  <2>. QED
    BY <2>1, <2>3, <2>4, DecidedKept
<1>3. CASE (Whole(w) \/ Lose(w)) /\ worker'[w].blob = worker[w].blob
  <2>0. JobOK(worker[w]) /\ worker[w].pc \in Running /\ b = worker[w].blob
    BY <1>3 DEF WorkersOK, Whole, Lose, Running
  <2>1. b \in Blobs /\ Convs[b] \in Nat
    BY <1>1, <2>0, Sizes
  <2>2. \E what \in {"got", "lost"} : Comes(b, what)
    <3>1. CASE Whole(w)
      <4>1. worker[w].batch \in SUBSET (1..Convs[b]) /\ Appends(b, "got", worker[w].batch)
        BY <2>0, <2>1, <3>1 DEF Whole, JobOK
      <4>. QED
        BY <2>1, <4>1, LogGrows
    <3>2. CASE Lose(w)
      <4>1. {} \in SUBSET (1..Convs[b]) /\ Appends(b, "lost", {})
        BY <2>0, <3>2 DEF Lose
      <4>. QED
        BY <2>1, <4>1, LogGrows
    <3>. QED
      BY <1>3, <3>1, <3>2
  <2>3. Has(Len(log), b, "got")' \/ Has(Len(log), b, "lost")'
    BY <2>1, <2>2, HasCome
  <2>. QED
    BY <2>1, <2>3, DecidedIsNext
<1>. QED
  BY <1>2, <1>3, EndsWith

LEMMA WaitedStep == NoteInv /\ JobsInv' /\ [Next]_vars => Waited'
<1>. SUFFICES ASSUME NoteInv, JobsInv', [Next]_vars, requeue'.pc \notin {"folding", "failed"}
              PROVE  requeue'.want <= folded'
  BY DEF Waited
<1>. USE DEF NoteInv, JobsInv, Types
<1>1. folded \in Nat /\ folded' \in Nat /\ folded <= folded' /\ requeue.want \in Nat
  BY LogGoesOn DEF LogOK, Logout, Grows, Stays, Comes, LogKept, RequeueOK
<1>2. ~Crash
  BY DEF Crash, Folding
<1>3. CASE ReadPage
  <2>1. requeue.want <= folded
    BY <1>3, ReadIs DEF Reads, MayRead, Waited
  <2>2. requeue'.want = requeue.want
    BY <1>3, ReadIs DEF Reads, Shape, RequeueShape
  <2>. QED
    BY <1>1, <2>1, <2>2
<1>4. CASE requeue' = requeue
  BY <1>1, <1>4 DEF Waited
<1>5. CASE ReadFails
  BY <1>5 DEF ReadFails, Shape, RequeueShape
<1>6. CASE RequeueAdds \/ RequeueWakes
  <2>1. requeue.want <= folded
    BY <1>6 DEF RequeueAdds, RequeueWakes, Waited
  <2>2. requeue'.want = requeue.want
    BY <1>6 DEF RequeueAdds, RequeueWakes, Shape, RequeueShape
  <2>. QED
    BY <1>1, <2>1, <2>2
<1>7. CASE Below \/ BelowWakes
  BY <1>1, <1>7 DEF Below, BelowWakes, Shape, RequeueShape, Waited
<1>. QED
  BY <1>2, <1>3, <1>4, <1>5, <1>6, <1>7, RequeueMoves

LEMMA AsideWantedStep == NoteInv /\ JobsInv' /\ [Next]_vars => AsideWanted'
<1>. SUFFICES ASSUME NoteInv, JobsInv', [Next]_vars, NEW b \in Blobs, Aside(b)'
              PROVE  NoteSeq(Len(log), b)' <= requeue'.want
  BY DEF AsideWanted
<1>. USE DEF NoteInv, JobsInv, Types
<1>1. CASE Crash
  <2>1. requeue'.want = Len(log) /\ log' = log
    BY <1>1 DEF Crash, Folding, logVars
  <2>2. NoteSeq(Len(log), b)' \in Logged(Len(log))'
    BY NoteIsNext DEF NoteIsFirst, Aside, Noted, LogOK
  <2>3. PICK k : k = NoteSeq(Len(log), b)'
    OBVIOUS
  <2>4. k \in 1..Len(log')
    BY <2>2, <2>3 DEF Logged
  <2>. QED
    BY <2>1, <2>3, <2>4 DEF LogOK
<1>2. CASE ~Crash
  <2>1. Aside(b) /\ NoteSeq(Len(log), b)' = NoteSeq(Len(log), b)
    BY <1>2, AsideBefore, SeqStays
  <2>2. requeue'.want = requeue.want
    BY <1>2, RequeueMoves, ReadIs DEF Reads, ReadFails, RequeueAdds, RequeueWakes, Below, BelowWakes,
       Shape, RequeueShape
  <2>. QED
    BY <2>1, <2>2 DEF AsideWanted
<1>. QED
  BY <1>1, <1>2

LEMMA HeadStep == NoteInv /\ JobsInv' /\ [Next]_vars => HeadIsAdded'
<1>. SUFFICES ASSUME NoteInv, JobsInv', [Next]_vars, requeue'.pc = "wake",
                     NEW b \in Blobs, b = Head(requeue'.page), Aside(b)'
              PROVE  FALSE
  BY DEF HeadIsAdded
<1>. USE DEF NoteInv, JobsInv
<1>1. ~Crash
  BY DEF Crash, Folding
<1>2. Aside(b)
  BY <1>1, AsideBefore
<1>3. requeue' = requeue \/ RequeueAdds
  BY <1>1, RequeueMoves, ReadIs DEF Reads, ReadFails, RequeueWakes, Rest, Below, BelowWakes, Shape, RequeueShape
<1>4. CASE requeue' = requeue
  BY <1>2, <1>4 DEF HeadIsAdded
<1>5. CASE RequeueAdds
  <2>1. Head(requeue.page) \notin pool.known
    BY <1>5 DEF RequeueAdds, Rest, Shape, RequeueShape
  <2>2. requeue'.page = requeue.page
    BY <1>5, <2>1 DEF RequeueAdds, Shape, RequeueShape
  <2>3. b \in pool'.known
    BY <1>5, <2>1, <2>2 DEF RequeueAdds, Added, Shape, PoolShape, PoolOver
  <2>. QED
    BY <2>3 DEF Aside
<1>. QED
  BY <1>3, <1>4, <1>5

(* The page that is read has every notification aside, or ends before it.   *)
LEMMA ReadsAside ==
    ASSUME NoteInv, ReadPage, NEW b \in Blobs, Aside(b)
    PROVE  \/ b \in {requeue'.page[i] : i \in 1..Len(requeue'.page)}
           \/ requeue'.next > 0 /\ NoteSeq(Len(log), b) > requeue'.next
<1>. DEFINE after == IF requeue.pc = "folding" THEN 0 ELSE requeue.next
            m == NoteSeq(Len(log), b)
<1>. USE DEF NoteInv, JobsInv, Types
<1>1. PICK page \in PendingHistory(after) :
        requeue' = [requeue EXCEPT
                      !.pc = IF page = << >> THEN "over" ELSE "add",
                      !.page = page,
                      !.next = IF Len(page) = PageSize THEN NoteSeq(folded, page[Len(page)]) ELSE 0]
  BY DEF ReadPage
<1>2. /\ requeue'.page = page
      /\ requeue'.next = IF Len(page) = PageSize THEN NoteSeq(folded, page[Len(page)]) ELSE 0
  BY <1>1 DEF Shape, RequeueShape
<1>3. m \in Logged(Len(log)) /\ Is(m, b, "note") /\ \A j \in Logged(Len(log)) : Is(j, b, "note") => m <= j
  BY NoteIs DEF Aside, Noted, NoteIsFirst, LogOK
<1>4. requeue.want <= folded /\ m <= requeue.want
  BY DEF ReadPage, MayRead, Waited, AsideWanted
<1>5. m \in Logged(folded) /\ Logged(folded) \subseteq Logged(Len(log))
  BY <1>3, <1>4 DEF Logged, LogOK, RequeueOK
<1>6. Has(folded, b, "note")
  BY <1>3, <1>5 DEF Has
<1>7. NoteSeq(folded, b) = m
  <2>. HIDE DEF m
  <2>1. /\ NoteSeq(folded, b) \in Logged(folded) /\ Is(NoteSeq(folded, b), b, "note")
        /\ \A j \in Logged(folded) : Is(j, b, "note") => NoteSeq(folded, b) <= j
    BY <1>6, NoteIs DEF NoteIsFirst, LogOK
  <2>2. NoteSeq(folded, b) <= m /\ m <= NoteSeq(folded, b)
    BY <1>3, <1>5, <2>1
  <2>3. NoteSeq(folded, b) \in Int /\ m \in Int
    BY <1>5, <2>1 DEF Logged
  <2>. QED
    BY <2>2, <2>3
<1>8. Outcome(folded, b) = "pending"
  <2>1. ASSUME NEW what, Has(folded, b, what) PROVE Has(Len(log), b, what)
    BY <1>5, <2>1 DEF Has
  <2>2. ~Has(Len(log), b, "got") /\ ~Has(Len(log), b, "lost")
    BY DecidedIs DEF Aside
  <2>. QED
    BY <2>1, <2>2 DEF Outcome
<1>9. m > after
  <2>1. CASE requeue.pc = "folding"
    BY <1>5, <2>1 DEF Logged
  <2>2. CASE requeue.pc = "below"
    <3>1. requeue.page = << >>
      BY <2>2 DEF RequeueOK
    <3>2. Ahead(b)
      BY DEF AsideAhead
    <3>. QED
      BY <2>2, <3>1, <3>2 DEF Ahead
  <2>. QED
    BY <2>1, <2>2 DEF ReadPage, MayRead
<1>. HIDE DEF after, m
<1>10. \/ \E i \in DOMAIN page : page[i] = b
       \/ Len(page) = PageSize /\ \A i \in DOMAIN page : NoteSeq(folded, page[i]) < NoteSeq(folded, b)
  BY <1>6, <1>7, <1>8, <1>9 DEF PendingHistory, Unfetched
<1>11. page \in Seq(Blobs) /\ \A i \in 1..Len(page) : page[i] \in Unfetched(folded)
  BY PageOf
<1>12. CASE \E i \in DOMAIN page : page[i] = b
  BY <1>2, <1>11, <1>12
<1>13. CASE Len(page) = PageSize /\ \A i \in DOMAIN page : NoteSeq(folded, page[i]) < NoteSeq(folded, b)
  <2>1. Len(page) \in 1..Len(page) /\ DOMAIN page = 1..Len(page)
    BY <1>11, <1>13, SizeAssumption
  <2>2. NoteSeq(folded, page[Len(page)]) < m
    BY <1>7, <1>13, <2>1
  <2>3. page[Len(page)] \in Blobs /\ Has(folded, page[Len(page)], "note")
    BY <1>11, <2>1 DEF Unfetched
  <2>4. NoteSeq(folded, page[Len(page)]) \in Logged(folded)
    BY <2>3, NoteIs DEF NoteIsFirst, LogOK
  <2>5. NoteSeq(folded, page[Len(page)]) > 0
    BY <2>4 DEF Logged
  <2>6. requeue'.next = NoteSeq(folded, page[Len(page)])
    BY <1>2, <1>13
  <2>7. m \in Int /\ NoteSeq(folded, page[Len(page)]) \in Int
    BY <1>5, <2>4 DEF Logged
  <2>. QED
    BY <2>2, <2>5, <2>6, <2>7 DEF m
<1>. QED
  BY <1>10, <1>12, <1>13

LEMMA AheadStep == NoteInv /\ JobsInv' /\ [Next]_vars => AsideAhead'
<1>. SUFFICES ASSUME NoteInv, JobsInv', [Next]_vars, NEW b \in Blobs, Aside(b)' PROVE Ahead(b)'
  BY DEF AsideAhead
<1>. USE DEF NoteInv, JobsInv, Types
<1>1. CASE Crash \/ ReadFails
  BY <1>1 DEF Crash, Folding, ReadFails, Shape, RequeueShape, Ahead
<1>2. ASSUME ~Crash PROVE Aside(b) /\ NoteSeq(Len(log), b)' = NoteSeq(Len(log), b) /\ Ahead(b)
  BY <1>2, AsideBefore, SeqStays DEF AsideAhead
<1>3. CASE ReadPage /\ ~Crash
  BY <1>2, <1>3, ReadsAside DEF Ahead
<1>4. CASE (requeue' = requeue \/ Below \/ BelowWakes) /\ ~Crash
  BY <1>2, <1>4 DEF Ahead, Below, BelowWakes, Shape, RequeueShape
<1>5. CASE (RequeueAdds \/ RequeueWakes) /\ ~Crash
  <2>1. requeue.pc \in {"add", "wake"} /\ requeue.page \in Seq(Blobs) /\ requeue.page # << >>
    BY <1>5 DEF RequeueAdds, RequeueWakes, RequeueOK
  <2>2. requeue'.page = requeue.page \/ (requeue'.page = Tail(requeue.page) /\ b # Head(requeue.page))
    <3>1. CASE RequeueWakes
      BY <1>2, <1>5, <3>1 DEF RequeueWakes, HeadIsAdded, Shape, RequeueShape
    <3>2. CASE RequeueAdds /\ Head(requeue.page) \in pool.known
      BY <1>2, <1>5, <3>2 DEF RequeueAdds, Aside, Shape, RequeueShape
    <3>3. CASE RequeueAdds /\ Head(requeue.page) \notin pool.known
      BY <3>3 DEF RequeueAdds, Shape, RequeueShape
    <3>. QED
      BY <1>5, <3>1, <3>2, <3>3
  <2>3. requeue'.next = requeue.next
    BY <1>5 DEF RequeueAdds, RequeueWakes, Shape, RequeueShape
  <2>4. b \in {requeue.page[i] : i \in 1..Len(requeue.page)} =>
            b \in {requeue'.page[i] : i \in 1..Len(requeue'.page)}
    <3>. SUFFICES ASSUME NEW i \in 1..Len(requeue.page), b = requeue.page[i], b # Head(requeue.page),
                         requeue'.page = Tail(requeue.page)
                  PROVE  \E j \in 1..Len(requeue'.page) : b = requeue'.page[j]
      BY <2>2
    <3>1. i # 1 /\ Len(requeue.page) \in Nat
      BY <2>1
    <3>2. /\ Len(requeue'.page) = Len(requeue.page) - 1
          /\ \A j \in 1..Len(requeue'.page) : requeue'.page[j] = requeue.page[j + 1]
      BY <2>1
    <3>3. i - 1 \in 1..Len(requeue'.page) /\ (i - 1) + 1 = i
      BY <3>1, <3>2
    <3>. QED
      BY <3>2, <3>3
  <2>. QED
    BY <1>2, <1>5, <2>1, <2>3, <2>4 DEF Ahead
<1>. QED
  BY <1>1, <1>3, <1>4, <1>5, RequeueMoves

LEMMA NotesStep == NoteInv /\ [Next]_vars => NoteInv'
<1>1. NoteInv /\ [Next]_vars => JobsInv'
  BY TypesStep, ShapeStep, OnceStep DEF NoteInv, JobsInv
<1>. QED
  BY <1>1, OwedStep, OwnStep, HandlerHasStep, WorkerHasStep, WaitedStep, AsideWantedStep, HeadStep, AheadStep
     DEF NoteInv

LEMMA NotesHold == Spec => []NoteInv
BY InitNotes, NotesStep, PTL DEF Spec

(* No history notification of the account is forgotten, wherever a crash    *)
(* hits between append, queue and ack, and however the pages of pending     *)
(* ones fall: what is neither in the pool nor decided is ahead of           *)
(* requeueHistory, since it was logged before that began and the fold it    *)
(* waits for has reached it.                                                *)
THEOREM NotesAreKept == Spec => []NoneForgotten
BY NotesHold, NoneForgottenIs, PTL

-----------------------------------------------------------------------------
(* A blob the log has as downloaded is there as a whole. *)

(* What a worker has decoded is in the log or in its batch. *)
Streams ==
    \A w \in Workers :
        worker[w].pc = "stream" /\ Owner[worker[w].blob] = acct =>
            1..worker[w].seen \subseteq parts[worker[w].blob] \cup worker[w].batch
GotWhole == \A b \in Blobs : Has(Len(log), b, "got") /\ Owner[b] = acct => parts[b] = 1..Convs[b]
GotInv == NoteInv /\ Streams /\ GotWhole

LEMMA PartsGrow ==
    ASSUME JobsInv, [Next]_vars, ~Logout, NEW b \in Blobs
    PROVE  parts[b] \subseteq parts'[b]
<1>. USE DEF JobsInv, Types
<1>0. parts \in [Blobs -> SUBSET Nat]
  BY DEF LogOK
<1>1. ASSUME NEW c, NEW pieces, parts' = [parts EXCEPT ![c] = @ \cup pieces] PROVE parts[b] \subseteq parts'[b]
  BY <1>0, <1>1
<1>2. ASSUME NEW c \in Blobs, Deliver(c) PROVE parts[b] \subseteq parts'[b]
  BY <1>1, <1>2 DEF Deliver, Appends
<1>3. ASSUME NEW w \in Workers, Piece(w) \/ Whole(w) \/ FlushRest(w) \/ Lose(w) PROVE parts[b] \subseteq parts'[b]
  <2>1. parts' = parts \/ \E c, pieces : parts' = [parts EXCEPT ![c] = @ \cup pieces]
    BY <1>3 DEF Piece, Whole, FlushRest, Lose, Appends, AppendsPieces, logVars
  <2>. QED
    BY <1>1, <2>1
<1>4. CASE \/ Handle \/ Requeue \/ Fold \/ GoOnline \/ ReadFails \/ GoOffline \/ Crash \/ UNCHANGED vars
           \/ \E c \in Blobs : DeliverFails(c)
           \/ \E w \in Workers : \/ DownloadFails(w) \/ AppendFails(w) \/ WorkerWakes(w) \/ Download(w)
                                 \/ Broken(w) \/ Done(w) \/ Drain(w)
  BY <1>4, ReadIs DEF Handle, HandlerAdds, Ack, Requeue, Reads, RequeueAdds, RequeueWakes, Below, BelowWakes, Fold,
     GoOnline, ReadFails, GoOffline, Crash, vars, DeliverFails, DownloadFails, AppendFails, logVars, WorkerWakes,
     Download, Broken, Done, Drain
<1>. QED
  BY <1>2, <1>3, <1>4 DEF Next, Work, Logs, Trouble

(* A download begins with nothing decoded, and goes on piece by piece.      *)
LEMMA StreamsOn ==
    ASSUME JobsInv, [Next]_vars, NEW w \in Workers, worker'[w].pc = "stream"
    PROVE  worker'[w] = worker[w] \/ Download(w) \/ Piece(w)
<1>. USE DEF JobsInv, Shape
<1>1. CASE Others \/ Tokens \/ Adds
  BY <1>1, LeavesPool DEF Others, Tokens, Adds, Ack, RequeueWakes, BelowWakes, HandlerAdds, RequeueAdds
<1>2. CASE Crash
  BY <1>2 DEF Crash, Parked
<1>3. ASSUME NEW v \in Workers, v # w, NEW s, Becomes(v, s) PROVE worker'[w] = worker[w]
  BY <1>3 DEF Becomes, WorkerShape
<1>4. ASSUME NEW v \in Workers, v # w, Work(v) \/ DownloadFails(v) \/ AppendFails(v)
      PROVE  worker'[w] = worker[w]
  <2>1. \E s : Becomes(v, s)
    BY <1>4 DEF Work, Logs, WorkerWakes, LooksAt, Download, DownloadFails, AppendFails, Piece, Broken, Whole,
                FlushRest, Lose, Done, Drain
  <2>. QED
    BY <1>3, <1>4, <2>1
<1>5. CASE Work(w) \/ DownloadFails(w) \/ AppendFails(w)
  <2>1. ~(DownloadFails(w) \/ AppendFails(w) \/ Broken(w) \/ Whole(w) \/ FlushRest(w) \/ Lose(w))
    BY DEF DownloadFails, AppendFails, Broken, Whole, FlushRest, Lose, Becomes, Ended, Starting, WorkerShape
  <2>2. ~(WorkerWakes(w) \/ Drain(w) \/ Done(w))
    BY DEF WorkerWakes, Drain, Done, LooksAt, Becomes, Parked, Starting, WorkerShape
  <2>. QED
    BY <1>5, <2>1, <2>2 DEF Work, Logs
<1>. QED
  BY <1>1, <1>2, <1>4, <1>5 DEF Next, Handle, Requeue, Trouble, Others, Tokens, Adds

LEMMA StreamsStep == GotInv /\ JobsInv' /\ [Next]_vars => Streams'
<1>. SUFFICES ASSUME GotInv, JobsInv', [Next]_vars, NEW w \in Workers, worker'[w].pc = "stream",
                     Owner[worker'[w].blob] = acct'
              PROVE  1..worker'[w].seen \subseteq parts'[worker'[w].blob] \cup worker'[w].batch
  BY DEF Streams
<1>. USE DEF GotInv, NoteInv, JobsInv, Types
<1>1. CASE worker'[w] = worker[w]
  <2>1. worker[w].blob \in Blobs /\ Owner[worker[w].blob] <= acct
    BY <1>1, RunningIsKnown DEF Running, OwnOnly
  <2>2. ~Logout
    BY <1>1, <2>1 DEF Logout
  <2>3. acct' = acct
    BY <2>2, LogGoesOn, GrowsIs
  <2>. QED
    BY <1>1, <2>1, <2>2, <2>3, PartsGrow DEF Streams
<1>2. CASE Download(w)
  BY <1>2 DEF Download, Becomes, Streaming, Ended, Shape, WorkerShape
<1>3. CASE Piece(w)
  <2>. DEFINE b == worker[w].blob
              n == worker[w].seen + 1
              batch == worker[w].batch \cup {n}
  <2>1. b \in Blobs /\ worker[w].seen \in Nat /\ worker[w].pc = "stream"
    BY <1>3, Sizes DEF WorkersOK, JobOK, Piece, Running
  <2>2. worker'[w].blob = b /\ worker'[w].seen = n
    BY <1>3 DEF Piece, Becomes, Streaming, Starting, Shape, WorkerShape
  <2>3. acct' = acct
    BY <1>3 DEF Piece, AppendsPieces, logVars
  <2>4. 1..n \subseteq parts[b] \cup batch
    <3>1. 1..worker[w].seen \subseteq parts[b] \cup worker[w].batch
      BY <2>1, <2>2, <2>3 DEF Streams
    <3>2. \A i \in 1..n : i \in 1..worker[w].seen \/ i = n
      BY <2>1
    <3>. QED
      BY <3>1, <3>2
  <2>5. \/ worker'[w].batch = batch /\ parts' = parts
        \/ parts' = [parts EXCEPT ![b] = @ \cup batch]
    BY <1>3 DEF Piece, Becomes, Streaming, Starting, AppendsPieces, logVars, Shape, WorkerShape
  <2>. QED
    BY <2>1, <2>2, <2>4, <2>5 DEF LogOK
<1>. QED
  BY <1>1, <1>2, <1>3, StreamsOn

LEMMA GotWholeStep == GotInv /\ JobsInv' /\ [Next]_vars => GotWhole'
<1>. SUFFICES ASSUME GotInv, JobsInv', [Next]_vars, NEW b \in Blobs, Has(Len(log), b, "got")', Owner[b] = acct'
              PROVE  parts'[b] = 1..Convs[b]
  BY DEF GotWhole
<1>. USE DEF GotInv, NoteInv, JobsInv, Types
<1>0. parts'[b] \subseteq 1..Convs[b]
  BY DEF LogOK
<1>1. ~Logout
  <2>. SUFFICES ASSUME Logout, NEW i \in Logged(Len(log))' PROVE FALSE
    BY DEF Has
  <2>1. log' = log /\ erased' = Len(log) /\ Len(log) \in Nat
    BY DEF Logout, LogOK
  <2>. QED
    BY <2>1 DEF Logged
<1>2. Grows /\ acct' = acct
  BY <1>1, LogGoesOn, GrowsIs
<1>3. CASE Has(Len(log), b, "got")
  BY <1>0, <1>1, <1>2, <1>3, PartsGrow DEF GotWhole
<1>4. CASE ~Has(Len(log), b, "got")
  <2>1. Comes(b, "got")
    BY <1>2, <1>4, HasBefore
  <2>2. Len(log) \in Nat /\ log'[Len(log) + 1] = Entry(b, "got")
    BY <2>1 DEF Comes, LogOK
  <2>3. ASSUME NEW c, NEW what, Comes(c, what) PROVE c = b /\ what = "got"
    <3>1. log'[Len(log) + 1] = Entry(c, what)
      BY <2>2, <2>3 DEF Comes, LogOK
    <3>. QED
      BY <2>2, <3>1 DEF Entry
  <2>4. ~Stays
    BY <2>1, <2>2 DEF Stays, Comes, LogOK
  <2>5. PICK w \in Workers : Whole(w) /\ worker[w].blob = b
    BY <1>1, <2>3, <2>4, LogStep DEF Writes
  <2>6. 1..Convs[b] \subseteq parts[b] \cup worker[w].batch
    BY <1>2, <2>5 DEF Whole, Streams
  <2>7. parts'[b] = parts[b] \cup worker[w].batch
    BY <2>5 DEF Whole, Appends, LogOK
  <2>. QED
    BY <1>0, <2>6, <2>7
<1>. QED
  BY <1>3, <1>4

(* What the fold has as downloaded stays so, while the log is the account's. *)
LEMMA GotStays ==
    ASSUME NoteInv, JobsInv', [Next]_vars, NEW b \in Blobs, Outcome(folded, b) = "got", acct' = acct
    PROVE  Outcome(folded, b)' = "got"
<1>. USE DEF NoteInv, JobsInv, Types
<1>1. Grows
  BY LogGoesOn DEF Logout
<1>2. PICK i \in Logged(folded) : Is(i, b, "got")
  BY DEF Outcome, Has
<1>3. folded \in 0..Len(log) /\ folded' >= folded /\ folded' \in Nat
  BY <1>1 DEF LogOK, Grows, Stays, Comes, LogKept
<1>4. i \in Logged(folded)' /\ log'[i] = log[i]
  BY <1>1, <1>2, <1>3, GrowsIs DEF Logged, LogOK
<1>5. Is(i, b, "got")'
  BY <1>2, <1>4 DEF Is
<1>. QED
  BY <1>4, <1>5 DEF Outcome, Has

LEMMA GotHolds == Spec => []GotInv
<1>1. Init => GotInv
  <2>. SUFFICES ASSUME Init PROVE GotInv
    OBVIOUS
  <2>1. NoteInv
    BY InitNotes
  <2>2. Streams
    BY DEF Init, Streams, Parked
  <2>3. \A i \in 1..Len(log) : log[i].what = "note"
    BY WorldAssumption DEF Init, Entry
  <2>4. GotWhole
    BY <2>3 DEF GotWhole, Has, Is, Logged
  <2>. QED
    BY <2>1, <2>2, <2>4 DEF GotInv
<1>2. GotInv /\ [Next]_vars => GotInv'
  <2>1. NoteInv /\ [Next]_vars => NoteInv' /\ JobsInv'
    BY NotesStep DEF NoteInv
  <2>. QED
    BY <2>1, StreamsStep, GotWholeStep DEF GotInv
<1>. QED
  BY <1>1, <1>2, PTL DEF Spec

(* A blob the log has as downloaded has all its pieces there, whichever     *)
(* attempts died halfway and whoever appended in between, and the fold      *)
(* never turns a success into a failure.                                    *)
THEOREM GotIsWhole == Spec => GotForGood
<1>1. GotInv => \A b \in Blobs : Has(Len(log), b, "got") /\ Owner[b] = acct => parts[b] = 1..Convs[b]
  BY DEF GotInv, GotWhole
<1>2. GotInv /\ GotInv' /\ [Next]_vars =>
        [\A b \in Blobs : Outcome(folded, b) = "got" /\ acct' = acct => Outcome(folded, b)' = "got"]_vars
  BY GotStays DEF GotInv, NoteInv
<1>. QED
  BY <1>1, <1>2, GotHolds, PTL DEF Spec, GotForGood

=============================================================================
