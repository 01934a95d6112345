-------------------------------- MODULE Pool --------------------------------
(***************************************************************************)
(* The job pool (whatevrd/internal/ingest/pool.go) as operators on its     *)
(* record: what add, next, done and below do to the queue, to the set of   *)
(* known keys and to the two token channels.  A job is its key.            *)
(***************************************************************************)
EXTENDS Naturals, Sequences

(* wake and drained hold a number of tokens: at most size, at most one. *)
EmptyPool == [queue |-> << >>, known |-> {}, running |-> 0, wake |-> 0, drained |-> 0]

IsPool(p, Keys, size) ==
    /\ p.queue \in Seq(Keys) /\ p.known \subseteq Keys
    /\ p.running \in 0..size /\ p.wake \in 0..size /\ p.drained \in 0..1

(* mutant: takes a key that is queued or running again *)
AddedTwice(p, k) == [p EXCEPT !.known = @ \cup {k}, !.queue = Append(@, k)]

Added(p, k) ==
    IF k \in p.known THEN p
    ELSE [p EXCEPT !.known = @ \cup {k}, !.queue = Append(@, k)]

(* add's token, after the lock: dropped when the channel is full. *)
Woken(p, size) == IF p.wake < size THEN [p EXCEPT !.wake = @ + 1] ELSE p

(* next: the oldest job, now running. *)
Taken(p) == [p EXCEPT !.queue = Tail(@), !.running = @ + 1]

Finished(p, k) == [p EXCEPT !.running = @ - 1, !.known = @ \ {k}]

(* mutant: the token only when nothing is left to run *)
DrainedWhenEmpty(p) == IF p.queue = << >> THEN [p EXCEPT !.drained = 1] ELSE p

(* done's token, after the lock. *)
Drained(p) == [p EXCEPT !.drained = 1]

Pending(p) == Len(p.queue) + p.running
=============================================================================
