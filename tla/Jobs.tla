-------------------------------- MODULE Jobs --------------------------------
(***************************************************************************)
(* History downloads (whatevrd/internal/ingest): a notification is logged  *)
(* before it is acked, queued, downloaded by a pool of workers piece by    *)
(* piece into the log, and what a run left is queued again at the next     *)
(* start from what the log's tables say is pending.                        *)
(*                                                                         *)
(* The pool belongs to the daemon, not to the account: a logout erases the *)
(* log and moves the jobs to a new client.                                 *)
(***************************************************************************)
EXTENDS Pool, FiniteSets

CONSTANTS
    Blobs,    \* history blobs, each with one notification
    Owner,    \* the account each blob is for, 1 or 2
    Convs,    \* how many pieces (historyPieces) each blob decodes into
    Inline,   \* blobs that came inside their notification
    Workers,  \* the workers of the pool (historyWorkers of them)
    PageSize, \* rows that requeueHistory reads at once (jobPage)
    BatchMax, \* pieces that go in one append (historyBatch, in bytes there)
    Worlds    \* what a behaviour meets: the notifications the last run logged, those
              \* still to be delivered (a blob has its own in one or both), what the
              \* media server has for each blob, and (bounds) how often each kind of
              \* disturbance happens

(* The daemon crashes, an append fails, an ack is lost, a download fails in *)
(* a way that may pass, the connection is lost, the pending page cannot be  *)
(* read, the account is logged out.                                         *)
Disturbances == {"crash", "append", "ack", "fail", "line", "read", "logout"}

ASSUME BlobAssumption ==
    /\ Owner \in [Blobs -> 1..2] /\ Convs \in [Blobs -> Nat] /\ Inline \subseteq Blobs
ASSUME SizeAssumption ==
    /\ IsFiniteSet(Workers) /\ Workers # {} /\ PageSize \in Nat \ {0} /\ BatchMax \in Nat \ {0}
ASSUME WorldAssumption ==
    \A world \in Worlds :
        /\ world.noted \in Seq({b \in Blobs : Owner[b] = 1}) /\ world.owed \subseteq Blobs
        /\ \A b \in Blobs : b \in world.owed \/ \E i \in 1..Len(world.noted) : world.noted[i] = b
        /\ world.media \in [Blobs -> {"there", "gone", "bad"}]
        /\ world.left \in [Disturbances -> Nat]

VARIABLES
    acct,    \* the account the log is of
    log,     \* the notifications and outcomes logged, by seq
    parts,   \* per blob: the pieces in the log
    erased,  \* the seqs up to this one were deleted by a Reset
    folded,  \* the seqs up to this one are in the tables
    owed,    \* notifications the server still has to deliver
    media,   \* per blob: there, gone, or there but broken
    online,  \* the client is connected and logged in
    handler, \* the event handler: its notification and what is left to do
    pool,    \* the pool of downloads
    worker,  \* where each worker is
    requeue, \* where requeueHistory is
    groups,  \* the token for the group loop, which nothing here takes
    left     \* disturbances still to come

logVars == <<acct, log, parts, erased, folded>>
netVars == <<owed, media, online>>
vars == <<logVars, netVars, handler, pool, worker, requeue, groups, left>>

size == Cardinality(Workers)

-----------------------------------------------------------------------------
(* What the log and its tables say. *)

Entry(b, what) == [blob |-> b, what |-> what]
Logged(n) == {i \in 1..n : i > erased}

Is(i, b, what) == log[i].blob = b /\ log[i].what = what
Has(n, b, what) == \E i \in Logged(n) : Is(i, b, what)

(* hist_note keeps the first seq of a notification. *)
NoteSeq(n, b) == CHOOSE i \in Logged(n) :
                    /\ Is(i, b, "note")
                    /\ \A j \in Logged(n) : Is(j, b, "note") => i <= j

(* mutant: the fold takes the newest outcome *)
OutcomeNewest(n, b) ==
    LET ends == {i \in Logged(n) : Is(i, b, "got") \/ Is(i, b, "lost")}
    IN IF ends = {} THEN "pending"
       ELSE log[CHOOSE i \in ends : \A j \in ends : j <= i].what

(* hist_blob keeps the lesser error, and none is the least. *)
Outcome(n, b) ==
    IF Has(n, b, "got") THEN "got" ELSE IF Has(n, b, "lost") THEN "lost" ELSE "pending"

Unfetched(n) == {b \in Blobs : Has(n, b, "note") /\ Outcome(n, b) = "pending"}

(* The first PageSize pending ones past after, in order: one is left out    *)
(* only when the page is full of earlier ones.  There is one such page.     *)
PendingHistory(after) ==
    LET rows == {b \in Unfetched(folded) : NoteSeq(folded, b) > after}
        Sooner(b, c) == NoteSeq(folded, b) < NoteSeq(folded, c)
    IN  {p \in UNION {[1..n -> rows] : n \in 0..PageSize} :
            /\ \A i, j \in DOMAIN p : i < j => Sooner(p[i], p[j])
            /\ \A b \in rows : (\E i \in DOMAIN p : p[i] = b)
                    \/ (Len(p) = PageSize /\ \A i \in DOMAIN p : Sooner(p[i], b))}

-----------------------------------------------------------------------------
Idle    == [pc |-> "idle"]
Parked  == [pc |-> "parked"]
Starting(b) == [pc |-> "start", blob |-> b]
Streaming(b, batch, seen) == [pc |-> "stream", blob |-> b, batch |-> batch, seen |-> seen]
Ended(b, pc, batch) == [pc |-> pc, blob |-> b, batch |-> batch]

Running == {"start", "stream", "flush", "lost", "delete", "done"}

(* requeueHistory of a fresh process waits for what was logged by then. *)
Folding(n) == [pc |-> "folding", want |-> n, page |-> << >>, next |-> 0]

(* The daemon starts; with an empty log requeueHistory is over at once. *)
Init ==
    \E world \in Worlds :
        /\ acct = 1 /\ parts = [b \in Blobs |-> {}] /\ erased = 0
        /\ log = [i \in 1..Len(world.noted) |-> Entry(world.noted[i], "note")]
        /\ folded \in 0..Len(log)
        /\ owed = world.owed /\ media = world.media /\ online = FALSE
        /\ handler = Idle /\ pool = EmptyPool /\ worker = [w \in Workers |-> Parked]
        /\ requeue = IF log = << >> THEN [Folding(0) EXCEPT !.pc = "over"] ELSE Folding(Len(log))
        /\ groups = FALSE
        /\ left = world.left

Spend(d) == left[d] > 0 /\ left' = [left EXCEPT ![d] = @ - 1]
Becomes(w, s) == worker' = [worker EXCEPT ![w] = s]

(* One append: an input, after pieces of the same blob. *)
Appends(b, what, pieces) ==
    /\ log' = Append(log, Entry(b, what))
    /\ parts' = [parts EXCEPT ![b] = @ \cup pieces]
    /\ UNCHANGED <<acct, erased, folded>>
AppendsPieces(b, pieces) ==
    parts' = [parts EXCEPT ![b] = @ \cup pieces] /\ UNCHANGED <<acct, log, erased, folded>>

-----------------------------------------------------------------------------
(* handle, for a history notification: append, queue, ack. *)

Deliver(b) ==
    /\ handler = Idle /\ online /\ b \in owed /\ Owner[b] = acct
    /\ Appends(b, "note", {})
    /\ handler' = [pc |-> "add", blob |-> b]
    /\ UNCHANGED <<netVars, pool, worker, requeue, groups, left>>

(* The append failed: no ack, it is delivered again. *)
DeliverFails(b) ==
    /\ handler = Idle /\ online /\ b \in owed /\ Owner[b] = acct
    /\ Spend("append")
    /\ UNCHANGED <<logVars, netVars, handler, pool, worker, requeue, groups>>

(* pool.add, up to its unlock *)
HandlerAdds ==
    /\ handler.pc = "add"
    /\ pool' = Added(pool, handler.blob)
    /\ handler' = [handler EXCEPT !.pc = IF handler.blob \in pool.known THEN "ack" ELSE "wake"]
    /\ UNCHANGED <<logVars, netVars, worker, requeue, groups, left>>

(* mutant: a channel without a buffer, the token is for who waits already *)
AckUnbuffered ==
    /\ handler.pc \in {"wake", "ack"}
    /\ handler' = Idle
    /\ \/ UNCHANGED pool
       \/ handler.pc = "wake" /\ pool' = Woken(pool, size)
    /\ owed' = owed \ {handler.blob}
    /\ UNCHANGED <<logVars, media, online, worker, requeue, groups, left>>

(* The token of a job that is new, then the ack, which may get lost. *)
Ack ==
    /\ handler.pc \in {"wake", "ack"}
    /\ handler' = Idle
    /\ pool' = IF handler.pc = "wake" THEN Woken(pool, size) ELSE pool
    /\ \/ owed' = owed \ {handler.blob} /\ UNCHANGED left
       \/ Spend("ack") /\ UNCHANGED owed
    /\ UNCHANGED <<logVars, media, online, worker, requeue, groups>>

-----------------------------------------------------------------------------
(* requeueHistory: wait for the fold, then page after page. *)

(* mutant: reads what is pending before the fold has it *)
MayReadAtOnce == \/ requeue.pc = "folding"
                 \/ requeue.pc = "below" /\ Pending(pool) < size

(* Folded returned, or below did. *)
MayRead == \/ requeue.pc = "folding" /\ folded >= requeue.want
           \/ requeue.pc = "below" /\ Pending(pool) < size

(* The next page starts after the last row of a full one. *)
ReadPage ==
    /\ MayRead
    /\ \E page \in PendingHistory(IF requeue.pc = "folding" THEN 0 ELSE requeue.next) :
          requeue' = [requeue EXCEPT
                        !.pc = IF page = << >> THEN "over" ELSE "add",
                        !.page = page,
                        !.next = IF Len(page) = PageSize THEN NoteSeq(folded, page[Len(page)]) ELSE 0]
    /\ UNCHANGED <<logVars, netVars, handler, pool, worker, groups, left>>

(* Pending history stays pending until the next start. *)
ReadFails ==
    /\ MayRead /\ Spend("read")
    /\ requeue' = [requeue EXCEPT !.pc = "failed"]
    /\ UNCHANGED <<logVars, netVars, handler, pool, worker, groups>>

(* What comes after one notification of the page. *)
Rest == IF Len(requeue.page) > 1 THEN "add"
        ELSE IF requeue.next = 0 THEN "over" ELSE "below"

RequeueAdds ==
    /\ requeue.pc = "add"
    /\ LET b == Head(requeue.page)
       IN /\ pool' = Added(pool, b)
          /\ requeue' = IF b \in pool.known
                        THEN [requeue EXCEPT !.page = Tail(@), !.pc = Rest]
                        ELSE [requeue EXCEPT !.pc = "wake"]
    /\ UNCHANGED <<logVars, netVars, handler, worker, groups, left>>

RequeueWakes ==
    /\ requeue.pc = "wake"
    /\ pool' = Woken(pool, size)
    /\ requeue' = [requeue EXCEPT !.page = Tail(@), !.pc = Rest]
    /\ UNCHANGED <<logVars, netVars, handler, worker, groups, left>>

(* below(historyWorkers) waits for a token while the pool is full. *)
Below ==
    /\ requeue.pc = "below" /\ Pending(pool) >= size
    /\ requeue' = [requeue EXCEPT !.pc = "parked"]
    /\ UNCHANGED <<logVars, netVars, handler, pool, worker, groups, left>>

BelowWakes ==
    /\ requeue.pc = "parked" /\ pool.drained > 0
    /\ pool' = [pool EXCEPT !.drained = 0]
    /\ requeue' = [requeue EXCEPT !.pc = "below"]
    /\ UNCHANGED <<logVars, netVars, handler, worker, groups, left>>

-----------------------------------------------------------------------------
(* A worker: next, work with its retries, done. *)

(* next, with the pool as p: the oldest job, or none and wait for a token.  *)
(* A token that comes before the wait is kept in the channel.               *)
LooksAt(w, p) ==
    IF p.queue = << >> THEN pool' = p /\ Becomes(w, Parked)
    ELSE pool' = Taken(p) /\ Becomes(w, Starting(Head(p.queue)))

WorkerWakes(w) ==
    /\ worker[w].pc = "parked" /\ pool.wake > 0
    /\ LooksAt(w, [pool EXCEPT !.wake = @ - 1])
    /\ UNCHANGED <<logVars, netVars, handler, requeue, groups, left>>

(* download: what the server no longer has is lost for good.  Without a    *)
(* connection the job is retried until there is one.                       *)
Download(w) ==
    /\ worker[w].pc = "start"
    /\ LET b == worker[w].blob
       IN \/ /\ b \in Inline \/ (online /\ media[b] # "gone")
             /\ Becomes(w, Streaming(b, {}, 0))
          \/ /\ b \notin Inline /\ online /\ media[b] = "gone"
             /\ Becomes(w, Ended(b, "flush", {}))
    /\ UNCHANGED <<logVars, netVars, handler, pool, requeue, groups, left>>

(* mutant: an error that passes ends the job *)
DownloadFailsDone(w) ==
    /\ worker[w].pc = "stream" /\ Spend("fail")
    /\ Becomes(w, Ended(worker[w].blob, "done", {}))
    /\ UNCHANGED <<logVars, netVars, handler, pool, requeue, groups>>

DownloadFails(w) ==
    /\ worker[w].pc = "stream" /\ Spend("fail")
    /\ Becomes(w, Starting(worker[w].blob))
    /\ UNCHANGED <<logVars, netVars, handler, pool, requeue, groups>>

(* One more piece decoded; a full batch goes in the log. *)
Piece(w) ==
    /\ worker[w].pc = "stream" /\ worker[w].seen < Convs[worker[w].blob]
    /\ LET b == worker[w].blob
           n == worker[w].seen + 1
           batch == worker[w].batch \cup {n}
       IN IF Cardinality(batch) < BatchMax
          THEN Becomes(w, Streaming(b, batch, n)) /\ UNCHANGED <<logVars, left>>
          ELSE \/ /\ AppendsPieces(b, batch)
                  /\ Becomes(w, Streaming(b, {}, n)) /\ UNCHANGED left
               \/ /\ Spend("append") /\ Becomes(w, Starting(b)) /\ UNCHANGED logVars
    /\ UNCHANGED <<netVars, handler, pool, requeue, groups>>

(* A broken blob ends in an error that does not pass, some pieces in. *)
Broken(w) ==
    /\ worker[w].pc = "stream" /\ media[worker[w].blob] = "bad"
    /\ Becomes(w, Ended(worker[w].blob, "flush", worker[w].batch))
    /\ UNCHANGED <<logVars, netVars, handler, pool, requeue, groups, left>>

(* The rest of the batch and the success in one append; then the group loop *)
(* hears of it.                                                            *)
Whole(w) ==
    /\ worker[w].pc = "stream" /\ worker[w].seen = Convs[worker[w].blob]
    /\ media[worker[w].blob] # "bad"
    /\ Appends(worker[w].blob, "got", worker[w].batch)
    /\ Becomes(w, Ended(worker[w].blob, "delete", {}))
    /\ groups' = TRUE
    /\ UNCHANGED <<netVars, handler, pool, requeue, left>>

(* A blob lost for good: what was decoded, then the failure. *)
FlushRest(w) ==
    /\ worker[w].pc = "flush"
    /\ LET b == worker[w].blob
       IN /\ AppendsPieces(b, worker[w].batch)
          /\ Becomes(w, Ended(b, "lost", {}))
    /\ UNCHANGED <<netVars, handler, pool, requeue, groups, left>>

Lose(w) ==
    /\ worker[w].pc = "lost"
    /\ Appends(worker[w].blob, "lost", {})
    /\ Becomes(w, Ended(worker[w].blob, "done", {}))
    /\ UNCHANGED <<netVars, handler, pool, requeue, groups, left>>

(* An append that fails is an error of the job. *)
AppendFails(w) ==
    /\ \/ worker[w].pc \in {"flush", "lost"}
       \/ worker[w].pc = "stream" /\ worker[w].seen = Convs[worker[w].blob]
    /\ Spend("append")
    /\ Becomes(w, Starting(worker[w].blob))
    /\ UNCHANGED <<logVars, netVars, handler, pool, requeue, groups>>

(* DeleteMedia after a success, unless the blob came inline (a failure is    *)
(* only logged), and done, up to its unlock.                               *)
Done(w) ==
    /\ worker[w].pc \in {"delete", "done"}
    /\ LET b == worker[w].blob
       IN /\ media' = IF worker[w].pc = "delete" /\ b \notin Inline /\ online
                      THEN [media EXCEPT ![b] = "gone"] ELSE media
          /\ pool' = Finished(pool, b)
    /\ Becomes(w, [pc |-> "drain"])
    /\ UNCHANGED <<logVars, owed, online, handler, requeue, groups, left>>

(* its token, and the next job *)
Drain(w) ==
    /\ worker[w].pc = "drain"
    /\ LooksAt(w, Drained(pool))
    /\ UNCHANGED <<logVars, netVars, handler, requeue, groups, left>>

-----------------------------------------------------------------------------
(* The rest of the daemon, and the world. *)

Fold ==
    /\ folded < Len(log)
    /\ folded' \in folded + 1 .. Len(log)
    /\ UNCHANGED <<acct, log, parts, erased, netVars, handler, pool, worker, requeue, groups, left>>

(* loggedIn signals the group loop. *)
GoOnline ==
    /\ ~online /\ online' = TRUE /\ groups' = TRUE
    /\ UNCHANGED <<logVars, owed, media, handler, pool, worker, requeue, left>>

GoOffline ==
    /\ online /\ Spend("line") /\ online' = FALSE
    /\ UNCHANGED <<logVars, owed, media, handler, pool, worker, requeue, groups>>

(* wipe: the log is erased, startJobs moves the running jobs to the next   *)
(* client.  No event is being handled once the client is disconnected.     *)
Logout ==
    /\ acct = 1 /\ handler = Idle /\ Spend("logout")
    /\ acct' = 2 /\ parts' = [b \in Blobs |-> {}] /\ erased' = Len(log) /\ folded' = Len(log) /\ online' = FALSE
    /\ UNCHANGED <<log, owed, media, handler, pool, worker, requeue, groups>>

(* A crash and the next start: the log and its tables are what is left. *)
Crash ==
    /\ Spend("crash")
    /\ handler' = Idle /\ pool' = EmptyPool /\ worker' = [w \in Workers |-> Parked]
    /\ requeue' = Folding(Len(log)) /\ groups' = FALSE /\ online' = FALSE
    /\ UNCHANGED <<logVars, owed, media>>

Handle  == HandlerAdds \/ Ack
Requeue == ReadPage \/ RequeueAdds \/ RequeueWakes \/ Below \/ BelowWakes
Logs(w) == Piece(w) \/ Broken(w) \/ Whole(w) \/ FlushRest(w) \/ Lose(w)
Work(w) == WorkerWakes(w) \/ Download(w) \/ Logs(w) \/ Done(w) \/ Drain(w)
Trouble == \/ ReadFails \/ GoOffline \/ Logout \/ Crash
           \/ \E b \in Blobs : DeliverFails(b)
           \/ \E w \in Workers : DownloadFails(w) \/ AppendFails(w)

Next ==
    \/ \E b \in Blobs : Deliver(b)
    \/ Handle \/ Requeue
    \/ \E w \in Workers : Work(w)
    \/ Fold \/ GoOnline
    \/ Trouble

Spec == Init /\ [][Next]_vars

(* The writer folds, every goroutine is scheduled, the server delivers, and *)
(* a connection comes back.                                                *)
Fairness ==
    /\ WF_vars(Handle \/ \E b \in Blobs : Deliver(b))
    /\ WF_vars(Requeue)
    /\ \A w \in Workers : WF_vars(Work(w))
    /\ WF_vars(Fold) /\ WF_vars(GoOnline)

FairSpec == Spec /\ Fairness
-----------------------------------------------------------------------------
(* Every variable has its type. *)
TypeOK ==
    /\ acct \in 1..2 /\ erased \in 0..Len(log) /\ folded \in 0..Len(log)
    /\ \A i \in 1..Len(log) :
          log[i].blob \in Blobs /\ log[i].what \in {"note", "got", "lost"}
    /\ \A b \in Blobs : parts[b] \subseteq 1..Convs[b]
    /\ owed \subseteq Blobs /\ media \in [Blobs -> {"there", "gone", "bad"}]
    /\ online \in BOOLEAN /\ groups \in BOOLEAN
    /\ IsPool(pool, Blobs, size)
    /\ handler.pc \in {"idle", "add", "wake", "ack"}
    /\ \A w \in Workers : worker[w].pc \in {"parked", "drain"} \cup Running
    /\ requeue.pc \in {"folding", "add", "wake", "below", "parked", "over", "failed"}
    /\ requeue.page \in Seq(Blobs)

RunningBlobs == {worker[w].blob : w \in {v \in Workers : worker[v].pc \in Running}}
Queued == {pool.queue[i] : i \in 1..Len(pool.queue)}

(* "each key once while it is queued or running" (pool.go:11-12): the queue  *)
(* and the workers never hold a blob twice, and the known keys are exactly   *)
(* those they hold, whichever of the handler and requeueHistory adds first.  *)
EachOnce ==
    /\ pool.known = Queued \cup RunningBlobs
    /\ Cardinality(pool.known) = Len(pool.queue) + pool.running
    /\ pool.running = Cardinality({w \in Workers : worker[w].pc \in Running})

(* No job waits with every worker asleep: between a worker that finds the    *)
(* queue empty and sleeps, and an add that wakes nobody, the token stays.    *)
NoneAsleep ==
    pool.queue # << >> /\ (\A w \in Workers : worker[w].pc = "parked")
        => pool.wake > 0 \/ handler.pc = "wake" \/ requeue.pc = "wake"

(* requeueHistory never sleeps on a pool that has room: done sends its token *)
(* after the job left the count, so one that comes between the count and the *)
(* wait is kept (pool.go, done and below).                                   *)
RoomIsHeard ==
    requeue.pc = "parked" /\ Pending(pool) < size
        => pool.drained > 0 \/ \E w \in Workers : worker[w].pc = "drain"

(* A notification that requeueHistory has still to come to. *)
Ahead(b) == \/ requeue.pc \in {"folding", "failed"}
            \/ b \in {requeue.page[i] : i \in 1..Len(requeue.page)}
            \/ requeue.next > 0 /\ NoteSeq(Len(log), b) > requeue.next

(* No notification of the account is forgotten: the server still owes it,   *)
(* or the log has it ("acks only what is durable", ingest.go:4-6) and it is  *)
(* downloaded, given up, or at hand: in the pool, with the handler about to  *)
(* queue it, or ahead of requeueHistory, which waits for the fold because    *)
(* "one still folding at startup is not pending yet" (jobs.go:87-88).        *)
(* Neither a crash between append, queue and ack nor paging loses one.       *)
AtHand(b) ==
    b \in pool.known \/ (handler.pc = "add" /\ handler.blob = b) \/ Ahead(b)

NoneForgotten ==
    \A b \in Blobs :
        Owner[b] = acct =>
            IF Has(Len(log), b, "note") THEN Outcome(Len(log), b) # "pending" \/ AtHand(b)
            ELSE b \in owed

(* A blob the log has as downloaded has all its pieces in the log, whatever  *)
(* attempts died halfway, and it never turns into a lost one: redelivered    *)
(* after its media was deleted it fails for good, and the fold keeps the     *)
(* success (chats.go, foldHistoryExtra).                                     *)
GotForGood ==
    /\ []\A b \in Blobs :
          Has(Len(log), b, "got") /\ Owner[b] = acct => parts[b] = 1..Convs[b]
    /\ [][\A b \in Blobs :
          Outcome(folded, b) = "got" /\ acct' = acct => Outcome(folded, b)' = "got"]_vars

(* Every logged notification is downloaded or given up in the end, through   *)
(* crashes, failed appends, lost connections and downloads that fail for a   *)
(* while, unless the pending ones could not be read at the start.            *)
Settles ==
    <>[](requeue.pc = "failed" \/ \A b \in Unfetched(Len(log)) \cup Unfetched(folded) : Owner[b] # acct)
=============================================================================
