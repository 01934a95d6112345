------------------------------- MODULE Outbox -------------------------------
(***************************************************************************)
(* Sending (whatevrd/internal/whatsapp/send.go, ingest/outbox.go and       *)
(* model/outbox.go).  A frontend's request queues a send: an input in the  *)
(* log, under a fresh message id.  One sender goroutine reads the folded   *)
(* outbox, asks again whether each send may go, and gives it to whatsmeow. *)
(* A request may carry a key, and a second one under the key answers what  *)
(* the first queued.                                                       *)
(*                                                                         *)
(* Here a request names the message id it would generate.  The store is    *)
(* what CoreLog shows it to be: an append commits at one moment, readers   *)
(* see the fold of a prefix of the log, and waiting for what was appended  *)
(* sees every append that was answered.                                    *)
(***************************************************************************)
EXTENDS Integers, Sequences

CONSTANTS
    Requests,   \* send requests, each with the id its send would get
    Keys,       \* keys a frontend may pick
    NoKey,      \* the key of a request that carries none
    KeyOf,      \* the key each request carries
    Cancellable, \* the sends somebody may take back
    SendPage,   \* queued sends read at once (sendPage)
    Times,      \* bound: what the wall clock may read
    Worlds      \* bounds: how often each kind of disturbance happens, by behaviour

(* What may go wrong, each a bounded number of times: the process dies, the *)
(* socket drops, a request's context ends with its append at the writer, a  *)
(* read or a try fails for now, a try fails for good, an append of the      *)
(* sender fails, the wall clock is set back.                                *)
Disturbances == {"crash", "drop", "abandon", "error", "final", "unlogged", "clock"}

ASSUME KeyAssumption ==
    /\ NoKey \notin Keys \cup Requests
    /\ KeyOf \in [Requests -> Keys \cup {NoKey}]
ASSUME SendAssumption ==
    /\ Cancellable \subseteq Requests
    /\ SendPage \in Nat \ {0}
    /\ Times \subseteq Nat
    /\ Worlds \subseteq [Disturbances -> Nat]

VARIABLES
    log,       \* the outbox inputs and the sent copies, in order
    folded,    \* how many of them readers see
    inflight,  \* queue inputs the writer has and has not committed
    queuedT,   \* what the clock read when each send's input was committed
    call,      \* where each request is
    target,    \* the seq a request waits to be folded
    answer,    \* the id each request was answered, NoKey before
    sender,    \* where the sender goroutine is; "retrying" sleeps for seconds
    goal,      \* the seq the sender waits to be folded
    page,      \* what is left of the page it read
    cursor,    \* where the page after it starts
    more,      \* the page was full, so another one follows
    held,      \* tries: the sends whose backoff has not elapsed
    alarm,     \* the sends whose backoff the next sleep waits for
    sends,     \* the token in the sends channel
    conn,      \* "offline", "connected" (Connected came), "online" (published)
    taken,     \* the ids the server has taken
    tried,     \* history: the ids a try of which failed
    left       \* disturbances still to come

logVars    == <<log, folded, inflight, queuedT>>
callVars   == <<call, target, answer>>
senderVars == <<sender, goal, page, cursor, more, held, alarm>>
netVars    == <<conn, taken>>
history    == <<tried>>
vars == <<logVars, callVars, senderVars, sends, netVars, history, left>>

-----------------------------------------------------------------------------
Entry(op, id) == [op |-> op, id |-> id]

Up == sender # "down"
Spend(d) == left[d] > 0 /\ left' = [left EXCEPT ![d] = @ - 1]

(* What the log holds, and what a reader sees of it. *)
Logged(op, id) == \E i \in 1..Len(log) : log[i] = Entry(op, id)
Seen(op, id)   == \E i \in 1..folded : log[i] = Entry(op, id)

(* mutant: the wait is over at once *)
ReachedAtOnce(seq) == seq >= 0

(* Waiting for everything appended: the wait ends when it is folded. *)
Reached(seq) == folded >= seq

(* Queued, not cancelled, not failed for good, and without a sent copy. *)
Owed(id) ==
    /\ Seen("queue", id) /\ ~Seen("cancel", id)
    /\ ~Seen("final", id) /\ ~Seen("sent", id)

(* Sequences of at most SendPage places in the log. *)
Pages(places) == UNION {[1..n -> places] : n \in 0..SendPage}

(* What the clock read when the send at a place of the log was queued. *)
Stamp(i) == queuedT[log[i].id]

(* The order of the outbox: by the clock, and by place where that is equal. *)
Before(i, j) == Stamp(i) < Stamp(j) \/ (Stamp(i) = Stamp(j) /\ i < j)

(* The places of queued sends still owed, after one or from the start. *)
OwedAfter(after) ==
    {i \in 1..folded : /\ log[i].op = "queue" /\ Owed(log[i].id)
                       /\ after = 0 \/ Before(after, i)}

(* mutant: the newest queued send first *)
UnsentNewest(after) ==
    {p \in Pages(OwedAfter(after)) :
        /\ \A k, l \in DOMAIN p : k < l => Before(p[l], p[k])
        /\ \A i \in OwedAfter(after) : (\E k \in DOMAIN p : p[k] = i)
                \/ (Len(p) = SendPage /\ \A k \in DOMAIN p : Before(i, p[k]))}

(* Up to SendPage queued sends still owed, oldest by the clock first: one   *)
(* is left out only when the page is full of older ones.  There is one such *)
(* page.                                                                    *)
Unsent(after) ==
    {p \in Pages(OwedAfter(after)) :
        /\ \A k, l \in DOMAIN p : k < l => Before(p[k], p[l])
        /\ \A i \in OwedAfter(after) : (\E k \in DOMAIN p : p[k] = i)
                \/ (Len(p) = SendPage /\ \A k \in DOMAIN p : Before(p[k], i))}

(* The places of the sends queued under a key. *)
Keyed(key) == {i \in 1..folded : log[i].op = "queue" /\ KeyOf[log[i].id] = key}

Init ==
    /\ log = << >> /\ folded = 0 /\ inflight = {} /\ queuedT = [r \in Requests |-> 0]
    /\ call = [r \in Requests |-> "idle"]
    /\ target = [r \in Requests |-> 0]
    /\ answer = [r \in Requests |-> NoKey]
    /\ sender = "start" /\ goal = 0
    /\ page = << >> /\ cursor = 0 /\ more = FALSE
    /\ held = {} /\ alarm = {} /\ sends = FALSE
    /\ conn = "offline" /\ taken = {}
    /\ tried = {}
    /\ left \in Worlds

-----------------------------------------------------------------------------
(* Requests. *)

(* mutant: requests under one key run side by side *)
BusyNever(key) == key = NoKey

(* mutant: an answered request keeps its turn *)
BusyForever(key) == \E r \in Requests :
    KeyOf[r] = key /\ call[r] \in {"folding", "appending", "logged", "answered"}

(* Under one key one request runs at a time (turns). *)
Busy(key) == \E r \in Requests :
    KeyOf[r] = key /\ call[r] \in {"folding", "appending", "logged"}

(* mutant: looks for an earlier send without waiting for it to fold *)
TakeTurnUnfolded(r) ==
    /\ Up /\ call[r] = "idle" /\ KeyOf[r] # NoKey /\ ~Busy(KeyOf[r])
    /\ call' = [call EXCEPT ![r] = "folding"]
    /\ UNCHANGED <<logVars, target, answer, senderVars, sends, netVars, history, left>>

(* once, with a key: the turn, then a wait for what an earlier send under   *)
(* the key may still be folding.                                            *)
TakeTurn(r) ==
    /\ Up /\ call[r] = "idle" /\ KeyOf[r] # NoKey /\ ~Busy(KeyOf[r])
    /\ call' = [call EXCEPT ![r] = "folding"]
    /\ target' = [target EXCEPT ![r] = Len(log)]
    /\ UNCHANGED <<logVars, answer, senderVars, sends, netVars, history, left>>

(* Sends under the key are there: the first one is the answer. *)
AnswerEarlier(r) ==
    /\ Up /\ call[r] = "folding" /\ Reached(target[r])
    /\ \E i \in Keyed(KeyOf[r]) :
         /\ \A j \in Keyed(KeyOf[r]) : i <= j
         /\ answer' = [answer EXCEPT ![r] = log[i].id]
    /\ call' = [call EXCEPT ![r] = "answered"]
    /\ UNCHANGED <<logVars, target, senderVars, sends, netVars, history, left>>

(* The queue input goes to the writer. *)
Queue(r) ==
    /\ Up
    /\ \/ call[r] = "idle" /\ KeyOf[r] = NoKey
       \/ call[r] = "folding" /\ Reached(target[r]) /\ Keyed(KeyOf[r]) = {}
    /\ call' = [call EXCEPT ![r] = "appending"]
    /\ inflight' = inflight \cup {r}
    /\ UNCHANGED <<log, folded, queuedT, target, answer, senderVars, sends, netVars, history, left>>

(* The wait times out, the append fails, or the context ends before the     *)
(* writer has it: the request fails and nothing is queued.                  *)
GiveUp(r) ==
    /\ Up /\ call[r] \in {"folding", "appending"}
    /\ call' = [call EXCEPT ![r] = "failed"]
    /\ inflight' = inflight \ {r}
    /\ UNCHANGED <<log, folded, queuedT, target, answer, senderVars, sends, netVars, history, left>>

(* The context ends while the writer has it (the frontend's connection      *)
(* closed): the request fails and the turn is free, but it may commit.      *)
Abandon(r) ==
    /\ Up /\ call[r] = "appending" /\ Spend("abandon")
    /\ call' = [call EXCEPT ![r] = "failed"]
    /\ UNCHANGED <<logVars, target, answer, senderVars, sends, netVars, history>>

(* The clock reads no earlier than for any send before. *)
Steady(t) == \A i \in 1..Len(log) : log[i].op = "queue" => Stamp(i) <= t

(* The writer commits it under the clock's reading, and answers if anybody  *)
(* still waits.                                                             *)
Commit(r) ==
    /\ Up /\ r \in inflight
    /\ inflight' = inflight \ {r}
    /\ log' = Append(log, Entry("queue", r))
    /\ \E t \in Times :
         /\ queuedT' = [queuedT EXCEPT ![r] = t]
         /\ IF Steady(t) THEN UNCHANGED left ELSE Spend("clock")
    /\ call' = [call EXCEPT ![r] = IF @ = "appending" THEN "logged" ELSE @]
    /\ UNCHANGED <<folded, target, answer, senderVars, sends, netVars, history>>

(* mutant: nobody tells the sender *)
QueuedSilently(r) ==
    /\ Up /\ call[r] = "logged"
    /\ call' = [call EXCEPT ![r] = "answered"]
    /\ answer' = [answer EXCEPT ![r] = r]
    /\ UNCHANGED <<logVars, target, senderVars, sends, netVars, history, left>>

(* queue returns: the sender is told, and the id is final. *)
Queued(r) ==
    /\ Up /\ call[r] = "logged"
    /\ call' = [call EXCEPT ![r] = "answered"]
    /\ answer' = [answer EXCEPT ![r] = r]
    /\ sends' = TRUE
    /\ UNCHANGED <<logVars, target, senderVars, netVars, history, left>>

(* Somebody who sees a queued send takes it back: the cancel is logged, and *)
(* nothing asks whether the send is on its way.                             *)
Cancel(id) ==
    /\ Up /\ id \in Cancellable /\ ~Logged("cancel", id)
    /\ Seen("queue", id) \/ answer[id] = id
    /\ log' = Append(log, Entry("cancel", id))
    /\ UNCHANGED <<folded, inflight, queuedT, callVars, senderVars, sends, netVars, history, left>>

Fold ==
    /\ Up /\ \E n \in (folded + 1)..Len(log) : folded' = n
    /\ UNCHANGED <<log, inflight, queuedT, callVars, senderVars, sends, netVars, history, left>>

-----------------------------------------------------------------------------
(* The sender: one pass over what is owed (sendDue). *)

(* sendDue returns, and what it kept is gone. *)
Forget == page' = << >> /\ cursor' = 0 /\ more' = FALSE

(* It says how long: the sender sleeps till the alarm. *)
PassOver == sender' = "asleep" /\ Forget

(* Nobody is logged in: it sleeps for its hour. *)
PassOffline ==
    /\ sender = "start" /\ conn = "offline"
    /\ sender' = "asleep" /\ alarm' = {}
    /\ UNCHANGED <<logVars, callVars, goal, page, cursor, more, held, sends, netVars, history,
                   left>>

PassStart ==
    /\ sender = "start" /\ conn # "offline"
    /\ sender' = "folding" /\ goal' = Len(log)
    /\ cursor' = 0 /\ alarm' = {}
    /\ UNCHANGED <<logVars, callVars, page, more, held, sends, netVars, history, left>>

ReadPage ==
    /\ \/ sender = "folding" /\ Reached(goal)
       \/ sender = "paging"
    /\ \E p \in Unsent(cursor) :
         /\ page' = [k \in 1..Len(p) |-> log[p[k]].id]
         /\ more' = (Len(p) = SendPage)
         /\ cursor' = IF p = << >> THEN cursor ELSE p[Len(p)]
    /\ sender' = "picking" /\ goal' = 0
    /\ UNCHANGED <<logVars, callVars, held, alarm, sends, netVars, history, left>>

(* The fold does not catch up in time, or the page can not be read: the     *)
(* next pass is five seconds away.                                          *)
PassFails ==
    /\ sender \in {"folding", "paging"} /\ Spend("error")
    /\ sender' = "retrying" /\ Forget /\ goal' = 0 /\ alarm' = {}
    /\ UNCHANGED <<logVars, callVars, held, sends, netVars, history>>

PageDone ==
    /\ sender = "picking" /\ page = << >>
    /\ IF more THEN sender' = "paging" /\ UNCHANGED <<page, cursor, more>> ELSE PassOver
    /\ UNCHANGED <<logVars, callVars, goal, held, alarm, sends, netVars, history, left>>

(* A send that waits out its backoff: the pass goes on. *)
SkipHeld ==
    /\ sender = "picking" /\ page # << >> /\ Head(page) \in held
    /\ alarm' = alarm \cup {Head(page)}
    /\ page' = Tail(page)
    /\ UNCHANGED <<logVars, callVars, sender, goal, cursor, more, held, sends, netVars, history,
                   left>>

(* The socket is down: the pass ends, and the sleep is the hour. *)
FoundOffline ==
    /\ sender = "picking" /\ page # << >> /\ Head(page) \notin held /\ conn = "offline"
    /\ PassOver /\ alarm' = {}
    /\ UNCHANGED <<logVars, callVars, goal, held, sends, netVars, history, left>>

(* sendOne asks MaySend, which waits for what is appended now. *)
AskMaySend ==
    /\ sender = "picking" /\ page # << >> /\ Head(page) \notin held /\ conn # "offline"
    /\ sender' = "checking" /\ goal' = Len(log)
    /\ UNCHANGED <<logVars, callVars, page, cursor, more, held, alarm, sends, netVars, history,
                   left>>

(* The pass goes on with the next send of the page. *)
TryOver ==
    sender' = "picking" /\ page' = Tail(page) /\ goal' = 0 /\ UNCHANGED <<cursor, more>>

(* ErrSent, ErrCancelled: nothing is left to do. *)
MayNotSend ==
    /\ sender = "checking" /\ Reached(goal)
    /\ Seen("cancel", Head(page)) \/ Seen("sent", Head(page))
    /\ TryOver /\ held' = held \ {Head(page)}
    /\ UNCHANGED <<logVars, callVars, alarm, sends, netVars, history, left>>

(* mutant: goes by the page it read *)
MaySendByPage ==
    /\ sender = "checking"
    /\ sender' = "sending"
    /\ UNCHANGED <<logVars, callVars, goal, page, cursor, more, held, alarm, sends, netVars,
                   history, left>>

MaySend ==
    /\ sender = "checking" /\ Reached(goal)
    /\ ~Seen("cancel", Head(page)) /\ ~Seen("sent", Head(page))
    /\ sender' = "sending"
    /\ UNCHANGED <<logVars, callVars, goal, page, cursor, more, held, alarm, sends, netVars,
                   history, left>>

(* SendMessage reached the server. *)
Taken ==
    /\ sender = "sending" /\ conn # "offline"
    /\ taken' = taken \cup {Head(page)}
    /\ sender' = "logging"
    /\ UNCHANGED <<logVars, callVars, goal, page, cursor, more, held, alarm, sends, conn, history,
                   left>>

(* Its response came: SentMessageHandler logs the sent copy, or reports     *)
(* that it could not, and the try is a success.                             *)
LogSent ==
    /\ sender = "logging"
    /\ \/ log' = Append(log, Entry("sent", Head(page))) /\ UNCHANGED left
       \/ UNCHANGED log /\ Spend("unlogged")
    /\ TryOver /\ held' = held \ {Head(page)}
    /\ UNCHANGED <<folded, inflight, queuedT, callVars, alarm, sends, netVars, history>>

(* A failed try: the send waits its backoff. *)
Failed ==
    /\ TryOver
    /\ held' = held \cup {Head(page)} /\ alarm' = alarm \cup {Head(page)}
    /\ tried' = tried \cup {Head(page)}
    /\ UNCHANGED <<logVars, callVars, sends, netVars>>

(* The check timed out, the upload or SendMessage failed, or the server's   *)
(* response was lost.                                                       *)
TryFails ==
    /\ sender \in {"checking", "sending", "logging"} /\ Spend("error")
    /\ Failed

(* SendMessage without a socket. *)
SendOffline ==
    /\ sender = "sending" /\ conn = "offline"
    /\ Failed /\ UNCHANGED left

(* errFinal: the guard, an undecodable body, a file that is gone.  Attempted *)
(* logs that it will not be tried again, unless that append fails.           *)
TryFinal ==
    /\ sender \in {"checking", "sending"} /\ left["final"] > 0
    /\ \/ /\ log' = Append(log, Entry("final", Head(page)))
          /\ left' = [left EXCEPT !["final"] = @ - 1]
       \/ /\ UNCHANGED log /\ left["unlogged"] > 0
          /\ left' = [left EXCEPT !["final"] = @ - 1, !["unlogged"] = @ - 1]
    /\ TryOver /\ tried' = tried \cup {Head(page)}
    /\ UNCHANGED <<folded, inflight, queuedT, callVars, held, alarm, sends, netVars>>

-----------------------------------------------------------------------------
(* The sender asleep (runSender). *)

(* A token, from a queued send or a reconnect: while online it clears every *)
(* backoff.                                                                 *)
OnSignal ==
    /\ sender \in {"asleep", "retrying"} /\ sends
    /\ sends' = FALSE
    /\ held' = IF conn = "online" THEN {} ELSE held
    /\ sender' = "start" /\ alarm' = {}
    /\ UNCHANGED <<logVars, callVars, goal, page, cursor, more, netVars, history, left>>

(* The timer, set for the first backoff to end or for the next try to read. *)
OnTimer ==
    /\ sender = "retrying" \/ (sender = "asleep" /\ alarm \ held # {})
    /\ sender' = "start" /\ alarm' = {}
    /\ UNCHANGED <<logVars, callVars, goal, page, cursor, more, held, sends, netVars,
                   history, left>>

(* The timer with nothing to wait for.  Not fair: nothing should need it. *)
OnHour ==
    /\ sender = "asleep"
    /\ sender' = "start" /\ alarm' = {}
    /\ UNCHANGED <<logVars, callVars, goal, page, cursor, more, held, sends, netVars,
                   history, left>>

BackoffEnds(id) ==
    /\ id \in held
    /\ held' = held \ {id}
    /\ UNCHANGED <<logVars, callVars, sender, goal, page, cursor, more, alarm, sends, netVars,
                   tried, left>>

-----------------------------------------------------------------------------
(* The connection, as far as the sender sees it, and the process. *)

(* whatsmeow's Connected event. *)
Connected ==
    /\ Up /\ conn = "offline"
    /\ conn' = "connected" /\ sends' = TRUE
    /\ UNCHANGED <<logVars, callVars, senderVars, taken, tried, left>>

(* The supervisor publishes Online. *)
Published ==
    /\ Up /\ conn = "connected"
    /\ conn' = "online" /\ sends' = TRUE
    /\ UNCHANGED <<logVars, callVars, senderVars, taken, tried, left>>

Disconnected ==
    /\ Up /\ conn # "offline" /\ Spend("drop")
    /\ conn' = "offline"
    /\ UNCHANGED <<logVars, callVars, senderVars, sends, taken, history>>

(* The process dies.  The log stays, the fold may fall back (power loss),   *)
(* and an append that did not commit is gone.                               *)
Crash ==
    /\ Up /\ Spend("crash")
    /\ \E n \in 0..folded : folded' = n
    /\ inflight' = {}
    /\ call' = [r \in Requests |->
                  IF call[r] \in {"folding", "appending", "logged"} THEN "failed" ELSE call[r]]
    /\ sender' = "down" /\ goal' = 0
    /\ page' = << >> /\ cursor' = 0 /\ more' = FALSE
    /\ held' = {} /\ alarm' = {} /\ sends' = FALSE
    /\ conn' = "offline"
    /\ UNCHANGED <<log, queuedT, target, answer, taken, tried>>

Restart ==
    /\ sender = "down"
    /\ sender' = "start"
    /\ UNCHANGED <<logVars, callVars, goal, page, cursor, more, held, alarm, sends, netVars,
                   history, left>>

-----------------------------------------------------------------------------
RequestStep(r) ==
    \/ TakeTurn(r) \/ AnswerEarlier(r) \/ Queue(r) \/ GiveUp(r) \/ Abandon(r)
    \/ Commit(r) \/ Queued(r) \/ Cancel(r)

SenderStep ==
    \/ PassOffline \/ PassStart \/ ReadPage \/ PassFails \/ PageDone
    \/ SkipHeld \/ FoundOffline \/ AskMaySend \/ MayNotSend \/ MaySend
    \/ Taken \/ LogSent \/ TryFails \/ SendOffline \/ TryFinal
    \/ OnSignal \/ OnTimer \/ OnHour

Next ==
    \/ \E r \in Requests : RequestStep(r) \/ BackoffEnds(r)
    \/ SenderStep
    \/ Fold \/ Connected \/ Published \/ Disconnected \/ Crash \/ Restart

Spec == Init /\ [][Next]_vars

(* The goroutines run, the writer commits and folds, a backoff elapses and  *)
(* the supervisor reconnects.                                               *)
Fairness ==
    /\ \A r \in Requests :
         /\ WF_vars(TakeTurn(r)) /\ WF_vars(AnswerEarlier(r)) /\ WF_vars(Queue(r))
         /\ WF_vars(Commit(r)) /\ WF_vars(Queued(r)) /\ WF_vars(BackoffEnds(r))
    /\ WF_vars(Fold) /\ WF_vars(Connected) /\ WF_vars(Published) /\ WF_vars(Restart)
    /\ WF_vars(PassOffline) /\ WF_vars(PassStart) /\ WF_vars(ReadPage) /\ WF_vars(PageDone)
    /\ WF_vars(SkipHeld) /\ WF_vars(FoundOffline) /\ WF_vars(AskMaySend)
    /\ WF_vars(MayNotSend) /\ WF_vars(MaySend) /\ WF_vars(Taken) /\ WF_vars(LogSent)
    /\ WF_vars(SendOffline)
    /\ WF_vars(OnSignal) /\ WF_vars(OnTimer)

FairSpec == Spec /\ Fairness

-----------------------------------------------------------------------------
(* Every variable keeps its type. *)
TypeOK ==
    /\ log \in Seq([op : {"queue", "cancel", "sent", "final"}, id : Requests])
    /\ folded \in 0..Len(log) /\ inflight \subseteq Requests /\ queuedT \in [Requests -> Nat]
    /\ call \in [Requests -> {"idle", "folding", "appending", "logged", "answered", "failed"}]
    /\ target \in [Requests -> Nat] /\ answer \in [Requests -> Requests \cup {NoKey}]
    /\ sender \in {"down", "start", "folding", "paging", "picking", "checking", "sending",
                    "logging", "asleep", "retrying"}
    /\ goal \in Nat /\ cursor \in Nat /\ more \in BOOLEAN
    /\ page \in Seq(Requests) /\ Len(page) <= SendPage
    /\ held \subseteq Requests /\ alarm \subseteq Requests /\ sends \in BOOLEAN
    /\ conn \in {"offline", "connected", "online"} /\ taken \subseteq Requests
    /\ tried \subseteq Requests
    /\ left \in [Disturbances -> Nat]

(* A key sends one message: whatever was retried under it, and however the  *)
(* daemon died between, at most one id under the key reaches the server ("a *)
(* second send under the key queues nothing").                              *)
OneSendPerKey ==
    \A r, s \in taken : KeyOf[r] = KeyOf[s] => r = s \/ KeyOf[r] = NoKey

(* Every request answered under a key was answered the same id (send.go:    *)
(* "and answers what the first queued").                                    *)
AnswersAgree ==
    \A r, s \in Requests :
        /\ call[r] = "answered" /\ call[s] = "answered"
        /\ KeyOf[r] = KeyOf[s] /\ KeyOf[r] # NoKey
        => answer[r] = answer[s]

(* Once the log says how a send ended, by its sent copy (ErrSent) or by a    *)
(* failure that "will not be tried again", the sender is never again on its  *)
(* way to the server with it, restarts and falling folds notwithstanding.    *)
EndedIsEnded ==
    sender = "sending" => ~Logged("sent", Head(page)) /\ ~Logged("final", Head(page))

(* A cancel that was logged before the sender asked about the send keeps it *)
(* from the server: a send on its way had none when MaySend was called.     *)
CancelStops ==
    sender \in {"sending", "logging"} =>
        \A i \in 1..goal : log[i] # Entry("cancel", Head(page))

(* When a send was queued the clock read no earlier than for those logged   *)
(* before it.                                                               *)
InStep(i) == \A k \in 1..(i - 1) : log[k].op = "queue" => Stamp(k) <= Stamp(i)

(* Sends go out in the order they were queued, which is that of the clock   *)
(* and of the log: one is first given to the server only when every older   *)
(* one went, was cancelled or had a failed try ("sends what is queued,      *)
(* oldest first").  A clock that was set back does not let a later send     *)
(* overtake those queued in step; what was queued out of step with the log  *)
(* may be passed over until the next pass, and is not spoken of.            *)
OldestFirst ==
    [][\A id \in taken' \ taken :
          /\ Logged("queue", id)
          /\ \A i, j \in 1..Len(log) :
               log[i].op = "queue" /\ log[j] = Entry("queue", id) /\ Before(i, j) /\ InStep(i)
                 => log[i].id \in taken \cup tried \/ Logged("cancel", log[i].id)]_vars

(* A send whose request was answered goes out in the end, unless it was     *)
(* cancelled or failed for good: no wake-up of the sender is lost and none  *)
(* is left to the hourly timer.                                             *)
SendsGoOut ==
    \A r \in Requests :
        answer[r] = r ~> r \in taken \/ Logged("cancel", r) \/ Logged("final", r)

(* Nobody waits forever for a turn: every request under a key ends.         *)
TurnsPass == \A r \in Requests : <>(call[r] \in {"answered", "failed"})

=============================================================================
