------------------------------- MODULE Window -------------------------------
(***************************************************************************)
(* One subscription of one frontend: the daemon's side of it               *)
(* (whatevrd/internal/server/sub.go and the handlers of conn.go), the      *)
(* connection's queue (queue.go), and the frontend's copy                  *)
(* (whattui/internal/proto/subscription.go, view/collection.go).           *)
(*                                                                         *)
(* An item is a number, its place in the view; its content is a version,   *)
(* 0 for an item that is not there.  Sizes in bytes are counts of changes. *)
(***************************************************************************)
EXTENDS Integers, Sequences, FiniteSets, FiniteSetsExt

CONSTANTS
    Items,      \* places of the view, numbers
    MaxVersion, \* versions an item may have
    Limit0,     \* what the frontend subscribes with
    Cap,        \* the view's cap
    MaxChanges, \* maxQueuedChanges: changes waiting for one subscription
    FrameMax,   \* changes one frame holds
    Worlds      \* bound: how often each kind of thing happens, in each of some worlds

(* An item changes, a read fails, the frontend extends, closes, hangs up.   *)
Events == {"change", "fail", "extend", "close", "hangup"}

ASSUME ItemAssumption == Items \subseteq Nat /\ IsFiniteSet(Items) /\ MaxVersion \in Nat \ {0}
(* A window fits a frame (server.go: caps are how many items 15 MiB hold).  *)
ASSUME SizeAssumption ==
    /\ Cap \in Nat /\ Limit0 \in 1..Cap
    /\ MaxChanges \in Nat \ {0} /\ FrameMax \in Nat /\ Cap <= FrameMax
ASSUME WorldAssumption == Worlds \subseteq [Events -> Nat]

VARIABLES
    world,    \* the items the view has
    wake,     \* a change was committed and its wake is still to come
    sub,      \* the subscription's flags, its limit and what it sent
    pass,     \* the running pass
    live,     \* the queue takes updates of the subscription
    queue,    \* frames waiting to be written
    inbox,    \* requests waiting to be dispatched
    serving,  \* where the dispatcher is
    opening,  \* the subscribe is answered and its delivery not yet started
    front,    \* the frontend: its state and its copy
    failed,   \* history: the last read of the window failed
    died,     \* history: the daemon panicked
    left      \* events still to come

vars == <<world, wake, sub, pass, live, queue, inbox, serving, opening, front, failed, died, left>>

-----------------------------------------------------------------------------
Contents == [Items -> 0..MaxVersion]
Nothing  == [i \in Items |-> 0]
Present(c) == {i \in Items : c[i] # 0}

(* The first n items in view order. *)
First(c, n) ==
    [i \in Items |-> IF Cardinality({j \in Present(c) : j <= i}) <= n THEN c[i] ELSE 0]

(* What takes one content to another: an upsert, or 0 for a remove. *)
Diff(from, to) == [i \in {j \in Items : from[j] # to[j]} |-> to[i]]
Over(changes, c) == [i \in Items |-> IF i \in DOMAIN changes THEN changes[i] ELSE c[i]]
Applied(c, u)    == Over(u.changes, IF u.reset THEN Nothing ELSE c)

Update(reset, changes, ready) ==
    [kind |-> "update", reset |-> reset, changes |-> changes, ready |-> ready,
     open |-> TRUE, bare |-> FALSE]
(* An update with a ready and no map for changes. *)
BareReady == [Update(FALSE, << >>, TRUE) EXCEPT !.bare = TRUE]
Response(what) == [kind |-> what]

IsUpdate(e) == e.kind = "update"
Size(u)     == Cardinality(DOMAIN u.changes)
Waiting(q)  == MapThenFoldSet(+, 0, LAMBDA k : IF IsUpdate(q[k]) THEN Size(q[k]) ELSE 0,
                              LAMBDA S : CHOOSE k \in S : TRUE, DOMAIN q)

Spend(e) == left[e] > 0 /\ left' = [left EXCEPT ![e] = @ - 1]

NoSub == [started |-> FALSE, dirty |-> FALSE, ready |-> FALSE, resetting |-> FALSE,
          running |-> FALSE, closed |-> FALSE, limit |-> Limit0, sent |-> Nothing]
NoPass == [stage |-> "none", limit |-> 0, ready |-> FALSE, reset |-> FALSE, ok |-> TRUE,
           update |-> Update(FALSE, << >>, FALSE)]

Init ==
    /\ world \in {c \in Contents : \A i \in Items : c[i] <= 1} /\ wake = FALSE
    /\ sub = NoSub /\ pass = NoPass /\ live = FALSE
    /\ queue = << >> /\ inbox = << >> /\ serving = "idle" /\ opening = FALSE
    /\ front = [state |-> "away", fresh |-> FALSE, copy |-> Nothing, limit |-> Limit0,
                asked |-> FALSE]
    /\ failed = FALSE /\ died = FALSE /\ left \in Worlds

-----------------------------------------------------------------------------
(* The queue. *)

(* mutant: a response leaves updates open to merging *)
PushedUnsealed(e) == Append(queue, e)

(* push: a response seals the open updates, so nothing merges past it. *)
Pushed(e) ==
    Append([k \in DOMAIN queue |->
              IF IsUpdate(queue[k]) THEN [queue[k] EXCEPT !.open = FALSE] ELSE queue[k]], e)

(* purge: the responses stay, in their order. *)
Responses(q) ==
    LET kept[k \in 0..Len(q)] ==
          IF k = 0 THEN << >>
          ELSE IF IsUpdate(q[k]) THEN kept[k - 1] ELSE Append(kept[k - 1], q[k])
    IN  kept[Len(q)]
Purged == Responses(queue)

OpenAt == {k \in DOMAIN queue : IsUpdate(queue[k]) /\ queue[k].open}

Merged(w, u) ==
    [w EXCEPT !.ready = @ \/ u.ready,
              !.changes = [i \in DOMAIN w.changes \cup DOMAIN u.changes |->
                             IF i \in DOMAIN u.changes THEN u.changes[i] ELSE w.changes[i]]]

(* pushUpdate: the queue after u, and FALSE when the subscription fell too  *)
(* far behind, or the merge outgrew a frame: everything it had queued is    *)
(* gone then.                                                               *)
PushUpdate(u) ==
    LET merged == LET k == CHOOSE k \in OpenAt : TRUE IN [queue EXCEPT ![k] = Merged(@, u)]
        merges == ~u.reset /\ OpenAt # {}
        q      == IF u.reset THEN Append(Purged, u)
                  ELSE IF merges THEN merged ELSE Append(queue, u)
        over   == /\ ~u.reset
                  /\ \/ Waiting(q) > MaxChanges
                     \/ merges /\ \E k \in OpenAt : Size(q[k]) > FrameMax
    IN  IF ~live THEN [queue |-> queue, ok |-> TRUE]
        ELSE IF over THEN [queue |-> Purged, ok |-> FALSE]
        ELSE [queue |-> q, ok |-> TRUE]

-----------------------------------------------------------------------------
(* The subscription. *)

(* runLocked: a pass begins unless one runs. *)
Run(s) == IF s.started /\ ~s.running /\ ~s.closed THEN [s EXCEPT !.running = TRUE] ELSE s
Begun(s) == IF Run(s).running /\ ~s.running THEN [NoPass EXCEPT !.stage = "top"] ELSE pass

(* Put s in place of the subscription, and begin a pass if it wants one. *)
RunLocked(s) == sub' = Run(s) /\ pass' = Begun(s)

(* A change is committed; the wake of the windows comes after. *)
Change ==
    /\ Spend("change")
    /\ \E i \in Items, v \in 0..MaxVersion : v # world[i] /\ world' = [world EXCEPT ![i] = v]
    /\ wake' = TRUE
    /\ UNCHANGED <<sub, pass, live, queue, inbox, serving, opening, front, failed, died>>

(* mutant: a wake during a pass is taken to be served by it *)
KickIdle ==
    /\ wake /\ wake' = FALSE
    /\ IF live /\ ~sub.running THEN RunLocked([sub EXCEPT !.dirty = TRUE]) ELSE UNCHANGED <<sub, pass>>
    /\ UNCHANGED <<world, live, queue, inbox, serving, opening, front, failed, died, left>>

(* Changed: every open window is kicked. *)
Kick ==
    /\ wake /\ wake' = FALSE
    /\ IF live THEN RunLocked([sub EXCEPT !.dirty = TRUE]) ELSE UNCHANGED <<sub, pass>>
    /\ UNCHANGED <<world, live, queue, inbox, serving, opening, front, failed, died, left>>

(* The head of run's loop: a pass the queue refused starts over, and a      *)
(* dirty subscription goes again, with the flags of this moment.            *)
TakePass ==
    /\ pass.stage = "top"
    /\ LET s == IF pass.ok THEN sub
                ELSE [sub EXCEPT !.sent = Nothing, !.dirty = TRUE, !.ready = TRUE,
                                 !.resetting = TRUE]
       IN  IF s.dirty /\ ~s.closed
           THEN /\ pass' = [NoPass EXCEPT !.stage = "read", !.limit = s.limit,
                                          !.ready = s.ready, !.reset = s.resetting]
                /\ sub' = [s EXCEPT !.dirty = FALSE, !.ready = FALSE, !.resetting = FALSE]
           ELSE pass' = NoPass /\ sub' = [s EXCEPT !.running = FALSE]
    /\ UNCHANGED <<world, wake, live, queue, inbox, serving, opening, front, failed, died, left>>

(* mutant: a difference over a frame is taken as sent *)
ReadWindowOver ==
    /\ pass.stage = "read"
    /\ LET next == First(world, pass.limit)
           u == Update(pass.reset, Diff(sub.sent, next), pass.ready)
           empty == Size(u) = 0 /\ ~u.ready /\ ~u.reset
           over == ~u.reset /\ Size(u) > FrameMax
       IN  /\ sub' = [sub EXCEPT !.sent = next]
           /\ pass' = IF over \/ empty THEN [NoPass EXCEPT !.stage = "top"]
                      ELSE [NoPass EXCEPT !.stage = "push", !.update = u]
    /\ failed' = FALSE
    /\ UNCHANGED <<world, wake, live, queue, inbox, serving, opening, front, died, left>>

(* pass: read the window and compare it with what was sent. More change     *)
(* than a frame holds goes whole instead.                                   *)
ReadWindow ==
    /\ pass.stage = "read"
    /\ LET next == First(world, pass.limit)
           u == Update(pass.reset, Diff(sub.sent, next), pass.ready)
           empty == Size(u) = 0 /\ ~u.ready /\ ~u.reset
           over == ~u.reset /\ Size(u) > FrameMax
       IN  /\ sub' = [sub EXCEPT !.sent = next]
           /\ pass' = IF over \/ empty THEN [NoPass EXCEPT !.stage = "top", !.ok = ~over]
                      ELSE [NoPass EXCEPT !.stage = "push", !.update = u]
    /\ failed' = FALSE
    /\ UNCHANGED <<world, wake, live, queue, inbox, serving, opening, front, died, left>>

(* A failed read keeps what was sent, and still answers a ready. *)
ReadFails ==
    /\ pass.stage = "read" /\ Spend("fail")
    /\ pass' = IF pass.ready
               THEN [NoPass EXCEPT !.stage = "push", !.update = BareReady]
               ELSE [NoPass EXCEPT !.stage = "top"]
    /\ failed' = TRUE
    /\ UNCHANGED <<world, wake, sub, live, queue, inbox, serving, opening, front, died>>

(* A change is merged into a waiting update that has no map for changes: an *)
(* assignment to a nil map.                                                 *)
Panics(u) == live /\ ~u.reset /\ Size(u) > 0 /\ \E k \in OpenAt : queue[k].bare

PushPass ==
    /\ pass.stage = "push" /\ ~Panics(pass.update)
    /\ LET r == PushUpdate(pass.update) IN
       queue' = r.queue /\ pass' = [NoPass EXCEPT !.stage = "top", !.ok = r.ok]
    /\ UNCHANGED <<world, wake, sub, live, inbox, serving, opening, front, failed, died, left>>

-----------------------------------------------------------------------------
(* The connection's handlers. *)

NextRequest(r) == serving = "idle" /\ inbox # << >> /\ Head(inbox) = r /\ inbox' = Tail(inbox)

(* subscribe: opened and answered; nothing can name the subscription before *)
(* the answer.                                                              *)
Subscribe ==
    /\ NextRequest("subscribe")
    /\ sub' = NoSub /\ live' = TRUE /\ opening' = TRUE
    /\ queue' = Pushed(Response("subscribed"))
    /\ UNCHANGED <<world, wake, pass, serving, front, failed, died, left>>

(* mutant: start forgets that an extend may have come before it *)
StartBare ==
    /\ opening /\ opening' = FALSE
    /\ RunLocked([sub EXCEPT !.started = TRUE, !.dirty = TRUE])
    /\ UNCHANGED <<world, wake, live, queue, inbox, serving, front, failed, died, left>>

(* start: delivery begins once the answer is queued. *)
Start ==
    /\ opening /\ opening' = FALSE
    /\ RunLocked([sub EXCEPT !.started = TRUE, !.dirty = TRUE, !.ready = TRUE])
    /\ UNCHANGED <<world, wake, live, queue, inbox, serving, front, failed, died, left>>

(* extend answers first and grows the limit after. *)
AnswerExtend ==
    /\ NextRequest("extend")
    /\ IF live /\ sub.limit + 1 <= Cap
       THEN queue' = Pushed(Response("done")) /\ serving' = "extending"
       ELSE queue' = Pushed(Response("refused")) /\ UNCHANGED serving
    /\ UNCHANGED <<world, wake, sub, pass, live, opening, front, failed, died, left>>

Extend ==
    /\ serving = "extending" /\ serving' = "idle"
    /\ RunLocked([sub EXCEPT !.limit = @ + 1, !.ready = TRUE, !.dirty = TRUE])
    /\ UNCHANGED <<world, wake, live, queue, inbox, opening, front, failed, died, left>>

(* mutant: unsubscribing purges the queue and leaves it open to updates *)
CloseSubLive ==
    /\ NextRequest("unsubscribe")
    /\ queue' = Purged /\ serving' = "leaving"
    /\ UNCHANGED <<world, wake, sub, pass, live, opening, front, failed, died, left>>

(* closeSub: what is queued goes, and later updates are refused. *)
CloseSub ==
    /\ NextRequest("unsubscribe")
    /\ live' = FALSE /\ queue' = Purged /\ serving' = "leaving"
    /\ UNCHANGED <<world, wake, sub, pass, opening, front, failed, died, left>>

AnswerUnsubscribe ==
    /\ serving = "leaving" /\ serving' = "idle"
    /\ sub' = [sub EXCEPT !.closed = TRUE]
    /\ queue' = Pushed(Response("bye"))
    /\ UNCHANGED <<world, wake, pass, live, inbox, opening, front, failed, died, left>>

-----------------------------------------------------------------------------
(* The frontend, and the wire.  A frame is written and taken in one step:   *)
(* the socket keeps the order, and what waits in it might as well wait in   *)
(* the queue.                                                               *)

Connect ==
    /\ front.state = "away" /\ front' = [front EXCEPT !.state = "subscribing"]
    /\ inbox' = <<"subscribe">>
    /\ UNCHANGED <<world, wake, sub, pass, live, queue, serving, opening, failed, died, left>>

AskExtend ==
    /\ front.state = "open" /\ Spend("extend")
    /\ inbox' = Append(inbox, "extend")
    /\ UNCHANGED <<world, wake, sub, pass, live, queue, serving, opening, front, failed, died>>

AskClose ==
    /\ front.state = "open" /\ Spend("close")
    /\ front' = [front EXCEPT !.state = "closed", !.asked = FALSE]
    /\ inbox' = Append(inbox, "unsubscribe")
    /\ UNCHANGED <<world, wake, sub, pass, live, queue, serving, opening, failed, died>>

(* What the frontend does with a frame: a response grows what it expects, an *)
(* update is applied whole, the first of a new subscription as a reset.      *)
Delivered(f, e) ==
    IF f.state = "closed" \/ e.kind \in {"refused", "bye"} THEN f
    ELSE IF e.kind = "subscribed"
    THEN [f EXCEPT !.state = "open", !.fresh = TRUE, !.asked = TRUE, !.limit = Limit0]
    ELSE IF e.kind = "done" THEN [f EXCEPT !.limit = @ + 1, !.asked = TRUE]
    ELSE [f EXCEPT !.copy = Applied(@, [e EXCEPT !.reset = @ \/ f.fresh]),
                   !.fresh = FALSE, !.asked = @ /\ ~e.ready]

Write ==
    /\ queue # << >> /\ queue' = Tail(queue)
    /\ front' = Delivered(front, Head(queue))
    /\ UNCHANGED <<world, wake, sub, pass, live, inbox, serving, opening, failed, died, left>>

(* What waits in a connection is lost with it, and the daemon closes its    *)
(* subscriptions. The frontend keeps its copy.                              *)
Lost ==
    /\ front' = [front EXCEPT !.state = IF @ = "closed" THEN @ ELSE "away", !.asked = FALSE]
    /\ sub' = NoSub /\ pass' = NoPass /\ live' = FALSE
    /\ queue' = << >> /\ inbox' = << >> /\ serving' = "idle" /\ opening' = FALSE

Hangup ==
    /\ front.state \in {"subscribing", "open"} /\ Spend("hangup")
    /\ Lost
    /\ UNCHANGED <<world, wake, failed, died>>

(* The daemon dies of its panic and is started again. *)
PassPanics ==
    /\ pass.stage = "push" /\ Panics(pass.update)
    /\ died' = TRUE /\ wake' = FALSE
    /\ Lost
    /\ UNCHANGED <<world, failed, left>>

-----------------------------------------------------------------------------
PassStep    == TakePass \/ ReadWindow \/ ReadFails \/ PushPass \/ PassPanics
HandlerStep == Subscribe \/ Start \/ AnswerExtend \/ Extend \/ CloseSub \/ AnswerUnsubscribe
FrontStep   == Connect \/ AskExtend \/ AskClose \/ Write \/ Hangup

Next == Change \/ Kick \/ PassStep \/ HandlerStep \/ FrontStep

Spec == Init /\ [][Next]_vars

(* The daemon's goroutines run, the frontend reads what is sent to it and   *)
(* connects again; nothing is promised of changes, failures and requests.   *)
Fairness ==
    /\ WF_vars(Kick) /\ WF_vars(TakePass \/ ReadWindow \/ PushPass \/ PassPanics) /\ WF_vars(HandlerStep)
    /\ WF_vars(Start) /\ WF_vars(Connect) /\ WF_vars(Write)

FairSpec == Spec /\ Fairness

-----------------------------------------------------------------------------
(* The frontend f once it took the frames, one after the other. *)
After(f, frames) ==
    LET at[k \in 0..Len(frames)] == IF k = 0 THEN f ELSE Delivered(at[k - 1], frames[k])
    IN  at[Len(frames)]

(* The frontend once it took what waits for it, and what a pass is about to *)
(* queue.                                                                   *)
Replayed == After(front, queue \o (IF pass.stage = "push" THEN <<pass.update>> ELSE << >>))

(* The daemon owes the frontend a reset. *)
Owed == sub.resetting \/ pass.reset \/ ~pass.ok

Changes == UNION {[S -> 0..MaxVersion] : S \in SUBSET Items}
Updates == [kind : {"update"}, reset : BOOLEAN, changes : Changes, ready : BOOLEAN,
            open : BOOLEAN, bare : BOOLEAN]
Frames  == Updates \cup [kind : {"subscribed", "done", "refused", "bye"}]
Fronts  == [state : {"away", "subscribing", "open", "closed"}, fresh : BOOLEAN,
            copy : Contents, limit : Limit0..Cap, asked : BOOLEAN]

(* Every variable keeps its type; a subscription is marked as running just  *)
(* while a pass is, and only the last frame may be open to merging.         *)
TypeOK ==
    /\ world \in Contents /\ wake \in BOOLEAN /\ live \in BOOLEAN /\ opening \in BOOLEAN
    /\ sub \in [started : BOOLEAN, dirty : BOOLEAN, ready : BOOLEAN, resetting : BOOLEAN,
                 running : BOOLEAN, closed : BOOLEAN, limit : Limit0..Cap, sent : Contents]
    /\ pass \in [stage : {"none", "top", "read", "push"}, limit : 0..Cap, ready : BOOLEAN,
                  reset : BOOLEAN, ok : BOOLEAN, update : Updates]
    /\ sub.running = (pass.stage # "none")
    /\ queue \in Seq(Frames) /\ OpenAt \subseteq {Len(queue)}
    /\ inbox \in Seq({"subscribe", "extend", "unsubscribe"})
    /\ serving \in {"idle", "extending", "leaving"} /\ front \in Fronts
    /\ failed \in BOOLEAN /\ died \in BOOLEAN /\ left \in [Events -> Nat]

(* What the daemon believes it sent is what the frontend has once it took   *)
(* the frames on their way, through merges, overflows and reconnects, or    *)
(* the daemon owes it a reset.  A read that fails while it owes one (the    *)
(* pass has taken the flag) loses it.                                       *)
ReplayIsSent ==
    live /\ front.state # "closed" /\ ~Owed
    => IF Replayed.fresh THEN sub.sent = Nothing ELSE Replayed.copy = sub.sent

(* The frontend never shows more than it asked for: an update that knows of *)
(* a larger limit is never seen before the answer to the extend.            *)
WithinLimit ==
    front.state = "open" /\ ~front.fresh => Cardinality(Present(front.copy)) <= front.limit

(* Nothing of a subscription is written after the answer to its             *)
(* unsubscribe, though a pass may be running.                               *)
NothingAfterBye ==
    \A k, m \in DOMAIN queue : queue[k].kind = "bye" /\ IsUpdate(queue[m]) => m < k

(* An answered subscribe or extend gets its ready, while the frontend stays *)
(* and reads.                                                               *)
ReadyComes == front.asked ~> ~front.asked

(* The frontend's copy becomes the window and stays it, once changes stop,  *)
(* however updates merged, overflowed, were lost with a connection or had   *)
(* their read fail; only when the last read failed does it stay behind ("the *)
(* daemon keeps the frontend's copy exactly equal to it").                  *)
Converges ==
    <>[](front.state = "closed" \/ failed \/ front.copy = First(world, sub.limit))

(* What the comment on a failed read says: it still answers the subscribe   *)
(* or extend.  The answer must be an update that later ones can merge into. *)
NeverDies == ~died

=============================================================================
