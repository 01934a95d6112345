---------------------------- MODULE OutboxProofs ----------------------------
(* Proofs about sending: the sender goes by what the log says of a send,    *)
(* takes the oldest first, and a key sends one message as long as nobody    *)
(* leaves a request of it alone with the writer.                            *)
EXTENDS Outbox, SequenceTheorems, TLAPS

Entries == [op : {"queue", "cancel", "sent", "final"}, id : Requests]

(* The parts of the type invariant. *)
LogOK == log \in Seq(Entries) /\ folded \in 0..Len(log) /\ queuedT \in [Requests -> Nat]
CallOK ==
    /\ inflight \subseteq Requests
    /\ call \in [Requests -> {"idle", "folding", "appending", "logged", "answered", "failed"}]
    /\ target \in [Requests -> Nat] /\ answer \in [Requests -> Requests \cup {NoKey}]
SenderOK ==
    /\ sender \in {"down", "start", "folding", "paging", "picking", "checking", "sending",
                    "logging", "asleep", "retrying"}
    /\ goal \in Nat /\ cursor \in Nat /\ more \in BOOLEAN
    /\ page \in Seq(Requests) /\ Len(page) <= SendPage
    /\ held \subseteq Requests /\ alarm \subseteq Requests
NetOK ==
    /\ sends \in BOOLEAN /\ conn \in {"offline", "connected", "online"}
    /\ taken \subseteq Requests /\ tried \subseteq Requests
    /\ left \in [Disturbances -> Nat]

-----------------------------------------------------------------------------
(* Where the sender is on its way through the outbox.                       *)

(* It holds a place in the outbox and a page while it makes a pass, and has *)
(* a send at hand while it tries one.                                       *)
Passing == {"paging", "picking", "checking", "sending", "logging"}
PassOK ==
    /\ cursor <= folded /\ goal <= Len(log)
    /\ sender \notin Passing => cursor = 0 /\ page = << >>
    /\ sender = "paging" => page = << >>
    /\ sender \in {"checking", "sending", "logging"} => page # << >>

(* A request is queued once, by the writer that had it.                     *)
QueuedOnce ==
    /\ \A i, j \in 1..Len(log) :
         log[i].op = "queue" /\ log[j].op = "queue" /\ log[i].id = log[j].id => i = j
    /\ \A i \in 1..Len(log) : log[i].op = "queue" =>
         log[i].id \notin inflight /\ call[log[i].id] \in {"logged", "answered", "failed"}
    /\ \A r \in inflight : call[r] \in {"appending", "failed"}

(* What the log and the backoffs say of a send, the server or a try said.   *)
EndsMeant ==
    /\ \A i \in 1..Len(log) :
         /\ log[i].op = "sent" => log[i].id \in taken
         /\ log[i].op = "final" => log[i].id \in tried
    /\ held \subseteq tried
    /\ sender = "logging" => Head(page) \in taken

(* The cursor is a place of the outbox; the page is what the outbox has up  *)
(* to there, in its order.                                                  *)
Past(i) == cursor # 0 /\ (i = cursor \/ Before(i, cursor))
CursorOK == cursor # 0 => cursor \in 1..Len(log) /\ log[cursor].op = "queue"
PageQueued ==
    \A k \in 1..Len(page) : \E i \in 1..Len(log) : Past(i) /\ log[i] = Entry("queue", page[k])
PageSorted ==
    \A k, l \in 1..Len(page) : \A i, j \in 1..Len(log) :
        k < l /\ log[i] = Entry("queue", page[k]) /\ log[j] = Entry("queue", page[l]) => Before(i, j)

(* What was queued in step and lies before the cursor was dealt with, or is *)
(* on the page.                                                             *)
DealtWith(id) == id \in taken \cup tried \/ Logged("cancel", id)
DealtNext(id) == id \in taken' \cup tried' \/ \E i \in 1..Len(log') : log'[i] = Entry("cancel", id)
Behind ==
    \A i \in 1..Len(log) : log[i].op = "queue" /\ InStep(i) /\ Past(i) =>
        DealtWith(log[i].id) \/ \E k \in 1..Len(page) : page[k] = log[i].id

(* No send of the page has ended, and an end that is not folded is of a     *)
(* send before the cursor: the sender will not read it again.               *)
Ends == {"sent", "final"}
PageFresh == \A k \in 1..Len(page) : \A i \in 1..Len(log) : log[i].op \in Ends => log[i].id # page[k]
EndsBehind ==
    /\ sender = "folding" => \A i \in (goal + 1)..Len(log) : log[i].op \notin Ends
    /\ sender \in Passing =>
         \A i \in (folded + 1)..Len(log) : log[i].op \in Ends =>
             \E j \in 1..Len(log) : Past(j) /\ log[j] = Entry("queue", log[i].id)

SenderInv ==
    /\ TypeOK /\ PassOK /\ QueuedOnce /\ EndsMeant
    /\ CursorOK /\ PageQueued /\ PageSorted /\ Behind /\ PageFresh /\ EndsBehind /\ CancelStops

-----------------------------------------------------------------------------
(* Requests under a key. *)

SameKey(r, s) == KeyOf[r] = KeyOf[s] /\ KeyOf[r] # NoKey
QueuedUnder(r, i) == log[i].op = "queue" /\ SameKey(log[i].id, r)

(* No request's context ends while the writer has its append.               *)
NeverAbandons == \A world \in Worlds : world["abandon"] = 0

(* Nobody left a request alone with the writer.                             *)
NoneAbandoned ==
    /\ left["abandon"] = 0
    /\ \A r \in inflight : call[r] = "appending"

(* Under a key one request runs, and it knows what others queued.           *)
OneTurn ==
    \A r, s \in Requests :
        SameKey(r, s) /\ {call[r], call[s]} \subseteq {"folding", "appending", "logged"} => r = s
Waits ==
    \A r \in Requests :
        /\ target[r] <= Len(log)
        /\ call[r] = "folding" =>
             KeyOf[r] # NoKey /\ \A i \in (target[r] + 1)..Len(log) : ~QueuedUnder(r, i)
        /\ call[r] = "appending" => \A i \in 1..Len(log) : ~QueuedUnder(r, i)
OnePerKey ==
    \A i, j \in 1..Len(log) :
        log[i].op = "queue" /\ QueuedUnder(log[i].id, j) => i = j

(* An answer is what the log holds under the key.                           *)
AnswerQueued ==
    \A r \in Requests :
        /\ call[r] = "logged" => Logged("queue", r)
        /\ call[r] = "answered" => answer[r] \in Requests /\ Logged("queue", answer[r])
                                     /\ KeyOf[answer[r]] = KeyOf[r]
TakenQueued == \A id \in taken : Logged("queue", id)

KeyInv == NoneAbandoned /\ OneTurn /\ Waits /\ OnePerKey /\ AnswerQueued /\ TakenQueued

-----------------------------------------------------------------------------
(* The log grows by entries of a set, or stays. *)

LogGrows(S) ==
    /\ log' \in Seq(Entries) /\ Len(log') \in Nat /\ Len(log') >= Len(log)
    /\ \A i \in 1..Len(log) : log'[i] = log[i]
    /\ \A i \in (Len(log) + 1)..Len(log') : log'[i] \in S

LEMMA EntryIs ==
    ASSUME NEW op \in {"queue", "cancel", "sent", "final"}, NEW id \in Requests
    PROVE  Entry(op, id) \in Entries /\ Entry(op, id).op = op /\ Entry(op, id).id = id
BY DEF Entry, Entries

LEMMA IsEntry ==
    ASSUME NEW e \in Entries PROVE e = Entry(e.op, e.id) /\ e.id \in Requests
BY DEF Entry, Entries

LEMMA LogIs ==
    ASSUME LogOK
    PROVE  Len(log) \in Nat /\ folded \in Nat /\ \A i \in 1..Len(log) : log[i] \in Entries
BY DEF LogOK

LEMMA Grown ==
    ASSUME LogOK, NEW e \in Entries, log' = Append(log, e)
    PROVE  LogGrows({e}) /\ Len(log') = Len(log) + 1 /\ log'[Len(log) + 1] = e
<1>1. /\ log' \in Seq(Entries) /\ Len(log') = Len(log) + 1 /\ Len(log) \in Nat
      /\ log'[Len(log) + 1] = e
      /\ \A i \in 1..Len(log) : log'[i] = log[i]
  BY DEF LogOK
<1>2. \A i \in (Len(log) + 1)..Len(log') : log'[i] \in {e}
  BY <1>1
<1> QED
  BY <1>1, <1>2 DEF LogGrows

LEMMA NotGrown ==
    ASSUME LogOK, log' = log
    PROVE  LogGrows({})
BY DEF LogOK, LogGrows

(* What was queued keeps the time it was queued at. *)
StampsStay == \A i \in 1..Len(log) : log[i].op = "queue" => queuedT'[log[i].id] = queuedT[log[i].id]

(* The outbox's order is one. *)
LEMMA OrderIs ==
    ASSUME LogOK, NEW i \in 1..Len(log), NEW j \in 1..Len(log)
    PROVE  /\ Stamp(i) \in Nat /\ ~Before(i, i)
           /\ Before(i, j) \/ i = j \/ Before(j, i)
           /\ Before(i, j) => ~Before(j, i)
           /\ \A k \in 1..Len(log) : Before(i, j) /\ Before(j, k) => Before(i, k)
<1>1. \A n \in 1..Len(log) : Stamp(n) \in Nat /\ n \in Nat
  BY LogIs, IsEntry DEF Stamp, LogOK
<1> QED
  BY <1>1 DEF Before

LEMMA LogOrderNext ==
    ASSUME LogOK', NEW i \in 1..Len(log') PROVE Stamp(i)' \in Nat
<1>1. log'[i] \in Entries /\ queuedT' \in [Requests -> Nat]
  BY DEF LogOK
<1> QED
  BY <1>1 DEF Stamp, Entries

LEMMA StampIs ==
    ASSUME LogOK, NEW S, LogGrows(S), StampsStay, NEW i \in 1..Len(log), log[i].op = "queue"
    PROVE  Stamp(i)' = Stamp(i)
BY DEF Stamp, StampsStay, LogGrows

LEMMA BeforeStays ==
    ASSUME LogOK, NEW S, LogGrows(S), StampsStay, NEW i \in 1..Len(log), log[i].op = "queue",
           NEW j \in 1..Len(log), log[j].op = "queue"
    PROVE  Before(i, j)' <=> Before(i, j)
<1>1. Stamp(i)' = Stamp(i) /\ Stamp(j)' = Stamp(j)
  BY StampIs
<1> QED
  BY <1>1 DEF Before

LEMMA PastStays ==
    ASSUME LogOK, NEW S, LogGrows(S), StampsStay, NEW i \in 1..Len(log), log[i].op = "queue",
           CursorOK, cursor' = cursor
    PROVE  Past(i)' <=> Past(i)
<1>1. CASE cursor = 0
  BY <1>1 DEF Past
<1>2. CASE cursor # 0
  <2>1. cursor \in 1..Len(log) /\ log[cursor].op = "queue"
    BY <1>2 DEF CursorOK
  <2>2. Before(i, cursor)' <=> Before(i, cursor)
    BY <2>1, BeforeStays
  <2> QED
    BY <2>2 DEF Past
<1> QED
  BY <1>1, <1>2

(* The head of a page, and what is left of it. *)
LEMMA HeadIs ==
    ASSUME SenderOK, page # << >>
    PROVE  /\ 1 \in 1..Len(page) /\ Head(page) = page[1] /\ Head(page) \in Requests
           /\ Len(page) \in Nat
<1>1. Len(page) \in Nat \ {0}
  BY EmptySeq DEF SenderOK
<1> QED
  BY <1>1 DEF SenderOK

LEMMA TailIs ==
    ASSUME SenderOK, page # << >>, page' = Tail(page)
    PROVE  /\ page' \in Seq(Requests) /\ Len(page') = Len(page) - 1 /\ Len(page') <= SendPage
           /\ \A k \in 1..Len(page') : page'[k] = page[k + 1]
<1>1. Len(page) \in Nat \ {0} /\ SendPage \in Nat
  BY EmptySeq, SendAssumption DEF SenderOK
<1>2. page' \in Seq(Requests) /\ Len(page') = Len(page) - 1
  BY <1>1 DEF SenderOK
<1>3. \A k \in 1..Len(page') : page'[k] = page[k + 1]
  BY <1>1 DEF SenderOK
<1> QED
  BY <1>1, <1>2, <1>3 DEF SenderOK

-----------------------------------------------------------------------------
(* Every step keeps the types. *)

LEMMA TypeParts == TypeOK <=> LogOK /\ CallOK /\ SenderOK /\ NetOK
BY DEF TypeOK, LogOK, CallOK, SenderOK, NetOK, Entries

LEMMA TypePartsNext == TypeOK' <=> LogOK' /\ CallOK' /\ SenderOK' /\ NetOK'
BY TypeParts, PTL

LEMMA LogType ==
    ASSUME LogOK, NEW S, LogGrows(S), folded' \in 0..Len(log'), queuedT' \in [Requests -> Nat]
    PROVE  LogOK'
BY DEF LogGrows, LogOK

LEMMA RequestTypes ==
    ASSUME TypeOK, NEW r \in Requests, RequestStep(r) \/ BackoffEnds(r)
    PROVE  TypeOK'
<1>t. LogOK /\ CallOK /\ SenderOK /\ NetOK
  BY TypeParts
<1> USE DEF logVars, callVars, senderVars, netVars, history
<1>1. ASSUME \/ TakeTurn(r) \/ Queue(r) \/ GiveUp(r) \/ Abandon(r) \/ Queued(r)
             \/ AnswerEarlier(r)
      PROVE  LogOK' /\ SenderOK'
  <2>1. UNCHANGED <<log, folded, queuedT, senderVars>>
    BY <1>1 DEF TakeTurn, Queue, GiveUp, Abandon, Queued, AnswerEarlier
  <2> QED
    BY <1>t, <2>1 DEF LogOK, SenderOK
<1>2. ASSUME TakeTurn(r) PROVE CallOK' /\ NetOK'
  BY <1>2, <1>t, LogIs DEF TakeTurn, CallOK, NetOK
<1>3. ASSUME AnswerEarlier(r) PROVE CallOK' /\ NetOK'
  <2>1. PICK i \in Keyed(KeyOf[r]) : answer' = [answer EXCEPT ![r] = log[i].id]
    BY <1>3 DEF AnswerEarlier
  <2>2. i \in 1..Len(log)
    BY <1>t DEF Keyed, LogOK
  <2>3. log[i].id \in Requests
    BY <1>t, <2>2, LogIs, IsEntry
  <2>4. answer' \in [Requests -> Requests \cup {NoKey}]
    BY <1>t, <2>1, <2>3 DEF CallOK
  <2> QED
    BY <1>3, <1>t, <2>4 DEF AnswerEarlier, CallOK, NetOK
<1>4. ASSUME Queue(r) \/ GiveUp(r) PROVE CallOK' /\ NetOK'
  BY <1>4, <1>t DEF Queue, GiveUp, CallOK, NetOK
<1>5. ASSUME Abandon(r) PROVE CallOK' /\ NetOK'
  BY <1>5, <1>t DEF Abandon, Spend, CallOK, NetOK, Disturbances
<1>6. ASSUME Commit(r) PROVE TypeOK'
  <2>1. log' = Append(log, Entry("queue", r)) /\ folded' = folded /\ Entry("queue", r) \in Entries
    BY <1>6, EntryIs DEF Commit
  <2>s. queuedT' \in [Requests -> Nat] /\ left' \in [Disturbances -> Nat]
    <3>1. PICK t \in Times : /\ queuedT' = [queuedT EXCEPT ![r] = t]
                             /\ IF Steady(t) THEN UNCHANGED left ELSE Spend("clock")
      BY <1>6 DEF Commit
    <3>2. t \in Nat
      BY SendAssumption
    <3>3. queuedT' \in [Requests -> Nat]
      BY <1>t, <3>1, <3>2 DEF LogOK
    <3>4. left' \in [Disturbances -> Nat]
      BY <1>t, <3>1 DEF Spend, NetOK, Disturbances
    <3> QED
      BY <3>3, <3>4
  <2>2. LogOK'
    BY <1>t, <2>1, <2>s, Grown, LogType, LogIs DEF LogOK
  <2>3. CallOK' /\ SenderOK'
    BY <1>6, <1>t DEF Commit, CallOK, SenderOK
  <2>4. NetOK'
    BY <1>6, <1>t, <2>s DEF Commit, NetOK
  <2> QED
    BY <2>2, <2>3, <2>4, TypePartsNext
<1>7. ASSUME Queued(r) PROVE CallOK' /\ NetOK'
  BY <1>7, <1>t DEF Queued, CallOK, NetOK
<1>8. ASSUME Cancel(r) PROVE TypeOK'
  <2>1. /\ log' = Append(log, Entry("cancel", r)) /\ folded' = folded /\ Entry("cancel", r) \in Entries
        /\ queuedT' = queuedT
    BY <1>8, EntryIs DEF Cancel
  <2>2. LogOK'
    BY <1>t, <2>1, Grown, LogType, LogIs DEF LogOK
  <2>3. CallOK' /\ SenderOK' /\ NetOK'
    BY <1>8, <1>t DEF Cancel, CallOK, SenderOK, NetOK
  <2> QED
    BY <2>2, <2>3, TypePartsNext
<1>9. ASSUME BackoffEnds(r) PROVE TypeOK'
  <2>1. LogOK' /\ CallOK' /\ SenderOK' /\ NetOK'
    BY <1>9, <1>t DEF BackoffEnds, LogOK, CallOK, SenderOK, NetOK
  <2> QED
    BY <2>1, TypePartsNext
<1> QED
  BY <1>1, <1>2, <1>3, <1>4, <1>5, <1>6, <1>7, <1>8, <1>9, TypePartsNext DEF RequestStep

(* The steps of a pass that leave requests alone. *)
LEMMA SenderTypes ==
    ASSUME TypeOK, PassOK, SenderStep
    PROVE  TypeOK'
<1>t. LogOK /\ CallOK /\ SenderOK /\ NetOK /\ Len(log) \in Nat
  BY TypeParts, LogIs
<1> USE DEF logVars, callVars, senderVars, netVars, history
<1>c. ASSUME UNCHANGED <<inflight, callVars>> PROVE CallOK'
  BY <1>t, <1>c DEF CallOK
<1>l. ASSUME UNCHANGED logVars PROVE LogOK'
  BY <1>t, <1>l DEF LogOK
<1>n. ASSUME UNCHANGED <<sends, netVars, history, left>> PROVE NetOK'
  BY <1>t, <1>n DEF NetOK
<1>e. << >> \in Seq(Requests) /\ Len(<< >>) = 0 /\ 0 <= SendPage
  BY SendAssumption
<1>1. ASSUME PassOffline \/ PassStart PROVE TypeOK'
  <2>1. LogOK' /\ CallOK' /\ NetOK'
    BY <1>1, <1>c, <1>l, <1>n DEF PassOffline, PassStart
  <2>2. SenderOK'
    BY <1>1, <1>t DEF PassOffline, PassStart, SenderOK
  <2> QED
    BY <2>1, <2>2, TypePartsNext
<1>2. ASSUME ReadPage PROVE TypeOK'
  <2>1. PICK p \in Unsent(cursor) :
            /\ page' = [k \in 1..Len(p) |-> log[p[k]].id] /\ more' = (Len(p) = SendPage)
            /\ cursor' = IF p = << >> THEN cursor ELSE p[Len(p)]
    BY <1>2 DEF ReadPage
  <2>2. PICK n \in 0..SendPage : p \in [1..n -> OwedAfter(cursor)]
    BY DEF Unsent, Pages
  <2>3. n \in Nat /\ OwedAfter(cursor) \subseteq 1..Len(log)
    BY <1>t, SendAssumption DEF OwedAfter, LogOK, SenderOK
  <2>4. p \in Seq(1..Len(log)) /\ Len(p) = n
    BY <2>2, <2>3
  <2>5. \A k \in 1..n : log[p[k]].id \in Requests
    BY <1>t, <2>2, <2>3, LogIs, IsEntry
  <2>6. page' \in Seq(Requests) /\ Len(page') <= SendPage
    BY <2>1, <2>2, <2>3, <2>4, <2>5
  <2>7. cursor' \in Nat
    <3>1. CASE p = << >>
      BY <1>t, <2>1, <3>1 DEF SenderOK
    <3>2. CASE p # << >>
      <4>1. n \in 1..n
        BY <2>3, <2>4, <3>2, EmptySeq
      <4> QED
        BY <2>1, <2>2, <2>3, <2>4, <3>2, <4>1
    <3> QED
      BY <3>1, <3>2
  <2>8. LogOK' /\ CallOK' /\ NetOK'
    BY <1>2, <1>c, <1>l, <1>n DEF ReadPage
  <2>9. more' \in BOOLEAN
    BY <2>1
  <2>10. sender' = "picking" /\ goal' = 0 /\ held' = held /\ alarm' = alarm
    BY <1>2 DEF ReadPage
  <2>11. SenderOK'
    BY <1>t, <2>6, <2>7, <2>9, <2>10 DEF SenderOK
  <2> QED
    BY <2>8, <2>11, TypePartsNext
<1>3. ASSUME PageDone \/ FoundOffline PROVE TypeOK'
  <2>1. LogOK' /\ CallOK' /\ NetOK'
    BY <1>3, <1>c, <1>l, <1>n DEF PageDone, FoundOffline
  <2>2. CASE PassOver
    <3>1. sender' = "asleep" /\ page' = << >> /\ cursor' = 0
      BY <2>2 DEF PassOver, Forget
    <3>2. more' \in BOOLEAN
      BY <2>2 DEF PassOver, Forget
    <3>3. goal' = goal /\ held' = held /\ alarm' \in {alarm, {}}
      BY <1>3 DEF PageDone, FoundOffline
    <3>4. SenderOK'
      BY <1>t, <1>e, <3>1, <3>2, <3>3 DEF SenderOK
    <3> QED
      BY <2>1, <3>4, TypePartsNext
  <2>3. CASE PageDone /\ ~PassOver
    <3>1. sender' = "paging" /\ UNCHANGED <<page, cursor, more, goal, held, alarm>>
      BY <2>3 DEF PageDone
    <3>2. SenderOK'
      BY <1>t, <3>1 DEF SenderOK
    <3> QED
      BY <2>1, <3>2, TypePartsNext
  <2> QED
    BY <1>3, <2>2, <2>3 DEF FoundOffline
<1>4. ASSUME SkipHeld PROVE TypeOK'
  <2>1. LogOK' /\ CallOK' /\ NetOK'
    BY <1>4, <1>c, <1>l, <1>n DEF SkipHeld
  <2>2. SenderOK'
    BY <1>4, <1>t, HeadIs, TailIs DEF SkipHeld, SenderOK
  <2> QED
    BY <2>1, <2>2, TypePartsNext
<1>5. ASSUME AskMaySend \/ MaySend PROVE TypeOK'
  <2>1. LogOK' /\ CallOK' /\ NetOK'
    BY <1>5, <1>c, <1>l, <1>n DEF AskMaySend, MaySend
  <2>2. SenderOK'
    BY <1>5, <1>t DEF AskMaySend, MaySend, SenderOK
  <2> QED
    BY <2>1, <2>2, TypePartsNext
<1>6. ASSUME TryOver, page # << >>, held' \subseteq Requests, alarm' \subseteq Requests PROVE SenderOK'
  BY <1>t, <1>6, TailIs DEF TryOver, SenderOK
<1>7. ASSUME MayNotSend PROVE TypeOK'
  <2>1. LogOK' /\ CallOK' /\ NetOK'
    BY <1>7, <1>c, <1>l, <1>n DEF MayNotSend
  <2>2. /\ TryOver /\ page # << >> /\ held' \subseteq Requests /\ alarm' \subseteq Requests
    BY <1>7, <1>t DEF MayNotSend, PassOK, SenderOK
  <2> QED
    BY <2>1, <2>2, <1>6, TypePartsNext
<1>8. ASSUME Taken PROVE TypeOK'
  <2>1. LogOK' /\ CallOK'
    BY <1>8, <1>c, <1>l DEF Taken
  <2>2. Head(page) \in Requests
    BY <1>8, <1>t, HeadIs DEF Taken, PassOK
  <2>3. SenderOK' /\ NetOK'
    BY <1>8, <1>t, <2>2 DEF Taken, SenderOK, NetOK
  <2> QED
    BY <2>1, <2>3, TypePartsNext
<1>9. ASSUME LogSent PROVE TypeOK'
  <2>1. /\ page # << >> /\ Head(page) \in Requests /\ TryOver /\ UNCHANGED <<folded, inflight, queuedT, callVars>>
        /\ held' \subseteq Requests /\ alarm' \subseteq Requests
    BY <1>9, <1>t, HeadIs DEF LogSent, PassOK, SenderOK
  <2>2. Entry("sent", Head(page)) \in Entries
    BY <2>1, EntryIs
  <2>3. log' = Append(log, Entry("sent", Head(page))) \/ log' = log
    BY <1>9 DEF LogSent
  <2>4. LogOK'
    BY <1>t, <2>1, <2>2, <2>3 DEF LogOK
  <2>5. NetOK'
    BY <1>9, <1>t DEF LogSent, Spend, NetOK, Disturbances
  <2> QED
    BY <1>c, <1>6, <2>1, <2>4, <2>5, TypePartsNext
<1>f. ASSUME Failed, page # << >>, Head(page) \in Requests, left' \in [Disturbances -> Nat]
      PROVE  TypeOK'
  <2>1. LogOK' /\ CallOK'
    BY <1>f, <1>c, <1>l DEF Failed
  <2>2. TryOver /\ held' \subseteq Requests /\ alarm' \subseteq Requests
    BY <1>f, <1>t DEF Failed, SenderOK
  <2>3. NetOK'
    BY <1>f, <1>t DEF Failed, NetOK
  <2> QED
    BY <1>f, <1>6, <2>1, <2>2, <2>3, TypePartsNext
<1>10. ASSUME TryFails \/ SendOffline PROVE TypeOK'
  <2>1. page # << >> /\ Failed
    BY <1>10 DEF TryFails, SendOffline, PassOK
  <2>2. left' \in [Disturbances -> Nat]
    BY <1>10, <1>t DEF TryFails, SendOffline, Spend, NetOK, Disturbances
  <2> QED
    BY <1>t, <1>f, <2>1, <2>2, HeadIs
<1>11. ASSUME TryFinal PROVE TypeOK'
  <2>1. /\ page # << >> /\ Head(page) \in Requests /\ TryOver /\ UNCHANGED <<folded, inflight, queuedT, callVars>>
        /\ held' \subseteq Requests /\ alarm' \subseteq Requests
    BY <1>11, <1>t, HeadIs DEF TryFinal, PassOK, SenderOK
  <2>2. Entry("final", Head(page)) \in Entries
    BY <2>1, EntryIs
  <2>3. log' = Append(log, Entry("final", Head(page))) \/ log' = log
    BY <1>11 DEF TryFinal
  <2>4. LogOK'
    BY <1>t, <2>1, <2>2, <2>3 DEF LogOK
  <2>5. left' \in [Disturbances -> Nat]
    BY <1>11, <1>t DEF TryFinal, NetOK, Disturbances
  <2>6. NetOK'
    BY <1>11, <1>t, <2>1, <2>5 DEF TryFinal, NetOK
  <2> QED
    BY <1>c, <1>6, <2>1, <2>4, <2>6, TypePartsNext
<1>13. ASSUME PassFails PROVE TypeOK'
  <2>1. LogOK' /\ CallOK'
    BY <1>13, <1>c, <1>l DEF PassFails
  <2>2. more' \in BOOLEAN /\ page' = << >> /\ cursor' = 0 /\ goal' = 0
    BY <1>13 DEF PassFails, Forget
  <2>3. SenderOK'
    BY <1>13, <1>t, <1>e, <2>2 DEF PassFails, SenderOK
  <2>4. NetOK'
    BY <1>13, <1>t DEF PassFails, Spend, NetOK, Disturbances
  <2> QED
    BY <2>1, <2>3, <2>4, TypePartsNext
<1>12. ASSUME OnSignal \/ OnTimer \/ OnHour PROVE TypeOK'
  <2>1. LogOK' /\ CallOK'
    BY <1>12, <1>c, <1>l DEF OnSignal, OnTimer, OnHour
  <2>2. SenderOK'
    BY <1>12, <1>t DEF OnSignal, OnTimer, OnHour, SenderOK
  <2>3. sends' \in BOOLEAN
    BY <1>12, <1>t DEF OnSignal, OnTimer, OnHour, NetOK
  <2>4. UNCHANGED <<netVars, tried, left>>
    BY <1>12 DEF OnSignal, OnTimer, OnHour
  <2>5. NetOK'
    BY <1>t, <2>3, <2>4 DEF NetOK
  <2> QED
    BY <2>1, <2>2, <2>5, TypePartsNext
<1> QED
  BY <1>1, <1>2, <1>3, <1>4, <1>5, <1>7, <1>8, <1>9, <1>10, <1>11, <1>12, <1>13 DEF SenderStep

LEMMA OtherTypes ==
    ASSUME TypeOK, Fold \/ Connected \/ Published \/ Disconnected \/ Crash \/ Restart \/ UNCHANGED vars
    PROVE  TypeOK'
<1>t. LogOK /\ CallOK /\ SenderOK /\ NetOK /\ Len(log) \in Nat
  BY TypeParts, LogIs
<1> USE DEF logVars, callVars, senderVars, netVars, history
<1>1. ASSUME Fold PROVE TypeOK'
  <2>1. LogOK'
    BY <1>1, <1>t DEF Fold, LogOK
  <2>2. CallOK' /\ SenderOK' /\ NetOK'
    BY <1>1, <1>t DEF Fold, CallOK, SenderOK, NetOK
  <2> QED
    BY <2>1, <2>2, TypePartsNext
<1>2. ASSUME Connected \/ Published \/ Disconnected PROVE TypeOK'
  <2>1. LogOK' /\ CallOK' /\ SenderOK'
    BY <1>2, <1>t DEF Connected, Published, Disconnected, LogOK, CallOK, SenderOK
  <2>2. conn' \in {"offline", "connected", "online"} /\ taken' = taken /\ tried' = tried
    BY <1>2 DEF Connected, Published, Disconnected
  <2>3. left' \in [Disturbances -> Nat]
    BY <1>2, <1>t DEF Connected, Published, Disconnected, Spend, NetOK, Disturbances
  <2>4. sends' \in BOOLEAN
    BY <1>2, <1>t DEF Connected, Published, Disconnected, NetOK
  <2>5. NetOK'
    BY <1>t, <2>2, <2>3, <2>4 DEF NetOK
  <2> QED
    BY <2>1, <2>5, TypePartsNext
<1>3. ASSUME Crash PROVE TypeOK'
  <2>1. LogOK'
    BY <1>3, <1>t DEF Crash, LogOK
  <2>2. CallOK'
    BY <1>3, <1>t DEF Crash, CallOK
  <2>3. more' \in BOOLEAN /\ sends' \in BOOLEAN
    BY <1>3 DEF Crash
  <2>4. /\ sender' = "down" /\ goal' = 0 /\ cursor' = 0 /\ page' = << >>
        /\ held' = {} /\ alarm' = {}
    BY <1>3 DEF Crash
  <2>5. SenderOK'
    BY <2>3, <2>4, SendAssumption DEF SenderOK
  <2>6. left' \in [Disturbances -> Nat]
    BY <1>3, <1>t DEF Crash, Spend, NetOK, Disturbances
  <2>7. conn' = "offline" /\ taken' = taken /\ tried' = tried
    BY <1>3 DEF Crash
  <2>8. NetOK'
    BY <1>t, <2>3, <2>6, <2>7 DEF NetOK
  <2> QED
    BY <2>1, <2>2, <2>5, <2>8, TypePartsNext
<1>4. ASSUME Restart PROVE TypeOK'
  <2>1. LogOK' /\ CallOK' /\ SenderOK' /\ NetOK'
    BY <1>4, <1>t DEF Restart, LogOK, CallOK, SenderOK, NetOK
  <2> QED
    BY <2>1, TypePartsNext
<1>5. ASSUME UNCHANGED vars PROVE TypeOK'
  <2>1. LogOK' /\ CallOK' /\ SenderOK' /\ NetOK'
    BY <1>5, <1>t DEF vars, LogOK, CallOK, SenderOK, NetOK
  <2> QED
    BY <2>1, TypePartsNext
<1> QED
  BY <1>1, <1>2, <1>3, <1>4, <1>5

LEMMA TypeStep == TypeOK /\ PassOK /\ [Next]_vars => TypeOK'
BY RequestTypes, SenderTypes, OtherTypes DEF Next

-----------------------------------------------------------------------------
(* What a pass reads. *)

LEMMA UnsentIs ==
    ASSUME LogOK, SenderOK, NEW p \in Unsent(cursor)
    PROVE  /\ Len(p) \in 0..SendPage /\ p \in [1..Len(p) -> OwedAfter(cursor)]
           /\ \A k, l \in 1..Len(p) : k < l => Before(p[k], p[l])
           /\ \A i \in OwedAfter(cursor) : (\E k \in 1..Len(p) : p[k] = i)
                  \/ \A k \in 1..Len(p) : Before(p[k], i)
           /\ p # << >> => Len(p) \in 1..Len(p)
           /\ OwedAfter(cursor) \subseteq 1..folded
<1>1. PICK n \in 0..SendPage : p \in [1..n -> OwedAfter(cursor)]
  BY DEF Unsent, Pages
<1>2. n \in Nat /\ OwedAfter(cursor) \subseteq 1..folded /\ folded \in Nat /\ cursor \in Nat
  BY SendAssumption DEF OwedAfter, LogOK, SenderOK
<1>3. p \in Seq(Nat) /\ Len(p) = n /\ DOMAIN p = 1..n
  BY <1>1, <1>2
<1>4. p # << >> => n \in 1..n
  BY <1>2, <1>3, EmptySeq
<1> QED
  BY <1>1, <1>2, <1>3, <1>4 DEF Unsent

LEMMA ReadIs ==
    ASSUME LogOK, SenderOK, ReadPage
    PROVE  \E p \in Unsent(cursor) :
             /\ Len(page') = Len(p) /\ Len(p) \in Nat
             /\ \A k \in 1..Len(p) :
                  page'[k] = log[p[k]].id /\ page'[k] \in Requests /\ log[p[k]] = Entry("queue", page'[k])
             /\ cursor' = cursor \/ cursor' \in 1..folded
             /\ p = << >> => cursor' = cursor
             /\ p # << >> => cursor' = p[Len(p)]
<1>1. PICK p \in Unsent(cursor) :
          /\ page' = [k \in 1..Len(p) |-> log[p[k]].id]
          /\ cursor' = IF p = << >> THEN cursor ELSE p[Len(p)]
  BY DEF ReadPage
<1>2. /\ Len(p) \in Nat /\ p \in [1..Len(p) -> OwedAfter(cursor)]
      /\ p # << >> => Len(p) \in 1..Len(p)
      /\ OwedAfter(cursor) \subseteq 1..folded
  BY UnsentIs, SendAssumption
<1>3. \A k \in 1..Len(p) : p[k] \in 1..Len(log) /\ log[p[k]].op = "queue"
  BY <1>2 DEF OwedAfter, LogOK, SenderOK
<1>4. \A k \in 1..Len(p) : log[p[k]].id \in Requests /\ log[p[k]] = Entry("queue", log[p[k]].id)
  BY <1>3, LogIs, IsEntry
<1>5. page' \in Seq(Requests) /\ Len(page') = Len(p)
  BY <1>1, <1>2, <1>4
<1>6. cursor \in Nat /\ folded \in Nat
  BY DEF LogOK, SenderOK
<1>7. cursor' = cursor \/ cursor' \in 1..folded
  <2>1. CASE p = << >>
    BY <1>1, <1>6, <2>1
  <2>2. CASE p # << >>
    <3>1. p[Len(p)] \in 1..folded
      BY <1>2, <2>2
    <3> QED
      BY <1>1, <1>6, <2>2, <3>1
  <2> QED
    BY <2>1, <2>2
<1> QED
  BY <1>1, <1>2, <1>4, <1>5, <1>7

(* Every step keeps the sender's place: on a pass it has a cursor into what *)
(* is folded, and off one it has neither a cursor nor a page.               *)
LEMMA PassStep == TypeOK /\ PassOK /\ [Next]_vars => PassOK'
<1> SUFFICES ASSUME TypeOK, PassOK, [Next]_vars PROVE PassOK'
  OBVIOUS
<1>t. LogOK /\ SenderOK /\ Len(log) \in Nat /\ folded \in Nat /\ cursor \in Nat /\ goal \in Nat
  BY TypeParts, LogIs DEF SenderOK
<1> USE DEF logVars, callVars, senderVars, netVars, history, Passing
<1>1. ASSUME NEW r \in Requests, RequestStep(r) \/ BackoffEnds(r) PROVE PassOK'
  <2>1. /\ UNCHANGED <<folded, sender, goal, page, cursor>>
        /\ log' = log \/ \E e \in Entries : log' = Append(log, e)
    BY <1>1, EntryIs DEF RequestStep, TakeTurn, AnswerEarlier, Queue, GiveUp, Abandon, Commit, Queued,
                         Cancel, BackoffEnds
  <2>2. Len(log') \in Nat /\ Len(log') >= Len(log)
    BY <1>t, <2>1, Grown DEF LogGrows
  <2> QED
    BY <1>t, <2>1, <2>2 DEF PassOK
<1>2. ASSUME PassOffline \/ PassStart PROVE PassOK'
  BY <1>2, <1>t DEF PassOffline, PassStart, PassOK
<1>3. ASSUME ReadPage PROVE PassOK'
  <2>1. cursor' <= folded
    BY <1>3, <1>t, ReadIs DEF PassOK
  <2>2. folded' = folded /\ log' = log /\ goal' = 0 /\ sender' = "picking"
    BY <1>3 DEF ReadPage
  <2> QED
    BY <1>t, <2>1, <2>2 DEF PassOK
<1>4. ASSUME PageDone \/ FoundOffline PROVE PassOK'
  BY <1>4, <1>t DEF PageDone, FoundOffline, PassOver, Forget, PassOK
<1>12. ASSUME PassFails PROVE PassOK'
  BY <1>12, <1>t DEF PassFails, Forget, PassOK
<1>5. ASSUME SkipHeld PROVE PassOK'
  BY <1>5, <1>t DEF SkipHeld, PassOK
<1>6. ASSUME AskMaySend \/ MaySend \/ Taken PROVE PassOK'
  BY <1>6, <1>t DEF AskMaySend, MaySend, Taken, PassOK
<1>7. ASSUME MayNotSend \/ LogSent \/ TryFails \/ SendOffline \/ TryFinal PROVE PassOK'
  <2>1. /\ sender' = "picking" /\ goal' = 0 /\ cursor' = cursor /\ folded' = folded
        /\ sender \in {"checking", "sending", "logging"}
    BY <1>7 DEF MayNotSend, LogSent, TryFails, SendOffline, TryFinal, Failed, TryOver
  <2>2. log' = log \/ log' = Append(log, Entry("sent", Head(page)))
          \/ log' = Append(log, Entry("final", Head(page)))
    BY <1>7 DEF MayNotSend, LogSent, TryFails, SendOffline, TryFinal, Failed
  <2>3. Len(log') \in Nat
    BY <1>t, <2>1, <2>2, HeadIs, EntryIs, Grown DEF LogGrows, PassOK
  <2> QED
    BY <2>1, <2>3 DEF PassOK
<1>8. ASSUME OnSignal \/ OnTimer \/ OnHour \/ Restart PROVE PassOK'
  BY <1>8, <1>t DEF OnSignal, OnTimer, OnHour, Restart, PassOK
<1>9. ASSUME Fold PROVE PassOK'
  BY <1>9, <1>t DEF Fold, PassOK
<1>10. ASSUME Connected \/ Published \/ Disconnected \/ UNCHANGED vars PROVE PassOK'
  BY <1>10, <1>t DEF Connected, Published, Disconnected, vars, PassOK
<1>11. ASSUME Crash PROVE PassOK'
  BY <1>11, <1>t DEF Crash, PassOK
<1> QED
  BY <1>1, <1>2, <1>3, <1>4, <1>5, <1>6, <1>7, <1>8, <1>9, <1>10, <1>11, <1>12 DEF Next, SenderStep

LEMMA InitTypes == Init => TypeOK /\ PassOK
<1> SUFFICES ASSUME Init PROVE TypeOK /\ PassOK
  OBVIOUS
<1>1. LogOK
  BY DEF Init, LogOK
<1>2. CallOK
  BY DEF Init, CallOK
<1>3. SenderOK
  <2>1. more \in BOOLEAN
    BY DEF Init
  <2>2. sender = "start" /\ goal = 0 /\ cursor = 0 /\ page = << >> /\ held = {} /\ alarm = {}
    BY DEF Init
  <2> QED
    BY <2>1, <2>2, SendAssumption DEF SenderOK
<1>4. NetOK
  <2>1. sends \in BOOLEAN
    BY DEF Init
  <2>2. conn = "offline" /\ taken = {} /\ tried = {} /\ left \in Worlds
    BY DEF Init
  <2> QED
    BY <2>1, <2>2, SendAssumption DEF NetOK
<1>5. PassOK
  BY DEF Init, PassOK, Passing
<1> QED
  BY <1>1, <1>2, <1>3, <1>4, <1>5, TypeParts

(* Every variable keeps its type, among them: what is folded is logged, and *)
(* the sender has no more than a page at hand.                              *)
THEOREM OutboxTypeSafe == Spec => []TypeOK
<1>1. TypeOK /\ PassOK /\ [Next]_vars => (TypeOK /\ PassOK)'
  BY TypeStep, PassStep
<1> QED
  BY <1>1, InitTypes, PTL DEF Spec

-----------------------------------------------------------------------------
(* A request is queued once. *)

LEMMA QueuedOnceStep == TypeOK /\ PassOK /\ QueuedOnce /\ [Next]_vars => QueuedOnce'
<1> SUFFICES ASSUME TypeOK, PassOK, QueuedOnce, [Next]_vars PROVE QueuedOnce'
  OBVIOUS
<1>t. LogOK /\ CallOK /\ SenderOK /\ Len(log) \in Nat
  BY TypeParts, LogIs
<1>i. \A i \in 1..Len(log) : log[i].id \in Requests
  BY <1>t, LogIs, IsEntry
<1> USE DEF logVars, callVars, senderVars, netVars, history
<1>1. ASSUME log' = log, inflight' = inflight, call' = call PROVE QueuedOnce'
  BY <1>1 DEF QueuedOnce
<1>2. ASSUME NEW e \in Entries, log' = Append(log, e), e.op # "queue",
             inflight' = inflight, call' = call
      PROVE  QueuedOnce'
  <2>1. /\ Len(log') = Len(log) + 1 /\ log'[Len(log) + 1] = e
        /\ \A i \in 1..Len(log) : log'[i] = log[i]
    BY <1>t, <1>2, Grown DEF LogGrows
  <2> QED
    BY <1>2, <1>t, <2>1 DEF QueuedOnce
<1>3. ASSUME NEW r \in Requests, TakeTurn(r) \/ AnswerEarlier(r) \/ GiveUp(r) \/ Abandon(r) \/ Queued(r)
      PROVE  QueuedOnce'
  <2>1. log' = log /\ inflight' \subseteq inflight
    BY <1>3 DEF TakeTurn, AnswerEarlier, GiveUp, Abandon, Queued
  <2>2. \A s \in Requests :
          /\ call[s] \in {"logged", "answered", "failed"} => call'[s] \in {"logged", "answered", "failed"}
          /\ s \in inflight' /\ call[s] \in {"appending", "failed"} => call'[s] \in {"appending", "failed"}
    <3>1. CASE TakeTurn(r)
      BY <1>t, <3>1 DEF TakeTurn, CallOK
    <3>2. CASE AnswerEarlier(r)
      BY <1>t, <3>2 DEF AnswerEarlier, CallOK
    <3>3. CASE GiveUp(r)
      BY <1>t, <3>3 DEF GiveUp, CallOK
    <3>4. CASE Abandon(r)
      BY <1>t, <3>4 DEF Abandon, CallOK
    <3>5. CASE Queued(r)
      BY <1>t, <3>5 DEF Queued, CallOK
    <3> QED
      BY <1>3, <3>1, <3>2, <3>3, <3>4, <3>5
  <2> QED
    BY <1>t, <1>i, <2>1, <2>2 DEF QueuedOnce, CallOK
<1>4. ASSUME NEW r \in Requests, Queue(r) PROVE QueuedOnce'
  <2>1. /\ log' = log /\ inflight' = inflight \cup {r} /\ call[r] \in {"idle", "folding"}
        /\ call' = [call EXCEPT ![r] = "appending"]
    BY <1>4 DEF Queue
  <2> QED
    BY <1>t, <1>i, <2>1 DEF QueuedOnce, CallOK
<1>5. ASSUME NEW r \in Requests, Commit(r) PROVE QueuedOnce'
  <2>1. /\ log' = Append(log, Entry("queue", r)) /\ inflight' = inflight \ {r} /\ r \in inflight
        /\ call' = [call EXCEPT ![r] = IF @ = "appending" THEN "logged" ELSE @]
    BY <1>5 DEF Commit
  <2>2. Entry("queue", r) \in Entries /\ Entry("queue", r).id = r
    BY EntryIs
  <2>3. /\ Len(log') = Len(log) + 1 /\ log'[Len(log) + 1] = Entry("queue", r)
        /\ \A i \in 1..Len(log) : log'[i] = log[i]
    BY <1>t, <2>1, <2>2, Grown DEF LogGrows
  <2>4. \A i \in 1..Len(log) : log[i].op = "queue" => log[i].id # r
    BY <2>1 DEF QueuedOnce
  <2>5. call'[r] \in {"logged", "failed"} /\ \A s \in Requests : s # r => call'[s] = call[s]
    BY <1>t, <2>1 DEF QueuedOnce, CallOK
  <2>6. \A i, j \in 1..Len(log') :
          log'[i].op = "queue" /\ log'[j].op = "queue" /\ log'[i].id = log'[j].id => i = j
    BY <1>t, <2>2, <2>3, <2>4 DEF QueuedOnce
  <2>7. \A i \in 1..Len(log') : log'[i].op = "queue" =>
          log'[i].id \notin inflight' /\ call'[log'[i].id] \in {"logged", "answered", "failed"}
    BY <1>t, <1>i, <2>1, <2>2, <2>3, <2>5 DEF QueuedOnce
  <2>8. \A s \in inflight' : call'[s] \in {"appending", "failed"}
    BY <1>t, <2>1, <2>5 DEF QueuedOnce, CallOK
  <2> QED
    BY <2>6, <2>7, <2>8 DEF QueuedOnce
<1>6. ASSUME NEW r \in Requests, Cancel(r) PROVE QueuedOnce'
  BY <1>6, <1>2, EntryIs DEF Cancel
<1>7. ASSUME LogSent \/ TryFinal PROVE QueuedOnce'
  <2>1. Head(page) \in Requests
    BY <1>7, <1>t, HeadIs DEF LogSent, TryFinal, PassOK
  <2>2. inflight' = inflight /\ call' = call
    BY <1>7 DEF LogSent, TryFinal
  <2>3. log' = log \/ log' = Append(log, Entry("sent", Head(page)))
          \/ log' = Append(log, Entry("final", Head(page)))
    BY <1>7 DEF LogSent, TryFinal
  <2> QED
    BY <1>1, <1>2, <2>1, <2>2, <2>3, EntryIs
<1>8. ASSUME \/ PassOffline \/ PassStart \/ ReadPage \/ PageDone
             \/ SkipHeld \/ FoundOffline \/ AskMaySend \/ MayNotSend \/ MaySend
             \/ Taken \/ TryFails \/ SendOffline \/ OnSignal \/ OnTimer \/ OnHour \/ PassFails
      PROVE  QueuedOnce'
  BY <1>8, <1>1 DEF PassOffline, PassStart, ReadPage, PageDone, SkipHeld, FoundOffline, AskMaySend,
       MayNotSend, MaySend, Taken, TryFails, SendOffline, Failed, OnSignal, OnTimer, OnHour, PassFails
<1>9. ASSUME \/ Fold \/ Connected \/ Published \/ Disconnected \/ Restart \/ UNCHANGED vars
             \/ \E r \in Requests : BackoffEnds(r)
      PROVE  QueuedOnce'
  BY <1>9, <1>1 DEF Fold, Connected, Published, Disconnected, Restart, vars, BackoffEnds
<1>10. ASSUME Crash PROVE QueuedOnce'
  <2>1. log' = log /\ inflight' = {}
    BY <1>10 DEF Crash
  <2>2. \A s \in Requests :
          call[s] \in {"logged", "answered", "failed"} => call'[s] \in {"logged", "answered", "failed"}
    BY <1>10 DEF Crash
  <2> QED
    BY <1>t, <1>i, <2>1, <2>2 DEF QueuedOnce
<1> QED
  BY <1>3, <1>4, <1>5, <1>6, <1>7, <1>8, <1>9, <1>10 DEF Next, RequestStep, SenderStep

-----------------------------------------------------------------------------
(* The page while the log grows: its head may go.                           *)

PageMoves(d) == Len(page') = Len(page) - d /\ \A k \in 1..Len(page') : page'[k] = page[k + d]

LEMMA Moves ==
    ASSUME SenderOK, page # << >>, page' = Tail(page)
    PROVE  PageMoves(1)
BY TailIs DEF PageMoves

LEMMA Stays == ASSUME SenderOK, page' = page PROVE PageMoves(0)
<1>1. Len(page) \in Nat
  BY DEF SenderOK
<1> QED
  BY <1>1 DEF PageMoves

(* A place in the log that a page was read from is the send's only one. *)
LEMMA OnePlace ==
    ASSUME LogOK, QueuedOnce, NEW i \in 1..Len(log), NEW j \in 1..Len(log), NEW id \in Requests,
           log[i] = Entry("queue", id), log[j] = Entry("queue", id)
    PROVE  i = j
BY EntryIs DEF QueuedOnce

LEMMA PageKeeps ==
    ASSUME LogOK, SenderOK, PassOK, CursorOK, PageQueued, PageSorted, QueuedOnce', LogOK',
           NEW S, LogGrows(S), StampsStay, cursor' = cursor, NEW d \in {0, 1}, PageMoves(d)
    PROVE  CursorOK' /\ PageQueued' /\ PageSorted'
<1>1. Len(page) \in Nat /\ Len(log) \in Nat /\ Len(log') \in Nat /\ Len(log') >= Len(log)
  BY LogIs DEF SenderOK, LogOK, LogGrows
<1>2. \A k \in 1..Len(page') : k + d \in 1..Len(page) /\ page'[k] = page[k + d]
  BY <1>1 DEF PageMoves
<1>3. \A i \in 1..Len(log) : i \in 1..Len(log') /\ log'[i] = log[i]
  BY <1>1 DEF LogGrows
<1>p. \A k \in 1..Len(page') : page'[k] \in Requests
  <2>1. \A k \in 1..Len(page) : page[k] \in Requests
    BY DEF SenderOK
  <2> QED
    BY <1>2, <2>1
<1>4. ASSUME NEW k \in 1..Len(page')
      PROVE  \E i \in 1..Len(log) : /\ Past(i)' /\ log'[i] = Entry("queue", page'[k])
                                    /\ log[i] = Entry("queue", page[k + d])
  <2>1. PICK i \in 1..Len(log) : Past(i) /\ log[i] = Entry("queue", page[k + d])
    BY <1>2 DEF PageQueued
  <2>2. log[i].op = "queue"
    BY <2>1 DEF Entry
  <2>3. Past(i)'
    BY <2>1, <2>2, PastStays
  <2> QED
    BY <1>2, <1>3, <2>1, <2>3
<1>5. ASSUME NEW k \in 1..Len(page'), NEW l \in 1..Len(page'), k < l,
             NEW i \in 1..Len(log'), NEW j \in 1..Len(log'),
             log'[i] = Entry("queue", page'[k]), log'[j] = Entry("queue", page'[l])
      PROVE  Before(i, j)'
  <2>1. PICK x \in 1..Len(log) : log'[x] = Entry("queue", page'[k]) /\ log[x] = Entry("queue", page[k + d])
    BY <1>4
  <2>2. PICK y \in 1..Len(log) : log'[y] = Entry("queue", page'[l]) /\ log[y] = Entry("queue", page[l + d])
    BY <1>4
  <2>3. page'[k] \in Requests /\ page'[l] \in Requests
    BY <1>p
  <2>u. \A m, n \in 1..Len(log') :
          log'[m].op = "queue" /\ log'[n].op = "queue" /\ log'[m].id = log'[n].id => m = n
    BY DEF QueuedOnce
  <2>x. x \in 1..Len(log') /\ y \in 1..Len(log')
    BY <1>3
  <2>e. /\ log'[i].op = "queue" /\ log'[i].id = page'[k] /\ log'[x].op = "queue" /\ log'[x].id = page'[k]
        /\ log'[j].op = "queue" /\ log'[j].id = page'[l] /\ log'[y].op = "queue" /\ log'[y].id = page'[l]
    <3>1. \A r \in Requests : Entry("queue", r).op = "queue" /\ Entry("queue", r).id = r
      BY EntryIs
    <3> QED
      BY <1>5, <2>1, <2>2, <2>3, <3>1
  <2>4. i = x /\ j = y
    BY <2>u, <2>x, <2>e
  <2>5. k + d < l + d /\ k + d \in 1..Len(page) /\ l + d \in 1..Len(page)
    BY <1>2, <1>5
  <2>6. Before(x, y)
    BY <2>1, <2>2, <2>5 DEF PageSorted
  <2>7. log[x].op = "queue" /\ log[y].op = "queue"
    BY <2>1, <2>2 DEF Entry
  <2> QED
    BY <2>4, <2>6, <2>7, BeforeStays
<1>6. PageQueued'
  BY <1>3, <1>4 DEF PageQueued
<1>7. PageSorted'
  BY <1>5 DEF PageSorted
<1>8. CursorOK'
  BY <1>3 DEF CursorOK
<1> QED
  BY <1>6, <1>7, <1>8

(* No send is twice on a page. *)
LEMMA PageDistinct ==
    ASSUME LogOK, PageQueued, PageSorted,
           NEW k \in 1..Len(page), NEW l \in 1..Len(page), k < l
    PROVE  page[k] # page[l]
<1>1. PICK i \in 1..Len(log) : log[i] = Entry("queue", page[k])
  BY DEF PageQueued
<1>2. page[k] = page[l] => Before(i, i)
  BY <1>1 DEF PageSorted
<1> QED
  BY <1>2, OrderIs

(* What leaves the page is dealt with. *)
LEMMA BehindKeeps ==
    ASSUME LogOK, LogOK', SenderOK, CursorOK, Behind, NEW S, LogGrows(S), StampsStay, cursor' = cursor,
           NEW d \in {0, 1}, PageMoves(d), taken \subseteq taken', tried \subseteq tried',
           d = 1 => page # << >> /\ DealtNext(Head(page))
    PROVE  Behind'
<1>1. Len(page) \in Nat /\ Len(log) \in Nat /\ Len(log') \in Nat /\ Len(log') >= Len(log) /\ cursor \in Nat
  BY LogIs DEF SenderOK, LogOK, LogGrows
<1>2. \A i \in 1..Len(log) : i \in 1..Len(log') /\ log'[i] = log[i]
  BY <1>1 DEF LogGrows
<1>3. \A id : DealtWith(id) => DealtNext(id)
  BY <1>1, <1>2 DEF DealtWith, DealtNext, Logged
<1>4. ASSUME NEW i \in 1..Len(log'), log'[i].op = "queue", InStep(i)', Past(i)'
      PROVE  DealtNext(log'[i].id) \/ \E k \in 1..Len(page') : page'[k] = log'[i].id
  <2>c. /\ cursor \in 1..Len(log) /\ log[cursor].op = "queue" /\ log'[cursor].op = "queue"
        /\ i = cursor \/ Before(i, cursor)'
    BY <1>2, <1>4 DEF CursorOK, Past
  <2>n. i \in 1..Len(log)
    <3> SUFFICES ASSUME i \notin 1..Len(log) PROVE FALSE
      OBVIOUS
    <3>1. i \in Nat /\ cursor < i /\ cursor \in 1..(i - 1)
      BY <1>1, <2>c
    <3>2. Stamp(cursor)' <= Stamp(i)'
      <4>1. \A n \in 1..(i - 1) : log'[n].op = "queue" => Stamp(n)' <= Stamp(i)'
        BY <1>4 DEF InStep
      <4> QED
        BY <2>c, <3>1, <4>1
    <3>3. cursor \in 1..Len(log') /\ i # cursor
      BY <1>2, <2>c, <3>1
    <3>4. Stamp(cursor)' \in Nat /\ Stamp(i)' \in Nat
      BY <3>3, LogOrderNext
    <3> QED
      BY <2>c, <3>1, <3>2, <3>3, <3>4 DEF Before
  <2>1. log'[i] = log[i]
    BY <1>2, <2>n
  <2>p. Past(i)
    BY <1>4, <2>n, <2>1, PastStays
  <2>s. InStep(i)
    <3> SUFFICES ASSUME NEW n \in 1..(i - 1), log[n].op = "queue" PROVE Stamp(n) <= Stamp(i)
      BY DEF InStep
    <3>1. n \in 1..Len(log)
      BY <1>1, <2>n
    <3>2. Stamp(n)' <= Stamp(i)'
      BY <1>2, <1>4, <3>1 DEF InStep
    <3>3. Stamp(n)' = Stamp(n) /\ Stamp(i)' = Stamp(i)
      BY <1>4, <2>n, <2>1, <3>1, StampIs
    <3> QED
      BY <3>2, <3>3
  <2>2. CASE DealtWith(log[i].id)
    BY <1>3, <2>1, <2>2
  <2>3. CASE \E k \in 1..Len(page) : page[k] = log[i].id
    <3>1. PICK k \in 1..Len(page) : page[k] = log[i].id
      BY <2>3
    <3>2. CASE d = 0
      BY <1>1, <2>1, <3>1, <3>2 DEF PageMoves
    <3>3. CASE d = 1 /\ k = 1
      <4>1. page[k] = Head(page)
        BY <3>3, HeadIs
      <4>2. DealtNext(page[k])
        BY <3>3, <4>1
      <4> QED
        BY <2>1, <3>1, <4>2
    <3>4. CASE d = 1 /\ k # 1
      <4>1. k - 1 \in 1..Len(page') /\ page'[k - 1] = page[k]
        BY <1>1, <3>4 DEF PageMoves
      <4> QED
        BY <2>1, <3>1, <4>1
    <3> QED
      BY <3>2, <3>3, <3>4
  <2> QED
    BY <1>4, <2>1, <2>2, <2>3, <2>n, <2>p, <2>s DEF Behind
<1> QED
  BY <1>4 DEF Behind, DealtWith, DealtNext, Logged

(* Only the send at hand ends. *)
LEMMA EndsKeep ==
    ASSUME LogOK, SenderOK, PassOK, PageQueued, PageSorted, PageFresh, NEW S, LogGrows(S),
           NEW d \in {0, 1}, PageMoves(d),
           \A e \in S : e.op \in Ends => d = 1 /\ page # << >> /\ e.id = Head(page)
    PROVE  PageFresh'
<1>1. Len(page) \in Nat /\ Len(log) \in Nat
  BY LogIs DEF SenderOK
<1>2. ASSUME NEW k \in 1..Len(page'), NEW i \in 1..Len(log'), log'[i].op \in Ends
      PROVE  log'[i].id # page'[k]
  <2>1. k + d \in 1..Len(page) /\ page'[k] = page[k + d]
    BY <1>1 DEF PageMoves
  <2>2. CASE i \in 1..Len(log)
    BY <1>2, <2>1, <2>2 DEF PageFresh, LogGrows
  <2>3. CASE i \notin 1..Len(log)
    <3>1. i \in (Len(log) + 1)..Len(log')
      BY <1>1, <2>3 DEF LogGrows
    <3>2. log'[i] \in S
      BY <3>1 DEF LogGrows
    <3>3. d = 1 /\ page # << >> /\ log'[i].id = Head(page)
      BY <1>2, <3>2
    <3>4. Head(page) = page[1] /\ 1 \in 1..Len(page) /\ 1 < k + d
      BY <3>3, HeadIs
    <3> QED
      BY <2>1, <3>3, <3>4, PageDistinct
  <2> QED
    BY <2>2, <2>3
<1> QED
  BY <1>2 DEF PageFresh

LEMMA Upper ==
    ASSUME NEW m \in Nat, NEW n \in Nat, NEW i \in (m + 1)..n PROVE i \in 1..n
OBVIOUS

LEMMA EndsBehindKeep ==
    ASSUME LogOK, SenderOK, PassOK, CursorOK, PageQueued, EndsBehind, NEW S, LogGrows(S), StampsStay,
           cursor' = cursor, folded' \in Nat, folded' >= folded,
           sender \in Passing => sender' \in Passing,
           sender \in Passing \/ sender' \notin Passing,
           sender' = "folding" => sender = "folding" /\ goal' = goal,
           \A e \in S : e.op \in Ends => sender \in Passing /\ page # << >> /\ e.id = Head(page)
    PROVE  EndsBehind'
<1>1. /\ Len(page) \in Nat /\ Len(log) \in Nat /\ cursor \in Nat /\ cursor <= Len(log) /\ goal \in Nat
      /\ folded \in Nat
  BY LogIs DEF SenderOK, PassOK, LogOK
<1>2. ASSUME sender' = "folding", NEW i \in (goal' + 1)..Len(log') PROVE log'[i].op \notin Ends
  <2>1. sender \notin Passing
    BY <1>2 DEF Passing
  <2>2. CASE i \in 1..Len(log)
    BY <1>1, <1>2, <2>2 DEF EndsBehind, LogGrows
  <2>3. CASE i \notin 1..Len(log)
    BY <1>1, <1>2, <2>1, <2>3 DEF LogGrows
  <2> QED
    BY <2>2, <2>3
<1>3. ASSUME sender' \in Passing, NEW i \in (folded' + 1)..Len(log'), log'[i].op \in Ends
      PROVE  \E j \in 1..Len(log') : Past(j)' /\ log'[j] = Entry("queue", log'[i].id)
  <2>g. \A j \in 1..Len(log) : j \in 1..Len(log') /\ log'[j] = log[j]
    BY <1>1 DEF LogGrows
  <2>1. ASSUME NEW j \in 1..Len(log), Past(j), NEW id, log[j] = Entry("queue", id)
        PROVE  j \in 1..Len(log') /\ Past(j)' /\ log'[j] = Entry("queue", id)
    <3>1. log[j].op = "queue"
      BY <2>1 DEF Entry
    <3> QED
      BY <2>g, <2>1, <3>1, PastStays
  <2>2. CASE i \in 1..Len(log)
    <3>1. i \in (folded + 1)..Len(log) /\ log'[i] = log[i] /\ sender \in Passing
      BY <1>1, <1>3, <2>2 DEF LogGrows
    <3>2. PICK j \in 1..Len(log) : Past(j) /\ log[j] = Entry("queue", log[i].id)
      BY <1>3, <3>1 DEF EndsBehind
    <3> QED
      BY <2>1, <3>1, <3>2
  <2>3. CASE i \notin 1..Len(log)
    <3>1. log'[i] \in S
      <4>0. Len(log') \in Nat
        BY DEF LogGrows
      <4>1. i \in 1..Len(log')
        BY <4>0, Upper
      <4>2. i \in (Len(log) + 1)..Len(log')
        BY <1>1, <2>3, <4>0, <4>1
      <4> QED
        BY <4>2 DEF LogGrows
    <3>2. page # << >> /\ log'[i].id = Head(page)
      BY <1>3, <3>1
    <3>3. Head(page) = page[1] /\ 1 \in 1..Len(page)
      BY <3>2, HeadIs
    <3>4. PICK j \in 1..Len(log) : Past(j) /\ log[j] = Entry("queue", page[1])
      BY <3>3 DEF PageQueued
    <3> QED
      BY <2>1, <3>2, <3>3, <3>4
  <2> QED
    BY <2>2, <2>3
<1> QED
  BY <1>2, <1>3 DEF EndsBehind

-----------------------------------------------------------------------------
(* What the sender knows of its page, step by step. *)

PageInv == CursorOK /\ PageQueued /\ PageSorted /\ Behind /\ PageFresh /\ EndsBehind

LEMMA SenderParts == SenderInv <=> TypeOK /\ PassOK /\ QueuedOnce /\ EndsMeant /\ PageInv /\ CancelStops
BY DEF SenderInv, PageInv

(* The page stays, or loses its head, while the log grows. *)
LEMMA PageStaysOrMoves ==
    ASSUME TypeOK, PassOK, PageInv, TypeOK', QueuedOnce',
           NEW S, LogGrows(S), StampsStay, cursor' = cursor, folded' >= folded,
           NEW d \in {0, 1}, PageMoves(d), taken \subseteq taken', tried \subseteq tried',
           d = 1 => page # << >> /\ DealtNext(Head(page)),
           \A e \in S : e.op \in Ends => sender \in Passing /\ d = 1 /\ page # << >> /\ e.id = Head(page),
           sender \in Passing <=> sender' \in Passing,
           sender' = "folding" => sender = "folding" /\ goal' = goal
    PROVE  PageInv'
<1>1. LogOK /\ SenderOK /\ LogOK' /\ folded' \in Nat
  BY TypeParts, TypePartsNext DEF LogOK
<1>2. CursorOK' /\ PageQueued' /\ PageSorted'
  BY <1>1, PageKeeps DEF PageInv
<1>3. Behind'
  BY <1>1, BehindKeeps DEF PageInv
<1>4. PageFresh'
  BY <1>1, EndsKeep DEF PageInv
<1>5. EndsBehind'
  BY <1>1, EndsBehindKeep DEF PageInv
<1> QED
  BY <1>2, <1>3, <1>4, <1>5 DEF PageInv

LEMMA EndsMeantKeeps ==
    ASSUME LogOK, EndsMeant, NEW S, LogGrows(S), taken \subseteq taken', tried \subseteq tried',
           \A e \in S : (e.op = "sent" => e.id \in taken') /\ (e.op = "final" => e.id \in tried'),
           held' \subseteq tried', sender' = "logging" => Head(page') \in taken'
    PROVE  EndsMeant'
<1>1. Len(log) \in Nat
  BY LogIs
<1>2. ASSUME NEW i \in 1..Len(log')
      PROVE  /\ log'[i].op = "sent" => log'[i].id \in taken'
             /\ log'[i].op = "final" => log'[i].id \in tried'
  <2>1. CASE i \in 1..Len(log)
    BY <2>1 DEF EndsMeant, LogGrows
  <2>2. CASE i \notin 1..Len(log)
    <3>1. PICK e \in S : log'[i] = e
      BY <1>1, <2>2 DEF LogGrows
    <3>2. (e.op = "sent" => e.id \in taken') /\ (e.op = "final" => e.id \in tried')
      OBVIOUS
    <3> QED
      BY <3>1, <3>2
  <2> QED
    BY <2>1, <2>2
<1> QED
  BY <1>2 DEF EndsMeant

(* Only what is committed now gets its time. *)
LEMMA StampsKept == SenderInv /\ [Next]_vars => StampsStay
<1> SUFFICES ASSUME SenderInv, [Next]_vars PROVE StampsStay
  OBVIOUS
<1>1. CASE \E r \in Requests : Commit(r)
  <2>1. PICK r \in Requests : Commit(r)
    BY <1>1
  <2>2. PICK t \in Times : queuedT' = [queuedT EXCEPT ![r] = t]
    BY <2>1 DEF Commit
  <2>3. r \in inflight /\ QueuedOnce /\ LogOK
    BY <2>1, TypeParts DEF Commit, SenderInv
  <2>4. \A i \in 1..Len(log) : log[i].op = "queue" => log[i].id # r /\ log[i].id \in Requests
    BY <2>3, LogIs, IsEntry DEF QueuedOnce
  <2> QED
    BY <2>2, <2>3, <2>4 DEF StampsStay, LogOK
<1>2. CASE ~\E r \in Requests : Commit(r)
  <2>1. queuedT' = queuedT
    BY <1>2 DEF Next, RequestStep, TakeTurn, AnswerEarlier, Queue, GiveUp, Abandon, Queued,
       Cancel, BackoffEnds, SenderStep, PassOffline, PassStart, ReadPage, PassFails, PageDone, SkipHeld,
       FoundOffline, AskMaySend, MayNotSend, MaySend, Taken, LogSent, TryFails, SendOffline, Failed,
       TryFinal, OnSignal, OnTimer, OnHour, Fold, Connected, Published, Disconnected, Crash, Restart,
       vars, logVars
  <2> QED
    BY <2>1 DEF StampsStay
<1> QED
  BY <1>1, <1>2

(* Steps of others leave the sender where it is. *)
LEMMA AsideStep ==
    ASSUME SenderInv, TypeOK', QueuedOnce', NEW S, LogGrows(S), StampsStay, \A e \in S : e.op \notin Ends,
           UNCHANGED <<sender, goal, page, cursor, taken, tried>>, folded' >= folded,
           held' \subseteq held
    PROVE  EndsMeant' /\ PageInv' /\ CancelStops'
<1>t. TypeOK /\ PassOK /\ QueuedOnce /\ EndsMeant /\ PageInv /\ CancelStops /\ LogOK /\ SenderOK
  BY SenderParts, TypeParts
<1>1. PageMoves(0)
  BY <1>t, Stays
<1>2. PageInv'
  BY <1>t, <1>1, PageStaysOrMoves
<1>3. EndsMeant'
  BY <1>t, EndsMeantKeeps DEF EndsMeant, Ends
<1>4. CancelStops'
  <2>1. \A i \in 1..goal : log'[i] = log[i]
    BY <1>t, LogIs DEF LogGrows, PassOK, SenderOK
  <2> QED
    BY <1>t, <2>1 DEF CancelStops
<1> QED
  BY <1>2, <1>3, <1>4

LEMMA OthersStep ==
    ASSUME SenderInv, TypeOK', QueuedOnce', StampsStay,
           \/ \E r \in Requests : RequestStep(r) \/ BackoffEnds(r)
           \/ Fold \/ Connected \/ Published \/ Disconnected \/ UNCHANGED vars
    PROVE  EndsMeant' /\ PageInv' /\ CancelStops'
<1>t. LogOK /\ SenderOK /\ folded \in Nat
  BY SenderParts, TypeParts, LogIs
<1> USE DEF logVars, callVars, senderVars, netVars, history
<1>1. ASSUME NEW r \in Requests, RequestStep(r) \/ BackoffEnds(r)
      PROVE  EndsMeant' /\ PageInv' /\ CancelStops'
  <2>1. UNCHANGED <<sender, goal, page, cursor, taken, tried, folded>> /\ held' \subseteq held
    BY <1>1 DEF RequestStep, TakeTurn, AnswerEarlier, Queue, GiveUp, Abandon, Commit, Queued,
                Cancel, BackoffEnds
  <2>2. log' = log \/ log' = Append(log, Entry("queue", r)) \/ log' = Append(log, Entry("cancel", r))
    BY <1>1 DEF RequestStep, TakeTurn, AnswerEarlier, Queue, GiveUp, Abandon, Commit, Queued,
                Cancel, BackoffEnds
  <2>3. CASE log' = log
    BY <1>t, <2>1, <2>3, NotGrown, AsideStep
  <2>4. ASSUME NEW e \in Entries, e.op \notin Ends, log' = Append(log, e)
        PROVE  EndsMeant' /\ PageInv' /\ CancelStops'
    <3>1. LogGrows({e})
      BY <1>t, <2>4, Grown
    <3>2. \A f \in {e} : f.op \notin Ends
      BY <2>4
    <3>3. folded' >= folded
      BY <1>t, <2>1
    <3> QED
      BY <2>1, <3>1, <3>2, <3>3, AsideStep
  <2> QED
    BY <2>2, <2>3, <2>4, EntryIs DEF Ends
<1>2. ASSUME Fold \/ Connected \/ Published \/ Disconnected \/ UNCHANGED vars
      PROVE  EndsMeant' /\ PageInv' /\ CancelStops'
  <2>1. /\ UNCHANGED <<log, sender, goal, page, cursor, taken, tried, held>>
    BY <1>2 DEF Fold, Connected, Published, Disconnected, vars
  <2>2. folded' >= folded
    BY <1>2, <1>t DEF Fold, Connected, Published, Disconnected, vars
  <2>3. LogGrows({})
    BY <1>t, <2>1, NotGrown
  <2> QED
    BY <2>1, <2>2, <2>3, AsideStep
<1> QED
  BY <1>1, <1>2

(* The sender wakes up, sleeps or dies: it forgets its page. *)
LEMMA RestStep ==
    ASSUME SenderInv, TypeOK', log' = log, taken' = taken, tried' = tried, held' \subseteq held,
           sender' \in {"down", "start", "asleep", "retrying"}, page' = << >>, cursor' = 0
    PROVE  EndsMeant' /\ PageInv' /\ CancelStops'
<1>1. EndsMeant'
  BY DEF SenderInv, EndsMeant
<1>2. CursorOK' /\ PageQueued' /\ PageSorted' /\ PageFresh'
  BY DEF CursorOK, PageQueued, PageSorted, PageFresh
<1>3. Behind' /\ EndsBehind' /\ CancelStops'
  BY DEF Behind, Past, EndsBehind, CancelStops, Passing
<1> QED
  BY <1>1, <1>2, <1>3 DEF PageInv

LEMMA RestsStep ==
    ASSUME SenderInv, TypeOK',
           \/ PassOffline \/ (PageDone /\ ~more) \/ FoundOffline \/ PassFails
           \/ OnSignal \/ OnTimer \/ OnHour \/ Crash \/ Restart
    PROVE  EndsMeant' /\ PageInv' /\ CancelStops'
<1> USE DEF logVars, senderVars, netVars, history
<1>p. sender \notin Passing => cursor = 0 /\ page = << >>
  BY DEF SenderInv, PassOK
<1>1. CASE PassOffline \/ OnSignal \/ OnTimer \/ OnHour \/ Restart
  <2>1. /\ log' = log /\ taken' = taken /\ tried' = tried /\ held' \subseteq held
        /\ sender' \in {"start", "asleep"} /\ page' = page /\ cursor' = cursor
        /\ sender \notin Passing
    BY <1>1 DEF PassOffline, OnSignal, OnTimer, OnHour, Restart, Passing
  <2> QED
    BY <1>p, <2>1, RestStep
<1>2. CASE (PageDone /\ ~more) \/ FoundOffline
  BY <1>2, RestStep DEF PageDone, FoundOffline, PassOver, Forget
<1>4. CASE PassFails
  BY <1>4, RestStep DEF PassFails, Forget
<1>3. CASE Crash
  BY <1>3, RestStep DEF Crash
<1> QED
  BY <1>1, <1>2, <1>3, <1>4

(* A pass begins: what ended is in the log it will wait for. *)
LEMMA StartStep ==
    ASSUME SenderInv, TypeOK', PassStart
    PROVE  EndsMeant' /\ PageInv' /\ CancelStops'
<1>1. /\ log' = log /\ page' = << >> /\ cursor' = 0 /\ goal' = Len(log) /\ sender' = "folding"
      /\ taken' = taken /\ tried' = tried /\ held' = held
  BY DEF SenderInv, PassOK, PassStart, Passing, logVars, netVars, history
<1>2. Len(log) \in Nat
  BY SenderParts, TypeParts, LogIs
<1>3. EndsMeant'
  BY <1>1 DEF SenderInv, EndsMeant
<1>4. CursorOK' /\ PageQueued' /\ PageSorted' /\ PageFresh' /\ Behind'
  BY <1>1 DEF CursorOK, PageQueued, PageSorted, PageFresh, Behind, Past
<1>5. EndsBehind' /\ CancelStops'
  BY <1>1, <1>2 DEF EndsBehind, CancelStops, Passing
<1> QED
  BY <1>3, <1>4, <1>5 DEF PageInv

(* The sender goes through its page. *)
LEMMA OnPageStep ==
    ASSUME SenderInv, TypeOK', QueuedOnce', StampsStay,
           \/ (PageDone /\ more) \/ SkipHeld \/ AskMaySend \/ MayNotSend \/ MaySend
           \/ Taken \/ LogSent \/ TryFails \/ SendOffline \/ TryFinal
    PROVE  EndsMeant' /\ PageInv' /\ CancelStops'
<1>t. /\ TypeOK /\ PassOK /\ QueuedOnce /\ EndsMeant /\ PageInv /\ CancelStops
      /\ LogOK /\ SenderOK /\ folded \in Nat /\ Len(log) \in Nat
  BY SenderParts, TypeParts, LogIs
<1> USE DEF logVars, callVars, senderVars, netVars, history
<1>1. ASSUME (PageDone /\ more) \/ AskMaySend \/ MaySend \/ Taken PROVE PageInv' /\ EndsMeant'
  <2>1. /\ UNCHANGED <<log, folded, cursor, page, tried, held>> /\ taken \subseteq taken'
        /\ sender \in Passing /\ sender' \in Passing
    BY <1>1 DEF PageDone, AskMaySend, MaySend, Taken, Passing
  <2>2. LogGrows({}) /\ PageMoves(0)
    BY <1>t, <2>1, NotGrown, Stays
  <2>3. PageInv'
    BY <1>t, <2>1, <2>2, PageStaysOrMoves DEF Passing
  <2>4. sender' = "logging" => Head(page') \in taken'
    BY <1>1 DEF PageDone, AskMaySend, MaySend, Taken
  <2>5. EndsMeant'
    BY <1>t, <2>1, <2>2, <2>4, EndsMeantKeeps DEF EndsMeant
  <2> QED
    BY <2>3, <2>5
<1>2. ASSUME (PageDone /\ more) \/ AskMaySend PROVE CancelStops'
  BY <1>2 DEF PageDone, AskMaySend, CancelStops
<1>3. ASSUME MaySend PROVE CancelStops'
  <2>1. /\ goal' = goal /\ log' = log /\ page' = page /\ goal <= folded
        /\ \A i \in 1..folded : log[i] # Entry("cancel", Head(page))
    BY <1>3, <1>t DEF MaySend, Reached, Seen, SenderOK
  <2>2. \A i \in 1..goal : i \in 1..folded
    BY <1>t, <2>1 DEF SenderOK
  <2> QED
    BY <2>1, <2>2 DEF CancelStops
<1>4. ASSUME Taken PROVE CancelStops'
  BY <1>4, <1>t DEF Taken, CancelStops
<1>5. ASSUME NEW S, LogGrows(S), page # << >>, page' = Tail(page), cursor' = cursor, folded' = folded,
             sender \in Passing, sender' = "picking", DealtNext(Head(page)),
             taken \subseteq taken', tried \subseteq tried', held' \subseteq tried',
             \A e \in S : e.op \in Ends => e.id = Head(page),
             \A e \in S : (e.op = "sent" => e.id \in taken') /\ (e.op = "final" => e.id \in tried')
      PROVE  EndsMeant' /\ PageInv' /\ CancelStops'
  <2>1. PageMoves(1)
    BY <1>t, <1>5, Moves
  <2>s. \A e \in S : e.op \in Ends => sender \in Passing /\ page # << >> /\ e.id = Head(page)
    BY <1>5
  <2>p. (sender \in Passing <=> sender' \in Passing) /\ sender' # "folding" /\ folded' >= folded
    BY <1>5, <1>t DEF Passing
  <2>2. PageInv'
    BY <1>t, <1>5, <2>1, <2>s, <2>p, PageStaysOrMoves
  <2>e. \A e \in S : (e.op = "sent" => e.id \in taken') /\ (e.op = "final" => e.id \in tried')
    BY <1>5
  <2>3. EndsMeant'
    BY <1>t, <1>5, <2>e, EndsMeantKeeps
  <2>4. CancelStops'
    BY <1>5 DEF CancelStops
  <2> QED
    BY <2>2, <2>3, <2>4
<1>m. held \subseteq tried
  BY <1>t DEF EndsMeant
<1>6. CASE SkipHeld
  <2>1. /\ UNCHANGED <<log, folded, cursor, taken, tried, held>> /\ page # << >> /\ page' = Tail(page)
        /\ sender = "picking" /\ sender' = "picking" /\ Head(page) \in held
    BY <1>6 DEF SkipHeld
  <2>2. DealtNext(Head(page)) /\ LogGrows({})
    BY <1>t, <1>m, <2>1, NotGrown DEF DealtNext
  <2> QED
    BY <1>m, <1>5, <2>1, <2>2 DEF Passing
<1>7. CASE MayNotSend
  <2>1. /\ UNCHANGED <<log, folded, cursor, taken, tried>> /\ page # << >> /\ page' = Tail(page)
        /\ sender = "checking" /\ sender' = "picking" /\ held' \subseteq held
        /\ Seen("cancel", Head(page)) \/ Seen("sent", Head(page))
    BY <1>7, <1>t DEF MayNotSend, TryOver, PassOK
  <2>2. LogGrows({})
    BY <1>t, <2>1, NotGrown
  <2>3. \A i \in 1..folded : i \in 1..Len(log)
    BY <1>t DEF LogOK
  <2>4. Head(page) \in Requests
    BY <1>t, <2>1, HeadIs
  <2>5. DealtNext(Head(page))
    BY <1>t, <2>1, <2>3, <2>4, EntryIs DEF DealtNext, Seen, EndsMeant
  <2> QED
    BY <1>m, <1>5, <2>1, <2>2, <2>5 DEF Passing
<1>8. CASE LogSent
  <2>1. /\ UNCHANGED <<folded, cursor, taken, tried>> /\ page # << >> /\ page' = Tail(page)
        /\ sender = "logging" /\ sender' = "picking" /\ held' \subseteq held
        /\ log' = log \/ log' = Append(log, Entry("sent", Head(page)))
    BY <1>8, <1>t DEF LogSent, TryOver, PassOK
  <2>2. Head(page) \in Requests /\ Head(page) \in taken
    BY <1>t, <2>1, HeadIs DEF EndsMeant
  <2>3. DealtNext(Head(page))
    BY <2>1, <2>2 DEF DealtNext
  <2>4. CASE log' = log
    BY <1>m, <1>t, <1>5, <2>1, <2>3, <2>4, NotGrown DEF Passing
  <2>5. CASE log' = Append(log, Entry("sent", Head(page)))
    <3>1. /\ LogGrows({Entry("sent", Head(page))}) /\ Entry("sent", Head(page)).op = "sent"
          /\ Entry("sent", Head(page)).id = Head(page)
      BY <1>t, <2>2, <2>5, Grown, EntryIs
    <3> QED
      BY <1>m, <1>5, <2>1, <2>2, <2>3, <3>1 DEF Passing
  <2> QED
    BY <2>1, <2>4, <2>5
<1>9. CASE TryFails \/ SendOffline
  <2>1. /\ UNCHANGED <<log, folded, cursor, taken>> /\ page # << >> /\ page' = Tail(page)
        /\ sender \in Passing /\ sender' = "picking" /\ held' = held \cup {Head(page)}
        /\ tried' = tried \cup {Head(page)}
    BY <1>9, <1>t DEF TryFails, SendOffline, Failed, TryOver, PassOK, Passing
  <2>2. LogGrows({}) /\ DealtNext(Head(page))
    BY <1>t, <2>1, NotGrown DEF DealtNext
  <2> QED
    BY <1>m, <1>5, <2>1, <2>2
<1>10. CASE TryFinal
  <2>1. /\ UNCHANGED <<folded, cursor, taken>> /\ page # << >> /\ page' = Tail(page)
        /\ sender \in Passing /\ sender' = "picking" /\ held' = held
        /\ tried' = tried \cup {Head(page)}
        /\ log' = log \/ log' = Append(log, Entry("final", Head(page)))
    BY <1>10, <1>t DEF TryFinal, TryOver, PassOK, Passing
  <2>2. Head(page) \in Requests /\ DealtNext(Head(page))
    BY <1>t, <2>1, HeadIs DEF DealtNext
  <2>3. CASE log' = log
    BY <1>m, <1>t, <1>5, <2>1, <2>2, <2>3, NotGrown
  <2>4. CASE log' = Append(log, Entry("final", Head(page)))
    <3>1. /\ LogGrows({Entry("final", Head(page))}) /\ Entry("final", Head(page)).op = "final"
          /\ Entry("final", Head(page)).id = Head(page)
      BY <1>t, <2>2, <2>4, Grown, EntryIs
    <3> QED
      BY <1>m, <1>5, <2>1, <2>2, <3>1
  <2> QED
    BY <2>1, <2>3, <2>4
<1> QED
  BY <1>1, <1>2, <1>3, <1>4, <1>6, <1>7, <1>8, <1>9, <1>10

(* A page is read: what it skips was dealt with, and no send on it ended,   *)
(* not even in what is not folded yet.                                      *)
LEMMA ReadStep ==
    ASSUME SenderInv, TypeOK', PassOK', ReadPage
    PROVE  EndsMeant' /\ PageInv' /\ CancelStops'
<1>t. /\ TypeOK /\ PassOK /\ QueuedOnce /\ EndsMeant /\ PageInv
      /\ LogOK /\ SenderOK /\ folded \in Nat /\ Len(log) \in Nat /\ cursor \in Nat /\ goal \in Nat
  BY SenderParts, TypeParts, LogIs DEF SenderOK
<1>s. /\ UNCHANGED <<log, folded, queuedT, taken, tried, held>> /\ sender' = "picking" /\ goal' = 0
      /\ page = << >> /\ folded <= Len(log)
      /\ (sender = "folding" /\ goal <= folded /\ cursor = 0) \/ sender = "paging"
  BY <1>t DEF ReadPage, Reached, PassOK, Passing, LogOK, logVars, netVars, history
<1>1. PICK p \in Unsent(cursor) :
          /\ Len(page') = Len(p) /\ Len(p) \in Nat
          /\ \A k \in 1..Len(p) :
               page'[k] = log[p[k]].id /\ page'[k] \in Requests /\ log[p[k]] = Entry("queue", page'[k])
          /\ cursor' = cursor \/ cursor' \in 1..folded
          /\ p = << >> => cursor' = cursor
          /\ p # << >> => cursor' = p[Len(p)]
  BY <1>t, ReadIs
<1>2. /\ p \in [1..Len(p) -> OwedAfter(cursor)]
      /\ \A k, l \in 1..Len(p) : k < l => Before(p[k], p[l])
      /\ \A i \in OwedAfter(cursor) : (\E k \in 1..Len(p) : p[k] = i)
             \/ \A k \in 1..Len(p) : Before(p[k], i)
      /\ p # << >> => Len(p) \in 1..Len(p)
      /\ OwedAfter(cursor) \subseteq 1..folded
  BY <1>t, UnsentIs
<1>3. \A k \in 1..Len(p) : /\ p[k] \in 1..Len(log) /\ p[k] \in OwedAfter(cursor)
                           /\ log[p[k]].op = "queue"
  BY <1>t, <1>s, <1>2 DEF OwedAfter
<1>c. /\ cursor # 0 => cursor \in 1..Len(log) /\ cursor \in 1..folded /\ log[cursor].op = "queue"
      /\ cursor' # 0 => cursor' \in 1..Len(log) /\ cursor' \in 1..folded /\ log[cursor'].op = "queue"
  <2>1. cursor # 0 => cursor \in 1..Len(log) /\ cursor \in 1..folded /\ log[cursor].op = "queue"
    BY <1>t DEF PageInv, CursorOK, PassOK
  <2> QED
    BY <1>t, <1>s, <1>1, <1>2, <1>3, <2>1
<1>p. /\ \A j : Past(j)' <=> cursor' # 0 /\ (j = cursor' \/ Before(j, cursor'))
      /\ \A j : InStep(j)' <=> InStep(j)
      /\ \A i, j : Before(i, j)' <=> Before(i, j)
  BY <1>s DEF Past, InStep, Before, Stamp
<1>o. ASSUME NEW k \in 1..Len(p) PROVE Past(p[k])' /\ ~Past(p[k])
  <2>1. p # << >> /\ Len(p) \in 1..Len(p) /\ cursor' = p[Len(p)]
    BY <1>1, <1>2, EmptySeq
  <2>2. p[k] = p[Len(p)] \/ Before(p[k], p[Len(p)])
    BY <1>1, <1>2, <2>1
  <2>3. cursor' # 0
    BY <1>3, <2>1
  <2>4. cursor = 0 \/ Before(cursor, p[k])
    BY <1>3 DEF OwedAfter
  <2>5. ~Past(p[k])
    BY <1>t, <1>c, <1>3, <2>4, OrderIs DEF Past
  <2> QED
    BY <1>p, <2>1, <2>2, <2>3, <2>5
<1>f. ASSUME NEW j \in 1..Len(log), Past(j) PROVE Past(j)'
  <2>1. CASE p = << >>
    BY <1>1, <1>f, <1>p, <2>1 DEF Past
  <2>2. CASE p # << >>
    <3>1. Len(p) \in 1..Len(p) /\ cursor' = p[Len(p)]
      BY <1>1, <1>2, <2>2
    <3>2. cursor # 0 /\ Before(cursor, cursor') /\ cursor' \in 1..Len(log) /\ cursor' # 0
      BY <1>3, <1>f, <3>1 DEF OwedAfter, Past
    <3>3. Before(j, cursor')
      BY <1>t, <1>c, <1>f, <3>2, OrderIs DEF Past
    <3> QED
      BY <1>p, <3>2, <3>3
  <2> QED
    BY <2>1, <2>2
<1>4. EndsMeant'
  BY <1>t, <1>s DEF EndsMeant
<1>5. CursorOK' /\ PageQueued'
  <2>1. \A k \in 1..Len(page') : Past(p[k])' /\ p[k] \in 1..Len(log) /\ log[p[k]] = Entry("queue", page'[k])
    BY <1>1, <1>3, <1>o
  <2>2. PageQueued'
    BY <1>s, <2>1 DEF PageQueued
  <2> QED
    BY <1>s, <1>c, <2>2 DEF CursorOK
<1>6. PageSorted'
  <2> SUFFICES ASSUME NEW k \in 1..Len(page'), NEW l \in 1..Len(page'), k < l,
                      NEW i \in 1..Len(log), NEW j \in 1..Len(log),
                      log[i] = Entry("queue", page'[k]), log[j] = Entry("queue", page'[l])
               PROVE  Before(i, j)
    BY <1>s, <1>p DEF PageSorted
  <2>1. k \in 1..Len(p) /\ l \in 1..Len(p)
    BY <1>1
  <2>2. i = p[k]
    BY <1>t, <1>1, <1>3, <2>1, OnePlace
  <2>3. j = p[l]
    BY <1>t, <1>1, <1>3, <2>1, OnePlace
  <2> QED
    BY <1>2, <2>1, <2>2, <2>3
<1>7. Behind'
  <2>1. ASSUME NEW i \in 1..Len(log), log[i].op = "queue", InStep(i), Past(i)'
        PROVE  DealtWith(log[i].id) \/ \E k \in 1..Len(page') : page'[k] = log[i].id
    <3>0. /\ cursor' # 0 /\ (i = cursor' \/ Before(i, cursor'))
          /\ cursor' \in 1..Len(log) /\ cursor' \in 1..folded /\ log[cursor'].op = "queue"
      BY <1>p, <1>c, <2>1
    <3>f. i \in 1..folded
      <4> SUFFICES ASSUME i \notin 1..folded PROVE FALSE
        OBVIOUS
      <4>1. cursor' \in 1..(i - 1)
        BY <1>t, <3>0
      <4>2. Stamp(cursor') <= Stamp(i)
        BY <2>1, <3>0, <4>1 DEF InStep
      <4>3. Stamp(cursor') \in Nat /\ Stamp(i) \in Nat
        BY <1>t, <3>0, OrderIs
      <4> QED
        BY <3>0, <4>1, <4>2, <4>3 DEF Before
    <3>1. CASE Past(i)
      <4>1. Len(page) = 0
        BY <1>s, EmptySeq
      <4> QED
        BY <1>t, <2>1, <3>1, <4>1 DEF PageInv, Behind
    <3>2. CASE ~Past(i) /\ Owed(log[i].id)
      <4>1. cursor = 0 \/ Before(cursor, i)
        BY <1>t, <1>c, <3>2, OrderIs DEF Past
      <4>2. i \in OwedAfter(cursor)
        BY <2>1, <3>2, <3>f, <4>1 DEF OwedAfter
      <4>3. CASE \E k \in 1..Len(p) : p[k] = i
        BY <1>1, <4>3
      <4>4. CASE \A k \in 1..Len(p) : Before(p[k], i)
        <5>1. p # << >>
          BY <1>1, <3>0, <3>2 DEF Past
        <5>2. Before(cursor', i)
          BY <1>1, <1>2, <4>4, <5>1
        <5> QED
          BY <1>t, <3>0, <5>2, OrderIs
      <4> QED
        BY <1>2, <4>2, <4>3, <4>4
    <3>3. CASE ~Owed(log[i].id)
      <4>0. log[i].id \in Requests /\ log[i] = Entry("queue", log[i].id)
        BY <1>t, <2>1, LogIs, IsEntry
      <4>1. \E n \in 1..folded : log[n] \in {Entry("cancel", log[i].id), Entry("final", log[i].id),
                                              Entry("sent", log[i].id)}
        BY <3>3, <3>f, <4>0 DEF Owed, Seen
      <4>2. PICK n \in 1..Len(log) : log[n] \in {Entry("cancel", log[i].id), Entry("final", log[i].id),
                                                  Entry("sent", log[i].id)}
        BY <1>t, <1>s, <4>1
      <4>3. CASE log[n] = Entry("cancel", log[i].id)
        BY <4>3 DEF DealtWith, Logged
      <4>4. CASE log[n] # Entry("cancel", log[i].id)
        <5>1. (log[n].op = "final" \/ log[n].op = "sent") /\ log[n].id = log[i].id
          BY <4>0, <4>2, <4>4, EntryIs
        <5> QED
          BY <1>t, <5>1 DEF EndsMeant, DealtWith
      <4> QED
        BY <4>3, <4>4
    <3> QED
      BY <3>1, <3>2, <3>3
  <2> QED
    BY <1>s, <1>p, <2>1 DEF Behind, DealtWith, Logged
<1>8. PageFresh'
  <2> SUFFICES ASSUME NEW k \in 1..Len(page'), NEW i \in 1..Len(log), log[i].op \in Ends,
                      log[i].id = page'[k]
               PROVE  FALSE
    BY <1>s DEF PageFresh
  <2>1. /\ k \in 1..Len(p) /\ p[k] \in OwedAfter(cursor) /\ page'[k] \in Requests
        /\ log[p[k]] = Entry("queue", page'[k]) /\ p[k] \in 1..Len(log)
    BY <1>1, <1>2, <1>3
  <2>2. ~Seen("final", page'[k]) /\ ~Seen("sent", page'[k])
    BY <2>1, EntryIs DEF OwedAfter, Owed
  <2>3. log[i] = Entry("final", page'[k]) \/ log[i] = Entry("sent", page'[k])
    BY <1>t, LogIs, IsEntry DEF Ends
  <2>4. i \in (folded + 1)..Len(log)
    BY <1>t, <2>2, <2>3 DEF Seen
  <2>5. CASE sender = "folding"
    BY <1>t, <1>s, <2>4, <2>5 DEF PageInv, EndsBehind
  <2>6. CASE sender = "paging"
    <3>1. PICK j \in 1..Len(log) : Past(j) /\ log[j] = Entry("queue", page'[k])
      BY <1>t, <2>4, <2>6 DEF PageInv, EndsBehind, Passing
    <3>2. j = p[k]
      BY <1>t, <2>1, <3>1, OnePlace
    <3> QED
      BY <1>o, <2>1, <3>1, <3>2
  <2> QED
    BY <1>s, <2>5, <2>6
<1>9. EndsBehind'
  <2>1. CASE sender = "folding"
    BY <1>t, <1>s, <2>1 DEF PageInv, EndsBehind
  <2>2. CASE sender = "paging"
    <3>1. \A i \in (folded + 1)..Len(log) : log[i].op \in Ends =>
             \E j \in 1..Len(log) : Past(j) /\ log[j] = Entry("queue", log[i].id)
      BY <1>t, <2>2 DEF PageInv, EndsBehind, Passing
    <3>2. \A i \in (folded + 1)..Len(log) : log[i].op \in Ends =>
             \E j \in 1..Len(log) : Past(j)' /\ log[j] = Entry("queue", log[i].id)
      BY <1>f, <3>1
    <3> QED
      BY <1>s, <3>2 DEF EndsBehind
  <2> QED
    BY <1>s, <2>1, <2>2
<1>10. CancelStops'
  BY <1>s DEF CancelStops
<1> QED
  BY <1>4, <1>5, <1>6, <1>7, <1>8, <1>9, <1>10 DEF PageInv

LEMMA SenderInvStep == SenderInv /\ [Next]_vars => SenderInv'
<1> SUFFICES ASSUME SenderInv, [Next]_vars PROVE SenderInv'
  OBVIOUS
<1>1. TypeOK' /\ PassOK' /\ QueuedOnce' /\ StampsStay
  BY TypeStep, PassStep, QueuedOnceStep, StampsKept DEF SenderInv
<1>2. EndsMeant' /\ PageInv' /\ CancelStops'
  <2>1. CASE \/ \E r \in Requests : RequestStep(r) \/ BackoffEnds(r)
             \/ Fold \/ Connected \/ Published \/ Disconnected \/ UNCHANGED vars
    BY <1>1, <2>1, OthersStep
  <2>2. CASE \/ PassOffline \/ (PageDone /\ ~more) \/ FoundOffline \/ PassFails
             \/ OnSignal \/ OnTimer \/ OnHour \/ Crash \/ Restart
    BY <1>1, <2>2, RestsStep
  <2>3. CASE PassStart
    BY <1>1, <2>3, StartStep
  <2>4. CASE ReadPage
    BY <1>1, <2>4, ReadStep
  <2>5. CASE \/ (PageDone /\ more) \/ SkipHeld \/ AskMaySend \/ MayNotSend \/ MaySend
             \/ Taken \/ LogSent \/ TryFails \/ SendOffline \/ TryFinal
    BY <1>1, <2>5, OnPageStep
  <2> QED
    BY <2>1, <2>2, <2>3, <2>4, <2>5 DEF Next, SenderStep
<1>3. SenderInv' <=> TypeOK' /\ PassOK' /\ QueuedOnce' /\ EndsMeant' /\ PageInv' /\ CancelStops'
  BY DEF SenderInv, PageInv
<1> QED
  BY <1>1, <1>2, <1>3

LEMMA SenderInvHolds == Spec => []SenderInv
<1>1. Init => SenderInv
  <2> SUFFICES ASSUME Init PROVE SenderInv
    OBVIOUS
  <2>1. log = << >> /\ page = << >> /\ cursor = 0 /\ inflight = {} /\ held = {} /\ sender = "start"
    BY DEF Init
  <2> QED
    BY <2>1, InitTypes DEF SenderInv, QueuedOnce, EndsMeant, CursorOK, PageQueued, PageSorted, Behind, PageFresh,
                           EndsBehind, CancelStops, Passing
<1> QED
  BY <1>1, SenderInvStep, PTL DEF Spec

(* Once the log says how a send ended, the sender is never again on its way *)
(* to the server with it, whatever crashed and however far the fold fell    *)
(* back: only the sender logs an end, and what it logged since it read its  *)
(* page is of sends it is past.                                             *)
THEOREM SendEndsOnce == Spec => []EndedIsEnded
<1>1. SenderInv => EndedIsEnded
  <2> SUFFICES ASSUME SenderInv, sender = "sending"
               PROVE  ~Logged("sent", Head(page)) /\ ~Logged("final", Head(page))
    BY DEF EndedIsEnded
  <2>1. LogOK /\ SenderOK /\ page # << >> /\ PageFresh
    BY TypeParts DEF SenderInv, PassOK
  <2>2. Head(page) = page[1] /\ 1 \in 1..Len(page) /\ Head(page) \in Requests
    BY <2>1, HeadIs
  <2> QED
    BY <2>1, <2>2, EntryIs DEF PageFresh, Logged, Ends
<1> QED
  BY <1>1, SenderInvHolds, PTL

(* A send on its way to the server had no cancel when the sender asked.     *)
THEOREM AskedCancelStops == Spec => []CancelStops
<1>1. SenderInv => CancelStops
  BY DEF SenderInv
<1> QED
  BY <1>1, SenderInvHolds, PTL

(* Sends go out in the order of the outbox, over pages, backoffs, failed    *)
(* tries and restarts: a send is first given to the server only when every  *)
(* older one queued in step with the clock went, was cancelled or had a     *)
(* failed try.  Whatever the clock reads; one that never steps back queues  *)
(* everything in step, and then the order is that of the log.               *)
THEOREM OldestGoesFirst == Spec => OldestFirst
<1>1. ASSUME SenderInv, [Next]_vars, NEW id \in taken' \ taken
      PROVE  Taken /\ id = Head(page)
  BY <1>1 DEF Next, RequestStep, TakeTurn, AnswerEarlier, Queue, GiveUp, Abandon, Commit, Queued,
       Cancel, BackoffEnds, SenderStep, PassOffline, PassStart, ReadPage, PassFails, PageDone, SkipHeld,
       FoundOffline, AskMaySend, MayNotSend, MaySend, Taken, LogSent, TryFails, SendOffline, Failed, TryFinal,
       OnSignal, OnTimer, OnHour, Fold, Connected, Published, Disconnected, Crash, Restart, netVars, vars
<1>2. ASSUME SenderInv, Taken
      PROVE  /\ Logged("queue", Head(page))
             /\ \A i, j \in 1..Len(log) :
                  log[i].op = "queue" /\ log[j] = Entry("queue", Head(page)) /\ Before(i, j) /\ InStep(i)
                    => log[i].id \in taken \cup tried \/ Logged("cancel", log[i].id)
  <2>1. LogOK /\ SenderOK /\ page # << >> /\ QueuedOnce
        /\ CursorOK /\ PageQueued /\ PageSorted /\ Behind
    BY <1>2, TypeParts DEF SenderInv, PassOK, Taken
  <2>2. Head(page) = page[1] /\ 1 \in 1..Len(page) /\ page[1] \in Requests /\ Len(page) \in Nat
    BY <2>1, HeadIs
  <2>4. PICK n \in 1..Len(log) : Past(n) /\ log[n] = Entry("queue", page[1])
    BY <2>1, <2>2 DEF PageQueued
  <2>6. ASSUME NEW i \in 1..Len(log), NEW j \in 1..Len(log), log[i].op = "queue",
               log[j] = Entry("queue", page[1]), Before(i, j), InStep(i)
        PROVE  DealtWith(log[i].id)
    <3>1. j = n
      BY <2>1, <2>2, <2>4, <2>6, OnePlace
    <3>2. Past(i)
      BY <2>1, <2>4, <2>6, <3>1, OrderIs DEF Past, CursorOK
    <3>3. log[i] = Entry("queue", log[i].id) /\ log[i].id \in Requests
      BY <2>1, <2>6, LogIs, IsEntry
    <3>4. ASSUME NEW k \in 1..Len(page), page[k] = log[i].id PROVE FALSE
      <4>1. CASE k = 1
        <5>1. i = j
          BY <2>1, <2>2, <2>6, <3>3, <3>4, <4>1, OnePlace
        <5> QED
          BY <2>1, <2>6, <5>1, OrderIs
      <4>2. CASE k # 1
        <5>1. Before(j, i)
          BY <2>1, <2>2, <2>6, <3>3, <3>4, <4>2 DEF PageSorted
        <5> QED
          BY <2>1, <2>6, <5>1, OrderIs
      <4> QED
        BY <4>1, <4>2
    <3> QED
      BY <2>1, <2>6, <3>2, <3>4 DEF Behind
  <2> QED
    BY <2>2, <2>4, <2>6 DEF Logged, DealtWith
<1>3. SenderInv /\ [Next]_vars =>
        [\A id \in taken' \ taken :
          /\ Logged("queue", id)
          /\ \A i, j \in 1..Len(log) :
               log[i].op = "queue" /\ log[j] = Entry("queue", id) /\ Before(i, j) /\ InStep(i)
                 => log[i].id \in taken \cup tried \/ Logged("cancel", log[i].id)]_vars
  BY <1>1, <1>2
<1> QED
  BY <1>3, SenderInvHolds, PTL DEF OldestFirst, Spec

-----------------------------------------------------------------------------
(* A key sends one message, when no request is left alone with the writer.  *)

(* A step that leaves the requests where they are: the log grows by what is *)
(* no queue input.                                                          *)
LEMMA RequestsKept ==
    ASSUME LogOK, CallOK, NoneAbandoned, OneTurn, Waits, OnePerKey, AnswerQueued,
           NEW S, LogGrows(S), \A e \in S : e.op # "queue",
           UNCHANGED <<inflight, callVars>>, left'["abandon"] = 0
    PROVE  NoneAbandoned' /\ OneTurn' /\ Waits' /\ OnePerKey' /\ AnswerQueued'
<1>1. Len(log) \in Nat /\ call' = call /\ target' = target /\ answer' = answer /\ inflight' = inflight
  BY LogIs DEF callVars
<1>2. \A i \in 1..Len(log) : i \in 1..Len(log') /\ log'[i] = log[i]
  BY <1>1 DEF LogGrows
<1>3. \A i \in 1..Len(log') : log'[i].op = "queue" => i \in 1..Len(log) /\ log'[i] = log[i]
  <2> SUFFICES ASSUME NEW i \in 1..Len(log'), log'[i].op = "queue", i \notin 1..Len(log) PROVE FALSE
    BY <1>2
  <2>1. log'[i] \in S
    BY <1>1 DEF LogGrows
  <2> QED
    BY <2>1
<1>4. NoneAbandoned' /\ OneTurn'
  BY <1>1 DEF NoneAbandoned, OneTurn
<1>5. Waits'
  <2>1. ASSUME NEW r \in Requests, NEW i \in 1..Len(log'), QueuedUnder(r, i)'
        PROVE  i \in 1..Len(log) /\ QueuedUnder(r, i)
    BY <1>3, <2>1 DEF QueuedUnder
  <2>2. Len(log') >= Len(log) /\ Len(log') \in Nat
    BY DEF LogGrows
  <2>3. ASSUME NEW r \in Requests, call[r] = "folding", NEW i \in (target[r] + 1)..Len(log'),
               target[r] \in Nat
        PROVE  ~QueuedUnder(r, i)'
    BY <1>1, <2>1, <2>3 DEF Waits
  <2>4. ASSUME NEW r \in Requests, call[r] = "appending", NEW i \in 1..Len(log')
        PROVE  ~QueuedUnder(r, i)'
    BY <2>1, <2>4 DEF Waits
  <2>5. \A r \in Requests : target[r] \in Nat
    BY DEF CallOK
  <2> QED
    BY <1>1, <2>2, <2>3, <2>4, <2>5 DEF Waits
<1>6. OnePerKey'
  BY <1>3 DEF OnePerKey, QueuedUnder
<1>7. AnswerQueued'
  BY <1>1, <1>2 DEF AnswerQueued, Logged
<1> QED
  BY <1>4, <1>5, <1>6, <1>7

(* The steps of a request: its turn, its wait, its append, its answer. *)
LEMMA RequestKeeps ==
    ASSUME LogOK, CallOK, NoneAbandoned, OneTurn, Waits, OnePerKey, AnswerQueued, left \in [Disturbances -> Nat],
           NEW r \in Requests, RequestStep(r)
    PROVE  NoneAbandoned' /\ OneTurn' /\ Waits' /\ OnePerKey' /\ AnswerQueued'
<1>l. Len(log) \in Nat /\ folded \in 0..Len(log) /\ \A i \in 1..Len(log) : log[i].id \in Requests
  BY LogIs, IsEntry DEF LogOK
<1> USE DEF logVars, callVars
<1>1. CASE TakeTurn(r)
  <2>1. /\ UNCHANGED <<log, inflight, answer, left>> /\ call[r] = "idle" /\ KeyOf[r] # NoKey
        /\ call' = [call EXCEPT ![r] = "folding"] /\ target' = [target EXCEPT ![r] = Len(log)]
        /\ \A s \in Requests : SameKey(r, s) => call[s] \notin {"folding", "appending", "logged"}
    BY <1>1 DEF TakeTurn, Busy, SameKey
  <2>2. NoneAbandoned'
    BY <2>1 DEF NoneAbandoned, CallOK
  <2>3. OneTurn'
    BY <2>1 DEF OneTurn, CallOK, SameKey
  <2>4. Waits'
    BY <1>l, <2>1 DEF Waits, CallOK, QueuedUnder
  <2>5. OnePerKey' /\ AnswerQueued'
    BY <2>1 DEF OnePerKey, QueuedUnder, AnswerQueued, Logged, CallOK
  <2> QED
    BY <2>2, <2>3, <2>4, <2>5
<1>2. CASE AnswerEarlier(r)
  <2>1. PICK i \in Keyed(KeyOf[r]) : answer' = [answer EXCEPT ![r] = log[i].id]
    BY <1>2 DEF AnswerEarlier
  <2>2. /\ UNCHANGED <<log, inflight, target, left>> /\ call[r] = "folding"
        /\ call' = [call EXCEPT ![r] = "answered"]
    BY <1>2 DEF AnswerEarlier
  <2>3. i \in 1..Len(log) /\ log[i].op = "queue" /\ KeyOf[log[i].id] = KeyOf[r] /\ log[i].id \in Requests
    BY <1>l, <2>1 DEF Keyed
  <2>4. log[i] = Entry("queue", log[i].id)
    BY <2>3, LogIs, IsEntry
  <2>5. NoneAbandoned'
    BY <2>2 DEF NoneAbandoned, CallOK
  <2>6. OneTurn' /\ Waits' /\ OnePerKey'
    BY <2>2 DEF OneTurn, Waits, OnePerKey, QueuedUnder, CallOK
  <2>7. AnswerQueued'
    BY <2>1, <2>2, <2>3, <2>4 DEF AnswerQueued, Logged, CallOK
  <2> QED
    BY <2>5, <2>6, <2>7
<1>3. CASE Queue(r)
  <2>1. /\ UNCHANGED <<log, target, answer, left>> /\ call' = [call EXCEPT ![r] = "appending"]
        /\ inflight' = inflight \cup {r}
    BY <1>3 DEF Queue
  <2>2. NoneAbandoned'
    BY <2>1 DEF NoneAbandoned, CallOK
  <2>3. KeyOf[r] = NoKey \/ (call[r] = "folding" /\ target[r] <= folded /\ Keyed(KeyOf[r]) = {})
    BY <1>3 DEF Queue, Reached
  <2>4. OneTurn'
    BY <2>1, <2>3 DEF OneTurn, CallOK, SameKey
  <2>5. \A i \in 1..Len(log) : ~QueuedUnder(r, i)
    <3> SUFFICES ASSUME NEW i \in 1..Len(log), QueuedUnder(r, i) PROVE FALSE
      OBVIOUS
    <3>1. KeyOf[r] # NoKey /\ log[i].op = "queue" /\ KeyOf[log[i].id] = KeyOf[r]
      BY DEF QueuedUnder, SameKey
    <3>2. i \notin 1..folded
      BY <2>3, <3>1 DEF Keyed
    <3>3. target[r] \in Nat
      BY DEF CallOK
    <3>4. i \in (target[r] + 1)..Len(log)
      BY <1>l, <2>3, <3>1, <3>2, <3>3
    <3> QED
      BY <2>3, <3>1, <3>4 DEF Waits
  <2>6. Waits'
    BY <2>1, <2>5 DEF Waits, CallOK, QueuedUnder
  <2>7. OnePerKey' /\ AnswerQueued'
    BY <2>1 DEF OnePerKey, QueuedUnder, AnswerQueued, Logged, CallOK
  <2> QED
    BY <2>2, <2>4, <2>6, <2>7
<1>4. CASE GiveUp(r)
  <2>1. /\ UNCHANGED <<log, target, answer, left>> /\ call' = [call EXCEPT ![r] = "failed"]
        /\ inflight' = inflight \ {r}
    BY <1>4 DEF GiveUp
  <2>2. NoneAbandoned' /\ OneTurn'
    BY <2>1 DEF NoneAbandoned, OneTurn, CallOK
  <2>3. Waits' /\ OnePerKey' /\ AnswerQueued'
    BY <2>1 DEF Waits, OnePerKey, QueuedUnder, AnswerQueued, Logged, CallOK
  <2> QED
    BY <2>2, <2>3
<1>5. CASE Abandon(r)
  BY <1>5 DEF Abandon, Spend, NoneAbandoned
<1>6. CASE Commit(r)
  <2>1. /\ UNCHANGED <<target, answer>> /\ r \in inflight /\ inflight' = inflight \ {r}
        /\ log' = Append(log, Entry("queue", r))
        /\ call' = [call EXCEPT ![r] = IF @ = "appending" THEN "logged" ELSE @]
    BY <1>6 DEF Commit
  <2>a. left'["abandon"] = 0
    BY <1>6 DEF Commit, Spend, NoneAbandoned, Disturbances
  <2>2. call[r] = "appending" /\ call' = [call EXCEPT ![r] = "logged"]
    BY <2>1 DEF NoneAbandoned, CallOK
  <2>3. /\ Len(log') = Len(log) + 1 /\ log'[Len(log) + 1] = Entry("queue", r)
        /\ \A i \in 1..Len(log) : log'[i] = log[i]
    BY <2>1, EntryIs, Grown DEF LogGrows
  <2>4. NoneAbandoned' /\ OneTurn'
    BY <2>1, <2>a, <2>2 DEF NoneAbandoned, OneTurn, CallOK
  <2>5. \A i \in 1..Len(log) : ~QueuedUnder(r, i)
    BY <2>2 DEF Waits
  <2>e. Entry("queue", r).id = r /\ Entry("queue", r).op = "queue"
    BY EntryIs
  <2>6. ASSUME NEW s \in Requests, call'[s] \in {"folding", "appending"}, NEW i \in 1..Len(log'),
               QueuedUnder(s, i)'
        PROVE  i \in 1..Len(log) /\ QueuedUnder(s, i) /\ call'[s] = call[s]
    <3>1. s # r /\ call'[s] = call[s]
      BY <2>2, <2>6 DEF CallOK
    <3>2. CASE i = Len(log) + 1
      <4>1. SameKey(r, s)
        BY <2>3, <2>e, <2>6, <3>2 DEF QueuedUnder
      <4> QED
        BY <2>2, <2>6, <3>1, <4>1 DEF OneTurn
    <3>3. CASE i # Len(log) + 1
      BY <1>l, <2>3, <2>6, <3>1, <3>3 DEF QueuedUnder
    <3> QED
      BY <3>2, <3>3
  <2>7. Waits'
    <3>1. \A s \in Requests : target'[s] = target[s] /\ target[s] \in Nat
      BY <2>1 DEF CallOK
    <3>2. \A s \in Requests : target'[s] <= Len(log')
      BY <1>l, <2>3, <3>1 DEF Waits
    <3>3. ASSUME NEW s \in Requests, call'[s] = "folding"
          PROVE  KeyOf[s] # NoKey /\ \A i \in (target'[s] + 1)..Len(log') : ~QueuedUnder(s, i)'
      <4>1. call[s] = "folding"
        BY <2>2, <3>3 DEF CallOK
      <4>2. ASSUME NEW i \in (target'[s] + 1)..Len(log'), QueuedUnder(s, i)' PROVE FALSE
        <5>1. i \in 1..Len(log') /\ i > target[s]
          BY <1>l, <2>3, <3>1
        <5>2. i \in 1..Len(log) /\ QueuedUnder(s, i)
          BY <2>6, <3>3, <4>2, <5>1
        <5>3. i \in (target[s] + 1)..Len(log)
          BY <3>1, <5>1, <5>2
        <5> QED
          BY <4>1, <5>2, <5>3 DEF Waits
      <4> QED
        BY <4>1, <4>2 DEF Waits
    <3>4. ASSUME NEW s \in Requests, call'[s] = "appending", NEW i \in 1..Len(log')
          PROVE  ~QueuedUnder(s, i)'
      BY <2>6, <3>4 DEF Waits
    <3> QED
      BY <3>2, <3>3, <3>4 DEF Waits
  <2>8. OnePerKey'
    <3> SUFFICES ASSUME NEW i \in 1..Len(log'), NEW j \in 1..Len(log'), log'[i].op = "queue",
                        log'[j].op = "queue", SameKey(log'[j].id, log'[i].id)
                 PROVE  i = j
      BY DEF OnePerKey, QueuedUnder
    <3>1. CASE i = Len(log) + 1 /\ j # Len(log) + 1
      <4>1. j \in 1..Len(log) /\ log[j].op = "queue" /\ SameKey(log[j].id, r)
        BY <1>l, <2>3, <2>e, <3>1
      <4> QED
        BY <2>5, <4>1 DEF QueuedUnder
    <3>2. CASE i # Len(log) + 1 /\ j = Len(log) + 1
      <4>1. i \in 1..Len(log) /\ log[i].op = "queue" /\ SameKey(r, log[i].id)
        BY <1>l, <2>3, <2>e, <3>2
      <4>2. SameKey(log[i].id, r)
        BY <4>1 DEF SameKey
      <4> QED
        BY <2>5, <4>1, <4>2 DEF QueuedUnder
    <3>3. CASE i # Len(log) + 1 /\ j # Len(log) + 1
      BY <1>l, <2>3, <3>3 DEF OnePerKey, QueuedUnder
    <3> QED
      BY <3>1, <3>2, <3>3
  <2>9. AnswerQueued'
    <3>1. Logged("queue", r)'
      BY <1>l, <2>3 DEF Logged
    <3>2. \A id : Logged("queue", id) => Logged("queue", id)'
      BY <1>l, <2>3 DEF Logged
    <3>3. \A s \in Requests : s # r => call'[s] = call[s]
      BY <2>2 DEF CallOK
    <3>4. call'[r] = "logged"
      BY <2>2 DEF CallOK
    <3>5. \A s \in Requests : call[s] = "answered" => Logged("queue", answer[s])'
      BY <2>1, <3>2 DEF AnswerQueued, Logged
    <3> QED
      BY <2>1, <3>1, <3>2, <3>3, <3>4, <3>5 DEF AnswerQueued
  <2> QED
    BY <2>4, <2>7, <2>8, <2>9
<1>7. CASE Queued(r)
  <2>1. /\ UNCHANGED <<log, inflight, target, left>> /\ call[r] = "logged"
        /\ call' = [call EXCEPT ![r] = "answered"] /\ answer' = [answer EXCEPT ![r] = r]
    BY <1>7 DEF Queued
  <2>2. NoneAbandoned' /\ OneTurn'
    BY <2>1 DEF NoneAbandoned, OneTurn, CallOK
  <2>3. Waits' /\ OnePerKey'
    BY <2>1 DEF Waits, OnePerKey, QueuedUnder, CallOK
  <2>4. AnswerQueued'
    BY <2>1 DEF AnswerQueued, Logged, CallOK
  <2> QED
    BY <2>2, <2>3, <2>4
<1>8. CASE Cancel(r)
  <2>1. UNCHANGED <<inflight, callVars, left>> /\ log' = Append(log, Entry("cancel", r))
    BY <1>8 DEF Cancel
  <2>2. LogGrows({Entry("cancel", r)}) /\ \A e \in {Entry("cancel", r)} : e.op # "queue"
    BY <2>1, EntryIs, Grown
  <2> QED
    BY <2>1, <2>2, RequestsKept DEF NoneAbandoned
<1> QED
  BY <1>1, <1>2, <1>3, <1>4, <1>5, <1>6, <1>7, <1>8 DEF RequestStep

LEMMA KeyStep == SenderInv /\ KeyInv /\ [Next]_vars => KeyInv'
<1> SUFFICES ASSUME SenderInv, KeyInv, [Next]_vars PROVE KeyInv'
  OBVIOUS
<1>t. LogOK /\ CallOK /\ SenderOK /\ PassOK /\ PageQueued /\ left \in [Disturbances -> Nat]
  BY TypeParts DEF SenderInv, NetOK
<1>k. NoneAbandoned /\ OneTurn /\ Waits /\ OnePerKey /\ AnswerQueued /\ TakenQueued
  BY DEF KeyInv
<1>l. Len(log) \in Nat /\ cursor \in Nat /\ cursor <= Len(log)
  BY <1>t, LogIs DEF PassOK, SenderOK, LogOK
<1> USE DEF logVars, callVars, senderVars, netVars, history
<1>1. NoneAbandoned' /\ OneTurn' /\ Waits' /\ OnePerKey' /\ AnswerQueued'
  <2>1. ASSUME NEW r \in Requests, RequestStep(r)
        PROVE  NoneAbandoned' /\ OneTurn' /\ Waits' /\ OnePerKey' /\ AnswerQueued'
    BY <1>t, <1>k, <2>1, RequestKeeps
  <2>2. CASE LogSent \/ TryFinal
    <3>1. UNCHANGED <<inflight, callVars>>
      BY <2>2 DEF LogSent, TryFinal
    <3>2. left'["abandon"] = 0
      BY <1>t, <1>k, <2>2 DEF LogSent, TryFinal, Spend, NoneAbandoned, Disturbances
    <3>3. Head(page) \in Requests
      BY <1>t, <2>2, HeadIs DEF LogSent, TryFinal, PassOK
    <3>4. log' = log \/ log' = Append(log, Entry("sent", Head(page)))
            \/ log' = Append(log, Entry("final", Head(page)))
      BY <2>2 DEF LogSent, TryFinal
    <3>5. CASE log' = log
      BY <1>t, <1>k, <3>1, <3>2, <3>5, NotGrown, RequestsKept
    <3>6. ASSUME NEW e \in Entries, e.op # "queue", log' = Append(log, e)
          PROVE  NoneAbandoned' /\ OneTurn' /\ Waits' /\ OnePerKey' /\ AnswerQueued'
      <4>1. LogGrows({e}) /\ \A f \in {e} : f.op # "queue"
        BY <1>t, <3>6, Grown
      <4> QED
        BY <1>t, <1>k, <3>1, <3>2, <4>1, RequestsKept
    <3> QED
      BY <3>3, <3>4, <3>5, <3>6, EntryIs
  <2>3. CASE \/ PassOffline \/ PassStart \/ ReadPage \/ PageDone
             \/ SkipHeld \/ FoundOffline \/ AskMaySend \/ MayNotSend \/ MaySend
             \/ PassFails \/ Taken \/ TryFails \/ SendOffline \/ OnSignal \/ OnTimer \/ OnHour
             \/ Fold \/ Connected \/ Published \/ Disconnected \/ Restart \/ UNCHANGED vars
             \/ \E r \in Requests : BackoffEnds(r)
    <3>1. UNCHANGED <<log, inflight, callVars>>
      BY <2>3 DEF PassOffline, PassStart, ReadPage, PageDone, SkipHeld, FoundOffline, AskMaySend,
         MayNotSend, MaySend, PassFails, Taken, TryFails, SendOffline, Failed, OnSignal, OnTimer, OnHour,
         Fold, Connected, Published, Disconnected, Restart, vars, BackoffEnds
    <3>2. left'["abandon"] = 0
      <4>1. left' = left \/ Spend("error") \/ Spend("drop")
        BY <2>3 DEF PassOffline, PassStart, ReadPage, PageDone, SkipHeld, FoundOffline, AskMaySend,
           MayNotSend, MaySend, PassFails, Taken, TryFails, SendOffline, OnSignal, OnTimer, OnHour,
           Fold, Connected, Published, Disconnected, Restart, vars, BackoffEnds
      <4> QED
        BY <1>t, <1>k, <4>1 DEF Spend, NoneAbandoned, Disturbances
    <3> QED
      BY <1>t, <1>k, <3>1, <3>2, NotGrown, RequestsKept
  <2>4. CASE Crash
    <3>1. /\ UNCHANGED <<log, target, answer>> /\ inflight' = {}
          /\ call' = [r \in Requests |->
                  IF call[r] \in {"folding", "appending", "logged"} THEN "failed" ELSE call[r]]
      BY <2>4 DEF Crash
    <3>2. left'["abandon"] = 0
      BY <1>t, <1>k, <2>4 DEF Crash, Spend, NoneAbandoned, Disturbances
    <3>3. NoneAbandoned' /\ OneTurn'
      BY <1>k, <3>1, <3>2 DEF NoneAbandoned, OneTurn
    <3>4. Waits' /\ OnePerKey' /\ AnswerQueued'
      BY <1>k, <3>1 DEF Waits, OnePerKey, QueuedUnder, AnswerQueued, Logged
    <3> QED
      BY <3>3, <3>4
  <2> QED
    BY <2>1, <2>2, <2>3, <2>4 DEF Next, SenderStep
<1>2. TakenQueued'
  <2>1. \A i \in 1..Len(log) : i \in 1..Len(log') /\ log'[i] = log[i]
    <3>1. \/ log' = log
          \/ \E id \in Requests, op \in {"queue", "cancel", "sent", "final"} : log' = Append(log, Entry(op, id))
      <4>1. CASE LogSent \/ TryFinal
        <5>1. Head(page) \in Requests
          BY <1>t, <4>1, HeadIs DEF LogSent, TryFinal, PassOK
        <5> QED
          BY <4>1, <5>1 DEF LogSent, TryFinal
      <4>2. ASSUME NEW r \in Requests, RequestStep(r) \/ BackoffEnds(r)
            PROVE  log' = log \/ log' = Append(log, Entry("queue", r)) \/ log' = Append(log, Entry("cancel", r))
        BY <4>2 DEF RequestStep, TakeTurn, AnswerEarlier, Queue, GiveUp, Abandon, Commit, Queued, Cancel,
                    BackoffEnds
      <4>3. CASE \/ PassOffline \/ PassStart \/ ReadPage \/ PageDone
                 \/ SkipHeld \/ FoundOffline \/ AskMaySend \/ MayNotSend \/ MaySend
                 \/ PassFails \/ Taken \/ TryFails \/ SendOffline \/ OnSignal \/ OnTimer \/ OnHour
                 \/ Fold \/ Connected \/ Published \/ Disconnected \/ Crash \/ Restart \/ UNCHANGED vars
        BY <4>3 DEF PassOffline, PassStart, ReadPage, PageDone, SkipHeld, FoundOffline, AskMaySend,
           MayNotSend, MaySend, PassFails, Taken, TryFails, SendOffline, Failed, OnSignal, OnTimer, OnHour,
           Fold, Connected, Published, Disconnected, Crash, Restart, vars
      <4> QED
        BY <4>1, <4>2, <4>3 DEF Next, SenderStep
    <3>2. ASSUME NEW id \in Requests, NEW op \in {"queue", "cancel", "sent", "final"},
                 log' = Append(log, Entry(op, id))
          PROVE  \A i \in 1..Len(log) : i \in 1..Len(log') /\ log'[i] = log[i]
      BY <1>t, <1>l, <3>2, EntryIs, Grown DEF LogGrows
    <3> QED
      BY <3>1, <3>2
  <2>2. \A id : Logged("queue", id) => Logged("queue", id)'
    BY <2>1 DEF Logged
  <2>3. taken' = taken \/ (Taken /\ taken' = taken \cup {Head(page)})
    BY DEF Next, RequestStep, TakeTurn, AnswerEarlier, Queue, GiveUp, Abandon, Commit, Queued,
       Cancel, BackoffEnds, SenderStep, PassOffline, PassStart, ReadPage, PassFails, PageDone, SkipHeld,
       FoundOffline, AskMaySend, MayNotSend, MaySend, Taken, LogSent, TryFails, SendOffline, Failed, TryFinal,
       OnSignal, OnTimer, OnHour, Fold, Connected, Published, Disconnected, Crash, Restart, vars
  <2>4. ASSUME Taken PROVE Logged("queue", Head(page))
    <3>1. Head(page) = page[1] /\ 1 \in 1..Len(page)
      BY <1>t, <2>4, HeadIs DEF Taken, PassOK
    <3> QED
      BY <1>t, <1>l, <3>1 DEF PageQueued, Logged
  <2>5. \A id \in taken' : Logged("queue", id)
    BY <1>k, <2>3, <2>4 DEF TakenQueued
  <2> QED
    BY <2>2, <2>5 DEF TakenQueued
<1> QED
  BY <1>1, <1>2 DEF KeyInv

LEMMA KeyInvHolds == Spec /\ NeverAbandons => [](SenderInv /\ KeyInv)
<1>1. Init => SenderInv
  <2> SUFFICES ASSUME Init PROVE SenderInv
    OBVIOUS
  <2>1. log = << >> /\ page = << >> /\ cursor = 0 /\ inflight = {} /\ held = {} /\ sender = "start"
    BY DEF Init
  <2> QED
    BY <2>1, InitTypes DEF SenderInv, QueuedOnce, EndsMeant, CursorOK, PageQueued, PageSorted, Behind, PageFresh,
                           EndsBehind, CancelStops, Passing
<1>2. Init /\ NeverAbandons => KeyInv
  BY DEF Init, NeverAbandons, KeyInv, NoneAbandoned, OneTurn, Waits, OnePerKey, AnswerQueued, TakenQueued
<1>3. SenderInv /\ KeyInv /\ [Next]_vars => (SenderInv /\ KeyInv)'
  BY SenderInvStep, KeyStep
<1> QED
  BY <1>1, <1>2, <1>3, PTL DEF Spec

(* A key sends one message, whatever was retried under it and however the   *)
(* daemon died between, as long as no request's context ends while the      *)
(* writer has its append: then a second one may queue before the first is   *)
(* seen (run outbox_abandon).  One request per key has its turn, it waits   *)
(* for what was appended before it, and it appends only when nothing under  *)
(* the key is there.                                                        *)
THEOREM KeySendsOnce == Spec /\ NeverAbandons => []OneSendPerKey
<1>1. KeyInv => OneSendPerKey
  <2> SUFFICES ASSUME KeyInv, NEW r \in taken, NEW s \in taken, KeyOf[r] = KeyOf[s], KeyOf[r] # NoKey
               PROVE  r = s
    BY DEF OneSendPerKey
  <2>1. PICK i \in 1..Len(log) : log[i] = Entry("queue", r)
    BY DEF KeyInv, TakenQueued, Logged
  <2>2. PICK j \in 1..Len(log) : log[j] = Entry("queue", s)
    BY DEF KeyInv, TakenQueued, Logged
  <2>3. i = j
    BY <2>1, <2>2 DEF KeyInv, OnePerKey, QueuedUnder, SameKey, Entry
  <2> QED
    BY <2>1, <2>2, <2>3 DEF Entry
<1> QED
  BY <1>1, KeyInvHolds, PTL

(* Under the same condition every request answered under a key is answered  *)
(* the same id: what it was answered is in the log under the key.           *)
THEOREM KeyAnswersAgree == Spec /\ NeverAbandons => []AnswersAgree
<1>1. KeyInv => AnswersAgree
  <2> SUFFICES ASSUME KeyInv, NEW r \in Requests, NEW s \in Requests, call[r] = "answered",
                      call[s] = "answered", KeyOf[r] = KeyOf[s], KeyOf[r] # NoKey
               PROVE  answer[r] = answer[s]
    BY DEF AnswersAgree
  <2>1. PICK i \in 1..Len(log) : log[i] = Entry("queue", answer[r])
    BY DEF KeyInv, AnswerQueued, Logged
  <2>2. PICK j \in 1..Len(log) : log[j] = Entry("queue", answer[s])
    BY DEF KeyInv, AnswerQueued, Logged
  <2>3. KeyOf[answer[r]] = KeyOf[r] /\ KeyOf[answer[s]] = KeyOf[s]
    BY DEF KeyInv, AnswerQueued
  <2>4. i = j
    BY <2>1, <2>2, <2>3 DEF KeyInv, OnePerKey, QueuedUnder, SameKey, Entry
  <2> QED
    BY <2>1, <2>2, <2>4 DEF Entry
<1> QED
  BY <1>1, KeyInvHolds, PTL

=============================================================================
