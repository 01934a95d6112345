------------------------------ MODULE Scheduler ------------------------------
(***************************************************************************)
(* Scheduled texts (whatevrd/internal/whatsapp/schedule.go, with the       *)
(* schedule fold of model/local.go).  A text is an "add" input; its fold   *)
(* puts a row into the table scheduled, and a "sent" or "cancel" input     *)
(* takes the row away.  Every tick the scheduler reads the rows whose time *)
(* came and queues each of them under a key of its own (see Outbox), then  *)
(* logs that it went.                                                      *)
(*                                                                         *)
(* The table belongs to no domain (core/core.go:224): a rebuild folds the  *)
(* whole log again on top of the rows that are there, and a logout, which  *)
(* empties the log, leaves them.                                           *)
(***************************************************************************)
EXTENDS Integers, Sequences

CONSTANTS
    Texts,      \* scheduled texts
    SendAt,     \* when each is to go out
    Unsendable, \* texts for a chat that is no address
    Cancellable, \* texts somebody may cancel
    DueLimit,   \* rows one tick reads
    Left0       \* bound: how often each kind of disturbance happens

(* The process dies, the log is folded again at the next open, a call of    *)
(* the scheduler fails, the account logs out.                               *)
Disturbances == {"crash", "rebuild", "error", "logout"}

ASSUME TextAssumption ==
    /\ SendAt \in [Texts -> Nat]
    /\ \A t, u \in Texts : SendAt[t] = SendAt[u] => t = u
    /\ Unsendable \subseteq Texts /\ Cancellable \subseteq Texts
ASSUME BoundAssumption == DueLimit \in Nat \ {0} /\ Left0 \in [Disturbances -> Nat]

VARIABLES
    log,      \* the inputs this is about; those up to erased are deleted
    erased,   \* a logout's Reset deleted the inputs up to here
    folded,   \* how far the log is folded
    rows,     \* the table scheduled
    recent,   \* every [folded, rows] that losing power now may leave
    user,     \* per text: not scheduled, scheduled, being cancelled, cancelled
    due,      \* texts whose time came
    tick,     \* where the scheduler goroutine is
    page,     \* due texts it read and has not handled
    readAt,   \* how far the log was folded when it read them, 0 without any
    goal,     \* the seq it waits to be folded, 0 when it does not
    account,  \* counts the accounts that were linked
    linked,   \* somebody is logged in
    owner,    \* history: the account each text was scheduled under
    sentBy,   \* history: the accounts each text was queued under
    left      \* disturbances still to come

storeVars == <<log, erased, folded, rows, recent>>
tickVars  == <<tick, page, readAt, goal>>
userVars  == <<user, due, owner>>
acctVars  == <<account, linked, sentBy>>
vars == <<storeVars, tickVars, userVars, acctVars, left>>

-----------------------------------------------------------------------------
Entry(op, t) == [op |-> op, text |-> t]

Up == tick # "down"
Spend(d) == left[d] > 0 /\ left' = [left EXCEPT ![d] = @ - 1]

Has(op, t, from, to) == \E i \in from..to : log[i] = Entry(op, t)
Logged(op, t) == Has(op, t, 1, Len(log))

(* The outbox holds a send under the text's key. *)
Keyed(t) == Has("queue", t, erased + 1, folded)

(* An append is durable, and with it every fold before it. *)
Append1(e) ==
    /\ log' = Append(log, e)
    /\ recent' = {[folded |-> folded, rows |-> rows]}
    /\ UNCHANGED <<erased, folded, rows>>

Init ==
    /\ log = << >> /\ erased = 0 /\ folded = 0 /\ rows = {}
    /\ recent = {[folded |-> 0, rows |-> {}]}
    /\ user = [t \in Texts |-> "new"] /\ due = {}
    /\ tick = "idle" /\ page = << >> /\ readAt = 0 /\ goal = 0
    /\ account = 1 /\ linked = TRUE
    /\ owner = [t \in Texts |-> 0] /\ sentBy = [t \in Texts |-> {}]
    /\ left = Left0

-----------------------------------------------------------------------------
(* The frontend's calls, and time. *)

ScheduleText(t) ==
    /\ Up /\ user[t] = "new"
    /\ Append1(Entry("add", t))
    /\ user' = [user EXCEPT ![t] = "added"]
    /\ owner' = [owner EXCEPT ![t] = account]
    /\ UNCHANGED <<due, tickVars, acctVars, left>>

ComesDue(t) ==
    /\ user[t] # "new" /\ t \notin due
    /\ due' = due \cup {t}
    /\ UNCHANGED <<storeVars, user, owner, tickVars, acctVars, left>>

(* CancelScheduled reads the list first: a text that is not there is        *)
(* ErrNotFound.                                                             *)
FindScheduled(t) ==
    /\ Up /\ user[t] = "added" /\ t \in rows /\ t \in Cancellable
    /\ user' = [user EXCEPT ![t] = "asking"]
    /\ UNCHANGED <<storeVars, due, owner, tickVars, acctVars, left>>

CancelScheduled(t) ==
    /\ Up /\ user[t] = "asking"
    /\ Append1(Entry("cancel", t))
    /\ user' = [user EXCEPT ![t] = "cancelled"]
    /\ UNCHANGED <<due, owner, tickVars, acctVars, left>>

-----------------------------------------------------------------------------
(* mutant: a cancel does not take the row away *)
FoldedRowsKeepCancelled(e) ==
    IF e.op = "add" THEN rows \cup {e.text}
    ELSE IF e.op = "sent" THEN rows \ {e.text} ELSE rows

(* foldSchedule: an add is INSERT OR IGNORE, sent and cancel delete.        *)
FoldedRows(e) ==
    IF e.op = "add" THEN rows \cup {e.text}
    ELSE IF e.op \in {"sent", "cancel"} THEN rows \ {e.text} ELSE rows

FoldSchedule ==
    /\ Up /\ folded < Len(log)
    /\ rows' = FoldedRows(log[folded + 1])
    /\ folded' = folded + 1
    /\ recent' = recent \cup {[folded |-> folded', rows |-> rows']}
    /\ UNCHANGED <<log, erased, userVars, tickVars, acctVars, left>>

-----------------------------------------------------------------------------
(* The scheduler (runScheduled). *)

(* The due rows, soonest first, at most DueLimit: a row is left out only    *)
(* when the page is full of sooner ones.  There is one such page.           *)
DueScheduled ==
    LET rowsDue == rows \cap due
    IN  {p \in UNION {[1..n -> rowsDue] : n \in 0..DueLimit} :
            /\ \A i, j \in DOMAIN p : i < j => SendAt[p[i]] < SendAt[p[j]]
            /\ \A t \in rowsDue : (\E i \in DOMAIN p : p[i] = t)
                    \/ (Len(p) = DueLimit /\ \A i \in DOMAIN p : SendAt[p[i]] < SendAt[t])}

(* A tick reads what is due, without waiting for anything to fold. *)
Tick ==
    /\ tick = "idle"
    /\ page' \in DueScheduled
    /\ readAt' = IF page' = << >> THEN 0 ELSE folded
    /\ tick' = IF page' = << >> THEN "idle" ELSE "picking"
    /\ UNCHANGED <<storeVars, userVars, goal, acctVars, left>>

(* mutant: looks for an earlier send without waiting for it to fold *)
SendTextUnfolded ==
    /\ tick = "picking"
    /\ goal' = 0 /\ tick' = "folding"
    /\ UNCHANGED <<storeVars, userVars, page, readAt, acctVars, left>>

(* SendText under the text's key: what is appended now must be folded       *)
(* before an earlier send is looked for.                                    *)
SendText ==
    /\ tick = "picking"
    /\ goal' = Len(log) /\ tick' = "folding"
    /\ UNCHANGED <<storeVars, userVars, page, readAt, acctVars, left>>

(* The text is handled, the tick goes on with the next one. *)
NextText ==
    /\ page' = Tail(page)
    /\ tick' = IF Len(page) = 1 THEN "idle" ELSE "picking"
    /\ readAt' = IF Len(page) = 1 THEN 0 ELSE readAt
    /\ goal' = 0

AlreadyQueued ==
    /\ tick = "folding" /\ folded >= goal /\ Keyed(Head(page))
    /\ tick' = "marking" /\ goal' = 0
    /\ UNCHANGED <<storeVars, userVars, page, readAt, acctVars, left>>

QueueText ==
    /\ tick = "folding" /\ folded >= goal /\ ~Keyed(Head(page))
    /\ linked /\ Head(page) \notin Unsendable
    /\ Append1(Entry("queue", Head(page)))
    /\ sentBy' = [sentBy EXCEPT ![Head(page)] = @ \cup {account}]
    /\ tick' = "marking" /\ goal' = 0
    /\ UNCHANGED <<userVars, page, readAt, account, linked, left>>

(* mutant: a send that failed ends the tick *)
SendFailsStops ==
    /\ tick = "folding" /\ folded >= goal /\ ~Keyed(Head(page))
    /\ ~linked \/ Head(page) \in Unsendable
    /\ page' = << >> /\ tick' = "idle" /\ readAt' = 0 /\ goal' = 0
    /\ UNCHANGED <<storeVars, userVars, acctVars, left>>

(* Nobody is logged in, or the chat is no address: the row stays for the    *)
(* next tick.                                                               *)
SendFails ==
    /\ tick = "folding" /\ folded >= goal /\ ~Keyed(Head(page))
    /\ ~linked \/ Head(page) \in Unsendable
    /\ NextText
    /\ UNCHANGED <<storeVars, userVars, acctVars, left>>

(* The wait times out, or an append fails: of the send, or of the note that *)
(* it went.                                                                 *)
CallFails ==
    /\ tick \in {"folding", "marking"} /\ Spend("error")
    /\ NextText
    /\ UNCHANGED <<storeVars, userVars, acctVars>>

MarkSent ==
    /\ tick = "marking"
    /\ Append1(Entry("sent", Head(page)))
    /\ NextText
    /\ UNCHANGED <<userVars, acctVars, left>>

-----------------------------------------------------------------------------
(* The account and the process. *)

(* wipe: the account's goroutines end, Reset empties the log, and they      *)
(* start again for whoever links next.                                      *)
Logout ==
    /\ Up /\ linked /\ Spend("logout")
    /\ erased' = Len(log) /\ folded' = Len(log)
    /\ recent' = {[folded |-> folded', rows |-> rows]}
    /\ linked' = FALSE /\ account' = account + 1
    /\ tick' = "idle" /\ page' = << >> /\ readAt' = 0 /\ goal' = 0
    /\ UNCHANGED <<log, rows, userVars, sentBy>>

Login ==
    /\ Up /\ ~linked
    /\ linked' = TRUE
    /\ UNCHANGED <<storeVars, userVars, tickVars, account, sentBy, left>>

Crash ==
    /\ Up /\ Spend("crash")
    /\ \E disk \in recent :
         /\ folded' = disk.folded /\ rows' = disk.rows
         /\ recent' = {disk}
    /\ user' = [t \in Texts |-> IF user[t] = "asking" THEN "added" ELSE user[t]]
    /\ tick' = "down" /\ page' = << >> /\ readAt' = 0 /\ goal' = 0
    /\ UNCHANGED <<log, erased, due, owner, acctVars>>

(* A fold signature that changed folds the log again, on top of the rows    *)
(* that are there.                                                          *)
Open ==
    /\ tick = "down"
    /\ \/ UNCHANGED <<folded, recent, left>>
       \/ /\ folded' = erased /\ Spend("rebuild")
          /\ recent' = {[folded |-> erased, rows |-> rows]}
    /\ tick' = "idle"
    /\ UNCHANGED <<log, erased, rows, userVars, page, readAt, goal, acctVars>>

-----------------------------------------------------------------------------
UserStep(t) == ScheduleText(t) \/ ComesDue(t) \/ FindScheduled(t) \/ CancelScheduled(t)

TickStep ==
    \/ Tick \/ SendText \/ AlreadyQueued \/ QueueText
    \/ SendFails \/ CallFails \/ MarkSent

Next ==
    \/ \E t \in Texts : UserStep(t)
    \/ TickStep
    \/ FoldSchedule \/ Logout \/ Login \/ Crash \/ Open

Spec == Init /\ [][Next]_vars

(* The ticker ticks, the goroutine and the writer run, a daemon that went   *)
(* down is started again, and somebody logs in again.                       *)
Fairness ==
    /\ WF_vars(Tick) /\ WF_vars(SendText) /\ WF_vars(AlreadyQueued) /\ WF_vars(QueueText)
    /\ WF_vars(SendFails) /\ WF_vars(MarkSent)
    /\ WF_vars(FoldSchedule) /\ WF_vars(Login) /\ WF_vars(Open)

FairSpec == Spec /\ Fairness

-----------------------------------------------------------------------------
(* Every variable keeps its type. *)
TypeOK ==
    /\ log \in Seq([op : {"add", "sent", "cancel", "queue"}, text : Texts])
    /\ erased \in 0..Len(log) /\ folded \in erased..Len(log) /\ rows \subseteq Texts
    /\ recent \subseteq [folded : erased..Len(log), rows : SUBSET Texts]
    /\ user \in [Texts -> {"new", "added", "asking", "cancelled"}] /\ due \subseteq Texts
    /\ tick \in {"down", "idle", "picking", "folding", "marking"}
    /\ page \in Seq(Texts) /\ Len(page) <= DueLimit
    /\ (tick \in {"picking", "folding", "marking"}) = (page # << >>)
    /\ readAt \in 0..Len(log) /\ goal \in 0..Len(log)
    /\ account \in Nat /\ linked \in BOOLEAN
    /\ owner \in [Texts -> Nat] /\ sentBy \in [Texts -> SUBSET Nat]
    /\ left \in [Disturbances -> Nat]

(* In the log of one account a scheduled text is queued once, whatever      *)
(* failed between the queueing and the note that it went, and whatever was  *)
(* folded again ("the once key keeps a retry from sending twice").          *)
OncePerText ==
    \A i, j \in (erased + 1)..Len(log) : log[i].op = "queue" /\ log[i] = log[j] => i = j

(* A cancel that was folded when the tick read the table keeps the text     *)
(* from being queued by it.                                                 *)
CancelSeenHolds ==
    [][\A t \in Texts : QueueText /\ Head(page) = t => ~Has("cancel", t, erased + 1, readAt)]_vars

(* A text whose time came goes out in the end, unless it is cancelled or a  *)
(* logout erases it: a text that cannot be sent does not keep others back.  *)
(* Once it was queued it leaves the table for good, though the note that it *)
(* went may fail and be left for a later tick.                              *)
EachTextSettles ==
    /\ \A t \in Texts \ Unsendable :
         t \in due ~> Logged("queue", t) \/ Logged("cancel", t) \/ Has("add", t, 1, erased)
    /\ \A t \in Texts : Logged("queue", t) ~> [](t \notin rows)

(* What Reset's comment says: the next account starts from nothing, so a    *)
(* text goes out under the account that scheduled it.                       *)
OwnAccountOnly == \A t \in Texts : sentBy[t] \subseteq {owner[t]}

=============================================================================
