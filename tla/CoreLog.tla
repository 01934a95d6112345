------------------------------ MODULE CoreLog ------------------------------
(***************************************************************************)
(* The daemon store (whatevrd/internal/core): an append-only log of inputs *)
(* and tables folded from it, both in one SQLite file, both written by one *)
(* writer goroutine.  Callers hand batches to the writer over an unbuffered*)
(* channel and wait for the seqs of their inputs; readers wait for a seq   *)
(* to be folded.  Everything between two writes of shared state is a step  *)
(* of its own: the commit, the publication of a counter, an answer.        *)
(*                                                                         *)
(* What is durable: the log, and the tables as of the last commit made     *)
(* with synchronous=FULL.  Fold commits use NORMAL, so losing power may    *)
(* bring back any state of the tables since the last FULL commit.          *)
(***************************************************************************)
EXTENDS Integers, Sequences

CONSTANTS
    Callers,    \* goroutines that call AppendBatch, then WaitFolded
    Inputs,     \* what an input can be
    BatchOf,    \* the inputs each caller hands over, in order
    Bad,        \* inputs whose fold returns an error or panics
    Kept,       \* inputs whose fold fills a table that no domain owns
    DrainMax,   \* requests that may share one commit (drainMax)
    FoldMax,    \* inputs one fold transaction may take (foldMax)
    MaxSeq,     \* bound: the highest seq a behaviour reaches
    MaxTries,   \* bound: how often one batch is handed over
    Left0       \* bound: how often each kind of disturbance happens

(* The disturbances a behaviour may meet, each a bounded number of times. *)
Disturbances == {"cancel", "appendFails", "foldFails", "stop", "rebuild", "reset"}

ASSUME BatchAssumption ==
    /\ BatchOf \in [Callers -> Seq(Inputs)]
    /\ \A c \in Callers : BatchOf[c] # << >>
ASSUME KindAssumption == Bad \subseteq Inputs /\ Kept \subseteq Inputs
ASSUME LimitAssumption ==
    /\ DrainMax \in Nat \ {0} /\ FoldMax \in Nat \ {0}
    /\ MaxSeq \in Nat /\ MaxTries \in Nat
    /\ Left0 \in [Disturbances -> Nat]

VARIABLES
    log,       \* the inputs table, seq -> input
    erased,    \* the seqs up to this one were deleted by a Reset
    last,      \* sqlite_sequence: the last seq ever handed out
    tables,    \* the folded tables and core_meta.folded_seq, as readers see them
    recent,    \* every value of tables that losing power now may leave
    appended,  \* DB.appended
    folded,    \* DB.folded
    closedWaits, \* how many foldedWait channels were closed so far
    announced, \* what the views know of: the last Change.Through, or the open
    writer,    \* where the writer goroutine is
    batch,     \* the requests the writer took and has not answered
    staged,    \* their inputs, in order, before they are committed
    through,   \* what setFolded is about to store
    touched,   \* the commit being published changed rows some view shows
    retrying,  \* a failed fold is waiting out its backoff (wait # nil)
    call,      \* where each caller is
    tries,     \* how many times each caller has called
    reply,     \* what the done channel of a caller's current call holds
    acked,     \* the first seq AppendBatch returned to each caller, 0 before
    wait,      \* the foldedWait channel each caller holds in WaitFolded
    left       \* disturbances still to come

diskVars   == <<log, erased, last, tables, recent>>
writerVars == <<writer, batch, staged, through, touched, retrying>>
pubVars    == <<appended, folded, closedWaits, announced>>
callVars   == <<call, tries, reply, acked, wait>>
vars       == <<diskVars, writerVars, pubVars, callVars, left>>

-----------------------------------------------------------------------------
Seqs == 1..MaxSeq
NoReply == -1
ErrReply == 0

(* What a table row records of the seqs: how often the input was folded    *)
(* into the tables the domains own, which inputs failed, and which inputs  *)
(* left a row in a table no domain owns (scheduled, folders, ...).         *)
EmptyTables(kept) ==
    [folded |-> 0, times |-> [s \in Seqs |-> 0], failures |-> {}, kept |-> kept]

Up      == writer \notin {"down"}
Pending == folded < appended
Handing == {c \in Callers : call[c] = "handing"}
Size(c) == Len(BatchOf[c])
Spend(d) == left[d] > 0 /\ left' = [left EXCEPT ![d] = @ - 1]

Init ==
    /\ log = << >> /\ erased = 0 /\ last = 0
    /\ tables = EmptyTables({}) /\ recent = {tables}
    /\ appended = 0 /\ folded = 0 /\ closedWaits = 0 /\ announced = 0
    /\ writer = "loop" /\ batch = << >> /\ staged = << >>
    /\ through = 0 /\ touched = FALSE /\ retrying = FALSE
    /\ call = [c \in Callers |-> "idle"]
    /\ tries = [c \in Callers |-> 0]
    /\ reply = [c \in Callers |-> NoReply]
    /\ acked = [c \in Callers |-> 0]
    /\ wait = [c \in Callers |-> 0]
    /\ left = Left0

-----------------------------------------------------------------------------
(* The callers: AppendBatch. *)

(* A caller parks at the appends channel.  A batch whose call failed was not *)
(* acked, so it is handed over again.                                        *)
AppendBatch(c) ==
    /\ Up /\ call[c] \in {"idle", "failed"} /\ tries[c] < MaxTries
    /\ call' = [call EXCEPT ![c] = "handing"]
    /\ tries' = [tries EXCEPT ![c] = @ + 1]
    /\ reply' = [reply EXCEPT ![c] = NoReply]
    /\ UNCHANGED <<diskVars, writerVars, pubVars, acked, wait, left>>

(* The writer is gone: ErrClosed. *)
AppendClosed(c) ==
    /\ writer = "closed" /\ call[c] = "handing"
    /\ call' = [call EXCEPT ![c] = "failed"]
    /\ UNCHANGED <<diskVars, writerVars, pubVars, tries, reply, acked, wait, left>>

(* The context ends before or after the hand-over: the call fails, and a    *)
(* request the writer has may still commit.                                 *)
AppendCancelled(c) ==
    /\ Up /\ call[c] \in {"handing", "waiting"}
    /\ Spend("cancel")
    /\ call' = [call EXCEPT ![c] = "failed"]
    /\ UNCHANGED <<diskVars, writerVars, pubVars, tries, reply, acked, wait>>

(* The caller takes the answer from its done channel. *)
AppendReturns(c) ==
    /\ Up /\ call[c] = "waiting" /\ reply[c] # NoReply
    /\ call' = [call EXCEPT ![c] = IF reply[c] = ErrReply THEN "failed" ELSE "acked"]
    /\ acked' = [acked EXCEPT ![c] = reply[c]]
    /\ reply' = [reply EXCEPT ![c] = NoReply]
    /\ UNCHANGED <<diskVars, writerVars, pubVars, tries, wait, left>>

-----------------------------------------------------------------------------
(* The callers: WaitFolded on the last seq of what they appended. *)

Target(c) == acked[c] + Size(c) - 1

WaitTake(c) ==
    /\ Up
    /\ \/ call[c] = "acked"
       \/ call[c] = "blocked" /\ closedWaits # wait[c]
    /\ wait' = [wait EXCEPT ![c] = closedWaits]
    /\ call' = [call EXCEPT ![c] = "checking"]
    /\ UNCHANGED <<diskVars, writerVars, pubVars, tries, reply, acked, left>>

(* mutant: waits for the append counter instead of the fold counter *)
WaitCheckAppended(c) ==
    /\ Up /\ call[c] = "checking"
    /\ call' = [call EXCEPT ![c] = IF appended >= Target(c) THEN "seen" ELSE "blocked"]
    /\ wait' = [wait EXCEPT ![c] = IF call'[c] = "seen" THEN 0 ELSE @]
    /\ UNCHANGED <<diskVars, writerVars, pubVars, tries, reply, acked, left>>

WaitCheck(c) ==
    /\ Up /\ call[c] = "checking"
    /\ call' = [call EXCEPT ![c] = IF folded >= Target(c) THEN "seen" ELSE "blocked"]
    /\ wait' = [wait EXCEPT ![c] = IF call'[c] = "seen" THEN 0 ELSE @]
    /\ UNCHANGED <<diskVars, writerVars, pubVars, tries, reply, acked, left>>

WaitClosed(c) ==
    /\ writer = "closed" /\ call[c] = "blocked"
    /\ call' = [call EXCEPT ![c] = IF folded >= Target(c) THEN "seen" ELSE "gaveUp"]
    /\ UNCHANGED <<diskVars, writerVars, pubVars, tries, reply, acked, wait, left>>

WaitCancelled(c) ==
    /\ Up /\ call[c] = "blocked" /\ Spend("cancel")
    /\ call' = [call EXCEPT ![c] = "gaveUp"]
    /\ UNCHANGED <<diskVars, writerVars, pubVars, tries, reply, acked, wait>>

-----------------------------------------------------------------------------
(* The writer: appends.  The loop takes one request, drain takes what else *)
(* is parked at that moment, and the batch is one transaction.             *)

(* mutant: tells every request of a batch the batch's first seq *)
ReceiveFirstOfBatch(c) ==
    /\ writer \in {"loop", "drain"} /\ call[c] = "handing"
    /\ Len(batch) < DrainMax
    /\ last + Len(staged) + Size(c) <= MaxSeq
    /\ writer' = "drain"
    /\ batch' = Append(batch, [caller |-> c, try |-> tries[c], first |-> last + 1])
    /\ staged' = staged \o BatchOf[c]
    /\ call' = [call EXCEPT ![c] = "waiting"]
    /\ UNCHANGED <<diskVars, pubVars, through, touched, retrying, tries, reply, acked, wait, left>>

Receive(c) ==
    /\ writer \in {"loop", "drain"} /\ call[c] = "handing"
    /\ Len(batch) < DrainMax
    /\ last + Len(staged) + Size(c) <= MaxSeq
    /\ writer' = "drain"
    /\ batch' = Append(batch, [caller |-> c, try |-> tries[c], first |-> last + Len(staged) + 1])
    /\ staged' = staged \o BatchOf[c]
    /\ call' = [call EXCEPT ![c] = "waiting"]
    /\ UNCHANGED <<diskVars, pubVars, through, touched, retrying, tries, reply, acked, wait, left>>

Drained ==
    /\ writer = "drain"
    /\ \/ Len(batch) = DrainMax
       \/ \A c \in Handing : last + Len(staged) + Size(c) > MaxSeq

(* commitTx under synchronous=FULL: the whole batch is in the log, and so   *)
(* is every fold commit before it.                                          *)
CommitTx ==
    /\ Drained
    /\ last' = last + Len(staged)
    /\ log' = [s \in (erased + 1)..(last + Len(staged)) |->
                  IF s <= last THEN log[s] ELSE staged[s - last]]
    /\ recent' = {tables}
    /\ writer' = "committed" /\ staged' = << >>
    /\ UNCHANGED <<erased, tables, pubVars, batch, through, touched, retrying, callVars, left>>

(* The transaction fails and rolls back whole; every request is answered    *)
(* with the error.                                                          *)
CommitFails ==
    /\ Drained /\ Spend("appendFails")
    /\ batch' = [i \in DOMAIN batch |-> [batch[i] EXCEPT !.first = ErrReply]]
    /\ writer' = "answering" /\ staged' = << >>
    /\ UNCHANGED <<diskVars, pubVars, through, touched, retrying, callVars>>

(* mutant: publishes the first seq of the batch instead of its last *)
PublishFirst ==
    /\ writer = "committed"
    /\ appended' = Head(batch).first
    /\ writer' = "answering"
    /\ UNCHANGED <<diskVars, folded, closedWaits, announced, batch, staged, through,
                   touched, retrying, callVars, left>>

PublishAppended ==
    /\ writer = "committed"
    /\ appended' = last
    /\ writer' = "answering"
    /\ UNCHANGED <<diskVars, folded, closedWaits, announced, batch, staged, through,
                   touched, retrying, callVars, left>>

(* mutant: answers one request of the batch and forgets the others *)
AnswerOnlyFirst ==
    /\ writer = "answering" /\ batch # << >>
    /\ LET req == Head(batch) IN
       reply' = IF call[req.caller] = "waiting" /\ tries[req.caller] = req.try
                THEN [reply EXCEPT ![req.caller] = req.first] ELSE reply
    /\ batch' = << >> /\ writer' = "loop"
    /\ UNCHANGED <<diskVars, pubVars, staged, through, touched, retrying, call, tries, acked, wait,
                   left>>

(* One answer.  The done channel belongs to one call: a caller that gave up *)
(* on it never reads it.                                                    *)
Answer ==
    /\ writer = "answering" /\ batch # << >>
    /\ LET req == Head(batch) IN
       reply' = IF call[req.caller] = "waiting" /\ tries[req.caller] = req.try
                THEN [reply EXCEPT ![req.caller] = req.first] ELSE reply
    /\ batch' = Tail(batch)
    /\ writer' = IF Len(batch) = 1 THEN "loop" ELSE "answering"
    /\ UNCHANGED <<diskVars, pubVars, staged, through, touched, retrying, call, tries, acked, wait,
                   left>>

-----------------------------------------------------------------------------
(* The writer: folds.  Only when no request is parked, and not while a      *)
(* failed fold waits out its backoff.                                       *)

MayFold == writer = "loop" /\ Pending /\ ~retrying /\ Handing = {}

(* mutant: folded_seq is not part of the fold's transaction *)
FoldThroughUnmarked(tab, t) ==
    LET now(s) == s \in DOMAIN log /\ folded < s /\ s <= t IN
    [tab EXCEPT !.times = [s \in Seqs |-> IF now(s) /\ log[s] \notin Bad \cup Kept
                                          THEN @[s] + 1 ELSE @[s]]]

(* mutant: the read starts one input too late *)
FoldThroughSkipping(tab, t) ==
    LET now(s) == s \in DOMAIN log /\ folded + 1 < s /\ s <= t IN
    [folded   |-> t,
     times    |-> [s \in Seqs |-> IF now(s) /\ log[s] \notin Bad \cup Kept
                                  THEN tab.times[s] + 1 ELSE tab.times[s]],
     failures |-> tab.failures \cup {s \in Seqs : now(s) /\ log[s] \in Bad},
     kept     |-> tab.kept \cup {s \in Seqs : now(s) /\ log[s] \in Kept \ Bad}]

(* The inputs up to seq t, folded on top of the tables of tab, each under   *)
(* its own savepoint: one that fails leaves only its failure.               *)
FoldThrough(tab, t) ==
    LET now(s) == s \in DOMAIN log /\ folded < s /\ s <= t IN
    [folded   |-> t,
     times    |-> [s \in Seqs |-> IF now(s) /\ log[s] \notin Bad \cup Kept
                                  THEN tab.times[s] + 1 ELSE tab.times[s]],
     failures |-> tab.failures \cup {s \in Seqs : now(s) /\ log[s] \in Bad},
     kept     |-> tab.kept \cup {s \in Seqs : now(s) /\ log[s] \in Kept \ Bad}]

(* mutant: only the last input of a batch says whether views must be told *)
FoldTxTouchesLast ==
    /\ MayFold
    /\ \E t \in DOMAIN log :
         /\ folded < t
         /\ t <= (IF folded < erased THEN erased ELSE folded) + FoldMax
         /\ tables' = FoldThrough(tables, t)
         /\ through' = t /\ touched' = (log[t] \notin Bad)
    /\ recent' = recent \cup {tables'}
    /\ writer' = "store"
    /\ UNCHANGED <<log, erased, last, pubVars, batch, staged, retrying, callVars, left>>

(* One fold transaction takes the inputs after folded, at most FoldMax, and *)
(* may end early (foldBytes, foldBudget, finishMax).                        *)
FoldTx ==
    /\ MayFold
    /\ \E t \in DOMAIN log :
         /\ folded < t
         /\ t <= (IF folded < erased THEN erased ELSE folded) + FoldMax
         /\ tables' = FoldThrough(tables, t)
         /\ through' = t
         /\ touched' = \E s \in DOMAIN log : folded < s /\ s <= t /\ log[s] \notin Bad
    /\ recent' = recent \cup {tables'}
    /\ writer' = "store"
    /\ UNCHANGED <<log, erased, last, pubVars, batch, staged, retrying, callVars, left>>

FoldFails ==
    /\ MayFold /\ Spend("foldFails")
    /\ retrying' = TRUE
    /\ UNCHANGED <<diskVars, pubVars, writer, batch, staged, through, touched, callVars>>

(* mutant: the backoff of a failed fold never ends *)
RetryNever ==
    /\ writer = "loop" /\ retrying
    /\ UNCHANGED vars

RetryTimer ==
    /\ writer = "loop" /\ retrying
    /\ retrying' = FALSE
    /\ UNCHANGED <<diskVars, pubVars, writer, batch, staged, through, touched, callVars,
                   left>>

(* setFolded: the counter first, then the channel every waiter holds.       *)
StoreFolded ==
    /\ writer = "store"
    /\ folded' = through
    /\ writer' = "wake"
    /\ UNCHANGED <<diskVars, appended, closedWaits, announced, batch, staged, through, touched, retrying,
                   callVars, left>>

(* mutant: the counter moves and no waiter is woken *)
WakeNobody ==
    /\ writer = "wake"
    /\ writer' = "announce"
    /\ UNCHANGED <<diskVars, pubVars, batch, staged, through, touched, retrying, callVars, left>>

WakeWaiters ==
    /\ writer = "wake"
    /\ closedWaits' = closedWaits + 1
    /\ writer' = "announce"
    /\ UNCHANGED <<diskVars, appended, folded, announced, batch, staged, through, touched, retrying,
                   callVars, left>>

(* OnChange, on the writer goroutine; a commit that touched nothing says    *)
(* nothing.                                                                 *)
AnnounceChange ==
    /\ writer = "announce"
    /\ announced' = IF touched THEN through ELSE announced
    /\ through' = 0 /\ touched' = FALSE
    /\ writer' = "loop"
    /\ UNCHANGED <<diskVars, appended, folded, closedWaits, batch, staged, retrying, callVars, left>>

-----------------------------------------------------------------------------
(* Reset, for a logout: the log and the domains' tables are emptied in one  *)
(* FULL transaction and the seqs keep counting.                             *)

(* mutant: the seqs start again after a Reset (no AUTOINCREMENT) *)
ResetRestartsSeqs ==
    /\ writer = "loop" /\ Spend("reset")
    /\ log' = << >> /\ erased' = 0 /\ last' = 0
    /\ tables' = EmptyTables(tables.kept) /\ recent' = {tables'}
    /\ writer' = "resetDone"
    /\ UNCHANGED <<pubVars, batch, staged, through, touched, retrying, callVars>>

(* mutant: the deletion does not count as handed-out seqs *)
ResetForgetsErased ==
    /\ writer = "loop" /\ Spend("reset")
    /\ log' = << >> /\ last' = 0
    /\ tables' = EmptyTables(tables.kept) /\ recent' = {tables'}
    /\ erased' = last
    /\ writer' = "resetDone"
    /\ UNCHANGED <<pubVars, batch, staged, through, touched, retrying, callVars>>

Reset ==
    /\ writer = "loop" /\ Spend("reset")
    /\ log' = [s \in (last + 1)..last |-> log[s]]
    /\ erased' = last
    /\ tables' = [EmptyTables(tables.kept) EXCEPT !.folded = last]
    /\ recent' = {tables'}
    /\ writer' = "resetDone"
    /\ UNCHANGED <<last, pubVars, batch, staged, through, touched, retrying, callVars>>

(* mutant: folding starts over at 0 while appended stays ahead *)
ResetPublishZero ==
    /\ writer = "resetDone"
    /\ appended' = last /\ through' = 0 /\ touched' = TRUE
    /\ writer' = "store"
    /\ UNCHANGED <<diskVars, folded, closedWaits, announced, batch, staged, retrying,
                   callVars, left>>

ResetPublish ==
    /\ writer = "resetDone"
    /\ appended' = last /\ through' = last /\ touched' = TRUE
    /\ writer' = "store"
    /\ UNCHANGED <<diskVars, folded, closedWaits, announced, batch, staged, retrying,
                   callVars, left>>

-----------------------------------------------------------------------------
(* The process.  Stopping loses everything in memory; losing power also     *)
(* loses the fold commits since the last FULL one.                          *)

Close ==
    /\ writer = "loop" /\ Spend("stop")
    /\ writer' = "closed"
    /\ UNCHANGED <<diskVars, pubVars, batch, staged, through, touched, retrying, callVars>>

Forgotten == [c \in Callers |->
    CASE call[c] \in {"handing", "waiting"} -> "failed"
      [] call[c] \in {"checking", "blocked", "seen", "gaveUp"} -> "acked"
      [] OTHER -> call[c]]

Exit(disk) ==
    /\ tables' = disk
    /\ writer' = "down"
    /\ batch' = << >> /\ staged' = << >> /\ through' = 0 /\ touched' = FALSE
    /\ retrying' = FALSE
    /\ appended' = 0 /\ folded' = 0 /\ closedWaits' = 0 /\ announced' = 0
    /\ call' = Forgotten
    /\ reply' = [c \in Callers |-> NoReply]
    /\ wait' = [c \in Callers |-> 0]
    /\ UNCHANGED <<log, erased, last, tries, acked>>

(* The process ends after Close, once every call it had is back. *)
Stopped ==
    /\ writer = "closed"
    /\ \A c \in Callers : call[c] \notin {"handing", "waiting", "checking", "blocked"}
    /\ Exit(tables) /\ UNCHANGED <<recent, left>>

(* The process is killed, or the power fails, at any point. *)
Crash ==
    /\ Up /\ Spend("stop")
    /\ \/ Exit(tables) /\ UNCHANGED recent
       \/ \E disk \in recent : Exit(disk) /\ recent' = {disk}

(* Open: a fold signature that changed, or Options.Rebuild, drops the       *)
(* domains' tables and folds the whole log again.                           *)
Rebuilt == EmptyTables(tables.kept)

Open ==
    /\ writer = "down"
    /\ \/ UNCHANGED <<tables, recent, left>>
       \/ tables' = Rebuilt /\ recent' = {Rebuilt} /\ Spend("rebuild")
    /\ appended' = IF erased < last THEN last ELSE 0
    /\ folded' = tables'.folded
    /\ announced' = tables'.folded
    /\ writer' = "loop"
    /\ UNCHANGED <<log, erased, last, closedWaits, batch, staged, through, touched, retrying,
                   callVars>>

-----------------------------------------------------------------------------
CallerStep(c) ==
    \/ AppendBatch(c) \/ AppendClosed(c) \/ AppendCancelled(c) \/ AppendReturns(c)
    \/ WaitTake(c) \/ WaitCheck(c) \/ WaitClosed(c) \/ WaitCancelled(c)

WriterStep ==
    \/ \E c \in Callers : Receive(c)
    \/ CommitTx \/ CommitFails \/ PublishAppended \/ Answer
    \/ FoldTx \/ FoldFails \/ RetryTimer \/ StoreFolded \/ WakeWaiters
    \/ AnnounceChange \/ Reset \/ ResetPublish

Next ==
    \/ \E c \in Callers : CallerStep(c)
    \/ WriterStep
    \/ Close \/ Stopped \/ Crash \/ Open

Spec == Init /\ [][Next]_vars

(* The goroutines run, a daemon that went down is started again, and a     *)
(* caller whose batch was not acked hands it over again.                    *)
Fairness ==
    /\ WF_vars(CommitTx) /\ WF_vars(PublishAppended) /\ WF_vars(Answer)
    /\ WF_vars(FoldTx) /\ WF_vars(RetryTimer) /\ WF_vars(StoreFolded)
    /\ WF_vars(WakeWaiters) /\ WF_vars(AnnounceChange) /\ WF_vars(ResetPublish)
    /\ WF_vars(Stopped) /\ WF_vars(Open)
    /\ \A c \in Callers :
         /\ WF_vars(Receive(c)) /\ WF_vars(AppendClosed(c)) /\ WF_vars(AppendReturns(c))
         /\ WF_vars(WaitTake(c)) /\ WF_vars(WaitCheck(c)) /\ WF_vars(WaitClosed(c))

FairSpec == Spec /\ Fairness

-----------------------------------------------------------------------------
TableType ==
    [folded : 0..MaxSeq, times : [Seqs -> Nat], failures : SUBSET Seqs, kept : SUBSET Seqs]

RequestType == [caller : Callers, try : Nat, first : 0..MaxSeq]

DiskType ==
    /\ erased \in 0..MaxSeq /\ last \in 0..MaxSeq /\ erased <= last
    /\ log \in [(erased + 1)..last -> Inputs]
    /\ tables \in TableType /\ recent \subseteq TableType

PublishedType ==
    /\ appended \in 0..MaxSeq /\ folded \in 0..MaxSeq
    /\ closedWaits \in Nat /\ announced \in 0..MaxSeq

WriterType ==
    /\ writer \in {"loop", "drain", "committed", "answering", "store", "wake", "announce",
                    "resetDone", "closed", "down"}
    /\ batch \in Seq(RequestType) /\ staged \in Seq(Inputs)
    /\ last + Len(staged) <= MaxSeq
    /\ through \in 0..MaxSeq /\ touched \in BOOLEAN /\ retrying \in BOOLEAN

CallType ==
    /\ call \in [Callers -> {"idle", "handing", "waiting", "failed", "acked", "checking",
                              "blocked", "seen", "gaveUp"}]
    /\ tries \in [Callers -> Nat]
    /\ reply \in [Callers -> NoReply..MaxSeq]
    /\ acked \in [Callers -> 0..MaxSeq]
    /\ wait \in [Callers -> Nat]

LeftType == left \in [Disturbances -> Nat]

(* Every variable keeps its type. *)
TypeOK == DiskType /\ PublishedType /\ WriterType /\ CallType /\ LeftType

(* An append that returned is in the log at the seqs it was told, whole and *)
(* in order, whatever crashed since, unless a Reset erased it ("the append  *)
(* is durable before Append returns"; "all of them land or none do").       *)
Stored(c, first) ==
    \A i \in 1..Size(c) :
        /\ first + i - 1 \in DOMAIN log
        /\ log[first + i - 1] = BatchOf[c][i]

AckedIsStored == \A c \in Callers : acked[c] > erased => Stored(c, acked[c])

(* The domains' tables are exactly the fold of the log up to folded_seq:    *)
(* every good input folded once, every failing one recorded, nothing of an  *)
(* input beyond it, now and in whatever losing power would leave ("derived  *)
(* tables are a pure function of the log").                                 *)
IsFold(tab) ==
    /\ tab.folded <= last
    /\ \A s \in Seqs :
         tab.times[s] = IF s \in DOMAIN log /\ s <= tab.folded /\ log[s] \notin Bad \cup Kept
                        THEN 1 ELSE 0
    /\ \A s \in Seqs :
         s \in tab.failures <=> s \in DOMAIN log /\ s <= tab.folded /\ log[s] \in Bad

TablesAreFoldOfLog == IsFold(tables) /\ \A tab \in recent : IsFold(tab)

(* A caller that waited for its inputs to be folded finds them in the tables *)
(* (WaitFolded), through resets, retries and a stale counter.                *)
SeenIsFolded ==
    \A c \in Callers : call[c] = "seen" => Target(c) <= tables.folded

(* A waiter that the counter already satisfies holds a channel that is      *)
(* closed or about to be: setFolded after the check cannot be missed.       *)
NoLostWakeup ==
    \A c \in Callers : call[c] = "blocked" /\ folded >= Target(c) =>
        wait[c] < closedWaits \/ writer = "wake"

(* Whoever has its seqs back finds them covered by Progress, so waiting for *)
(* everything appended waits for them too (commit publishes before it       *)
(* answers).                                                                *)
ProgressCoversAcks ==
    \A c \in Callers : Up /\ acked[c] > erased => Target(c) <= appended

(* The writer never believes there is something to fold when the log holds  *)
(* nothing beyond folded: its loop would spin on an empty read.             *)
PendingHasWork ==
    writer \in {"loop", "drain"} /\ Pending => \E s \in DOMAIN log : s > folded

(* No change to rows a view shows stays unannounced: back at its loop, the  *)
(* writer has told OnChange of every good input folded since the open.      *)
ViewsTold ==
    writer \in {"loop", "drain", "committed", "answering", "closed"} =>
        \A s \in DOMAIN log : announced < s /\ s <= folded => log[s] \in Bad

(* A seq names one input forever: the seqs keep counting, whatever crashes  *)
(* or empties the log, and no step gives one that was handed out another    *)
(* input (the references kept in inputs and rows, and the seqs answered).   *)
SeqsNeverReused ==
    [][/\ last <= last'
       /\ \A s \in 1..last : s \in DOMAIN log' => s \in DOMAIN log /\ log'[s] = log[s]]_vars

(* Every input in the log is folded in the end, failed folds and restarts   *)
(* notwithstanding, unless a Reset erases it.                               *)
EveryInputFolds ==
    \A s \in Seqs : s \in DOMAIN log ~> s <= tables.folded \/ s <= erased

(* Nobody waits forever: a batch handed to the writer is answered, and a    *)
(* waiter returns.                                                          *)
CallsReturn ==
    \A c \in Callers : call[c] \in {"waiting", "blocked"} ~>
                        call[c] \notin {"waiting", "blocked"}

(* The store keeps what it promises its users, which is the behaviour of    *)
(* DurableLog: every step of the writer, of a crash and of an open is one   *)
(* of its steps or changes nothing it speaks of.                            *)
Promise == INSTANCE DurableLog WITH
    entries <- log,
    rows    <- [through |-> tables.folded,
                good    |-> {s \in Seqs : tables.times[s] = 1},
                failed  |-> tables.failures],
    acks    <- acked
ImplementsDurableLog == Promise!Spec

=============================================================================
