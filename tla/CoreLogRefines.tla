---------------------------- MODULE CoreLogRefines ----------------------------
(* The proof that CoreLog implements DurableLog: what readers and callers   *)
(* see of the store is a log of whole batches and the fold of a prefix.     *)
EXTENDS CoreLogProofs

(* Every input that is staged is part of a batch that is staged whole.      *)
WholeAt(j) ==
    \E c \in Callers : \E i \in DOMAIN BatchOf[c] :
        /\ i <= j
        /\ \A m \in DOMAIN BatchOf[c] :
              j - i + m \in DOMAIN staged /\ staged[j - i + m] = BatchOf[c][m]

StagedWhole == \A j \in DOMAIN staged : WholeAt(j)

(* Nobody whose call is still to succeed holds a seq.                       *)
UntoldHoldsNone ==
    \A c \in Callers : call[c] \in {"idle", "handing", "waiting", "failed"} => acked[c] = 0

(* The store starts with nothing staged and nobody told. *)
LEMMA InitHandOver == Init => StagedWhole /\ UntoldHoldsNone
BY DEF Init, StagedWhole, UntoldHoldsNone

(* A batch joins what is staged whole, and leaves it with all the others.   *)
LEMMA StagedStep == TypeOK /\ StagedWhole /\ [Next]_vars => StagedWhole'
<1> SUFFICES ASSUME TypeOK, StagedWhole, [Next]_vars PROVE StagedWhole'
  OBVIOUS
<1>1. CASE staged' = staged
  BY <1>1 DEF StagedWhole, WholeAt
<1>2. CASE staged' = << >>
  BY <1>2 DEF StagedWhole
<1>3. ASSUME NEW c \in Callers, Receive(c) PROVE StagedWhole'
  <2>1. staged \in Seq(Inputs) /\ BatchOf[c] \in Seq(Inputs)
    BY SizePositive DEF TypeOK, WriterType
  <2>2. staged' = staged \o BatchOf[c]
    BY <1>3 DEF Receive
  <2>3. /\ \A j \in DOMAIN staged : j \in DOMAIN staged' /\ staged'[j] = staged[j]
        /\ \A m \in DOMAIN BatchOf[c] : /\ Len(staged) + m \in DOMAIN staged'
                                        /\ staged'[Len(staged) + m] = BatchOf[c][m]
        /\ \A j \in DOMAIN staged' \ DOMAIN staged : j - Len(staged) \in DOMAIN BatchOf[c]
        /\ DOMAIN staged' \subseteq Int /\ Len(staged) \in Nat
    BY <2>1, <2>2
  <2>4. ASSUME NEW j \in DOMAIN staged PROVE WholeAt(j)'
    BY <2>3 DEF StagedWhole, WholeAt
  <2>5. ASSUME NEW j \in DOMAIN staged', j \notin DOMAIN staged PROVE WholeAt(j)'
    <3>1. j - Len(staged) \in DOMAIN BatchOf[c] /\ j \in Int /\ j - Len(staged) <= j
      BY <2>3, <2>5
    <3>2. ASSUME NEW m \in DOMAIN BatchOf[c]
          PROVE  /\ j - (j - Len(staged)) + m \in DOMAIN staged'
                 /\ staged'[j - (j - Len(staged)) + m] = BatchOf[c][m]
      <4>1. m \in Int
        BY <2>1
      <4>2. j - (j - Len(staged)) + m = Len(staged) + m
        BY <2>3, <3>1, <4>1
      <4> QED
        BY <2>3, <4>2
    <3> QED
      BY <3>1, <3>2 DEF WholeAt
  <2> QED
    BY <2>4, <2>5 DEF StagedWhole
<1>4. ASSUME NEW c \in Callers, CallerStep(c) PROVE staged' = staged
  BY <1>4, CallerLeaves DEF writerVars
<1>5. CASE Close \/ Stopped \/ Crash \/ Open
  <2>1. CASE Close \/ Open
    BY <1>1, <2>1 DEF Close, Open
  <2>2. CASE Stopped \/ Crash
    BY <1>2, <2>2 DEF Stopped, Crash, Exit
  <2> QED
    BY <1>5, <2>1, <2>2
<1>6. CASE WriterStep
  <2>1. CASE CommitTx \/ CommitFails
    BY <1>2, <2>1 DEF CommitTx, CommitFails
  <2>2. CASE \/ PublishAppended \/ Answer \/ FoldTx \/ FoldFails \/ RetryTimer \/ StoreFolded
             \/ WakeWaiters \/ AnnounceChange \/ Reset \/ ResetPublish
    BY <1>1, <2>2 DEF PublishAppended, Answer, FoldTx, FoldFails, RetryTimer, StoreFolded,
                      WakeWaiters, AnnounceChange, Reset, ResetPublish
  <2> QED
    BY <1>3, <1>6, <2>1, <2>2 DEF WriterStep
<1> QED
  BY <1>1, <1>3, <1>4, <1>5, <1>6 DEF Next, vars, writerVars

(* A seq comes with the answer of the call, and a crash forgets only calls  *)
(* that had none.                                                           *)
LEMMA UntoldStep == TypeOK /\ UntoldHoldsNone /\ [Next]_vars => UntoldHoldsNone'
<1> SUFFICES ASSUME TypeOK, UntoldHoldsNone, [Next]_vars PROVE UntoldHoldsNone'
  OBVIOUS
<1>1. DOMAIN call = Callers /\ acked \in [Callers -> 0..MaxSeq]
  BY DEF TypeOK, CallType
<1>2. ASSUME UNCHANGED acked, \A c \in Callers : call'[c] = call[c] \/ acked[c] = 0
             \/ call'[c] \notin {"idle", "handing", "waiting", "failed"}
      PROVE  UntoldHoldsNone'
  BY <1>2 DEF UntoldHoldsNone
<1>3. ASSUME NEW c \in Callers, CallerStep(c) PROVE UntoldHoldsNone'
  <2>1. CASE AppendReturns(c)
    BY <1>1, <2>1 DEF AppendReturns, UntoldHoldsNone, ErrReply
  <2>2. CASE AppendBatch(c) \/ AppendClosed(c) \/ AppendCancelled(c)
    BY <1>1, <1>2, <2>2 DEF AppendBatch, AppendClosed, AppendCancelled, UntoldHoldsNone
  <2>3. CASE WaitTake(c) \/ WaitCheck(c) \/ WaitClosed(c) \/ WaitCancelled(c)
    BY <1>1, <1>2, <2>3 DEF WaitTake, WaitCheck, WaitClosed, WaitCancelled
  <2> QED
    BY <1>3, <2>1, <2>2, <2>3 DEF CallerStep
<1>4. CASE WriterStep
  <2>1. ASSUME NEW c \in Callers, Receive(c) PROVE UntoldHoldsNone'
    BY <1>1, <1>2, <2>1 DEF Receive, UntoldHoldsNone
  <2>2. CASE CommitTx \/ CommitFails \/ PublishAppended \/ Answer \/ ResetPublish \/ Reset
    BY <1>2, <2>2 DEF CommitTx, CommitFails, PublishAppended, Answer, ResetPublish, Reset, callVars
  <2>3. CASE \/ FoldTx \/ FoldFails \/ RetryTimer \/ StoreFolded \/ WakeWaiters
             \/ AnnounceChange
    BY <1>2, <2>3 DEF FoldTx, FoldFails, RetryTimer, StoreFolded, WakeWaiters, AnnounceChange,
                      callVars
  <2> QED
    BY <1>4, <2>1, <2>2, <2>3 DEF WriterStep
<1>5. CASE Stopped \/ Crash
  BY <1>1, <1>2, <1>5 DEF Stopped, Crash, Exit, Forgotten, UntoldHoldsNone
<1>6. CASE Close \/ Open \/ UNCHANGED vars
  BY <1>2, <1>6 DEF Close, Open, callVars, vars
<1> QED
  BY <1>3, <1>4, <1>5, <1>6 DEF Next

-----------------------------------------------------------------------------
(* What the abstract store sees.                                            *)

Rows == [through |-> tables.folded,
         good    |-> {s \in Seqs : tables.times[s] = 1},
         failed  |-> tables.failures]

(* Tables that are the fold of the log are what DurableLog shows. *)
LEMMA RowsAreFold ==
  ASSUME FoldInv
  PROVE  Rows = Promise!FoldOf(log, tables.folded) /\ tables.folded \in 0..last
<1>1. /\ IsFold(tables) /\ tables \in TableType /\ DOMAIN log \subseteq Seqs /\ last \in Nat
  BY LimitAssumption DEF FoldInv, TablesAreFoldOfLog, TypeOK, DiskType, Seqs
<1>2. tables.folded \in Nat /\ tables.failures \subseteq Seqs /\ tables.folded <= last
  BY <1>1 DEF TableType, IsFold
<1>3. {s \in Seqs : tables.times[s] = 1}
         = {s \in DOMAIN log : s <= tables.folded /\ log[s] \notin Bad \cup Kept}
  <2>1. ASSUME NEW s \in Seqs
        PROVE  tables.times[s] = 1
                  <=> s \in DOMAIN log /\ s <= tables.folded /\ log[s] \notin Bad \cup Kept
    BY <1>1 DEF IsFold
  <2> QED
    BY <1>1, <2>1
<1>4. tables.failures = {s \in DOMAIN log : s <= tables.folded /\ log[s] \in Bad}
  BY <1>1, <1>2 DEF IsFold
<1> QED
  BY <1>1, <1>2, <1>3, <1>4, SMTT(30) DEF Rows, Promise!FoldOf

(* A stored batch is a batch in the sense of DurableLog. *)
LEMMA StoredIsBatch ==
  ASSUME NEW c \in Callers, NEW first, Stored(c, first)
  PROVE  Promise!IsBatchAt(log, c, first)
<1>1. BatchOf[c] \in Seq(Inputs)
  BY SizePositive
<1>2. DOMAIN BatchOf[c] = 1..Size(c)
  BY <1>1 DEF Size
<1> QED
  BY <1>2 DEF Stored, Promise!IsBatchAt

(* The first state of the store is the first state it promises. *)
LEMMA InitPromise == Init => Promise!Init
<1> SUFFICES ASSUME Init PROVE Promise!Init
  OBVIOUS
<1>1. Rows = Promise!FoldOf(log, tables.folded)
  BY InitFold, RowsAreFold
<1> QED
  BY <1>1 DEF Init, EmptyTables, Rows, Promise!Init

(* A commit stores whole batches behind the log. *)
LEMMA CommitStores ==
  ASSUME WorkInv, FoldInv', StagedWhole, CommitTx
  PROVE  Promise!Store
<1>1. /\ last' = last + Len(staged) /\ UNCHANGED <<erased, tables, acked>>
      /\ log' = [s \in (erased + 1)..(last + Len(staged)) |->
                   IF s <= last THEN log[s] ELSE staged[s - last]]
  BY DEF CommitTx, callVars
<1>2. /\ erased \in Nat /\ last \in Nat /\ erased <= last /\ DOMAIN log = (erased + 1)..last
      /\ staged \in Seq(Inputs) /\ staged # << >>
  BY WorkNumbers DEF WorkInv, CountersWithin, FoldInv, TypeOK, WriterType, CommitTx, Drained
<1>3. Len(staged) \in Nat /\ Len(staged) > 0 /\ DOMAIN staged = 1..Len(staged)
  BY <1>2
<1>4. /\ last' > last /\ DOMAIN log' = (erased + 1)..last'
      /\ \A s \in DOMAIN log : log'[s] = log[s]
  BY <1>1, <1>2, <1>3
<1>5. \A j \in DOMAIN staged : last + j \in DOMAIN log' /\ log'[last + j] = staged[j]
  BY <1>1, <1>2, <1>3
<1>6. ASSUME NEW s \in (last + 1)..last'
      PROVE  \E c \in Callers : \E i \in DOMAIN BatchOf[c] :
                s - i >= last /\ Promise!IsBatchAt(log', c, s - i + 1)
  <2>1. s \in Int /\ s - last \in DOMAIN staged
    BY <1>1, <1>2, <1>3
  <2>2. PICK c \in Callers : \E k \in DOMAIN BatchOf[c] :
          /\ k <= s - last
          /\ \A m \in DOMAIN BatchOf[c] :
                s - last - k + m \in DOMAIN staged /\ staged[s - last - k + m] = BatchOf[c][m]
    BY <2>1 DEF StagedWhole, WholeAt
  <2>3. PICK i \in DOMAIN BatchOf[c] :
          /\ i <= s - last
          /\ \A m \in DOMAIN BatchOf[c] :
                s - last - i + m \in DOMAIN staged /\ staged[s - last - i + m] = BatchOf[c][m]
    BY <2>2
  <2>4. BatchOf[c] \in Seq(Inputs)
    BY SizePositive
  <2>5. i \in Int /\ s - i >= last
    BY <1>2, <2>1, <2>4, <2>3
  <2>6. ASSUME NEW m \in DOMAIN BatchOf[c]
        PROVE  s - i + 1 + m - 1 \in DOMAIN log' /\ log'[s - i + 1 + m - 1] = BatchOf[c][m]
    <3>1. m \in Int
      BY <2>4
    <3>2. s - i + 1 + m - 1 = last + (s - last - i + m)
      BY <1>2, <2>1, <2>5, <3>1
    <3> QED
      BY <1>5, <2>3, <3>2
  <2> QED
    BY <2>5, <2>6 DEF Promise!IsBatchAt
<1> QED
  BY <1>1, <1>4, <1>6 DEF Promise!Store

(* The answer of a call acknowledges a stored batch, or tells of an error.  *)
LEMMA ReturnAcknowledges ==
  ASSUME AckInv, UntoldHoldsNone, NEW c \in Callers, AppendReturns(c)
  PROVE  Promise!Acknowledge(c) \/ UNCHANGED <<log, erased, last, tables, acked>>
<1>1. /\ call[c] = "waiting" /\ reply[c] # -1 /\ acked' = [acked EXCEPT ![c] = reply[c]]
      /\ UNCHANGED <<log, erased, last, tables>>
  BY DEF AppendReturns, NoReply, diskVars
<1>2. acked \in [Callers -> 0..MaxSeq] /\ reply[c] \in Nat /\ acked[c] = 0
  BY <1>1, LimitAssumption DEF AckInv, TypeOK, CallType, NoReply, UntoldHoldsNone
<1>3. acked'[c] = reply[c]
  BY <1>1, <1>2
<1>4. CASE reply[c] = 0
  <2>1. acked' = acked
    BY <1>1, <1>2, <1>4
  <2> QED
    BY <1>1, <2>1
<1>5. CASE reply[c] > 0
  <2>1. acked'[c] > erased => Promise!IsBatchAt(log, c, acked'[c])
    BY <1>3, StoredIsBatch DEF AckInv, RepliesStand
  <2>2. acked' = [acked EXCEPT ![c] = acked'[c]]
    BY <1>1, <1>3
  <2> QED
    BY <1>1, <1>2, <1>3, <1>5, <2>1, <2>2 DEF Promise!Acknowledge
<1> QED
  BY <1>2, <1>4, <1>5

(* A logout erases the log. *)
LEMMA ResetErases ==
  ASSUME FoldInv, FoldInv', Reset
  PROVE  Promise!Erase
<1>1. /\ erased' = last /\ log' = [s \in (last + 1)..last |-> log[s]]
      /\ last' = last /\ acked' = acked /\ tables'.folded = last
  BY DEF Reset, EmptyTables, callVars
<1>2. (Rows = Promise!FoldOf(log, tables.folded))'
  BY RowsAreFold, PTL
<1> QED
  BY <1>1, <1>2 DEF Promise!Erase, Rows

(* Any other step shows readers the fold of some prefix. *)
LEMMA OthersShow ==
  ASSUME FoldInv', UNCHANGED <<log, erased, last, acked>>
  PROVE  Promise!Show
<1>1. (Rows = Promise!FoldOf(log, tables.folded) /\ tables.folded \in 0..last)'
  BY RowsAreFold, PTL
<1>2. tables'.folded \in 0..last /\ Rows' = Promise!FoldOf(log, tables'.folded)
  BY <1>1
<1> QED
  BY <1>2 DEF Promise!Show, Rows

(* Every step but a commit, an answer taken and a Reset leaves the log, its *)
(* seqs and what callers were told.                                         *)
LEMMA PromiseStandsStill ==
  ASSUME [Next]_vars, ~CommitTx, ~Reset, \A c \in Callers : ~AppendReturns(c)
  PROVE  UNCHANGED <<log, erased, last, acked>>
<1>1. CASE UNCHANGED vars
  BY <1>1 DEF vars, diskVars, callVars
<1>2. ASSUME NEW c \in Callers, CallerStep(c) PROVE UNCHANGED <<log, erased, last, acked>>
  BY <1>2 DEF CallerStep, AppendBatch, AppendClosed, AppendCancelled, WaitTake,
              WaitCheck, WaitClosed, WaitCancelled, diskVars
<1>3. CASE WriterStep
  <2>1. ASSUME NEW c \in Callers, Receive(c) PROVE UNCHANGED <<log, erased, last, acked>>
    BY <2>1 DEF Receive, diskVars
  <2>2. CASE CommitFails \/ PublishAppended \/ Answer \/ ResetPublish
    BY <2>2 DEF CommitFails, PublishAppended, Answer, ResetPublish, diskVars, callVars
  <2>3. CASE FoldTx \/ FoldFails \/ RetryTimer
    BY <2>3 DEF FoldTx, FoldFails, RetryTimer, diskVars, callVars
  <2>4. CASE StoreFolded \/ WakeWaiters \/ AnnounceChange
    BY <2>4 DEF StoreFolded, WakeWaiters, AnnounceChange, diskVars, callVars
  <2> QED
    BY <1>3, <2>1, <2>2, <2>3, <2>4 DEF WriterStep
<1>4. CASE Close \/ Stopped \/ Crash \/ Open
  BY <1>4 DEF Close, Stopped, Crash, Open, Exit, diskVars, callVars
<1> QED
  BY <1>1, <1>2, <1>3, <1>4 DEF Next

(* The store implements its promise: whatever the writer, its callers and   *)
(* crashes do, what others see is a log of whole batches, acknowledged      *)
(* where they are stored, and the fold of a prefix of it.                   *)
THEOREM StoreKeepsPromise == Spec => ImplementsDurableLog
<1>1. Spec => []AckInv
  BY InitAck, AckStep, PTL DEF Spec
<1>2. Spec => []WorkInv
  BY WorkAlways
<1>3. Spec => [](StagedWhole /\ UntoldHoldsNone)
  BY InitHandOver, StagedStep, UntoldStep, TypeCorrect, PTL DEF Spec
<1>4. AckInv /\ WorkInv /\ StagedWhole /\ UntoldHoldsNone /\ [Next]_vars
        => [Promise!Next]_(Promise!vars)
  <2> SUFFICES ASSUME AckInv, WorkInv, StagedWhole, UntoldHoldsNone, [Next]_vars
               PROVE  [Promise!Next]_(Promise!vars)
    OBVIOUS
  <2>1. FoldInv /\ FoldInv'
    BY FoldStep DEF WorkInv
  <2>2. CASE CommitTx
    BY <2>1, <2>2, CommitStores DEF Promise!Next
  <2>3. CASE Reset
    BY <2>1, <2>3, ResetErases DEF Promise!Next
  <2>4. ASSUME NEW c \in Callers, AppendReturns(c) PROVE [Promise!Next]_(Promise!vars)
    BY <2>4, ReturnAcknowledges DEF Promise!Next, Promise!vars
  <2>5. CASE ~CommitTx /\ ~Reset /\ \A c \in Callers : ~AppendReturns(c)
    BY <2>1, <2>5, PromiseStandsStill, OthersShow DEF Promise!Next
  <2> QED
    BY <2>2, <2>3, <2>4, <2>5
<1> QED
  BY InitPromise, <1>1, <1>2, <1>3, <1>4, PTL
     DEF Spec, ImplementsDurableLog, Promise!Spec
=============================================================================
