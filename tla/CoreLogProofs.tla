--------------------------- MODULE CoreLogProofs ---------------------------
(* Proofs about CoreLog, for every set of callers, every batch and every    *)
(* bound.                                                                   *)
EXTENDS CoreLog, TLAPS

(* A disturbance spent leaves the budget well typed. *)
LEMMA SpendType == \A d \in Disturbances : LeftType /\ Spend(d) => LeftType'
<1> SUFFICES ASSUME NEW d \in Disturbances, LeftType, Spend(d) PROVE LeftType'
  OBVIOUS
<1>1. left[d] - 1 \in Nat
  BY DEF LeftType, Spend
<1> QED
  BY <1>1 DEF LeftType, Spend

(* The initial state is well typed. *)
LEMMA InitType == Init => TypeOK
<1> SUFFICES ASSUME Init PROVE TypeOK
  OBVIOUS
<1> USE LimitAssumption DEF Init
<1>1. DiskType
  BY DEF DiskType, EmptyTables, TableType, Seqs
<1>2. PublishedType
  BY DEF PublishedType
<1>3. WriterType
  <2>1. touched \in BOOLEAN /\ retrying \in BOOLEAN
    BY Zenon
  <2> QED
    BY <2>1 DEF WriterType
<1>4. CallType
  BY DEF CallType, NoReply
<1>5. LeftType
  BY DEF LeftType
<1> QED
  BY <1>1, <1>2, <1>3, <1>4, <1>5 DEF TypeOK

(* A step of a caller keeps every variable in its type. *)
LEMMA CallerType == \A c \in Callers : TypeOK /\ CallerStep(c) => TypeOK'
<1> SUFFICES ASSUME NEW c \in Callers, TypeOK, CallerStep(c) PROVE TypeOK'
  OBVIOUS
<1> USE LimitAssumption DEF TypeOK
<1>1. DiskType' /\ PublishedType' /\ WriterType'
  BY DEF CallerStep, AppendBatch, AppendClosed, AppendCancelled, AppendReturns, WaitTake,
         WaitCheck, WaitClosed, WaitCancelled, DiskType, PublishedType, WriterType,
         diskVars, pubVars, writerVars
<1>2. CASE AppendBatch(c)
  <2>1. CallType'
    BY <1>2 DEF AppendBatch, CallType, NoReply
  <2> QED
    BY <1>1, <1>2, <2>1 DEF AppendBatch, LeftType
<1>3. CASE AppendClosed(c)
  BY <1>1, <1>3 DEF AppendClosed, CallType, LeftType
<1>4. CASE AppendCancelled(c)
  <2>1. CallType'
    BY <1>4 DEF AppendCancelled, CallType
  <2> QED
    BY <1>1, <1>4, <2>1, SpendType DEF AppendCancelled, Disturbances
<1>5. CASE AppendReturns(c)
  <2>1. reply[c] \in 0..MaxSeq
    BY <1>5 DEF AppendReturns, CallType, NoReply
  <2>2. CallType'
    BY <1>5, <2>1 DEF AppendReturns, CallType, NoReply
  <2> QED
    BY <1>1, <1>5, <2>2 DEF AppendReturns, LeftType
<1>6. CASE WaitTake(c)
  BY <1>1, <1>6 DEF WaitTake, CallType, LeftType, PublishedType
<1>7. CASE WaitCheck(c)
  BY <1>1, <1>7 DEF WaitCheck, CallType, LeftType
<1>8. CASE WaitClosed(c)
  BY <1>1, <1>8 DEF WaitClosed, CallType, LeftType
<1>9. CASE WaitCancelled(c)
  <2>1. CallType'
    BY <1>9 DEF WaitCancelled, CallType
  <2> QED
    BY <1>1, <1>9, <2>1, SpendType DEF WaitCancelled, Disturbances
<1> QED
  BY <1>2, <1>3, <1>4, <1>5, <1>6, <1>7, <1>8, <1>9 DEF CallerStep

(* Folding the log through a seq of it gives well-typed tables. *)
LEMMA FoldThroughType ==
  ASSUME NEW tab \in TableType, NEW t \in 0..MaxSeq
  PROVE  FoldThrough(tab, t) \in TableType
<1>1. \A s \in Seqs : tab.times[s] \in Nat /\ tab.times[s] + 1 \in Nat
  BY DEF TableType
<1> QED
  BY <1>1 DEF FoldThrough, TableType

(* Emptied tables are well typed. *)
LEMMA EmptyTablesType ==
  ASSUME NEW kept \in SUBSET Seqs, NEW t \in 0..MaxSeq
  PROVE  /\ EmptyTables(kept) \in TableType
         /\ [EmptyTables(kept) EXCEPT !.folded = t] \in TableType
BY LimitAssumption DEF EmptyTables, TableType

(* A step of the writer keeps every variable in its type. *)
LEMMA WriterStepType == TypeOK /\ WriterStep => TypeOK'
<1> SUFFICES ASSUME TypeOK, WriterStep PROVE TypeOK'
  OBVIOUS
<1> USE LimitAssumption DEF TypeOK, diskVars, pubVars, callVars
<1>1. ASSUME NEW c \in Callers, Receive(c) PROVE TypeOK'
  <2>1. BatchOf[c] \in Seq(Inputs) /\ BatchOf[c] # << >>
    BY BatchAssumption
  <2>2. /\ staged' \in Seq(Inputs)
        /\ Len(staged') = Len(staged) + Size(c)
    BY <1>1, <2>1 DEF Receive, WriterType, Size
  <2>3. Len(staged) \in Nat /\ Size(c) \in Nat \ {0}
    BY <2>1 DEF WriterType, Size
  <2>10. /\ last + Len(staged) + Size(c) <= MaxSeq /\ last' = last
        /\ last \in Nat /\ MaxSeq \in Nat
    BY <1>1 DEF Receive, DiskType
  <2>4. last + Len(staged) + 1 \in 0..MaxSeq
    BY <2>10, <2>3
  <2>5. [caller |-> c, try |-> tries[c], first |-> last + Len(staged) + 1] \in RequestType
    BY <2>4 DEF RequestType, CallType
  <2>6. batch' \in Seq(RequestType)
    BY <1>1, <2>5 DEF Receive, WriterType
  <2>7. last' + Len(staged') <= MaxSeq
    BY <2>2, <2>3, <2>10
  <2>8. WriterType'
    BY <1>1, <2>2, <2>6, <2>7 DEF Receive, WriterType
  <2>9. CallType'
    BY <1>1 DEF Receive, CallType
  <2> QED
    BY <1>1, <2>8, <2>9 DEF Receive, DiskType, PublishedType, LeftType
<1>2. CASE CommitTx
  <2>1. Len(staged) \in Nat /\ last + Len(staged) \in 0..MaxSeq
    BY DEF WriterType, DiskType
  <2>2. log' \in [(erased' + 1)..last' -> Inputs]
    <3>1. ASSUME NEW s \in (erased + 1)..(last + Len(staged))
          PROVE  (IF s <= last THEN log[s] ELSE staged[s - last]) \in Inputs
      <4>1. CASE s <= last
        BY <4>1 DEF DiskType
      <4>2. CASE s > last
        BY <2>1, <4>2, s - last \in 1..Len(staged) DEF DiskType, WriterType
      <4> QED
        BY <4>1, <4>2, <2>1 DEF DiskType
    <3> QED
      BY <1>2, <3>1 DEF CommitTx
  <2>3. DiskType'
    BY <1>2, <2>1, <2>2 DEF CommitTx, DiskType
  <2>4. staged' \in Seq(Inputs) /\ Len(staged') = 0
    BY <1>2 DEF CommitTx
  <2>5. WriterType'
    BY <1>2, <2>1, <2>4, <2>3 DEF CommitTx, WriterType, DiskType
  <2> QED
    BY <1>2, <2>3, <2>5 DEF CommitTx, PublishedType, CallType, LeftType
<1>3. CASE CommitFails
  <2>1. batch' \in Seq(RequestType)
    <3>0. 0 \in 0..MaxSeq
      OBVIOUS
    <3>1. \A i \in DOMAIN batch : [batch[i] EXCEPT !.first = ErrReply] \in RequestType
      <4> SUFFICES ASSUME NEW i \in DOMAIN batch
                   PROVE  [batch[i] EXCEPT !.first = ErrReply] \in RequestType
        OBVIOUS
      <4>1. batch[i] \in RequestType
        BY DEF WriterType
      <4> QED
        BY <3>0, <4>1 DEF RequestType, ErrReply
    <3>2. DOMAIN batch = 1..Len(batch) /\ Len(batch) \in Nat
      BY DEF WriterType
    <3> QED
      BY <1>3, <3>1, <3>2 DEF CommitFails
  <2>2. staged' \in Seq(Inputs) /\ Len(staged') = 0
    BY <1>3 DEF CommitFails
  <2>3. WriterType'
    BY <1>3, <2>1, <2>2 DEF CommitFails, WriterType, DiskType
  <2>4. LeftType'
    BY <1>3, SpendType DEF CommitFails, Disturbances
  <2> QED
    BY <1>3, <2>3, <2>4 DEF CommitFails, DiskType, PublishedType, CallType
<1>4. CASE PublishAppended
  BY <1>4 DEF PublishAppended, DiskType, PublishedType, WriterType, CallType, LeftType
<1>5. CASE Answer
  <2>1. Head(batch) \in RequestType /\ Tail(batch) \in Seq(RequestType)
    BY <1>5 DEF Answer, WriterType
  <2>2. CallType'
    <3>1. Head(batch).first \in NoReply..MaxSeq
      BY <2>1 DEF RequestType, NoReply
    <3>2. reply' \in [Callers -> NoReply..MaxSeq]
      BY <1>5, <3>1 DEF Answer, CallType
    <3> QED
      BY <1>5, <3>2 DEF Answer, CallType
  <2>3. WriterType'
    BY <1>5, <2>1 DEF Answer, WriterType
  <2> QED
    BY <1>5, <2>2, <2>3 DEF Answer, DiskType, PublishedType, LeftType
<1>6. CASE FoldTx
  <2>1. PICK t \in DOMAIN log : tables' = FoldThrough(tables, t) /\ through' = t
    BY <1>6 DEF FoldTx
  <2>2. t \in 0..MaxSeq
    BY <2>1 DEF DiskType
  <2>3. tables' \in TableType
    BY <2>1, <2>2, FoldThroughType DEF DiskType
  <2>4. DiskType'
    BY <1>6, <2>3 DEF FoldTx, DiskType
  <2>5. touched' \in BOOLEAN
    BY <1>6 DEF FoldTx
  <2>6. WriterType'
    BY <1>6, <2>1, <2>2, <2>5 DEF FoldTx, WriterType
  <2> QED
    BY <1>6, <2>4, <2>6 DEF FoldTx, PublishedType, CallType, LeftType
<1>7. CASE FoldFails
  <2>1. LeftType'
    BY <1>7, SpendType DEF FoldFails, Disturbances
  <2> QED
    BY <1>7, <2>1 DEF FoldFails, DiskType, PublishedType, CallType, WriterType
<1>8. CASE RetryTimer
  BY <1>8 DEF RetryTimer, DiskType, PublishedType, CallType, LeftType, WriterType
<1>9. CASE StoreFolded
  BY <1>9 DEF StoreFolded, DiskType, PublishedType, CallType, LeftType, WriterType
<1>10. CASE WakeWaiters
  BY <1>10 DEF WakeWaiters, DiskType, PublishedType, CallType, LeftType, WriterType
<1>11. CASE AnnounceChange
  <2>1. announced' \in 0..MaxSeq /\ through' \in 0..MaxSeq
    BY <1>11 DEF AnnounceChange, PublishedType, WriterType
  <2> QED
    BY <1>11, <2>1 DEF AnnounceChange, DiskType, PublishedType, CallType, LeftType, WriterType
<1>12. CASE Reset
  <2>1. tables' \in TableType
    BY <1>12, EmptyTablesType DEF Reset, DiskType, TableType
  <2>2. log' \in [(erased' + 1)..last' -> Inputs]
    BY <1>12 DEF Reset, DiskType
  <2>3. DiskType'
    BY <1>12, <2>1, <2>2 DEF Reset, DiskType
  <2>4. LeftType'
    BY <1>12, SpendType DEF Reset, Disturbances
  <2> QED
    BY <1>12, <2>3, <2>4 DEF Reset, PublishedType, CallType, WriterType
<1>13. CASE ResetPublish
  BY <1>13 DEF ResetPublish, DiskType, PublishedType, CallType, LeftType, WriterType
<1> QED
  BY <1>1, <1>2, <1>3, <1>4, <1>5, <1>6, <1>7, <1>8, <1>9, <1>10, <1>11, <1>12, <1>13
     DEF WriterStep

(* A step of the process keeps every variable in its type. *)
LEMMA ProcessType ==
  TypeOK /\ (Close \/ Stopped \/ Crash \/ Open) => TypeOK'
<1> SUFFICES ASSUME TypeOK, Close \/ Stopped \/ Crash \/ Open PROVE TypeOK'
  OBVIOUS
<1> USE LimitAssumption DEF TypeOK, diskVars, pubVars, callVars
<1>1. CASE Close
  <2>1. LeftType'
    BY <1>1, SpendType DEF Close, Disturbances
  <2> QED
    BY <1>1, <2>1 DEF Close, DiskType, PublishedType, CallType, WriterType
<1>2. ASSUME NEW disk \in TableType, Exit(disk), recent' \subseteq TableType
      PROVE  DiskType' /\ PublishedType' /\ CallType' /\ WriterType'
  <2>1. DiskType' /\ PublishedType'
    BY <1>2 DEF Exit, DiskType, PublishedType
  <2>2. CallType'
    BY <1>2 DEF Exit, CallType, Forgotten, NoReply
  <2>3. touched' \in BOOLEAN /\ retrying' \in BOOLEAN
    BY <1>2, Zenon DEF Exit
  <2>4. batch' = << >> /\ staged' = << >> /\ Len(staged') = 0
    BY <1>2 DEF Exit
  <2>5. WriterType'
    BY <1>2, <2>3, <2>4 DEF Exit, WriterType, DiskType
  <2> QED
    BY <2>1, <2>2, <2>5
<1>3. CASE Stopped
  BY <1>2, <1>3 DEF Stopped, DiskType, LeftType
<1>4. CASE Crash
  <2>1. LeftType'
    BY <1>4, SpendType DEF Crash, Disturbances
  <2> QED
    BY <1>2, <1>4, <2>1 DEF Crash, DiskType
<1>5. CASE Open
  <2>1. Rebuilt \in TableType
    BY EmptyTablesType DEF Rebuilt, DiskType, TableType
  <2>2. DiskType'
    BY <1>5, <2>1 DEF Open, DiskType
  <2>3. LeftType'
    BY <1>5, SpendType DEF Open, Disturbances, LeftType
  <2>4. PublishedType'
    BY <1>5, <2>2 DEF Open, PublishedType, DiskType, TableType
  <2> QED
    BY <1>5, <2>2, <2>3, <2>4 DEF Open, CallType, WriterType
<1> QED
  BY <1>1, <1>3, <1>4, <1>5

(* Every reachable state is well typed, whatever the callers, the batches   *)
(* and the disturbances.                                                    *)
THEOREM TypeCorrect == Spec => []TypeOK
<1>1. TypeOK /\ [Next]_vars => TypeOK'
  <2> SUFFICES ASSUME TypeOK, [Next]_vars PROVE TypeOK'
    OBVIOUS
  <2>1. CASE UNCHANGED vars
    BY <2>1 DEF vars, diskVars, pubVars, writerVars, callVars, TypeOK, DiskType,
                PublishedType, WriterType, CallType, LeftType
  <2>2. CASE Next
    BY <2>2, CallerType, WriterStepType, ProcessType DEF Next
  <2> QED
    BY <2>1, <2>2
<1> QED
  BY InitType, <1>1, PTL DEF Spec

-----------------------------------------------------------------------------
(* The tables.  The property is not inductive alone: the writer folds what  *)
(* lies beyond its counter, so the counter has to agree with the tables     *)
(* whenever the writer may fold.                                            *)

CounterFollowsTables ==
    /\ writer \in {"loop", "drain", "committed", "answering", "wake", "announce", "closed"} =>
          folded = tables.folded
    /\ writer = "store" => through = tables.folded
    /\ writer = "resetDone" => tables.folded = last

FoldInv == TypeOK /\ TablesAreFoldOfLog /\ CounterFollowsTables

(* Emptied tables are the fold of any log through a seq before its start.   *)
LEMMA EmptyIsFold ==
  ASSUME TypeOK, NEW kept, NEW t \in 0..last, t <= erased
  PROVE  /\ t = 0 => IsFold(EmptyTables(kept))
         /\ IsFold([EmptyTables(kept) EXCEPT !.folded = t])
<1>1. \A s \in DOMAIN log : s > t
  BY DEF TypeOK, DiskType
<1>2. last >= 0 /\ t >= 0
  BY DEF TypeOK, DiskType
<1>3. \A s \in Seqs : ~(s \in DOMAIN log /\ s <= t)
  BY <1>1 DEF Seqs, TypeOK, DiskType
<1>4. ASSUME t = 0 PROVE IsFold(EmptyTables(kept))
  BY <1>2, <1>3, <1>4 DEF IsFold, EmptyTables
<1>5. IsFold([EmptyTables(kept) EXCEPT !.folded = t])
  BY <1>3 DEF IsFold, EmptyTables
<1> QED
  BY <1>4, <1>5

(* Folding on from tables that are the fold of the log through the counter  *)
(* gives the fold through the new seq.                                      *)
LEMMA FoldOn ==
  ASSUME TypeOK, NEW tab \in TableType, IsFold(tab), tab.folded = folded,
         NEW t \in DOMAIN log, folded < t
  PROVE  IsFold(FoldThrough(tab, t))
<1> DEFINE new == FoldThrough(tab, t)
<1>1. new.folded = t /\ t <= last
  BY DEF FoldThrough, TypeOK, DiskType
<1>2. ASSUME NEW s \in Seqs
      PROVE  new.times[s] = IF s \in DOMAIN log /\ s <= t /\ log[s] \notin Bad \cup Kept
                            THEN 1 ELSE 0
  <2>1. new.times[s] = IF s \in DOMAIN log /\ folded < s /\ s <= t /\ log[s] \notin Bad \cup Kept
                       THEN tab.times[s] + 1 ELSE tab.times[s]
    BY DEF FoldThrough
  <2>2. tab.times[s] = IF s \in DOMAIN log /\ s <= folded /\ log[s] \notin Bad \cup Kept
                       THEN 1 ELSE 0
    BY DEF IsFold
  <2>3. s \in Int /\ folded \in Int /\ t \in Int
    BY DEF TypeOK, DiskType, PublishedType, Seqs
  <2> QED
    BY <2>1, <2>2, <2>3
<1>3. ASSUME NEW s \in Seqs
      PROVE  s \in new.failures <=> s \in DOMAIN log /\ s <= t /\ log[s] \in Bad
  <2>1. s \in new.failures <=>
          s \in tab.failures \/ (s \in DOMAIN log /\ folded < s /\ s <= t /\ log[s] \in Bad)
    BY DEF FoldThrough
  <2>2. s \in tab.failures <=> s \in DOMAIN log /\ s <= folded /\ log[s] \in Bad
    BY DEF IsFold
  <2>3. s \in Int /\ folded \in Int /\ t \in Int
    BY DEF TypeOK, DiskType, PublishedType, Seqs
  <2> QED
    BY <2>1, <2>2, <2>3
<1> HIDE DEF new
<1> QED
  BY <1>1, <1>2, <1>3 DEF IsFold, new

(* What the tables say of the log does not change when the log only grows   *)
(* at its end.                                                              *)
LEMMA GrowingKeepsFold ==
  ASSUME TypeOK, last' \in Nat, last <= last', DOMAIN log \subseteq DOMAIN log',
         \A s \in DOMAIN log' : s <= last => s \in DOMAIN log /\ log'[s] = log[s],
         NEW tab \in TableType, IsFold(tab)
  PROVE  IsFold(tab)'
<1>1. tab.folded <= last /\ tab.folded \in Int /\ last \in Int
  BY DEF IsFold, TableType, TypeOK, DiskType
<1>2. ASSUME NEW s \in Seqs, s <= tab.folded
      PROVE  (s \in DOMAIN log <=> s \in DOMAIN log')
             /\ (s \in DOMAIN log => log'[s] = log[s])
  BY <1>1, <1>2 DEF Seqs
<1>3. tab.folded <= last'
  BY <1>1
<1> QED
  <2>1. \A s \in Seqs :
          tab.times[s] = IF s \in DOMAIN log' /\ s <= tab.folded /\ log'[s] \notin Bad \cup Kept
                         THEN 1 ELSE 0
    BY <1>2 DEF IsFold
  <2>2. \A s \in Seqs :
          s \in tab.failures <=> s \in DOMAIN log' /\ s <= tab.folded /\ log'[s] \in Bad
    BY <1>2 DEF IsFold
  <2>3. (Seqs)' = Seqs
    BY DEF Seqs
  <2> QED
    BY <1>3, <2>1, <2>2, <2>3 DEF IsFold

(* The initial tables are the fold of the empty log. *)
LEMMA InitFold == Init => FoldInv
<1> SUFFICES ASSUME Init PROVE FoldInv
  OBVIOUS
<1>1. TypeOK
  BY InitType
<1>2. IsFold(EmptyTables({}))
  <2>1. 0 \in 0..last /\ 0 <= erased
    BY DEF Init
  <2> QED
    BY <1>1, <2>1, EmptyIsFold
<1>3. TablesAreFoldOfLog
  BY <1>2 DEF TablesAreFoldOfLog, Init
<1>4. CounterFollowsTables
  BY DEF CounterFollowsTables, Init, EmptyTables
<1> QED
  BY <1>1, <1>3, <1>4 DEF FoldInv

(* A writer step keeps the tables the fold of the log. *)
LEMMA WriterFold == FoldInv /\ WriterStep => FoldInv'
<1> SUFFICES ASSUME FoldInv, WriterStep PROVE FoldInv'
  OBVIOUS
<1> USE DEF FoldInv, diskVars, pubVars, callVars
<1>1. TypeOK'
  BY WriterStepType
<1>2. ASSUME UNCHANGED diskVars PROVE TablesAreFoldOfLog'
  BY <1>2 DEF TablesAreFoldOfLog, IsFold, Seqs
<1>3. ASSUME NEW c \in Callers, Receive(c) PROVE FoldInv'
  BY <1>1, <1>2, <1>3 DEF Receive, CounterFollowsTables
<1>4. CASE CommitTx
  <2>1. /\ last' \in Nat /\ last <= last' /\ DOMAIN log \subseteq DOMAIN log'
        /\ \A s \in DOMAIN log' : s <= last => s \in DOMAIN log /\ log'[s] = log[s]
    BY <1>4, <1>1 DEF CommitTx, TypeOK, DiskType, WriterType
  <2>2. tables \in TableType /\ IsFold(tables) /\ tables' = tables /\ recent' = {tables}
    BY <1>4 DEF CommitTx, TypeOK, DiskType, TablesAreFoldOfLog
  <2>3. IsFold(tables)'
    BY <2>1, <2>2, GrowingKeepsFold
  <2>4. TablesAreFoldOfLog'
    BY <2>2, <2>3 DEF TablesAreFoldOfLog
  <2> QED
    BY <1>1, <1>4, <2>4 DEF CommitTx, CounterFollowsTables, Drained
<1>5. CASE CommitFails
  BY <1>1, <1>2, <1>5 DEF CommitFails, CounterFollowsTables, Drained
<1>6. CASE PublishAppended
  BY <1>1, <1>2, <1>6 DEF PublishAppended, CounterFollowsTables
<1>7. CASE Answer
  BY <1>1, <1>2, <1>7 DEF Answer, CounterFollowsTables
<1>8. CASE FoldTx
  <2>1. PICK t \in DOMAIN log : folded < t /\ tables' = FoldThrough(tables, t) /\ through' = t
    BY <1>8 DEF FoldTx
  <2>2. folded = tables.folded /\ tables \in TableType /\ IsFold(tables)
    BY <1>8 DEF FoldTx, MayFold, CounterFollowsTables, TablesAreFoldOfLog, TypeOK, DiskType
  <2>3. IsFold(FoldThrough(tables, t))
    BY <2>1, <2>2, FoldOn
  <2>4. /\ UNCHANGED <<log, erased, last>> /\ recent' = recent \cup {tables'}
        /\ writer' = "store"
    BY <1>8 DEF FoldTx
  <2>5. ASSUME NEW tab, IsFold(tab) PROVE IsFold(tab)'
    BY <2>4, <2>5 DEF IsFold, Seqs
  <2>6. TablesAreFoldOfLog'
    BY <2>1, <2>3, <2>4, <2>5 DEF TablesAreFoldOfLog
  <2>7. CounterFollowsTables'
    BY <2>1, <2>4 DEF CounterFollowsTables, FoldThrough
  <2> QED
    BY <1>1, <2>6, <2>7
<1>9. CASE FoldFails
  BY <1>1, <1>2, <1>9 DEF FoldFails, CounterFollowsTables
<1>10. CASE RetryTimer
  BY <1>1, <1>2, <1>10 DEF RetryTimer, CounterFollowsTables
<1>11. CASE StoreFolded
  BY <1>1, <1>2, <1>11 DEF StoreFolded, CounterFollowsTables
<1>12. CASE WakeWaiters
  BY <1>1, <1>2, <1>12 DEF WakeWaiters, CounterFollowsTables
<1>13. CASE AnnounceChange
  BY <1>1, <1>2, <1>13 DEF AnnounceChange, CounterFollowsTables
<1>14. CASE Reset
  <2>1. /\ tables' = [EmptyTables(tables.kept) EXCEPT !.folded = last']
        /\ recent' = {tables'} /\ erased' = last' /\ last' = last /\ writer' = "resetDone"
    BY <1>14 DEF Reset
  <2>2. \A s \in Seqs : s \notin DOMAIN log'
    <3>1. DOMAIN log' = (last + 1)..last /\ last \in Int
      BY <1>14 DEF Reset, TypeOK, DiskType
    <3> QED
      BY <3>1 DEF Seqs
  <2>3. IsFold(tables)'
    <3>1. /\ tables'.folded = last' /\ tables'.failures = {}
          /\ \A s \in Seqs : tables'.times[s] = 0
      BY <2>1 DEF EmptyTables
    <3>2. last' <= last'
      BY <1>1 DEF TypeOK, DiskType
    <3> QED
      BY <2>2, <3>1, <3>2 DEF IsFold, Seqs
  <2>4. TablesAreFoldOfLog'
    BY <2>1, <2>3 DEF TablesAreFoldOfLog, IsFold, Seqs
  <2> QED
    BY <1>1, <2>1, <2>4 DEF TablesAreFoldOfLog, CounterFollowsTables, EmptyTables
<1>15. CASE ResetPublish
  BY <1>1, <1>2, <1>15 DEF ResetPublish, CounterFollowsTables
<1> QED
  BY <1>3, <1>4, <1>5, <1>6, <1>7, <1>8, <1>9, <1>10, <1>11, <1>12, <1>13, <1>14, <1>15
     DEF WriterStep

(* Going down and coming back up keep the tables the fold of the log.       *)
LEMMA ProcessFold == FoldInv /\ (Close \/ Stopped \/ Crash \/ Open) => FoldInv'
<1> SUFFICES ASSUME FoldInv, Close \/ Stopped \/ Crash \/ Open PROVE FoldInv'
  OBVIOUS
<1> USE DEF FoldInv, diskVars, pubVars, callVars
<1>1. TypeOK'
  BY ProcessType
<1>2. ASSUME UNCHANGED <<log, last>>, NEW tab, IsFold(tab) PROVE IsFold(tab)'
  BY <1>2 DEF IsFold, Seqs
<1>3. CASE Close
  BY <1>1, <1>2, <1>3 DEF Close, TablesAreFoldOfLog, CounterFollowsTables
<1>4. CASE Stopped
  BY <1>1, <1>2, <1>4 DEF Stopped, Exit, TablesAreFoldOfLog, CounterFollowsTables
<1>5. CASE Crash
  BY <1>1, <1>2, <1>5 DEF Crash, Exit, TablesAreFoldOfLog, CounterFollowsTables
<1>6. CASE Open
  <2>1. 0 \in 0..last /\ 0 <= erased
    BY DEF TypeOK, DiskType
  <2>2. IsFold(Rebuilt)
    BY <2>1, EmptyIsFold DEF Rebuilt
  <2>3. TablesAreFoldOfLog'
    BY <1>2, <1>6, <2>2 DEF Open, TablesAreFoldOfLog
  <2> QED
    BY <1>1, <1>6, <2>3 DEF Open, CounterFollowsTables
<1> QED
  BY <1>3, <1>4, <1>5, <1>6

(* Every step keeps the tables the fold of the log. *)
LEMMA FoldStep == FoldInv /\ [Next]_vars => FoldInv'
<1> SUFFICES ASSUME FoldInv, [Next]_vars PROVE FoldInv'
  OBVIOUS
<1>1. CASE UNCHANGED vars
  BY <1>1 DEF vars, diskVars, pubVars, writerVars, callVars, FoldInv, TypeOK, DiskType,
              PublishedType, WriterType, CallType, LeftType, TablesAreFoldOfLog, IsFold,
              Seqs, CounterFollowsTables
<1>2. ASSUME NEW c \in Callers, CallerStep(c) PROVE FoldInv'
  <2>1. UNCHANGED <<diskVars, writerVars, pubVars>>
    BY <1>2 DEF CallerStep, AppendBatch, AppendClosed, AppendCancelled, AppendReturns,
                WaitTake, WaitCheck, WaitClosed, WaitCancelled
  <2>2. TypeOK'
    BY <1>2, CallerType DEF FoldInv
  <2> QED
    BY <2>1, <2>2 DEF diskVars, writerVars, pubVars, FoldInv, TablesAreFoldOfLog, IsFold,
                      Seqs, CounterFollowsTables
<1> QED
  BY <1>1, <1>2, WriterFold, ProcessFold DEF Next

(* In every reachable state, and after losing power in any of them, the     *)
(* domains' tables are the fold of the log up to the stored folded_seq.     *)
THEOREM FoldSound == Spec => []TablesAreFoldOfLog
<1>1. FoldInv => TablesAreFoldOfLog
  BY DEF FoldInv
<1> QED
  BY InitFold, FoldStep, <1>1, PTL DEF Spec

-----------------------------------------------------------------------------
(* The acknowledgements.  What a caller is told comes from its request,     *)
(* through the batch and the reply channel, so each of these must name a    *)
(* place where the batch is stored, or staged at the seqs it will get.      *)

(* A request the writer is still gathering stands in staged where its seqs  *)
(* will fall.                                                               *)
StagedAt(c, first) ==
    /\ last < first /\ first + Size(c) - 1 <= last + Len(staged)
    /\ \A i \in 1..Size(c) : staged[first - last + i - 1] = BatchOf[c][i]

RequestsStand ==
    /\ writer = "drain" =>
          \A k \in DOMAIN batch : StagedAt(batch[k].caller, batch[k].first)
    /\ writer \in {"committed", "answering"} =>
          \A k \in DOMAIN batch :
             batch[k].first > erased => Stored(batch[k].caller, batch[k].first)
    /\ writer \notin {"drain", "committed", "answering"} => batch = << >>
    /\ writer # "drain" => staged = << >>

RepliesStand == \A c \in Callers : reply[c] > erased => Stored(c, reply[c])

AckInv == TypeOK /\ AckedIsStored /\ RepliesStand /\ RequestsStand

(* A batch is not empty. *)
LEMMA SizePositive == \A c \in Callers : Size(c) \in Nat \ {0} /\ BatchOf[c] \in Seq(Inputs)
<1> SUFFICES ASSUME NEW c \in Callers PROVE Size(c) \in Nat \ {0} /\ BatchOf[c] \in Seq(Inputs)
  OBVIOUS
<1>1. BatchOf[c] \in Seq(Inputs) /\ BatchOf[c] # << >>
  BY BatchAssumption
<1> QED
  BY <1>1 DEF Size

(* A stored batch lies within the live seqs. *)
LEMMA StoredIsLive ==
  ASSUME TypeOK, NEW c \in Callers, NEW first \in Int, Stored(c, first)
  PROVE  erased < first /\ first <= last
<1>1. 1 \in 1..Size(c)
  BY SizePositive
<1>2. first \in DOMAIN log
  BY <1>1 DEF Stored
<1> QED
  BY <1>2 DEF TypeOK, DiskType

(* A stored batch stays stored while the log only grows.                    *)
LEMMA GrowingKeepsStored ==
  ASSUME \A s \in DOMAIN log : s \in DOMAIN log' /\ log'[s] = log[s],
         NEW c \in Callers, NEW first \in Int, Stored(c, first)
  PROVE  Stored(c, first)'
BY DEF Stored, Size

(* Nothing is claimed before anything is stored. *)
LEMMA InitAck == Init => AckInv
<1> SUFFICES ASSUME Init PROVE AckInv
  OBVIOUS
<1>1. \A c \in Callers : acked[c] = 0 /\ reply[c] = -1 /\ erased = 0
  BY DEF Init, NoReply
<1>2. RequestsStand
  BY DEF RequestsStand, Init
<1> QED
  BY <1>1, <1>2, InitType DEF AckInv, AckedIsStored, RepliesStand

(* A caller's step claims only what its reply names.                        *)
LEMMA CallerAck == \A c \in Callers : AckInv /\ CallerStep(c) => AckInv'
<1> SUFFICES ASSUME NEW c \in Callers, AckInv, CallerStep(c) PROVE AckInv'
  OBVIOUS
<1> USE DEF AckInv
<1>1. TypeOK'
  BY CallerType
<1>2. /\ UNCHANGED <<diskVars, writerVars>>
      /\ acked' = acked \/ AppendReturns(c)
      /\ reply' = reply \/ reply' = [reply EXCEPT ![c] = NoReply]
  BY DEF CallerStep, AppendBatch, AppendClosed, AppendCancelled, AppendReturns, WaitTake,
         WaitCheck, WaitClosed, WaitCancelled
<1>3. ASSUME NEW d, NEW first, Stored(d, first) PROVE Stored(d, first)'
  BY <1>2, <1>3 DEF Stored, Size, diskVars
<1>4. RequestsStand'
  BY <1>2 DEF RequestsStand, StagedAt, Stored, Size, diskVars, writerVars
<1>5. RepliesStand'
  <2> SUFFICES ASSUME NEW d \in Callers, NEW first, first = reply'[d], first > erased
               PROVE  Stored(d, first)'
    BY <1>2 DEF RepliesStand, diskVars
  <2>1. first = reply[d] \/ first = NoReply
    BY <1>2 DEF TypeOK, CallType
  <2>2. erased \in Nat
    BY DEF TypeOK, DiskType
  <2>3. first = reply[d]
    BY <2>1, <2>2 DEF NoReply
  <2>4. Stored(d, first)
    BY <2>3 DEF RepliesStand
  <2> QED
    BY <1>3, <2>4
<1>6. AckedIsStored'
  <2> SUFFICES ASSUME NEW d \in Callers, NEW first, first = acked'[d], first > erased
               PROVE  Stored(d, first)'
    BY <1>2 DEF AckedIsStored, diskVars
  <2>1. first = acked[d] \/ first = reply[d]
    BY <1>2 DEF AppendReturns, TypeOK, CallType
  <2>2. Stored(d, first)
    BY <2>1 DEF AckedIsStored, RepliesStand
  <2> QED
    BY <1>3, <2>2
<1> QED
  BY <1>1, <1>4, <1>5, <1>6

(* Steps that touch neither the log nor a request nor a reply.              *)
LEMMA AckUntouched ==
  ASSUME AckInv, TypeOK', UNCHANGED <<log, erased, last, batch, staged, reply, acked>>,
         \/ writer' = writer
         \/ /\ writer \notin {"drain", "committed", "answering"}
            /\ writer' \notin {"drain", "committed", "answering"}
         \/ writer = "committed" /\ writer' = "answering"
  PROVE  AckInv'
<1>1. ASSUME NEW d, NEW first, Stored(d, first) PROVE Stored(d, first)'
  BY <1>1 DEF Stored, Size
<1>2. AckedIsStored' /\ RepliesStand'
  BY <1>1 DEF AckInv, AckedIsStored, RepliesStand
<1>3. RequestsStand'
  BY <1>1 DEF AckInv, RequestsStand, StagedAt, Stored, Size
<1> QED
  BY <1>2, <1>3 DEF AckInv

(* Taking a request stages its inputs where its seqs will fall. *)
LEMMA ReceiveAck == \A c \in Callers : AckInv /\ Receive(c) => AckInv'
<1> SUFFICES ASSUME NEW c \in Callers, AckInv, Receive(c) PROVE AckInv'
  OBVIOUS
<1> USE DEF AckInv
<1>1. TypeOK'
  BY WriterStepType DEF WriterStep
<1>2. /\ UNCHANGED <<log, erased, last, reply, acked>> /\ writer' = "drain"
      /\ batch' = Append(batch, [caller |-> c, try |-> tries[c],
                                 first |-> last + Len(staged) + 1])
      /\ staged' = staged \o BatchOf[c]
  BY DEF Receive, diskVars, callVars
<1>3. ASSUME NEW d, NEW first, Stored(d, first) PROVE Stored(d, first)'
  BY <1>2, <1>3 DEF Stored, Size
<1>4. AckedIsStored' /\ RepliesStand'
  BY <1>2, <1>3 DEF AckedIsStored, RepliesStand
<1>5. /\ staged \in Seq(Inputs) /\ BatchOf[c] \in Seq(Inputs)
      /\ Len(staged) \in Nat /\ Size(c) \in Nat /\ last \in Nat
  BY SizePositive DEF TypeOK, WriterType, DiskType
<1>6. /\ Len(staged') = Len(staged) + Size(c)
      /\ \A k \in 1..Len(staged) : staged'[k] = staged[k]
      /\ \A i \in 1..Size(c) : staged'[Len(staged) + i] = BatchOf[c][i]
  BY <1>2, <1>5 DEF Size
<1>7. ASSUME NEW d \in Callers, NEW first \in Int, StagedAt(d, first) PROVE StagedAt(d, first)'
  <2>1. Size(d) \in Nat /\ Size(d)' = Size(d)
    BY SizePositive DEF Size
  <2>2. \A i \in 1..Size(d) : first - last + i - 1 \in 1..Len(staged)
    BY <1>5, <1>7, <2>1 DEF StagedAt
  <2> QED
    BY <1>2, <1>5, <1>6, <1>7, <2>1, <2>2, SMTT(30) DEF StagedAt
<1>8. ASSUME NEW first, first = last + Len(staged) + 1 PROVE StagedAt(c, first)'
  <2>1. Size(c)' = Size(c)
    BY DEF Size
  <2>2. \A i \in 1..Size(c) : first - last + i - 1 = Len(staged) + i
    BY <1>5, <1>8
  <2> QED
    BY <1>2, <1>5, <1>6, <1>8, <2>1, <2>2, SMTT(30) DEF StagedAt
<1>9. RequestsStand'
  <2> SUFFICES ASSUME NEW k \in DOMAIN batch'
               PROVE  StagedAt(batch[k].caller, batch[k].first)'
    BY <1>2 DEF RequestsStand
  <2>1. batch \in Seq(RequestType)
    BY DEF TypeOK, WriterType
  <2>2. CASE k \in DOMAIN batch
    <3>1. batch'[k] = batch[k] /\ batch[k] \in RequestType
      BY <1>2, <2>1, <2>2
    <3>2. StagedAt(batch[k].caller, batch[k].first)
      BY <2>2 DEF Receive, RequestsStand
    <3>3. batch[k].caller \in Callers /\ batch[k].first \in Int
      BY <3>1 DEF RequestType
    <3> DEFINE d == batch[k].caller  f == batch[k].first
    <3>4. ASSUME NEW first, first = f, NEW e, e = d PROVE StagedAt(e, first)'
      BY <1>7, <3>2, <3>3, <3>4
    <3> QED
      BY <3>1, <3>4
  <2>3. CASE k \notin DOMAIN batch
    <3>1. batch'[k].caller = c /\ batch'[k].first = last + Len(staged) + 1
      BY <1>2, <2>1, <2>3
    <3> QED
      BY <1>8, <3>1
  <2> QED
    BY <2>2, <2>3
<1> QED
  BY <1>1, <1>4, <1>9

(* The commit stores every request where it was staged, and moves nothing   *)
(* that was stored.                                                         *)
LEMMA CommitAck == AckInv /\ CommitTx => AckInv'
<1> SUFFICES ASSUME AckInv, CommitTx PROVE AckInv'
  OBVIOUS
<1> USE DEF AckInv
<1>1. TypeOK'
  BY WriterStepType DEF WriterStep
<1>2. /\ UNCHANGED <<erased, reply, acked, batch>> /\ writer = "drain"
      /\ writer' = "committed" /\ staged' = << >>
      /\ log' = [s \in (erased + 1)..(last + Len(staged)) |->
                   IF s <= last THEN log[s] ELSE staged[s - last]]
  BY DEF CommitTx, Drained, callVars
<1>3. /\ last \in Nat /\ erased \in Nat /\ erased <= last /\ Len(staged) \in Nat
      /\ DOMAIN log = (erased + 1)..last
  BY DEF TypeOK, DiskType, WriterType
<1>4. \A s \in DOMAIN log : s \in DOMAIN log' /\ log'[s] = log[s]
  BY <1>2, <1>3
<1>5. ASSUME NEW d \in Callers, NEW first \in Int, Stored(d, first) PROVE Stored(d, first)'
  BY <1>4, <1>5, GrowingKeepsStored
<1>6. AckedIsStored' /\ RepliesStand'
  BY <1>2, <1>5 DEF AckedIsStored, RepliesStand, TypeOK, CallType, NoReply
<1>7. ASSUME NEW d \in Callers, NEW first \in Int, StagedAt(d, first) PROVE Stored(d, first)'
  <2>1. Size(d) \in Nat /\ Size(d)' = Size(d)
    BY SizePositive DEF Size
  <2>2. ASSUME NEW i \in 1..Size(d)
        PROVE  first + i - 1 \in DOMAIN log' /\ log'[first + i - 1] = BatchOf[d][i]
    <3>1. first + i - 1 > last /\ first + i - 1 <= last + Len(staged)
      BY <1>3, <1>7, <2>1 DEF StagedAt
    <3>2. first + i - 1 \in (erased + 1)..(last + Len(staged)) /\ ~(first + i - 1 <= last)
      BY <1>3, <3>1
    <3>3. staged[first - last + i - 1] = BatchOf[d][i]
      BY <1>7 DEF StagedAt
    <3> DEFINE s == first + i - 1
               p == first - last + i - 1
    <3>4. s \in DOMAIN log' /\ log'[s] = staged[s - last]
      BY <1>2, <3>2
    <3>5. s - last = p
      BY <1>3, <2>1
    <3>6. staged[p] = BatchOf[d][i]
      BY <3>3, Zenon
    <3> HIDE DEF s, p
    <3>7. s \in DOMAIN log' /\ log'[s] = BatchOf[d][i]
      BY <3>4, <3>5, <3>6, Zenon
    <3> QED
      BY <3>7 DEF s
  <2> QED
    BY <2>1, <2>2 DEF Stored
<1>8. RequestsStand'
  <2> SUFFICES ASSUME NEW k \in DOMAIN batch PROVE Stored(batch[k].caller, batch[k].first)'
    BY <1>2 DEF RequestsStand
  <2>1. batch[k].caller \in Callers /\ batch[k].first \in Int
    <3>1. batch[k] \in RequestType
      BY DEF TypeOK, WriterType
    <3> QED
      BY <3>1 DEF RequestType
  <2>2. StagedAt(batch[k].caller, batch[k].first)
    BY <1>2 DEF RequestsStand
  <2>3. ASSUME NEW d \in Callers, NEW first \in Int, d = batch[k].caller, first = batch[k].first
        PROVE  Stored(d, first)'
    BY <1>7, <2>2, <2>3
  <2> QED
    BY <1>2, <2>1, <2>3
<1> QED
  BY <1>1, <1>6, <1>8

(* A failed commit claims nothing; an answer repeats what its request names. *)
LEMMA AnswerAck == AckInv /\ (CommitFails \/ Answer) => AckInv'
<1> SUFFICES ASSUME AckInv, CommitFails \/ Answer PROVE AckInv'
  OBVIOUS
<1> USE DEF AckInv
<1>1. TypeOK'
  BY WriterStepType DEF WriterStep
<1>2. UNCHANGED <<log, erased, last, acked>>
  BY DEF CommitFails, Answer, diskVars, callVars
<1>3. ASSUME NEW d, NEW first, Stored(d, first) PROVE Stored(d, first)'
  BY <1>2, <1>3 DEF Stored, Size
<1>4. AckedIsStored'
  BY <1>2, <1>3 DEF AckedIsStored
<1>5. erased \in Nat /\ batch \in Seq(RequestType)
  BY DEF TypeOK, DiskType, WriterType
<1>6. CASE CommitFails
  <2>1. reply' = reply /\ writer' = "answering" /\ staged' = << >>
        /\ \A k \in DOMAIN batch' : batch'[k].first = 0
    <3>1. /\ reply' = reply /\ writer' = "answering" /\ staged' = << >>
          /\ batch' = [k \in DOMAIN batch |-> [batch[k] EXCEPT !.first = 0]]
      BY <1>6 DEF CommitFails, callVars, ErrReply
    <3>2. \A k \in DOMAIN batch : batch[k] \in RequestType
      BY <1>5
    <3> QED
      BY <3>1, <3>2 DEF RequestType
  <2>2. RepliesStand'
    BY <1>2, <1>3, <2>1 DEF RepliesStand
  <2>3. RequestsStand'
    BY <1>2, <1>5, <2>1 DEF RequestsStand
  <2> QED
    BY <1>1, <1>4, <2>2, <2>3
<1>7. CASE Answer
  <2>1. /\ writer = "answering" /\ batch # << >> /\ batch' = Tail(batch) /\ staged' = staged
        /\ writer' = IF Len(batch) = 1 THEN "loop" ELSE "answering"
    BY <1>7 DEF Answer
  <2>2. /\ 1 \in DOMAIN batch /\ Head(batch) = batch[1]
        /\ \A k \in DOMAIN batch' : k + 1 \in DOMAIN batch /\ batch'[k] = batch[k + 1]
        /\ Len(batch) = 1 => batch' = << >>
    BY <1>5, <2>1
  <2>3. \A k \in DOMAIN batch :
           batch[k].first > erased => Stored(batch[k].caller, batch[k].first)
    BY <2>1 DEF RequestsStand
  <2>4. RequestsStand'
    BY <1>2, <1>3, <2>1, <2>2, <2>3 DEF RequestsStand
  <2>5. ASSUME NEW c \in Callers, NEW first, first = reply'[c], first > erased
        PROVE  Stored(c, first)'
    <3>1. first = reply[c] \/ (c = batch[1].caller /\ first = batch[1].first)
      BY <1>7, <2>2, <2>5 DEF Answer, TypeOK, CallType
    <3>2. Stored(c, first)
      BY <2>2, <2>3, <2>5, <3>1 DEF RepliesStand
    <3> QED
      BY <1>3, <3>2
  <2>6. RepliesStand'
    BY <1>2, <2>5 DEF RepliesStand
  <2> QED
    BY <1>1, <1>4, <2>4, <2>6
<1> QED
  BY <1>6, <1>7

(* After a Reset every seq told before lies in the erased part.             *)
LEMMA ResetAck == AckInv /\ Reset => AckInv'
<1> SUFFICES ASSUME AckInv, Reset PROVE AckInv'
  OBVIOUS
<1> USE DEF AckInv
<1>1. TypeOK'
  BY WriterStepType DEF WriterStep
<1>2. /\ erased' = last /\ last' = last /\ UNCHANGED <<acked, reply, batch, staged>>
      /\ writer = "loop" /\ writer' = "resetDone"
  BY DEF Reset, callVars
<1>3. erased \in Nat /\ last \in Nat /\ erased <= last
  BY DEF TypeOK, DiskType
<1>4. ASSUME NEW c \in Callers, NEW first \in Int, first > erased => Stored(c, first)
      PROVE  first <= last
  BY <1>3, <1>4, StoredIsLive
<1>5. AckedIsStored'
  BY <1>2, <1>3, <1>4 DEF AckedIsStored, TypeOK, CallType
<1>6. RepliesStand'
  BY <1>2, <1>3, <1>4 DEF RepliesStand, TypeOK, CallType, NoReply
<1>7. RequestsStand'
  BY <1>2 DEF RequestsStand
<1> QED
  BY <1>1, <1>5, <1>6, <1>7

(* Every step keeps the acknowledgements true. *)
LEMMA AckStep == AckInv /\ [Next]_vars => AckInv'
<1> SUFFICES ASSUME AckInv, [Next]_vars PROVE AckInv'
  OBVIOUS
<1>1. CASE UNCHANGED vars
  <2>1. TypeOK'
    BY <1>1 DEF vars, diskVars, pubVars, writerVars, callVars, AckInv, TypeOK, DiskType,
                PublishedType, WriterType, CallType, LeftType
  <2> QED
    BY <1>1, <2>1, AckUntouched DEF vars, diskVars, writerVars, callVars
<1>2. CASE WriterStep
  <2>1. TypeOK'
    BY <1>2, WriterStepType DEF AckInv
  <2>2. CASE PublishAppended
    BY <2>1, <2>2, AckUntouched DEF PublishAppended, diskVars, callVars
  <2>3. CASE FoldTx \/ FoldFails \/ RetryTimer
    BY <2>1, <2>3, AckUntouched DEF FoldTx, FoldFails, RetryTimer, MayFold, diskVars, callVars
  <2>4. CASE StoreFolded \/ WakeWaiters \/ AnnounceChange \/ ResetPublish
    BY <2>1, <2>4, AckUntouched
       DEF StoreFolded, WakeWaiters, AnnounceChange, ResetPublish, diskVars, callVars
  <2> QED
    BY <1>2, <2>2, <2>3, <2>4, ReceiveAck, CommitAck, AnswerAck, ResetAck DEF WriterStep
<1>3. CASE Close \/ Stopped \/ Crash \/ Open
  <2>1. TypeOK'
    BY <1>3, ProcessType DEF AckInv
  <2>2. CASE Close \/ Open
    BY <2>1, <2>2, AckUntouched DEF Close, Open, diskVars, callVars
  <2>3. CASE Stopped \/ Crash
    <3>1. /\ UNCHANGED <<log, erased, last, acked>> /\ batch' = << >> /\ staged' = << >>
          /\ reply' = [c \in Callers |-> NoReply] /\ writer' = "down"
      BY <2>3 DEF Stopped, Crash, Exit
    <3>2. ASSUME NEW d, NEW first, Stored(d, first) PROVE Stored(d, first)'
      BY <3>1, <3>2 DEF Stored, Size
    <3>3. AckedIsStored'
      BY <3>1, <3>2 DEF AckInv, AckedIsStored
    <3>4. RepliesStand' /\ RequestsStand'
      BY <2>1, <3>1 DEF RepliesStand, RequestsStand, NoReply, TypeOK, DiskType
    <3> QED
      BY <2>1, <3>3, <3>4 DEF AckInv
  <2> QED
    BY <1>3, <2>2, <2>3
<1> QED
  BY <1>1, <1>2, <1>3, CallerAck DEF Next

(* Every reachable state keeps its acknowledgements: what AppendBatch       *)
(* returned is in the log, whole, in order and where it said, across        *)
(* crashes, for as long as no Reset erases it.                              *)
THEOREM AcksAreDurable == Spec => []AckedIsStored
<1>1. AckInv => AckedIsStored
  BY DEF AckInv
<1> QED
  BY InitAck, AckStep, <1>1, PTL DEF Spec

-----------------------------------------------------------------------------
(* The seqs.                                                                *)

(* Every step but a commit and a Reset leaves the log and its seqs alone.   *)
LEMMA LogStandsStill ==
  ASSUME [Next]_vars, ~CommitTx, ~Reset
  PROVE  UNCHANGED <<log, last>>
<1>1. CASE UNCHANGED vars
  BY <1>1 DEF vars, diskVars
<1>2. ASSUME NEW c \in Callers, CallerStep(c) PROVE UNCHANGED <<log, last>>
  BY <1>2 DEF CallerStep, AppendBatch, AppendClosed, AppendCancelled, AppendReturns, WaitTake,
              WaitCheck, WaitClosed, WaitCancelled, diskVars
<1>3. CASE WriterStep
  <2>1. ASSUME NEW c \in Callers, Receive(c) PROVE UNCHANGED <<log, last>>
    BY <2>1 DEF Receive, diskVars
  <2>2. CASE CommitFails \/ PublishAppended \/ Answer \/ ResetPublish
    BY <2>2 DEF CommitFails, PublishAppended, Answer, ResetPublish, diskVars
  <2>3. CASE FoldTx \/ FoldFails \/ RetryTimer
    BY <2>3 DEF FoldTx, FoldFails, RetryTimer, diskVars
  <2>4. CASE StoreFolded \/ WakeWaiters \/ AnnounceChange
    BY <2>4 DEF StoreFolded, WakeWaiters, AnnounceChange, diskVars
  <2> QED
    BY <1>3, <2>1, <2>2, <2>3, <2>4 DEF WriterStep
<1>4. CASE Close \/ Stopped \/ Crash \/ Open
  BY <1>4 DEF Close, Stopped, Crash, Open, Exit, diskVars
<1> QED
  BY <1>1, <1>2, <1>3, <1>4 DEF Next

(* A seq that was handed out never names another input: a commit only adds  *)
(* seqs after the last one, and a Reset (a logout) empties the log and goes *)
(* on counting.                                                             *)
THEOREM SeqsAreFinal == Spec => SeqsNeverReused
<1> DEFINE Stands(s) == s \in DOMAIN log' => s \in DOMAIN log /\ log'[s] = log[s]
<1>1. ASSUME TypeOK, [Next]_vars
      PROVE  last <= last' /\ \A s \in 1..last : Stands(s)
  <2>1. last \in Nat /\ erased \in Nat /\ erased <= last /\ DOMAIN log = (erased + 1)..last
    BY <1>1, LimitAssumption DEF TypeOK, DiskType
  <2>2. CASE CommitTx
    <3>1. Len(staged) \in Nat
      BY <1>1 DEF TypeOK, WriterType
    <3>2. /\ last' = last + Len(staged)
          /\ log' = [s \in (erased + 1)..(last + Len(staged)) |->
                       IF s <= last THEN log[s] ELSE staged[s - last]]
      BY <2>2 DEF CommitTx
    <3>3. ASSUME NEW s \in 1..last PROVE Stands(s)
      BY <2>1, <3>1, <3>2
    <3> QED
      BY <2>1, <3>1, <3>2, <3>3
  <2>3. CASE Reset
    <3>1. last' = last /\ log' = [s \in (last + 1)..last |-> log[s]]
      BY <2>3 DEF Reset
    <3>2. ASSUME NEW s \in 1..last PROVE Stands(s)
      BY <2>1, <3>1
    <3> QED
      BY <2>1, <3>1, <3>2
  <2>4. CASE ~CommitTx /\ ~Reset
    BY <1>1, <2>1, <2>4, LogStandsStill
  <2> QED
    BY <2>2, <2>3, <2>4
<1>2. TypeOK /\ [Next]_vars =>
        [/\ last <= last'
         /\ \A s \in 1..last :
              s \in DOMAIN log' => s \in DOMAIN log /\ log'[s] = log[s]]_vars
  BY <1>1
<1> QED
  BY TypeCorrect, <1>2, PTL DEF Spec, SeqsNeverReused

-----------------------------------------------------------------------------
(* What CoreLog tells its callers and the views: the counters, the wake-ups *)
(* and the changes announced.                                               *)

(* The steps of a caller, without the callers they leave alone. *)
LEMMA CallerLeaves ==
  ASSUME NEW c \in Callers, CallerStep(c)
  PROVE  UNCHANGED <<diskVars, writerVars, pubVars>>
BY DEF CallerStep, AppendBatch, AppendClosed, AppendCancelled, AppendReturns,
       WaitTake, WaitCheck, WaitClosed, WaitCancelled

-----------------------------------------------------------------------------
(* The waiters.                                                             *)

(* While the process lives the counter never runs ahead of the tables; a    *)
(* process that is down has nobody waiting; and the channel somebody holds  *)
(* is not one of the future.                                                *)
CounterBehind == Up => folded <= tables.folded

NobodyWaitsDown ==
    ~Up => \A c \in Callers : call[c] \notin {"checking", "blocked", "seen"}

HeldChannels ==
    \A c \in Callers : call[c] \in {"checking", "blocked"} => wait[c] <= closedWaits

WaitInv ==
    /\ FoldInv /\ CounterBehind /\ NobodyWaitsDown /\ HeldChannels
    /\ SeenIsFolded /\ NoLostWakeup

(* Nobody waits at the start. *)
LEMMA InitWait == Init => WaitInv
BY InitFold DEF Init, WaitInv, CounterBehind, NobodyWaitsDown, HeldChannels, SeenIsFolded,
                NoLostWakeup, EmptyTables

(* A caller takes the channel before it reads the counter. *)
LEMMA CallerWait == \A c \in Callers : WaitInv /\ CallerStep(c) => WaitInv'
<1> SUFFICES ASSUME NEW c \in Callers, WaitInv, CallerStep(c) PROVE WaitInv'
  OBVIOUS
<1>1. FoldInv'
  BY FoldStep DEF WaitInv, Next
<1>2. UNCHANGED <<diskVars, writerVars, pubVars>>
  BY CallerLeaves
<1>3. CounterBehind'
  BY <1>2 DEF WaitInv, CounterBehind, Up, diskVars, writerVars, pubVars
<1>4. /\ DOMAIN call = Callers /\ wait \in [Callers -> Nat] /\ closedWaits \in Nat
      /\ acked \in [Callers -> 0..MaxSeq]
  BY DEF WaitInv, FoldInv, TypeOK, CallType, PublishedType
<1>5. UNCHANGED <<folded, closedWaits, tables, writer>>
  BY <1>2 DEF diskVars, writerVars, pubVars
<1>6. ASSUME NEW d \in Callers, d # c PROVE UNCHANGED <<call[d], wait[d], acked[d]>>
  BY <1>4, <1>6 DEF CallerStep, AppendBatch, AppendClosed, AppendCancelled, AppendReturns,
                    WaitTake, WaitCheck, WaitClosed, WaitCancelled
<1>7. ASSUME NEW d \in Callers, d # c
      PROVE  /\ (~Up => call[d] \notin {"checking", "blocked", "seen"})'
             /\ (call[d] \in {"checking", "blocked"} => wait[d] <= closedWaits)'
             /\ (call[d] = "seen" => Target(d) <= tables.folded)'
             /\ (call[d] = "blocked" /\ folded >= Target(d) =>
                    wait[d] < closedWaits \/ writer = "wake")'
  BY <1>5, <1>6, <1>7 DEF WaitInv, NobodyWaitsDown, HeldChannels, SeenIsFolded, NoLostWakeup,
                          Target, Size, Up
<1>8. /\ (~Up => call[c] \notin {"checking", "blocked", "seen"})'
      /\ (call[c] \in {"checking", "blocked"} => wait[c] <= closedWaits)'
      /\ (call[c] = "seen" => Target(c) <= tables.folded)'
      /\ (call[c] = "blocked" /\ folded >= Target(c) =>
             wait[c] < closedWaits \/ writer = "wake")'
  <2> USE <1>4, <1>5 DEF Target, Size, Up
  <2>1. CASE AppendBatch(c) \/ AppendClosed(c) \/ AppendCancelled(c) \/ AppendReturns(c)
    BY <2>1 DEF AppendBatch, AppendClosed, AppendCancelled, AppendReturns
  <2>2. CASE WaitTake(c)
    BY <2>2 DEF WaitTake
  <2>3. folded \in Int /\ tables.folded \in Int /\ Target(c) \in Int
    BY BatchAssumption DEF WaitInv, FoldInv, TypeOK, PublishedType, DiskType, TableType
  <2>4. CASE WaitCheck(c)
    <3>1. folded <= tables.folded /\ wait[c] <= closedWaits
      BY <2>4 DEF WaitCheck, WaitInv, CounterBehind, HeldChannels
    <3>2. /\ Up /\ acked' = acked
          /\ call'[c] = IF folded >= Target(c) THEN "seen" ELSE "blocked"
          /\ wait'[c] = IF call'[c] = "seen" THEN 0 ELSE wait[c]
      BY <2>4 DEF WaitCheck
    <3> QED
      BY <2>3, <3>1, <3>2
  <2>5. CASE WaitClosed(c)
    <3>1. folded <= tables.folded
      BY <2>5 DEF WaitClosed, WaitInv, CounterBehind
    <3> QED
      BY <2>3, <2>5, <3>1 DEF WaitClosed
  <2>6. CASE WaitCancelled(c)
    BY <2>6 DEF WaitCancelled
  <2> QED
    BY <2>1, <2>2, <2>4, <2>5, <2>6 DEF CallerStep
<1>9. NobodyWaitsDown' /\ HeldChannels' /\ SeenIsFolded' /\ NoLostWakeup'
  BY <1>7, <1>8 DEF NobodyWaitsDown, HeldChannels, SeenIsFolded, NoLostWakeup
<1> QED
  BY <1>1, <1>3, <1>9 DEF WaitInv

(* What a step of the writer or the process that leaves the callers where    *)
(* they are must respect.                                                   *)
LEMMA WaitKept ==
  ASSUME WaitInv, FoldInv', Up', UNCHANGED <<wait, acked>>,
         \A c \in Callers : call'[c] \in {"checking", "blocked", "seen"} => call'[c] = call[c],
         closedWaits <= closedWaits', tables.folded <= tables'.folded, folded' <= tables'.folded,
         folded' = folded \/ writer' = "wake",
         writer = "wake" => writer' = "wake" \/ closedWaits < closedWaits'
  PROVE  WaitInv'
<1>1. /\ closedWaits \in Nat /\ closedWaits' \in Nat /\ wait \in [Callers -> Nat]
      /\ folded \in Int /\ folded' \in Int /\ tables.folded \in Int /\ tables'.folded \in Int
      /\ \A c \in Callers : Target(c) \in Int /\ Target(c)' = Target(c)
  <2>1. /\ closedWaits \in Nat /\ closedWaits' \in Nat /\ wait \in [Callers -> Nat]
        /\ folded \in Int /\ folded' \in Int
    BY DEF WaitInv, FoldInv, TypeOK, CallType, PublishedType
  <2>2. tables.folded \in Int /\ tables'.folded \in Int
    BY DEF WaitInv, FoldInv, TypeOK, DiskType, TableType
  <2>3. ASSUME NEW c \in Callers PROVE Target(c) \in Int /\ Target(c)' = Target(c)
    <3>1. Size(c) \in Int /\ acked[c] \in Int
      BY SizePositive DEF WaitInv, FoldInv, TypeOK, CallType
    <3> QED
      BY <3>1 DEF Target, Size
  <2> QED
    BY <2>1, <2>2, <2>3
<1>2. CounterBehind' /\ NobodyWaitsDown' /\ HeldChannels'
  BY <1>1 DEF WaitInv, CounterBehind, NobodyWaitsDown, HeldChannels
<1>3. SeenIsFolded'
  BY <1>1 DEF WaitInv, SeenIsFolded
<1>4. NoLostWakeup'
  <2> SUFFICES ASSUME NEW c \in Callers, call'[c] = "blocked", folded' >= Target(c)',
                      writer' # "wake"
               PROVE  wait'[c] < closedWaits'
    BY DEF NoLostWakeup
  <2>1. call[c] = "blocked" /\ folded >= Target(c)
    BY <1>1
  <2>2. wait[c] <= closedWaits /\ (wait[c] < closedWaits \/ writer = "wake")
    BY <2>1 DEF WaitInv, HeldChannels, NoLostWakeup
  <2> QED
    BY <1>1, <2>2
<1> QED
  BY <1>2, <1>3, <1>4 DEF WaitInv

(* setFolded stores the counter and then closes the channel. *)
LEMMA WriterWait == WaitInv /\ WriterStep => WaitInv'
<1> SUFFICES ASSUME WaitInv, WriterStep PROVE WaitInv'
  OBVIOUS
<1>1. FoldInv'
  BY FoldStep DEF WaitInv, Next
<1>2. /\ closedWaits \in Nat /\ folded \in Int /\ tables.folded \in Int /\ through \in Int
  BY DEF WaitInv, FoldInv, TypeOK, CallType, PublishedType, DiskType, TableType, WriterType
<1>3. folded <= tables.folded
  BY DEF WriterStep, Receive, CommitTx, CommitFails, Drained, PublishAppended, Answer, FoldTx,
         FoldFails, MayFold, RetryTimer, StoreFolded, WakeWaiters, AnnounceChange, Reset,
         ResetPublish, WaitInv, CounterBehind, Up
<1> USE <1>1, <1>2, <1>3, WaitKept DEF Up, diskVars, pubVars, callVars
<1>4. ASSUME NEW c \in Callers, Receive(c) PROVE WaitInv'
  BY <1>4 DEF Receive
<1>5. CASE CommitTx \/ CommitFails
  BY <1>5 DEF CommitTx, CommitFails, Drained
<1>6. CASE PublishAppended \/ Answer
  BY <1>6 DEF PublishAppended, Answer
<1>7. CASE FoldTx
  <2>1. tables.folded <= tables'.folded
    <3>1. PICK t \in DOMAIN log : folded < t /\ tables' = FoldThrough(tables, t)
      BY <1>7 DEF FoldTx
    <3>2. folded = tables.folded /\ tables'.folded = t /\ t \in Int
      BY <1>7, <3>1 DEF FoldTx, MayFold, FoldThrough, WaitInv, FoldInv, CounterFollowsTables,
                        TypeOK, DiskType
    <3> QED
      BY <3>1, <3>2
  <2>2. tables'.folded \in Int
    BY DEF FoldInv, TypeOK, DiskType, TableType
  <2> QED
    BY <1>7, <2>1, <2>2 DEF FoldTx, MayFold
<1>8. CASE FoldFails \/ RetryTimer
  BY <1>8 DEF FoldFails, RetryTimer, MayFold
<1>9. CASE StoreFolded
  BY <1>9 DEF StoreFolded, WaitInv, FoldInv, CounterFollowsTables
<1>10. CASE WakeWaiters
  BY <1>10 DEF WakeWaiters
<1>11. CASE AnnounceChange
  BY <1>11 DEF AnnounceChange
<1>12. CASE Reset
  <2>1. tables.folded <= tables'.folded
    BY <1>12 DEF Reset, EmptyTables, WaitInv, FoldInv, TablesAreFoldOfLog, IsFold
  <2>2. tables'.folded \in Int
    BY DEF FoldInv, TypeOK, DiskType, TableType
  <2> QED
    BY <1>12, <2>1, <2>2 DEF Reset
<1>13. CASE ResetPublish
  BY <1>13 DEF ResetPublish
<1> QED
  BY <1>4, <1>5, <1>6, <1>7, <1>8, <1>9, <1>10, <1>11, <1>12, <1>13 DEF WriterStep

(* A process that goes down forgets its waiters. *)
LEMMA ProcessWait == WaitInv /\ (Close \/ Stopped \/ Crash \/ Open) => WaitInv'
<1> SUFFICES ASSUME WaitInv, Close \/ Stopped \/ Crash \/ Open PROVE WaitInv'
  OBVIOUS
<1>1. FoldInv'
  BY FoldStep DEF WaitInv, Next
<1>2. CASE Close
  <2>1. folded <= tables.folded /\ folded \in Int /\ tables.folded \in Int /\ closedWaits \in Nat
    BY <1>2 DEF Close, WaitInv, CounterBehind, Up, FoldInv, TypeOK, PublishedType, DiskType,
                TableType
  <2> QED
    BY <1>1, <1>2, <2>1, WaitKept DEF Close, Up, diskVars, pubVars, callVars
<1>3. CASE Stopped \/ Crash
  <2>1. writer' = "down" /\ call' = Forgotten
    BY <1>3 DEF Stopped, Crash, Exit
  <2>2. \A c \in Callers : call'[c] \notin {"checking", "blocked", "seen"}
    BY <2>1 DEF Forgotten
  <2> QED
    BY <1>1, <2>1, <2>2 DEF WaitInv, CounterBehind, NobodyWaitsDown, HeldChannels,
                            SeenIsFolded, NoLostWakeup, Up
<1>4. CASE Open
  <2>1. \A c \in Callers : call'[c] \notin {"checking", "blocked", "seen"}
    BY <1>4 DEF Open, WaitInv, NobodyWaitsDown, Up, callVars
  <2>2. writer' = "loop" /\ folded' = tables'.folded /\ tables'.folded \in Int
    BY <1>1, <1>4 DEF Open, FoldInv, TypeOK, DiskType, TableType
  <2> QED
    BY <1>1, <2>1, <2>2 DEF WaitInv, CounterBehind, NobodyWaitsDown, HeldChannels,
                            SeenIsFolded, NoLostWakeup, Up
<1> QED
  BY <1>2, <1>3, <1>4

(* Every step keeps the waiters covered. *)
LEMMA WaitAlways == Spec => []WaitInv
<1>1. WaitInv /\ [Next]_vars => WaitInv'
  <2> SUFFICES ASSUME WaitInv, [Next]_vars PROVE WaitInv'
    OBVIOUS
  <2>1. CASE UNCHANGED vars
    <3>1. FoldInv'
      BY FoldStep DEF WaitInv
    <3> QED
      BY <2>1, <3>1 DEF vars, diskVars, pubVars, writerVars, callVars, WaitInv, CounterBehind,
                        NobodyWaitsDown, HeldChannels, SeenIsFolded, NoLostWakeup, Up, Target,
                        Size
  <2> QED
    BY <2>1, CallerWait, WriterWait, ProcessWait DEF Next
<1> QED
  BY InitWait, <1>1, PTL DEF Spec

(* Nobody who waits for a seq sleeps once the counter has reached it, in     *)
(* whatever order WaitFolded and setFolded take their steps.                *)
THEOREM NobodySleepsOn == Spec => []NoLostWakeup
<1>1. WaitInv => NoLostWakeup
  BY DEF WaitInv
<1> QED
  BY WaitAlways, <1>1, PTL

(* Who returned from WaitFolded finds its inputs in the tables.             *)
THEOREM WaitersSee == Spec => []SeenIsFolded
<1>1. WaitInv => SeenIsFolded
  BY DEF WaitInv
<1> QED
  BY WaitAlways, <1>1, PTL

-----------------------------------------------------------------------------
(* Progress.                                                                *)

(* What an answer, a channel or a caller holds lies within appended.        *)
Reaches(c, first) == first + Size(c) - 1 <= appended

AnswersWithin ==
    /\ writer = "answering" =>
          \A k \in DOMAIN batch :
             batch[k].first > erased => Reaches(batch[k].caller, batch[k].first)
    /\ \A c \in Callers : Up /\ reply[c] > erased => Reaches(c, reply[c])

CoverInv == AckInv /\ AnswersWithin /\ ProgressCoversAcks

(* What is stored ends at a seq of the log. *)
LEMMA StoredReaches ==
  ASSUME TypeOK, NEW c \in Callers, NEW first \in Int, Stored(c, first)
  PROVE  first + Size(c) - 1 <= last
<1>1. Size(c) \in Nat \ {0}
  BY SizePositive
<1>2. first + Size(c) - 1 \in DOMAIN log
  BY <1>1 DEF Stored
<1> QED
  BY <1>2 DEF TypeOK, DiskType

(* Once appended is the last seq it covers whatever anybody was told.       *)
LEMMA LastCovers == AckInv /\ appended = last => AnswersWithin /\ ProgressCoversAcks
<1> SUFFICES ASSUME AckInv, appended = last PROVE AnswersWithin /\ ProgressCoversAcks
  OBVIOUS
<1>1. TypeOK
  BY DEF AckInv
<1>2. ASSUME NEW c \in Callers PROVE acked[c] \in Int /\ reply[c] \in Int
  BY <1>1 DEF TypeOK, CallType, NoReply
<1>3. ProgressCoversAcks
  BY <1>1, <1>2, StoredReaches DEF AckInv, AckedIsStored, ProgressCoversAcks, Target
<1>4. ASSUME NEW c \in Callers, reply[c] > erased PROVE Reaches(c, reply[c])
  BY <1>1, <1>2, <1>4, StoredReaches DEF AckInv, RepliesStand, Reaches
<1>5. ASSUME writer = "answering", NEW k \in DOMAIN batch, batch[k].first > erased
      PROVE  Reaches(batch[k].caller, batch[k].first)
  <2>1. batch[k].caller \in Callers /\ batch[k].first \in Int
    <3>1. batch[k] \in RequestType
      BY <1>1 DEF TypeOK, WriterType
    <3> QED
      BY <3>1, LimitAssumption DEF RequestType
  <2>2. Stored(batch[k].caller, batch[k].first)
    BY <1>5 DEF AckInv, RequestsStand
  <2> QED
    BY <1>1, <2>1, <2>2, StoredReaches DEF Reaches
<1> QED
  BY <1>3, <1>4, <1>5 DEF AnswersWithin

(* Nobody was told anything at the start. *)
LEMMA InitCover == Init => CoverInv
<1> SUFFICES ASSUME Init PROVE CoverInv
  OBVIOUS
<1>1. AckInv /\ appended = last
  BY InitAck DEF Init
<1> QED
  BY <1>1, LastCovers DEF CoverInv

(* A step that leaves the counters, the batch and what callers hold.        *)
LEMMA CoverKept ==
  ASSUME CoverInv, AckInv', UNCHANGED <<erased, appended, reply, acked>>,
         writer' = "answering" => writer = "answering" /\ batch' = batch, Up' => Up
  PROVE  CoverInv'
BY DEF CoverInv, AnswersWithin, ProgressCoversAcks, Reaches, Target, Size

(* A caller only learns what its channel holds. *)
LEMMA CallerCover == \A c \in Callers : CoverInv /\ CallerStep(c) => CoverInv'
<1> SUFFICES ASSUME NEW c \in Callers, CoverInv, CallerStep(c) PROVE CoverInv'
  OBVIOUS
<1>1. AckInv' /\ UNCHANGED <<diskVars, writerVars, pubVars>>
  BY CallerAck, CallerLeaves DEF CoverInv
<1>2. UNCHANGED <<erased, appended, writer, batch>>
  BY <1>1 DEF diskVars, writerVars, pubVars
<1>3. CASE UNCHANGED <<reply, acked>>
  BY <1>1, <1>2, <1>3, CoverKept DEF Up
<1>4. CASE AppendBatch(c)
  <2>1. reply' = [reply EXCEPT ![c] = NoReply] /\ acked' = acked
    BY <1>4 DEF AppendBatch
  <2>2. erased \in Nat /\ reply \in [Callers -> NoReply..MaxSeq]
    BY DEF CoverInv, AckInv, TypeOK, DiskType, CallType
  <2>3. \A d \in Callers : reply'[d] > erased => reply'[d] = reply[d]
    BY <2>1, <2>2 DEF NoReply
  <2> QED
    BY <1>1, <1>2, <2>1, <2>3
       DEF CoverInv, AnswersWithin, ProgressCoversAcks, Reaches, Target, Size, Up
<1>5. CASE AppendReturns(c)
  <2>1. reply' = [reply EXCEPT ![c] = NoReply] /\ acked' = [acked EXCEPT ![c] = reply[c]]
    BY <1>5 DEF AppendReturns
  <2>2. /\ erased \in Nat /\ reply \in [Callers -> NoReply..MaxSeq]
        /\ acked \in [Callers -> 0..MaxSeq]
    BY DEF CoverInv, AckInv, TypeOK, DiskType, CallType
  <2>3. \A d \in Callers : reply'[d] > erased => reply'[d] = reply[d]
    BY <2>1, <2>2 DEF NoReply
  <2>4. \A d \in Callers : acked'[d] = acked[d] \/ (d = c /\ acked'[d] = reply[d])
    BY <2>1, <2>2
  <2>5. ProgressCoversAcks'
    BY <1>2, <2>4 DEF CoverInv, AnswersWithin, ProgressCoversAcks, Reaches, Target, Size, Up
  <2> QED
    BY <1>1, <1>2, <2>3, <2>5 DEF CoverInv, AnswersWithin, Reaches, Size, Up
<1> QED
  BY <1>3, <1>4, <1>5 DEF CallerStep, AppendClosed, AppendCancelled, WaitTake, WaitCheck,
                          WaitClosed, WaitCancelled

(* The writer publishes the counter before it answers. *)
LEMMA WriterCover == CoverInv /\ WriterStep => CoverInv'
<1> SUFFICES ASSUME CoverInv, WriterStep PROVE CoverInv'
  OBVIOUS
<1>1. AckInv'
  BY AckStep DEF CoverInv, Next
<1> USE <1>1 DEF diskVars, pubVars, callVars
<1>2. ASSUME NEW c \in Callers, Receive(c) PROVE CoverInv'
  BY <1>2, CoverKept DEF Receive, Up
<1>3. CASE CommitTx
  BY <1>3, CoverKept DEF CommitTx, Drained, Up
<1>4. CASE CommitFails
  <2>1. /\ batch' = [i \in DOMAIN batch |-> [batch[i] EXCEPT !.first = ErrReply]]
        /\ UNCHANGED <<erased, appended, reply, acked>> /\ Up
    BY <1>4 DEF CommitFails, Drained, Up
  <2>2. batch \in Seq(RequestType) /\ erased \in Nat
    BY DEF CoverInv, AckInv, TypeOK, DiskType, WriterType
  <2>3. ASSUME NEW k \in DOMAIN batch' PROVE ~(batch'[k].first > erased)
    <3>1. k \in DOMAIN batch /\ batch'[k] = [batch[k] EXCEPT !.first = ErrReply]
      BY <2>1
    <3>2. batch[k] \in RequestType
      BY <2>2, <3>1
    <3>3. batch'[k].first = 0
      BY <3>1, <3>2 DEF RequestType, ErrReply
    <3> QED
      BY <2>2, <3>3
  <2> QED
    BY <2>1, <2>3 DEF CoverInv, AnswersWithin, ProgressCoversAcks, Reaches, Target, Size
<1>5. CASE PublishAppended \/ ResetPublish
  <2>1. (appended = last)'
    BY <1>5 DEF PublishAppended, ResetPublish
  <2>2. AnswersWithin' /\ ProgressCoversAcks'
    BY <1>1, <2>1, LastCovers, PTL
  <2> QED
    BY <2>2 DEF CoverInv
<1>6. CASE Answer
  <2>1. /\ writer = "answering" /\ batch # << >> /\ batch' = Tail(batch)
        /\ UNCHANGED <<erased, appended, acked>> /\ writer' \in {"loop", "answering"}
        /\ reply' = reply \/ reply' = [reply EXCEPT ![Head(batch).caller] = Head(batch).first]
    BY <1>6 DEF Answer
  <2>2. batch \in Seq(RequestType) /\ reply \in [Callers -> NoReply..MaxSeq]
    BY DEF CoverInv, AckInv, TypeOK, WriterType, CallType
  <2>3. 1 \in DOMAIN batch /\ Head(batch) = batch[1] /\ Head(batch).caller \in Callers
    <3>1. 1 \in DOMAIN batch /\ Head(batch) = batch[1]
      BY <2>1, <2>2
    <3>2. batch[1] \in RequestType
      BY <2>2, <3>1
    <3> QED
      BY <3>1, <3>2 DEF RequestType
  <2>4. \A k \in DOMAIN batch' : k + 1 \in DOMAIN batch /\ batch'[k] = batch[k + 1]
    BY <2>1, <2>2
  <2>5. \A d \in Callers : \/ reply'[d] = reply[d]
                           \/ d = batch[1].caller /\ reply'[d] = batch[1].first
    BY <2>1, <2>2, <2>3
  <2>6. ASSUME NEW d \in Callers, reply'[d] > erased PROVE Reaches(d, reply'[d])
    BY <2>1, <2>3, <2>5, <2>6 DEF CoverInv, AnswersWithin, Up
  <2>7. ASSUME NEW k \in DOMAIN batch', batch'[k].first > erased
        PROVE  Reaches(batch'[k].caller, batch'[k].first)
    BY <2>1, <2>4, <2>7 DEF CoverInv, AnswersWithin
  <2> QED
    BY <2>1, <2>6, <2>7 DEF CoverInv, AnswersWithin, ProgressCoversAcks, Reaches, Target, Size, Up
<1>7. CASE FoldTx \/ FoldFails \/ RetryTimer
  BY <1>7, CoverKept DEF FoldTx, FoldFails, RetryTimer, MayFold, Up
<1>8. CASE StoreFolded \/ WakeWaiters \/ AnnounceChange
  BY <1>8, CoverKept DEF StoreFolded, WakeWaiters, AnnounceChange, Up
<1>9. CASE Reset
  <2>1. /\ erased' = last /\ UNCHANGED <<last, appended, reply, acked>>
        /\ writer' = "resetDone" /\ writer = "loop"
    BY <1>9 DEF Reset
  <2>2. ASSUME NEW c \in Callers
        PROVE  acked[c] <= last /\ reply[c] <= last /\ acked[c] \in Int /\ reply[c] \in Int
    <3>1. /\ acked[c] \in Int /\ reply[c] \in Int /\ Size(c) \in Nat \ {0}
          /\ erased \in Int /\ last \in Int /\ erased <= last
      BY SizePositive, LimitAssumption
         DEF CoverInv, AckInv, TypeOK, CallType, DiskType, NoReply
    <3>2. acked[c] > erased => acked[c] + Size(c) - 1 <= last
      BY <3>1, StoredReaches DEF CoverInv, AckInv, AckedIsStored
    <3>3. reply[c] > erased => reply[c] + Size(c) - 1 <= last
      BY <3>1, StoredReaches DEF CoverInv, AckInv, RepliesStand
    <3> QED
      BY <3>1, <3>2, <3>3
  <2>3. last \in Int
    BY DEF CoverInv, AckInv, TypeOK, DiskType
  <2>4. \A c \in Callers : ~(acked'[c] > erased') /\ ~(reply'[c] > erased')
    BY <2>1, <2>2, <2>3
  <2> QED
    BY <2>1, <2>4 DEF CoverInv, AnswersWithin, ProgressCoversAcks
<1> QED
  BY <1>2, <1>3, <1>4, <1>5, <1>6, <1>7, <1>8, <1>9 DEF WriterStep

(* A process that opens the log again starts its counter at the log's end.  *)
LEMMA ProcessCover == CoverInv /\ (Close \/ Stopped \/ Crash \/ Open) => CoverInv'
<1> SUFFICES ASSUME CoverInv, Close \/ Stopped \/ Crash \/ Open PROVE CoverInv'
  OBVIOUS
<1>1. AckInv'
  BY AckStep DEF CoverInv, Next
<1>2. CASE Close
  BY <1>1, <1>2, CoverKept DEF Close, Up, diskVars, pubVars, callVars
<1>3. CASE Stopped \/ Crash
  <2>1. writer' = "down"
    BY <1>3 DEF Stopped, Crash, Exit
  <2> QED
    BY <1>1, <2>1 DEF CoverInv, AnswersWithin, ProgressCoversAcks, Up
<1>4. CASE Open
  <2>1. writer' = "loop" /\ UNCHANGED <<log, erased, last, reply, acked>>
        /\ appended' = IF erased < last THEN last ELSE 0
    BY <1>4 DEF Open, callVars
  <2>2. CASE erased < last
    <3>1. (appended = last)'
      BY <2>1, <2>2
    <3>2. AnswersWithin' /\ ProgressCoversAcks'
      BY <1>1, <3>1, LastCovers, PTL
    <3> QED
      BY <1>1, <3>2 DEF CoverInv
  <2>3. CASE ~(erased < last)
    <3>1. /\ erased \in Int /\ last \in Int /\ erased <= last
          /\ \A c \in Callers : acked[c] \in Int /\ reply[c] \in Int /\ Size(c) \in Nat \ {0}
      BY SizePositive, LimitAssumption
         DEF CoverInv, AckInv, TypeOK, CallType, DiskType, NoReply
    <3>2. \A c \in Callers : acked[c] > erased => acked[c] + Size(c) - 1 <= last
      BY <3>1, StoredReaches DEF CoverInv, AckInv, AckedIsStored
    <3>3. \A c \in Callers : reply[c] > erased => reply[c] + Size(c) - 1 <= last
      BY <3>1, StoredReaches DEF CoverInv, AckInv, RepliesStand
    <3>4. ASSUME NEW c \in Callers PROVE ~(acked[c] > erased) /\ ~(reply[c] > erased)
      <4>1. /\ acked[c] \in Int /\ reply[c] \in Int /\ Size(c) \in Nat /\ Size(c) # 0
            /\ erased = last
        BY <2>3, <3>1
      <4> QED
        BY <3>1, <3>2, <3>3, <4>1
    <3> QED
      BY <1>1, <2>1, <3>4 DEF CoverInv, AnswersWithin, ProgressCoversAcks
  <2> QED
    BY <2>2, <2>3
<1> QED
  BY <1>2, <1>3, <1>4

(* Whoever was given seqs finds them covered by Progress, so waiting for     *)
(* everything appended waits for them.                                      *)
THEOREM AcksAreCovered == Spec => []ProgressCoversAcks
<1>1. CoverInv /\ [Next]_vars => CoverInv'
  <2> SUFFICES ASSUME CoverInv, [Next]_vars PROVE CoverInv'
    OBVIOUS
  <2>1. CASE UNCHANGED vars
    <3>1. AckInv'
      BY AckStep DEF CoverInv
    <3> QED
      BY <2>1, <3>1, CoverKept DEF vars, diskVars, pubVars, writerVars, callVars, Up
  <2> QED
    BY <2>1, CallerCover, WriterCover, ProcessCover DEF Next
<1>2. CoverInv => ProgressCoversAcks
  BY DEF CoverInv
<1> QED
  BY InitCover, <1>1, <1>2, PTL DEF Spec

-----------------------------------------------------------------------------
(* Work and news.                                                           *)

(* Nothing counts as appended beyond the log; a commit has something in it; *)
(* and with an empty log the counters leave nothing to fold.                *)
CountersWithin ==
    /\ appended <= last
    /\ writer = "drain" => staged # << >>
    /\ writer = "committed" => erased < last
    /\ writer \in {"loop", "drain", "answering", "wake", "announce", "closed"} /\ erased = last
          => appended <= folded
    /\ writer = "store" /\ erased = last => appended <= through

(* No input that a view shows lies after a and up to b. *)
NoNews(a, b) == \A s \in DOMAIN log : a < s /\ s <= b => log[s] \in Bad

(* Until a fold is announced, touched says whether there is news in it.      *)
NewsKnown ==
    /\ writer \in {"loop", "drain", "committed", "answering", "store", "closed"} =>
          NoNews(announced, folded)
    /\ writer = "store" /\ ~touched => NoNews(folded, through)
    /\ writer \in {"wake", "announce"} => folded = through
    /\ writer \in {"wake", "announce"} /\ ~touched => NoNews(announced, folded)
    /\ writer = "resetDone" => DOMAIN log = {}

WorkInv == FoldInv /\ CountersWithin /\ NewsKnown

(* The empty log holds neither work nor news. *)
LEMMA InitWork == Init => WorkInv
<1> SUFFICES ASSUME Init PROVE WorkInv
  OBVIOUS
<1>1. CountersWithin
  BY DEF Init, CountersWithin
<1>2. NewsKnown
  BY DEF Init, NewsKnown, NoNews
<1> QED
  BY <1>1, <1>2, InitFold DEF WorkInv

(* A step of a caller changes nothing of it. *)
LEMMA WorkKept ==
  ASSUME WorkInv, FoldInv', UNCHANGED <<log, erased, last, staged, appended, folded, announced>>,
         UNCHANGED <<writer, through, touched>>
  PROVE  WorkInv'
BY DEF WorkInv, CountersWithin, NewsKnown, NoNews

(* The bounds that the steps of the writer compute with. *)
LEMMA WorkNumbers ==
  ASSUME WorkInv
  PROVE  /\ erased \in Nat /\ last \in Nat /\ erased <= last /\ DOMAIN log = (erased + 1)..last
         /\ appended \in Nat /\ folded \in Nat /\ through \in Nat /\ announced \in Nat
         /\ Len(staged) \in Nat
         /\ writer \in {"loop", "drain", "committed", "answering", "wake", "announce", "closed"}
               => folded <= last
<1>1. tables.folded <= last
  BY DEF WorkInv, FoldInv, TablesAreFoldOfLog, IsFold
<1> QED
  BY <1>1, LimitAssumption
     DEF WorkInv, FoldInv, TypeOK, DiskType, PublishedType, WriterType, CounterFollowsTables

(* The writer keeps its counters within the log and its news known. *)
LEMMA WriterWork == WorkInv /\ WriterStep => WorkInv'
<1> SUFFICES ASSUME WorkInv, WriterStep PROVE WorkInv'
  OBVIOUS
<1>1. FoldInv'
  BY FoldStep DEF WorkInv, Next
<1>2. /\ erased \in Nat /\ last \in Nat /\ erased <= last /\ DOMAIN log = (erased + 1)..last
      /\ appended \in Nat /\ folded \in Nat /\ through \in Nat /\ announced \in Nat
      /\ Len(staged) \in Nat
      /\ writer \in {"loop", "drain", "committed", "answering", "wake", "announce", "closed"}
            => folded <= last
  BY WorkNumbers
<1> USE <1>1 DEF diskVars, pubVars, callVars
<1>3. ASSUME NEW c \in Callers, Receive(c) PROVE WorkInv'
  <2>1. staged' # << >>
    <3>1. BatchOf[c] \in Seq(Inputs) /\ BatchOf[c] # << >> /\ staged \in Seq(Inputs)
      BY BatchAssumption DEF WorkInv, FoldInv, TypeOK, WriterType
    <3>2. Len(staged \o BatchOf[c]) = Len(staged) + Len(BatchOf[c]) /\ Len(BatchOf[c]) > 0
      BY <3>1
    <3>3. staged' = staged \o BatchOf[c]
      BY <1>3 DEF Receive
    <3> QED
      BY <1>2, <3>2, <3>3
  <2> QED
    BY <1>3, <2>1 DEF Receive, WorkInv, CountersWithin, NewsKnown, NoNews
<1>4. CASE CommitTx
  <2>1. /\ writer = "drain" /\ writer' = "committed" /\ last' = last + Len(staged)
        /\ log' = [s \in (erased + 1)..(last + Len(staged)) |->
                     IF s <= last THEN log[s] ELSE staged[s - last]]
        /\ UNCHANGED <<erased, appended, folded, announced, through, touched>>
    BY <1>4 DEF CommitTx, Drained
  <2>2. Len(staged) > 0
    BY <1>2, <2>1 DEF WorkInv, CountersWithin, FoldInv, TypeOK, WriterType
  <2>3. CountersWithin'
    BY <1>2, <2>1, <2>2 DEF WorkInv, CountersWithin
  <2>4. ASSUME NEW s \in DOMAIN log', announced < s, s <= folded PROVE log'[s] \in Bad
    <3>1. s <= last
      BY <1>2, <2>1, <2>4
    <3>2. s \in DOMAIN log /\ log'[s] = log[s]
      BY <1>2, <2>1, <2>4, <3>1
    <3> QED
      BY <2>1, <2>4, <3>2 DEF WorkInv, NewsKnown, NoNews
  <2>5. NewsKnown'
    BY <2>1, <2>4 DEF NewsKnown, NoNews
  <2> QED
    BY <2>3, <2>5 DEF WorkInv
<1>5. CASE CommitFails
  BY <1>5 DEF CommitFails, Drained, WorkInv, CountersWithin, NewsKnown, NoNews
<1>6. CASE PublishAppended
  BY <1>2, <1>6 DEF PublishAppended, WorkInv, CountersWithin, NewsKnown, NoNews
<1>7. CASE Answer
  BY <1>7 DEF Answer, WorkInv, CountersWithin, NewsKnown, NoNews
<1>8. CASE FoldTx
  <2>1. PICK t \in DOMAIN log :
          /\ folded < t /\ through' = t
          /\ touched' = \E s \in DOMAIN log : folded < s /\ s <= t /\ log[s] \notin Bad
    BY <1>8 DEF FoldTx
  <2>2. /\ writer = "loop" /\ writer' = "store"
        /\ UNCHANGED <<log, erased, last, appended, folded, announced, staged>>
    BY <1>8 DEF FoldTx, MayFold
  <2>3. CountersWithin'
    BY <1>2, <2>1, <2>2 DEF WorkInv, CountersWithin
  <2>4. NewsKnown'
    BY <2>1, <2>2 DEF WorkInv, NewsKnown, NoNews
  <2> QED
    BY <2>3, <2>4 DEF WorkInv
<1>9. CASE FoldFails \/ RetryTimer
  BY <1>9, WorkKept DEF FoldFails, RetryTimer
<1>10. CASE StoreFolded
  <2>1. /\ writer = "store" /\ writer' = "wake" /\ folded' = through
        /\ UNCHANGED <<log, erased, last, appended, announced, staged, through, touched>>
    BY <1>10 DEF StoreFolded
  <2>2. CountersWithin'
    BY <2>1 DEF WorkInv, CountersWithin
  <2>3. ASSUME ~touched, NEW s \in DOMAIN log, announced < s, s <= through PROVE log[s] \in Bad
    <3>1. CASE s <= folded
      BY <2>1, <2>3, <3>1 DEF WorkInv, NewsKnown, NoNews
    <3>2. CASE folded < s
      BY <2>1, <2>3, <3>2 DEF WorkInv, NewsKnown, NoNews
    <3> QED
      BY <1>2, <3>1, <3>2
  <2>4. NewsKnown'
    BY <2>1, <2>3 DEF NewsKnown, NoNews
  <2> QED
    BY <2>2, <2>4 DEF WorkInv
<1>11. CASE WakeWaiters
  BY <1>11 DEF WakeWaiters, WorkInv, CountersWithin, NewsKnown, NoNews
<1>12. CASE AnnounceChange
  <2>1. /\ writer = "announce" /\ writer' = "loop"
        /\ announced' = IF touched THEN through ELSE announced
        /\ UNCHANGED <<log, erased, last, appended, folded, staged>>
    BY <1>12 DEF AnnounceChange
  <2>2. folded = through /\ (~touched => NoNews(announced, folded))
    BY <2>1 DEF WorkInv, NewsKnown
  <2>3. NoNews(announced', folded)
    BY <1>2, <2>1, <2>2 DEF NoNews
  <2>4. NewsKnown'
    BY <2>1, <2>3 DEF NewsKnown, NoNews
  <2>5. CountersWithin'
    BY <2>1 DEF WorkInv, CountersWithin
  <2> QED
    BY <2>4, <2>5 DEF WorkInv
<1>13. CASE Reset
  <2>1. /\ writer' = "resetDone" /\ last' = last /\ appended' = appended
        /\ log' = [s \in (last + 1)..last |-> log[s]]
    BY <1>13 DEF Reset
  <2>2. DOMAIN log' = {}
    BY <1>2, <2>1
  <2> QED
    BY <2>1, <2>2 DEF WorkInv, CountersWithin, NewsKnown
<1>14. CASE ResetPublish
  BY <1>2, <1>14 DEF ResetPublish, WorkInv, CountersWithin, NewsKnown, NoNews
<1> QED
  BY <1>3, <1>4, <1>5, <1>6, <1>7, <1>8, <1>9, <1>10, <1>11, <1>12, <1>13, <1>14 DEF WriterStep

(* Opening the log starts both counters where the disk is. *)
LEMMA ProcessWork == WorkInv /\ (Close \/ Stopped \/ Crash \/ Open) => WorkInv'
<1> SUFFICES ASSUME WorkInv, Close \/ Stopped \/ Crash \/ Open PROVE WorkInv'
  OBVIOUS
<1>1. FoldInv'
  BY FoldStep DEF WorkInv, Next
<1>2. /\ erased \in Nat /\ last \in Nat /\ erased <= last
  BY WorkNumbers
<1>3. CASE Close
  BY <1>1, <1>3 DEF Close, WorkInv, CountersWithin, NewsKnown, NoNews, diskVars, pubVars
<1>4. CASE Stopped \/ Crash
  <2>1. writer' = "down" /\ appended' = 0 /\ last' = last
    BY <1>4 DEF Stopped, Crash, Exit
  <2> QED
    BY <1>1, <1>2, <2>1 DEF WorkInv, CountersWithin, NewsKnown
<1>5. CASE Open
  <2>1. /\ writer' = "loop" /\ appended' = (IF erased < last THEN last ELSE 0)
        /\ folded' = tables'.folded /\ announced' = folded'
        /\ UNCHANGED <<log, erased, last>>
    BY <1>5 DEF Open
  <2>2. folded' \in Nat
    BY <1>1, LimitAssumption DEF FoldInv, TypeOK, PublishedType
  <2>3. CountersWithin'
    BY <1>2, <2>1, <2>2 DEF CountersWithin
  <2>4. NoNews(announced, folded)'
    <3>1. ASSUME NEW s \in DOMAIN log, announced' < s, s <= folded' PROVE FALSE
      BY <2>1, <2>2, <3>1, WorkNumbers
    <3> QED
      BY <2>1, <3>1 DEF NoNews
  <2>5. NewsKnown'
    BY <2>1, <2>4 DEF NewsKnown
  <2> QED
    BY <1>1, <2>3, <2>5 DEF WorkInv
<1> QED
  BY <1>3, <1>4, <1>5

(* Every step keeps the counters within the log and the news known. *)
LEMMA WorkAlways == Spec => []WorkInv
<1>1. WorkInv /\ [Next]_vars => WorkInv'
  <2> SUFFICES ASSUME WorkInv, [Next]_vars PROVE WorkInv'
    OBVIOUS
  <2>1. FoldInv'
    BY FoldStep DEF WorkInv
  <2>2. CASE UNCHANGED vars
    BY <2>1, <2>2, WorkKept DEF vars, diskVars, pubVars, writerVars
  <2>3. ASSUME NEW c \in Callers, CallerStep(c) PROVE WorkInv'
    BY <2>1, <2>3, CallerLeaves, WorkKept DEF diskVars, pubVars, writerVars
  <2> QED
    BY <2>2, <2>3, WriterWork, ProcessWork DEF Next
<1> QED
  BY InitWork, <1>1, PTL DEF Spec

(* When the writer believes there is something to fold, the log has it.     *)
THEOREM WorkIsThere == Spec => []PendingHasWork
<1>1. WorkInv => PendingHasWork
  <2> SUFFICES ASSUME WorkInv, writer \in {"loop", "drain"}, folded < appended
               PROVE  \E s \in DOMAIN log : s > folded
    BY DEF PendingHasWork, Pending
  <2>1. /\ erased \in Nat /\ last \in Nat /\ erased <= last /\ DOMAIN log = (erased + 1)..last
        /\ appended \in Nat /\ folded \in Nat
    BY WorkNumbers
  <2>2. appended <= last /\ erased # last
    BY <2>1 DEF WorkInv, CountersWithin
  <2>3. last \in DOMAIN log /\ last > folded
    BY <2>1, <2>2
  <2> QED
    BY <2>3
<1> QED
  BY WorkAlways, <1>1, PTL

(* Back at its loop the writer has told the views of every fold they show.  *)
THEOREM ViewsHear == Spec => []ViewsTold
<1>1. WorkInv => ViewsTold
  BY DEF WorkInv, NewsKnown, NoNews, ViewsTold
<1> QED
  BY WorkAlways, <1>1, PTL
=============================================================================
