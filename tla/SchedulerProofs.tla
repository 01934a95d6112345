--------------------------- MODULE SchedulerProofs ---------------------------
(* Proofs about the scheduler: in the log of one account a text is queued   *)
(* once, and never after a cancel that the tick could have seen.            *)
EXTENDS Scheduler, SequenceTheorems, TLAPS

Entries == [op : {"add", "sent", "cancel", "queue"}, text : Texts]

(* The row of a text is there before anybody can cancel it, and a text that *)
(* has an entry is not offered again.                                       *)
AddsFirst ==
    \A i, j \in 1..Len(log) :
        log[i].op = "add" /\ log[j] = Entry("cancel", log[i].text) => i < j
KnownTexts ==
    \A i \in 1..Len(log) : log[i].op \in {"add", "cancel"} => user[log[i].text] # "new"

(* Now, and after losing power: a row that is there has no cancel folded.   *)
Now == [folded |-> folded, rows |-> rows]
RowsLive ==
    /\ Now \in recent
    /\ \A d \in recent : \A t \in d.rows : ~Has("cancel", t, erased + 1, d.folded)
PageLive == \A k \in 1..Len(page) : ~Has("cancel", page[k], erased + 1, readAt)

(* Nobody else queues texts while the tick looks for an earlier send.       *)
NoneMeanwhile ==
    tick = "folding" => \A i \in (goal + 1)..Len(log) : log[i].op # "queue"

CancelInv == TypeOK /\ AddsFirst /\ KnownTexts /\ RowsLive /\ PageLive
OnceInv   == TypeOK /\ NoneMeanwhile /\ OncePerText

-----------------------------------------------------------------------------
(* The parts of the type invariant. *)
StoreOK ==
    /\ log \in Seq(Entries)
    /\ erased \in 0..Len(log) /\ folded \in erased..Len(log) /\ rows \subseteq Texts
    /\ recent \subseteq [folded : erased..Len(log), rows : SUBSET Texts]
TickOK ==
    /\ tick \in {"down", "idle", "picking", "folding", "marking"}
    /\ page \in Seq(Texts) /\ Len(page) <= DueLimit
    /\ (tick \in {"picking", "folding", "marking"}) = (page # << >>)
    /\ readAt \in 0..Len(log) /\ goal \in 0..Len(log)
UserOK ==
    /\ user \in [Texts -> {"new", "added", "asking", "cancelled"}] /\ due \subseteq Texts
    /\ account \in Nat /\ linked \in BOOLEAN
    /\ owner \in [Texts -> Nat] /\ sentBy \in [Texts -> SUBSET Nat]
    /\ left \in [Disturbances -> Nat]

LEMMA TypeParts == TypeOK <=> StoreOK /\ TickOK /\ UserOK
BY DEF TypeOK, StoreOK, TickOK, UserOK, Entries

LEMMA TypePartsNext == TypeOK' <=> StoreOK' /\ TickOK' /\ UserOK'
BY TypeParts, PTL

(* What an append does to the log. *)
LEMMA AppendIs ==
    ASSUME StoreOK, NEW e \in Entries, Append1(e)
    PROVE  /\ StoreOK' /\ Len(log') = Len(log) + 1 /\ Len(log) \in Nat
           /\ \A i \in 1..Len(log) : log'[i] = log[i]
           /\ log'[Len(log) + 1] = e
<1>1. log' = Append(log, e) /\ log \in Seq(Entries) /\ Len(log) \in Nat
  BY DEF Append1, StoreOK
<1>2. /\ log' \in Seq(Entries) /\ Len(log') = Len(log) + 1
      /\ \A i \in 1..Len(log) : log'[i] = log[i]
      /\ log'[Len(log) + 1] = e
  BY <1>1
<1>3. /\ erased' \in 0..Len(log') /\ folded' \in erased'..Len(log') /\ rows' \subseteq Texts
      /\ recent' \subseteq [folded : erased'..Len(log'), rows : SUBSET Texts]
  BY <1>1, <1>2 DEF Append1, StoreOK
<1> QED
  BY <1>1, <1>2, <1>3 DEF StoreOK

LEMMA EntryType ==
    ASSUME NEW op \in {"add", "sent", "cancel", "queue"}, NEW t \in Texts
    PROVE  Entry(op, t) \in Entries /\ Entry(op, t).op = op /\ Entry(op, t).text = t
BY DEF Entry, Entries

(* A tick that keeps its page, or has none, still has one of its kind after *)
(* the log grew.                                                            *)
LEMMA TickKept ==
    ASSUME StoreOK, TickOK, Len(log') \in Nat, Len(log') >= Len(log), UNCHANGED tickVars
    PROVE  TickOK'
BY DEF StoreOK, TickOK, tickVars

LEMMA TailIs ==
    ASSUME NEW S, NEW s \in Seq(S), s # << >>
    PROVE  /\ Tail(s) \in Seq(S) /\ Len(Tail(s)) = Len(s) - 1 /\ Len(s) \in Nat \ {0}
           /\ (Tail(s) = << >>) <=> (Len(s) = 1)
           /\ \A k \in 1..Len(Tail(s)) : Tail(s)[k] = s[k + 1]
           /\ Head(s) = s[1] /\ Head(s) \in S
<1>1. Len(s) \in Nat \ {0}
  BY EmptySeq
<1> QED
  <2>1. Tail(s) \in Seq(S) /\ Len(Tail(s)) = Len(s) - 1
    BY <1>1
  <2>2. \A k \in 1..Len(Tail(s)) : Tail(s)[k] = s[k + 1]
    BY <1>1
  <2>3. (Tail(s) = << >>) <=> (Len(s) = 1)
    <3>1. Tail(s) # << >> => Len(Tail(s)) \in Nat \ {0}
      BY <2>1, EmptySeq, Zenon
    <3>2. Tail(s) = << >> => Len(Tail(s)) = 0
      BY EmptySeq, Zenon
    <3> QED
      BY <1>1, <2>1, <3>1, <3>2
  <2>4. Head(s) = s[1] /\ Head(s) \in S
    BY <1>1
  <2> QED
    BY <1>1, <2>1, <2>2, <2>3, <2>4

LEMMA NextTextIs ==
    ASSUME StoreOK, TickOK, page # << >>, NextText, Len(log') \in Nat, Len(log') >= Len(log)
    PROVE  TickOK'
<1>1. page' \in Seq(Texts) /\ Len(page') = Len(page) - 1 /\ Len(page) \in Nat
  BY TailIs DEF NextText, TickOK
<1>2. Len(page') <= DueLimit
  BY <1>1, BoundAssumption DEF TickOK
<1>3. (page' = << >>) <=> (Len(page) = 1)
  BY TailIs DEF NextText, TickOK
<1>4. tick' = (IF Len(page) = 1 THEN "idle" ELSE "picking") /\ readAt' \in {0, readAt} /\ goal' = 0
  BY DEF NextText
<1>5. (tick' \in {"picking", "folding", "marking"}) = (page' # << >>)
  BY <1>3, <1>4
<1>6. readAt' \in 0..Len(log') /\ goal' \in 0..Len(log')
  BY <1>4 DEF TickOK, StoreOK
<1> QED
  BY <1>1, <1>2, <1>4, <1>5, <1>6 DEF TickOK

(* A page holds due rows, and no more than a tick takes. *)
LEMMA PageIs ==
    ASSUME StoreOK, NEW p \in DueScheduled
    PROVE  /\ p \in Seq(Texts) /\ Len(p) <= DueLimit
           /\ \A k \in 1..Len(p) : p[k] \in rows
<1>1. PICK n \in 0..DueLimit : p \in [1..n -> rows \cap due]
  BY DEF DueScheduled
<1>2. DueLimit \in Nat /\ n \in Nat /\ rows \cap due \subseteq Texts
  BY BoundAssumption DEF StoreOK
<1>3. p \in Seq(rows \cap due) /\ Len(p) = n
  BY <1>1, <1>2
<1>4. p \in Seq(Texts)
  BY <1>1, <1>2
<1> QED
  BY <1>1, <1>2, <1>3, <1>4

(* Folding an entry changes the rows of its text only. *)
LEMMA FoldIs ==
    ASSUME StoreOK, FoldSchedule
    PROVE  /\ StoreOK' /\ folded + 1 \in 1..Len(log) /\ log[folded + 1] \in Entries
           /\ rows' = FoldedRows(log[folded + 1]) /\ folded' = folded + 1
           /\ recent' = recent \cup {[folded |-> folded', rows |-> rows']}
           /\ log' = log /\ erased' = erased
<1>1. /\ folded + 1 \in 1..Len(log) /\ folded + 1 \in erased..Len(log)
      /\ rows' = FoldedRows(log[folded + 1]) /\ folded' = folded + 1
      /\ recent' = recent \cup {[folded |-> folded', rows |-> rows']}
      /\ log' = log /\ erased' = erased
  BY DEF FoldSchedule, StoreOK
<1>2. log[folded + 1] \in Entries
  BY <1>1 DEF StoreOK
<1>3. rows' \subseteq Texts
  BY <1>1, <1>2 DEF FoldedRows, Entries, StoreOK
<1>4. recent' \subseteq [folded : erased..Len(log), rows : SUBSET Texts]
  BY <1>1, <1>3 DEF StoreOK
<1> QED
  BY <1>1, <1>2, <1>3, <1>4 DEF StoreOK

-----------------------------------------------------------------------------
(* Every step keeps the types. *)

LEMMA UserAction ==
    ASSUME TypeOK, NEW t \in Texts, UserStep(t)
    PROVE  TypeOK'
<1>t. StoreOK /\ TickOK /\ UserOK
  BY TypeParts
<1>1. ASSUME ScheduleText(t) PROVE TypeOK'
  <2>1. Entry("add", t) \in Entries /\ Append1(Entry("add", t)) /\ UNCHANGED tickVars
    BY <1>1, EntryType DEF ScheduleText
  <2>2. StoreOK' /\ TickOK'
    BY <1>t, <2>1, AppendIs, TickKept
  <2>3. UserOK'
    BY <1>t, <1>1 DEF ScheduleText, UserOK, acctVars
  <2> QED
    BY <2>2, <2>3, TypePartsNext
<1>2. ASSUME ComesDue(t) \/ FindScheduled(t) PROVE TypeOK'
  <2>1. UNCHANGED <<storeVars, tickVars>>
    BY <1>2 DEF ComesDue, FindScheduled
  <2>2. StoreOK' /\ TickOK'
    BY <1>t, <2>1 DEF StoreOK, TickOK, storeVars, tickVars
  <2>3. UserOK'
    BY <1>t, <1>2 DEF ComesDue, FindScheduled, UserOK, acctVars
  <2> QED
    BY <2>2, <2>3, TypePartsNext
<1>3. ASSUME CancelScheduled(t) PROVE TypeOK'
  <2>1. Entry("cancel", t) \in Entries /\ Append1(Entry("cancel", t)) /\ UNCHANGED tickVars
    BY <1>3, EntryType DEF CancelScheduled
  <2>2. StoreOK' /\ TickOK'
    BY <1>t, <2>1, AppendIs, TickKept
  <2>3. UserOK'
    BY <1>t, <1>3 DEF CancelScheduled, UserOK, acctVars
  <2> QED
    BY <2>2, <2>3, TypePartsNext
<1> QED
  BY <1>1, <1>2, <1>3 DEF UserStep

LEMMA TickAction ==
    ASSUME TypeOK, TickStep
    PROVE  TypeOK'
<1>t. StoreOK /\ TickOK /\ UserOK /\ Len(log) \in Nat
  BY TypeParts DEF StoreOK
<1>s. ASSUME UNCHANGED storeVars PROVE StoreOK' /\ Len(log') = Len(log)
  BY <1>s, <1>t DEF StoreOK, storeVars
<1>u. ASSUME UNCHANGED <<userVars, acctVars, left>> PROVE UserOK'
  BY <1>u, <1>t DEF UserOK, userVars, acctVars
<1>1. ASSUME Tick PROVE TypeOK'
  <2>1. page' \in Seq(Texts) /\ Len(page') <= DueLimit
    BY <1>1, <1>t, PageIs DEF Tick
  <2>2. StoreOK' /\ UserOK' /\ Len(log') = Len(log)
    BY <1>1, <1>s, <1>u DEF Tick
  <2>3. readAt' \in 0..Len(log') /\ goal' \in 0..Len(log')
    BY <1>1, <1>t, <2>2 DEF Tick, StoreOK, TickOK
  <2>4. /\ tick' \in {"idle", "picking"}
        /\ (tick' \in {"picking", "folding", "marking"}) = (page' # << >>)
    BY <1>1 DEF Tick
  <2> QED
    BY <2>1, <2>2, <2>3, <2>4, TypePartsNext DEF TickOK
<1>2. ASSUME SendText \/ AlreadyQueued PROVE TypeOK'
  <2>1. StoreOK' /\ UserOK' /\ Len(log') = Len(log)
    BY <1>2, <1>s, <1>u DEF SendText, AlreadyQueued
  <2>2. TickOK'
    BY <1>2, <1>t, <2>1 DEF SendText, AlreadyQueued, TickOK
  <2> QED
    BY <2>1, <2>2, TypePartsNext
<1>3. ASSUME QueueText PROVE TypeOK'
  <2>1. page # << >>
    BY <1>3, <1>t DEF QueueText, TickOK
  <2>2. Head(page) \in Texts
    BY <2>1, <1>t, TailIs DEF TickOK
  <2>3. Entry("queue", Head(page)) \in Entries /\ Append1(Entry("queue", Head(page)))
    BY <1>3, <2>2, EntryType DEF QueueText
  <2>4. StoreOK' /\ Len(log') = Len(log) + 1
    BY <1>t, <2>3, AppendIs
  <2>5. TickOK'
    BY <1>3, <1>t, <2>1, <2>4 DEF QueueText, TickOK
  <2>6. UserOK'
    BY <1>3, <1>t DEF QueueText, UserOK, userVars
  <2> QED
    BY <2>4, <2>5, <2>6, TypePartsNext
<1>4. ASSUME SendFails PROVE TypeOK'
  <2>1. page # << >> /\ NextText /\ UNCHANGED <<storeVars, userVars, acctVars, left>>
    BY <1>4, <1>t DEF SendFails, TickOK
  <2>2. StoreOK' /\ UserOK' /\ Len(log') = Len(log)
    BY <2>1, <1>s, <1>u
  <2> QED
    BY <1>t, <2>1, <2>2, NextTextIs, TypePartsNext
<1>5. ASSUME CallFails PROVE TypeOK'
  <2>1. page # << >> /\ NextText /\ UNCHANGED storeVars
    BY <1>5, <1>t DEF CallFails, TickOK
  <2>2. StoreOK' /\ Len(log') = Len(log)
    BY <2>1, <1>s
  <2>3. UserOK'
    BY <1>5, <1>t DEF CallFails, Spend, UserOK, userVars, acctVars, Disturbances
  <2> QED
    BY <1>t, <2>1, <2>2, <2>3, NextTextIs, TypePartsNext
<1>6. ASSUME MarkSent PROVE TypeOK'
  <2>1. /\ page # << >> /\ NextText /\ Append1(Entry("sent", Head(page)))
        /\ UNCHANGED <<userVars, acctVars, left>>
    BY <1>6, <1>t DEF MarkSent, TickOK
  <2>2. Entry("sent", Head(page)) \in Entries
    BY <1>t, <2>1, TailIs, EntryType DEF TickOK
  <2>3. StoreOK' /\ Len(log') = Len(log) + 1
    BY <1>t, <2>1, <2>2, AppendIs
  <2>4. TickOK'
    BY <1>t, <2>1, <2>3, NextTextIs
  <2> QED
    BY <2>1, <2>3, <2>4, <1>u, TypePartsNext
<1> QED
  BY <1>1, <1>2, <1>3, <1>4, <1>5, <1>6 DEF TickStep

LEMMA OtherAction ==
    ASSUME TypeOK, FoldSchedule \/ Logout \/ Login \/ Crash \/ Open \/ UNCHANGED vars
    PROVE  TypeOK'
<1>t. StoreOK /\ TickOK /\ UserOK /\ Len(log) \in Nat
  BY TypeParts DEF StoreOK
<1>1. ASSUME FoldSchedule PROVE TypeOK'
  <2>1. StoreOK' /\ log' = log /\ UNCHANGED <<userVars, tickVars, acctVars, left>>
    BY <1>1, <1>t, FoldIs DEF FoldSchedule
  <2> QED
    BY <1>t, <2>1, TickKept, TypePartsNext DEF UserOK, userVars, acctVars
<1>2. ASSUME Logout PROVE TypeOK'
  <2>1. StoreOK'
    BY <1>2, <1>t DEF Logout, StoreOK
  <2>2. TickOK'
    BY <1>2, <1>t, BoundAssumption DEF Logout, TickOK
  <2>3. UserOK'
    <3>1. account' = account + 1 /\ linked' = FALSE /\ UNCHANGED <<userVars, sentBy>>
      BY <1>2 DEF Logout
    <3>2. left' \in [Disturbances -> Nat]
      BY <1>2, <1>t DEF Logout, UserOK, Spend, Disturbances
    <3>3. account' \in Nat
      BY <1>t, <3>1 DEF UserOK
    <3>5. linked' \in BOOLEAN
      BY <3>1
    <3>4. UNCHANGED <<user, due, owner, sentBy>>
      BY <3>1 DEF userVars
    <3> QED
      BY <1>t, <3>2, <3>3, <3>4, <3>5 DEF UserOK
  <2> QED
    BY <2>1, <2>2, <2>3, TypePartsNext
<1>3. ASSUME Login PROVE TypeOK'
  <2>1. StoreOK' /\ TickOK'
    BY <1>3, <1>t DEF Login, StoreOK, TickOK, storeVars, tickVars
  <2>2. UserOK'
    BY <1>3, <1>t DEF Login, UserOK, userVars
  <2> QED
    BY <2>1, <2>2, TypePartsNext
<1>4. ASSUME Crash PROVE TypeOK'
  <2>1. StoreOK'
    BY <1>4, <1>t DEF Crash, StoreOK
  <2>2. TickOK'
    BY <1>4, <1>t, BoundAssumption DEF Crash, TickOK
  <2>3. UserOK'
    BY <1>4, <1>t DEF Crash, UserOK, Spend, acctVars, Disturbances
  <2> QED
    BY <2>1, <2>2, <2>3, TypePartsNext
<1>5. ASSUME Open PROVE TypeOK'
  <2>1. StoreOK'
    BY <1>5, <1>t DEF Open, StoreOK
  <2>2. TickOK'
    BY <1>5, <1>t DEF Open, TickOK
  <2>3. UserOK'
    BY <1>5, <1>t DEF Open, UserOK, Spend, userVars, acctVars, Disturbances
  <2> QED
    BY <2>1, <2>2, <2>3, TypePartsNext
<1>6. ASSUME UNCHANGED vars PROVE TypeOK'
  BY <1>6 DEF TypeOK, vars, storeVars, tickVars, userVars, acctVars
<1> QED
  BY <1>1, <1>2, <1>3, <1>4, <1>5, <1>6

LEMMA TypeStep == TypeOK /\ [Next]_vars => TypeOK'
BY UserAction, TickAction, OtherAction DEF Next

(* Every variable keeps its type: what is folded stays between what a       *)
(* logout deleted and what is logged, in every state power loss may leave,  *)
(* and the tick holds a page exactly while it handles one.                  *)
THEOREM SchedulerTypeSafe == Spec => []TypeOK
<1>1. Init => TypeOK
  BY BoundAssumption DEF Init, TypeOK, Disturbances
<1> QED
  BY <1>1, TypeStep, PTL DEF Spec

-----------------------------------------------------------------------------
(* A text is queued once. *)

LEMMA AppendMeanwhile ==
    ASSUME StoreOK, TickOK, NoneMeanwhile, OncePerText,
           NEW e \in Entries, e.op # "queue", Append1(e)
    PROVE  OncePerText' /\ (UNCHANGED tickVars => NoneMeanwhile')
<1>1. /\ Len(log') = Len(log) + 1 /\ Len(log) \in Nat /\ log'[Len(log) + 1] = e
      /\ \A i \in 1..Len(log) : log'[i] = log[i]
  BY AppendIs
<1>2. erased' = erased /\ erased \in Nat
  BY DEF Append1, StoreOK
<1>3. OncePerText'
  BY <1>1, <1>2 DEF OncePerText
<1>4. ASSUME UNCHANGED tickVars PROVE NoneMeanwhile'
  BY <1>1, <1>4 DEF NoneMeanwhile, TickOK, tickVars
<1> QED
  BY <1>3, <1>4

LEMMA OnceStep == OnceInv /\ [Next]_vars => OnceInv'
<1> SUFFICES ASSUME OnceInv, [Next]_vars PROVE NoneMeanwhile' /\ OncePerText'
  BY TypeStep DEF OnceInv
<1>t. StoreOK /\ TickOK /\ NoneMeanwhile /\ OncePerText
  BY TypeParts DEF OnceInv
<1>l. Len(log) \in Nat /\ erased \in Nat /\ goal \in Nat
  BY <1>t DEF StoreOK, TickOK
<1>1. ASSUME NEW t \in Texts, ScheduleText(t) \/ CancelScheduled(t)
      PROVE  NoneMeanwhile' /\ OncePerText'
  <2>1. UNCHANGED tickVars
    BY <1>1 DEF ScheduleText, CancelScheduled
  <2>2. Append1(Entry("add", t)) \/ Append1(Entry("cancel", t))
    BY <1>1 DEF ScheduleText, CancelScheduled
  <2> QED
    BY <1>t, <2>1, <2>2, AppendMeanwhile, EntryType
<1>2. ASSUME NEW t \in Texts, ComesDue(t) \/ FindScheduled(t)
      PROVE  NoneMeanwhile' /\ OncePerText'
  BY <1>t, <1>2 DEF ComesDue, FindScheduled, storeVars, tickVars, NoneMeanwhile, OncePerText
<1>3. ASSUME Tick \/ AlreadyQueued PROVE NoneMeanwhile' /\ OncePerText'
  BY <1>t, <1>3 DEF Tick, AlreadyQueued, storeVars, NoneMeanwhile, OncePerText
<1>4. ASSUME SendText PROVE NoneMeanwhile' /\ OncePerText'
  BY <1>t, <1>l, <1>4 DEF SendText, storeVars, NoneMeanwhile, OncePerText
<1>5. ASSUME QueueText PROVE NoneMeanwhile' /\ OncePerText'
  <2>1. /\ tick' = "marking" /\ Append1(Entry("queue", Head(page)))
        /\ tick = "folding" /\ folded >= goal /\ ~Keyed(Head(page))
    BY <1>5 DEF QueueText
  <2>2. Head(page) \in Texts
    BY <1>t, <2>1, TailIs DEF TickOK
  <2>3. /\ Len(log') = Len(log) + 1 /\ log'[Len(log) + 1] = Entry("queue", Head(page))
        /\ \A i \in 1..Len(log) : log'[i] = log[i]
    BY <1>t, <2>1, <2>2, EntryType, AppendIs
  <2>4. \A i \in (erased + 1)..Len(log) : log[i] # Entry("queue", Head(page))
    <3> SUFFICES ASSUME NEW i \in (erased + 1)..Len(log), log[i] = Entry("queue", Head(page))
                 PROVE  FALSE
      OBVIOUS
    <3>1. i > goal
      BY <1>t, <1>l, <2>1 DEF Keyed, Has, StoreOK
    <3>2. log[i].op = "queue"
      BY <2>2, EntryType
    <3> QED
      BY <1>t, <1>l, <2>1, <3>1, <3>2 DEF NoneMeanwhile
  <2>5. erased' = erased
    BY <2>1 DEF Append1
  <2>6. OncePerText'
    BY <1>t, <1>l, <2>3, <2>4, <2>5 DEF OncePerText
  <2> QED
    BY <2>1, <2>6 DEF NoneMeanwhile
<1>6. ASSUME SendFails \/ CallFails PROVE NoneMeanwhile' /\ OncePerText'
  <2>1. tick' # "folding" /\ UNCHANGED storeVars
    BY <1>6 DEF SendFails, CallFails, NextText
  <2> QED
    BY <1>t, <2>1 DEF NoneMeanwhile, OncePerText, storeVars
<1>7. ASSUME MarkSent PROVE NoneMeanwhile' /\ OncePerText'
  <2>1. tick' # "folding" /\ page # << >> /\ Append1(Entry("sent", Head(page)))
    BY <1>7, <1>t DEF MarkSent, NextText, TickOK
  <2>2. Head(page) \in Texts
    BY <1>t, <2>1, TailIs DEF TickOK
  <2>3. OncePerText'
    BY <1>t, <2>1, <2>2, EntryType, AppendMeanwhile
  <2> QED
    BY <2>1, <2>3 DEF NoneMeanwhile
<1>8. ASSUME FoldSchedule \/ Login PROVE NoneMeanwhile' /\ OncePerText'
  BY <1>t, <1>8 DEF FoldSchedule, Login, storeVars, tickVars, NoneMeanwhile, OncePerText
<1>9. ASSUME Logout PROVE NoneMeanwhile' /\ OncePerText'
  <2>1. tick' = "idle" /\ log' = log /\ erased' = Len(log)
    BY <1>9 DEF Logout
  <2> QED
    BY <1>l, <2>1 DEF NoneMeanwhile, OncePerText
<1>10. ASSUME Crash \/ Open PROVE NoneMeanwhile' /\ OncePerText'
  <2>1. tick' # "folding" /\ log' = log /\ erased' = erased
    BY <1>10 DEF Crash, Open
  <2> QED
    BY <1>t, <2>1 DEF NoneMeanwhile, OncePerText
<1>11. CASE UNCHANGED vars
  BY <1>t, <1>11 DEF vars, storeVars, tickVars, NoneMeanwhile, OncePerText
<1> QED
  BY <1>1, <1>2, <1>3, <1>4, <1>5, <1>6, <1>7, <1>8, <1>9, <1>10, <1>11
  DEF Next, UserStep, TickStep

(* In the log of one account a scheduled text is queued once, whatever      *)
(* fails between the queueing and the note that it went, whatever crashes   *)
(* and whatever is folded again: what an earlier tick may have queued is    *)
(* folded before the scheduler looks for it, and only the scheduler queues  *)
(* texts.                                                                   *)
THEOREM TextQueuedOnce == Spec => []OncePerText
<1>1. Init => OnceInv
  <2>1. Init => TypeOK
    BY BoundAssumption DEF Init, TypeOK, Disturbances
  <2> QED
    BY <2>1 DEF Init, OnceInv, NoneMeanwhile, OncePerText
<1>2. OnceInv => OncePerText
  BY DEF OnceInv
<1> QED
  BY <1>1, <1>2, OnceStep, PTL DEF Spec

-----------------------------------------------------------------------------
(* A cancel the tick could have seen holds. *)

(* What an append leaves of the facts about cancels, for an entry that is   *)
(* no add after a cancel. *)
LEMMA AppendLive ==
    ASSUME StoreOK, TickOK, AddsFirst, RowsLive, PageLive, NEW e \in Entries, Append1(e),
           \A j \in 1..Len(log) : e.op = "add" => log[j] # Entry("cancel", e.text)
    PROVE  /\ AddsFirst' /\ RowsLive'
           /\ \A t, n : n \in 0..Len(log) => (Has("cancel", t, erased + 1, n)' <=> Has("cancel", t, erased + 1, n))
<1>1. /\ Len(log') = Len(log) + 1 /\ Len(log) \in Nat /\ log'[Len(log) + 1] = e
      /\ \A i \in 1..Len(log) : log'[i] = log[i]
  BY AppendIs
<1>2. /\ erased' = erased /\ erased \in Nat /\ rows' = rows
      /\ folded' = folded /\ folded \in 0..Len(log) /\ recent' = {Now}
  BY DEF Append1, StoreOK, Now
<1>3. ASSUME NEW t, NEW n \in 0..Len(log)
      PROVE  Has("cancel", t, erased + 1, n)' <=> Has("cancel", t, erased + 1, n)
  BY <1>1, <1>2 DEF Has
<1>4. AddsFirst'
  <2> SUFFICES ASSUME NEW i \in 1..Len(log'), NEW j \in 1..Len(log'),
                      log'[i].op = "add", log'[j] = Entry("cancel", log'[i].text)
               PROVE  i < j
    BY DEF AddsFirst
  <2>1. log'[j].op = "cancel"
    BY DEF Entry
  <2>2. i # j
    BY <2>1
  <2>3. CASE i = Len(log) + 1
    BY <1>1, <2>2, <2>3
  <2>4. CASE i # Len(log) + 1 /\ j # Len(log) + 1
    BY <1>1, <2>4 DEF AddsFirst
  <2> QED
    BY <1>1, <2>3, <2>4
<1>5. RowsLive'
  <2>1. Now' \in recent' /\ recent' \subseteq recent
    BY <1>2 DEF RowsLive, Now
  <2>2. \A d \in recent' : d.folded \in 0..Len(log)
    BY <2>1, <1>2 DEF StoreOK
  <2> QED
    BY <1>3, <2>1, <2>2 DEF RowsLive
<1> QED
  BY <1>3, <1>4, <1>5

LEMMA KnownStep == CancelInv /\ [Next]_vars => KnownTexts'
<1> SUFFICES ASSUME CancelInv, [Next]_vars PROVE KnownTexts'
  OBVIOUS
<1>t. StoreOK /\ TickOK /\ UserOK /\ KnownTexts /\ Len(log) \in Nat
  BY TypeParts DEF CancelInv, StoreOK
<1>e. ASSUME NEW i \in 1..Len(log) PROVE log[i].text \in Texts
  <2>1. log[i] \in Entries
    BY <1>t DEF StoreOK
  <2> QED
    BY <2>1 DEF Entries
<1>1. ASSUME NEW t \in Texts, ScheduleText(t) \/ CancelScheduled(t) PROVE KnownTexts'
  <2>1. PICK e \in Entries : Append1(e) /\ e.text = t
    BY <1>1, EntryType DEF ScheduleText, CancelScheduled
  <2>2. /\ Len(log') = Len(log) + 1 /\ log'[Len(log) + 1] = e
        /\ \A i \in 1..Len(log) : log'[i] = log[i]
    BY <1>t, <2>1, AppendIs
  <2>3. user'[t] # "new" /\ \A u \in Texts : user[u] # "new" => user'[u] # "new"
    BY <1>1, <1>t DEF ScheduleText, CancelScheduled, UserOK
  <2> QED
    BY <1>t, <1>e, <2>1, <2>2, <2>3 DEF KnownTexts
<1>2. ASSUME NEW t \in Texts, ComesDue(t) \/ FindScheduled(t) PROVE KnownTexts'
  <2>1. log' = log /\ \A u \in Texts : user[u] # "new" => user'[u] # "new"
    BY <1>2, <1>t DEF ComesDue, FindScheduled, storeVars, UserOK
  <2> QED
    BY <1>t, <1>e, <2>1 DEF KnownTexts
<1>3. ASSUME QueueText \/ MarkSent PROVE KnownTexts'
  <2>1. page # << >>
    BY <1>3, <1>t DEF QueueText, MarkSent, TickOK
  <2>2. Head(page) \in Texts
    BY <1>t, <2>1, TailIs DEF TickOK
  <2>3. PICK e \in Entries : Append1(e) /\ e.op \notin {"add", "cancel"}
    BY <1>3, <2>2, EntryType DEF QueueText, MarkSent
  <2>4. /\ Len(log') = Len(log) + 1 /\ log'[Len(log) + 1] = e
        /\ \A i \in 1..Len(log) : log'[i] = log[i]
    BY <1>t, <2>3, AppendIs
  <2>5. user' = user
    BY <1>3 DEF QueueText, MarkSent, userVars
  <2> QED
    BY <1>t, <2>3, <2>4, <2>5 DEF KnownTexts
<1>4. ASSUME \/ Tick \/ SendText \/ AlreadyQueued \/ SendFails \/ CallFails
             \/ FoldSchedule \/ Logout \/ Login \/ Open \/ UNCHANGED vars
      PROVE  KnownTexts'
  <2>1. log' = log /\ user' = user
    BY <1>4 DEF Tick, SendText, AlreadyQueued, SendFails, CallFails, FoldSchedule, Logout, Login, Open,
                vars, storeVars, userVars
  <2> QED
    BY <1>t, <2>1 DEF KnownTexts
<1>5. ASSUME Crash PROVE KnownTexts'
  <2>1. log' = log /\ \A u \in Texts : user[u] # "new" => user'[u] # "new"
    BY <1>5, <1>t DEF Crash, UserOK
  <2> QED
    BY <1>t, <1>e, <2>1 DEF KnownTexts
<1> QED
  BY <1>1, <1>2, <1>3, <1>4, <1>5 DEF Next, UserStep, TickStep

(* The tick goes on with the next text of the page. *)
LEMMA NextTextLive ==
    ASSUME StoreOK, TickOK, PageLive, page # << >>, NextText, erased' = erased,
           \A t : Has("cancel", t, erased + 1, readAt)' => Has("cancel", t, erased + 1, readAt) \/ readAt' = 0
    PROVE  PageLive'
<1>1. /\ Len(page') = Len(page) - 1 /\ Len(page) \in Nat
      /\ \A k \in 1..Len(page') : page'[k] = page[k + 1]
  BY TailIs DEF NextText, TickOK
<1>2. \A t : readAt' = 0 => ~Has("cancel", t, erased + 1, readAt)'
  BY DEF Has, StoreOK
<1> QED
  BY <1>1, <1>2 DEF PageLive

LEMMA LiveStep == CancelInv /\ [Next]_vars => AddsFirst' /\ RowsLive' /\ PageLive'
<1> SUFFICES ASSUME CancelInv, [Next]_vars PROVE AddsFirst' /\ RowsLive' /\ PageLive'
  OBVIOUS
<1>t. /\ StoreOK /\ TickOK /\ UserOK /\ AddsFirst /\ KnownTexts /\ RowsLive /\ PageLive
      /\ Len(log) \in Nat
  BY TypeParts DEF CancelInv, StoreOK
<1>r. readAt \in 0..Len(log) /\ erased \in Nat /\ folded \in Nat
  BY <1>t DEF TickOK, StoreOK
<1>s. ASSUME UNCHANGED storeVars PROVE AddsFirst' /\ RowsLive'
  BY <1>s, <1>t DEF storeVars, AddsFirst, RowsLive, Now, Has
<1>p. ASSUME log' = log, erased' = erased, page' = page, readAt' = readAt PROVE PageLive'
  BY <1>p, <1>t DEF PageLive, Has
<1>0. ASSUME page' = << >> PROVE PageLive'
  BY <1>0 DEF PageLive
<1>1. ASSUME NEW t \in Texts, ScheduleText(t) PROVE AddsFirst' /\ RowsLive' /\ PageLive'
  <2>1. Append1(Entry("add", t)) /\ Entry("add", t) \in Entries /\ page' = page /\ readAt' = readAt
    BY <1>1, EntryType DEF ScheduleText, tickVars
  <2>2. \A j \in 1..Len(log) : log[j] # Entry("cancel", Entry("add", t).text)
    BY <1>1, <1>t, EntryType DEF KnownTexts, ScheduleText
  <2>3. /\ AddsFirst' /\ RowsLive'
        /\ \A u : Has("cancel", u, erased + 1, readAt)' <=> Has("cancel", u, erased + 1, readAt)
    BY <1>t, <1>r, <2>1, <2>2, AppendLive
  <2> QED
    BY <1>t, <2>1, <2>3 DEF PageLive
<1>2. ASSUME NEW t \in Texts, CancelScheduled(t) PROVE AddsFirst' /\ RowsLive' /\ PageLive'
  <2>1. /\ Append1(Entry("cancel", t)) /\ Entry("cancel", t) \in Entries /\ page' = page
        /\ readAt' = readAt /\ Entry("cancel", t).op # "add"
    BY <1>2, EntryType DEF CancelScheduled, tickVars
  <2>3. /\ AddsFirst' /\ RowsLive'
        /\ \A u : Has("cancel", u, erased + 1, readAt)' <=> Has("cancel", u, erased + 1, readAt)
    BY <1>t, <1>r, <2>1, AppendLive
  <2> QED
    BY <1>t, <2>1, <2>3 DEF PageLive
<1>3. ASSUME NEW t \in Texts, ComesDue(t) \/ FindScheduled(t)
      PROVE  AddsFirst' /\ RowsLive' /\ PageLive'
  <2>1. UNCHANGED storeVars /\ page' = page /\ readAt' = readAt
    BY <1>3 DEF ComesDue, FindScheduled, tickVars
  <2> QED
    BY <2>1, <1>s, <1>p DEF storeVars
<1>4. ASSUME Tick PROVE AddsFirst' /\ RowsLive' /\ PageLive'
  <2>1. UNCHANGED storeVars /\ page' \in DueScheduled
    BY <1>4 DEF Tick
  <2>2. CASE page' # << >>
    <3>1. readAt' = folded /\ log' = log /\ erased' = erased
      BY <1>4, <2>2 DEF Tick, storeVars
    <3>2. \A k \in 1..Len(page') : page'[k] \in rows
      BY <1>t, <2>1, PageIs
    <3>3. \A t \in rows : ~Has("cancel", t, erased + 1, folded)
      BY <1>t DEF RowsLive, Now
    <3> QED
      BY <1>s, <2>1, <3>1, <3>2, <3>3 DEF PageLive, Has
  <2> QED
    BY <1>s, <1>0, <2>1, <2>2
<1>5. ASSUME SendText \/ AlreadyQueued PROVE AddsFirst' /\ RowsLive' /\ PageLive'
  <2>1. UNCHANGED storeVars /\ page' = page /\ readAt' = readAt
    BY <1>5 DEF SendText, AlreadyQueued
  <2> QED
    BY <2>1, <1>s, <1>p DEF storeVars
<1>6. ASSUME QueueText PROVE AddsFirst' /\ RowsLive' /\ PageLive'
  <2>1. page # << >> /\ Append1(Entry("queue", Head(page))) /\ page' = page /\ readAt' = readAt
    BY <1>6, <1>t DEF QueueText, TickOK
  <2>2. Entry("queue", Head(page)) \in Entries /\ Entry("queue", Head(page)).op # "add"
    BY <1>t, <2>1, TailIs, EntryType DEF TickOK
  <2>3. /\ AddsFirst' /\ RowsLive'
        /\ \A u : Has("cancel", u, erased + 1, readAt)' <=> Has("cancel", u, erased + 1, readAt)
    BY <1>t, <1>r, <2>1, <2>2, AppendLive
  <2> QED
    BY <1>t, <2>1, <2>3 DEF PageLive
<1>7. ASSUME SendFails \/ CallFails PROVE AddsFirst' /\ RowsLive' /\ PageLive'
  <2>1. page # << >> /\ NextText /\ UNCHANGED storeVars
    BY <1>7, <1>t DEF SendFails, CallFails, TickOK
  <2>2. \A t : Has("cancel", t, erased + 1, readAt)' => Has("cancel", t, erased + 1, readAt) \/ readAt' = 0
    BY <2>1 DEF NextText, Has, storeVars
  <2>3. PageLive'
    BY <1>t, <2>1, <2>2, NextTextLive DEF storeVars
  <2> QED
    BY <1>s, <2>1, <2>3
<1>8. ASSUME MarkSent PROVE AddsFirst' /\ RowsLive' /\ PageLive'
  <2>1. page # << >> /\ NextText /\ Append1(Entry("sent", Head(page)))
    BY <1>8, <1>t DEF MarkSent, TickOK
  <2>2. Entry("sent", Head(page)) \in Entries /\ Entry("sent", Head(page)).op # "add"
    BY <1>t, <2>1, TailIs, EntryType DEF TickOK
  <2>3. /\ AddsFirst' /\ RowsLive'
        /\ \A t, n : n \in 0..Len(log) => (Has("cancel", t, erased + 1, n)' <=> Has("cancel", t, erased + 1, n))
    BY <1>t, <2>1, <2>2, AppendLive
  <2>4. readAt' \in {0, readAt} /\ erased' = erased
    BY <2>1 DEF NextText, Append1
  <2>5. \A t : Has("cancel", t, erased + 1, readAt)' => Has("cancel", t, erased + 1, readAt) \/ readAt' = 0
    BY <1>r, <2>3, <2>4 DEF Has
  <2> QED
    BY <1>t, <2>1, <2>3, <2>4, <2>5, NextTextLive
<1>9. ASSUME FoldSchedule PROVE AddsFirst' /\ RowsLive' /\ PageLive'
  <2>1. /\ folded + 1 \in 1..Len(log) /\ log[folded + 1] \in Entries
        /\ rows' = FoldedRows(log[folded + 1]) /\ folded' = folded + 1
        /\ recent' = recent \cup {Now'} /\ log' = log /\ erased' = erased
    BY <1>9, <1>t, FoldIs DEF Now
  <2>2. page' = page /\ readAt' = readAt /\ AddsFirst'
    BY <1>9, <1>t, <2>1 DEF FoldSchedule, tickVars, AddsFirst
  <2>3. \A t \in rows : ~Has("cancel", t, erased + 1, folded)
    BY <1>t DEF RowsLive, Now
  <2>4. ASSUME NEW t \in rows' PROVE ~Has("cancel", t, erased + 1, folded + 1)
    <3> SUFFICES ASSUME NEW i \in (erased + 1)..(folded + 1), log[i] = Entry("cancel", t)
                 PROVE  FALSE
      BY DEF Has
    <3>0. log[i].op = "cancel" /\ log[i].text = t
      BY DEF Entry
    <3>1. CASE i = folded + 1
      BY <2>1, <2>4, <3>0, <3>1 DEF FoldedRows, Entries
    <3>2. CASE i # folded + 1 /\ t \in rows
      <4>1. i \in (erased + 1)..folded
        BY <1>r, <2>1, <3>2
      <4> QED
        BY <2>3, <3>2, <4>1 DEF Has
    <3>3. CASE i # folded + 1 /\ t \notin rows
      <4>1. log[folded + 1].op = "add" /\ log[folded + 1].text = t
        BY <2>1, <2>4, <3>3 DEF FoldedRows, Entries
      <4>2. folded + 1 < i
        BY <1>t, <1>r, <2>1, <4>1 DEF AddsFirst
      <4> QED
        BY <1>r, <2>1, <4>2
    <3> QED
      BY <3>1, <3>2, <3>3
  <2>5. \A t \in Now'.rows : ~Has("cancel", t, erased + 1, Now'.folded)
    BY <2>1, <2>4 DEF Now
  <2>6. RowsLive'
    BY <1>t, <2>1, <2>5 DEF RowsLive, Has
  <2> QED
    BY <1>p, <2>1, <2>2, <2>6
<1>10. ASSUME Logout PROVE AddsFirst' /\ RowsLive' /\ PageLive'
  <2>1. /\ log' = log /\ erased' = Len(log) /\ folded' = Len(log) /\ recent' = {Now'}
        /\ page' = << >>
    BY <1>10 DEF Logout, Now
  <2>2. Now'.folded = Len(log)
    BY <2>1 DEF Now
  <2>3. RowsLive'
    BY <1>t, <2>1, <2>2 DEF RowsLive, Has
  <2> QED
    BY <1>t, <1>0, <2>1, <2>3 DEF AddsFirst
<1>11. ASSUME Login \/ UNCHANGED vars PROVE AddsFirst' /\ RowsLive' /\ PageLive'
  <2>1. UNCHANGED storeVars /\ page' = page /\ readAt' = readAt
    BY <1>11 DEF Login, tickVars, vars
  <2> QED
    BY <2>1, <1>s, <1>p DEF storeVars
<1>12. ASSUME Crash PROVE AddsFirst' /\ RowsLive' /\ PageLive'
  <2>1. PICK disk \in recent : folded' = disk.folded /\ rows' = disk.rows /\ recent' = {disk}
    BY <1>12 DEF Crash
  <2>2. log' = log /\ erased' = erased /\ page' = << >>
    BY <1>12 DEF Crash
  <2>3. Now' = disk
    BY <1>t, <2>1 DEF Now, StoreOK
  <2>4. RowsLive'
    BY <1>t, <2>1, <2>2, <2>3 DEF RowsLive, Has
  <2> QED
    BY <1>t, <1>0, <2>2, <2>4 DEF AddsFirst
<1>13. ASSUME Open PROVE AddsFirst' /\ RowsLive' /\ PageLive'
  <2>1. log' = log /\ erased' = erased /\ rows' = rows /\ page' = page /\ readAt' = readAt
    BY <1>13 DEF Open
  <2>2. CASE UNCHANGED <<folded, recent>>
    BY <1>s, <1>p, <2>1, <2>2 DEF storeVars
  <2>3. CASE folded' = erased /\ recent' = {[folded |-> erased, rows |-> rows]}
    <3>1. Now' \in recent' /\ recent' = {Now'} /\ Now'.folded = erased
      BY <2>1, <2>3 DEF Now
    <3>2. RowsLive'
      BY <1>r, <2>1, <3>1 DEF RowsLive, Has
    <3> QED
      BY <1>t, <1>p, <2>1, <3>2 DEF AddsFirst
  <2> QED
    BY <1>13, <2>2, <2>3 DEF Open
<1> QED
  BY <1>1, <1>2, <1>3, <1>4, <1>5, <1>6, <1>7, <1>8, <1>9, <1>10, <1>11, <1>12, <1>13
  DEF Next, UserStep, TickStep

(* A text whose cancel was folded when the tick read the table is not       *)
(* queued by that tick, also after a crash, a rebuild on top of the rows    *)
(* that are there, or a logout in between: no row has a folded cancel,      *)
(* because a text is added before anybody can cancel it.                    *)
THEOREM SeenCancelHolds == Spec => CancelSeenHolds
<1>1. Init => CancelInv
  <2>1. Init => TypeOK
    BY BoundAssumption DEF Init, TypeOK, Disturbances
  <2> QED
    BY <2>1 DEF Init, CancelInv, AddsFirst, KnownTexts, RowsLive, PageLive, Now
<1>2. CancelInv /\ [Next]_vars => CancelInv'
  BY TypeStep, KnownStep, LiveStep DEF CancelInv
<1>3. CancelInv /\ QueueText => ~Has("cancel", Head(page), erased + 1, readAt)
  <2> SUFFICES ASSUME CancelInv, QueueText
               PROVE  ~Has("cancel", Head(page), erased + 1, readAt)
    OBVIOUS
  <2>1. TickOK /\ page # << >>
    BY TypeParts DEF CancelInv, QueueText, TickOK
  <2>2. Head(page) = page[1] /\ 1 \in 1..Len(page)
    BY <2>1, TailIs DEF TickOK
  <2> QED
    BY <2>2 DEF CancelInv, PageLive
<1>4. CancelInv /\ [Next]_vars =>
        [\A t \in Texts : QueueText /\ Head(page) = t => ~Has("cancel", t, erased + 1, readAt)]_vars
  BY <1>3
<1> QED
  BY <1>1, <1>2, <1>4, PTL DEF Spec, CancelSeenHolds

=============================================================================
