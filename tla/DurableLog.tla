----------------------------- MODULE DurableLog -----------------------------
(* What the store promises to the rest of the daemon, with no writer, no    *)
(* counters and no crashes: batches enter the log whole and stay, a batch   *)
(* is acknowledged only where it is stored, and readers see the fold of a   *)
(* prefix of the log and nothing else.  CoreLog implements it.              *)
EXTENDS Integers, Sequences

CONSTANTS Callers, Inputs, BatchOf, Bad, Kept

VARIABLES
    entries,  \* seq -> input
    erased,   \* everything up to this seq was deleted for a logout
    last,     \* the last seq used
    rows,     \* what readers see
    acks      \* the first seq each caller was told, 0 before

vars == <<entries, erased, last, rows, acks>>

(* The tables a reader sees when the log is folded through seq t.  Inputs   *)
(* whose rows no domain owns are not part of the promise.                   *)
FoldOf(log, t) ==
    [through |-> t,
     good    |-> {s \in DOMAIN log : s <= t /\ log[s] \notin Bad \cup Kept},
     failed  |-> {s \in DOMAIN log : s <= t /\ log[s] \in Bad}]

IsBatchAt(log, c, first) ==
    \A i \in DOMAIN BatchOf[c] :
        first + i - 1 \in DOMAIN log /\ log[first + i - 1] = BatchOf[c][i]

Init ==
    /\ entries = << >> /\ erased = 0 /\ last = 0
    /\ rows = FoldOf(entries, 0)
    /\ acks = [c \in Callers |-> 0]

(* New inputs join the end of the log, each one part of a batch that joins  *)
(* it whole.                                                                *)
Store ==
    /\ last' > last
    /\ DOMAIN entries' = (erased + 1)..last'
    /\ \A s \in DOMAIN entries : entries'[s] = entries[s]
    /\ \A s \in (last + 1)..last' : \E c \in Callers : \E i \in DOMAIN BatchOf[c] :
         s - i >= last /\ IsBatchAt(entries', c, s - i + 1)
    /\ UNCHANGED <<erased, rows, acks>>

Acknowledge(c) ==
    /\ acks[c] = 0 /\ acks'[c] > 0
    /\ acks'[c] > erased => IsBatchAt(entries, c, acks'[c])
    /\ acks' = [acks EXCEPT ![c] = acks'[c]]
    /\ UNCHANGED <<entries, erased, last, rows>>

(* Readers move to the fold of another prefix: a longer one as folding goes *)
(* on, a shorter one when folds are lost or the tables are rebuilt.         *)
Show ==
    /\ \E t \in 0..last : rows' = FoldOf(entries, t)
    /\ UNCHANGED <<entries, erased, last, acks>>

Erase ==
    /\ erased' = last /\ entries' = [s \in (last + 1)..last |-> entries[s]]
    /\ rows' = FoldOf(entries', last)
    /\ UNCHANGED <<last, acks>>

Next == Store \/ (\E c \in Callers : Acknowledge(c)) \/ Show \/ Erase

Spec == Init /\ [][Next]_vars
=============================================================================
