------------------------------- MODULE MCJobs -------------------------------
(***************************************************************************)
(* Jobs for TLC: two blobs of the account, a1 in two pieces and a2 in one, *)
(* and n1 of the account paired after a logout.                            *)
(***************************************************************************)
EXTENDS Jobs, TLC

CONSTANTS a1, a2, n1, w1, w2

MCOwner == a1 :> 1 @@ a2 :> 1 @@ n1 :> 2
MCConvs == a1 :> 2 @@ a2 :> 1 @@ n1 :> 1

Intact == [b \in Blobs |-> "there"]
Spoilt(bad) == [b \in Blobs |-> IF b = bad THEN "bad" ELSE "there"]
World(notes, due, m, S) ==
    [noted |-> notes, owed |-> due, media |-> m,
     left |-> [d \in Disturbances |-> IF d \in S THEN 1 ELSE 0]]

(* What the last run left is queued while one of it is delivered again; the *)
(* daemon crashes; an append fails; an ack is lost; a download fails; the   *)
(* account changes.                                                         *)
Resuming   == World(<<a1, a2>>, {a2, n1}, Intact, {"read"})
Restarting == World(<<a2>>, {a1, n1}, Intact, {"crash"})
Refusing   == World(<< >>, Blobs, Spoilt(a2), {"append"})
Repeating  == World(<< >>, Blobs, Intact, {"ack"})
Failing    == World(<< >>, Blobs, Spoilt(a2), {"fail", "line"})
Leaving    == World(<< >>, Blobs, Intact, {"logout"})

AllWorlds == {Resuming, Restarting, Refusing, Repeating, Failing, Leaving}
=============================================================================
