------------------------------ MODULE MCOutbox ------------------------------
(***************************************************************************)
(* Outbox for TLC: a send that is retried under its key, or two sends of   *)
(* their own.                                                              *)
(***************************************************************************)
EXTENDS Outbox

CONSTANTS r1, r2, k1

Once(S) == [d \in Disturbances |-> IF d \in S THEN 1 ELSE 0]

RetriedKey == [r \in {r1, r2} |-> k1]
NoKeys     == [r \in {r1, r2} |-> NoKey]

SendWorlds    == {Once({"crash", "final", "unlogged"}), Once({"crash", "error", "clock"}),
                  Once({"error", "final", "abandon"})}
LiveWorlds    == {[Once({"drop", "error"}) EXCEPT !["crash"] = 2]}
AbandonWorlds == {Once({"abandon"})}
=============================================================================
