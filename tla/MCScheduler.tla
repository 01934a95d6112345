----------------------------- MODULE MCScheduler -----------------------------
(***************************************************************************)
(* Scheduler for TLC: two texts; the first to come due is one that cannot  *)
(* be sent in some runs.                                                   *)
(***************************************************************************)
EXTENDS Scheduler, TLC

CONSTANTS t1, t2

Times == [t \in Texts |-> IF t = t1 THEN 1 ELSE 2]

NoTroubles == [d \in Disturbances |-> 0]
With(f) == f @@ NoTroubles

LogoutTroubles == With("logout" :> 1 @@ "crash" :> 1)
LiveTroubles   == With("crash" :> 1 @@ "rebuild" :> 1 @@ "error" :> 1 @@ "logout" :> 1)
=============================================================================
