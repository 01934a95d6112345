----------------------------- MODULE MCCoreLog -----------------------------
(* CoreLog with two callers: one hands over a batch of two inputs, *)
(* one an input whose fold fails, one an input whose row no domain owns.    *)
EXTENDS CoreLog, TLC

CONSTANTS c1, c2, good, other, poison, loose

MCInputs  == {good, other, poison, loose}
TwoBatches == c1 :> <<good, poison>> @@ c2 :> <<loose>>
SmallBatches == c1 :> <<good>> @@ c2 :> <<poison>>

(* The disturbances of each run, each once. *)
Only(ds) == [d \in Disturbances |-> IF d \in ds THEN 1 ELSE 0]
SafetyTroubles == Only(Disturbances \ {"appendFails"})
LivenessTroubles == Only({"foldFails", "stop", "appendFails"})
=============================================================================
