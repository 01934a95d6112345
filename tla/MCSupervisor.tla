---------------------------- MODULE MCSupervisor ----------------------------
(***************************************************************************)
(* Supervisor for TLC: which disturbances happen, once each, in one        *)
(* behaviour.  Weather is about the network, Server about what the server  *)
(* says, Account about logouts and pairings, Failing about wipes that stop *)
(* half way, Undeleted about ids they can not delete.                      *)
(***************************************************************************)
EXTENDS Supervisor

Once(S) == [d \in Disturbances |-> IF d \in S THEN 1 ELSE 0]

Weather == Once({"dial", "slow", "close", "line", "route", "kick"})
Server  == Once({"refuse", "replace", "close", "manual", "slow", "line"})
Account == Once({"logout", "remove", "scan", "slow", "close"})
Failing == Once({"logout", "remove", "error", "dial", "manual", "kick"})
Undeleted == Once({"logout", "remove", "undeleted", "error", "line", "kick"})

AllStorms == {Weather, Server, Account, Failing, Undeleted}
=============================================================================
