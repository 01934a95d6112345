------------------------------ MODULE MCWindow ------------------------------
(* Values of Window's constants for TLC. *)
EXTENDS Window

MCItems == 1..3

(* A frontend that reads slowly or leaves: updates pile up, passes start over. *)
Slow == [e \in Events |-> CASE e = "change" -> 2 [] e = "fail" -> 0 [] OTHER -> 1]

(* A read fails and the connection is lost, with a change or an extend; *)
(* nothing overflows. *)
Failing(with) == [e \in Events |-> IF e \in {with, "fail", "hangup"} THEN 1 ELSE 0]

AllWorlds == {Slow, Failing("change"), Failing("extend")}

(* The read of a subscribe fails, with nothing in the frontend's copy. *)
BareWorld == {[e \in Events |-> IF e \in {"change", "fail"} THEN 1 ELSE 0]}
=============================================================================
