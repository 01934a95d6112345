------------------------------- MODULE MCMedia -------------------------------
(* Values of Media's constants for TLC. *)
EXTENDS Media

CONSTANTS p1, p2, d1

World(S, plays) == [e \in Events |-> IF e = "play" THEN plays ELSE IF e \in S THEN 1 ELSE 0]

(* What the servers may do, what frontends may do, and a daemon that dies.  *)
AllWorlds ==
    {World({"fail"}, 1), World({"load"}, 1), World({"fail", "load"}, 0), World({"open", "leave"}, 2),
     World({"ranges"}, 1), World({"ranges", "fail"}, 0), World({"corrupt", "fail"}, 1),
     World({"crash", "corrupt"}, 1), World({"cancel"}, 1), World({"cancel", "fail"}, 0)}
=============================================================================
