---------------------------- MODULE MCProjectOps ----------------------------
(* ProjectOps with two projects, their two directories, two jobs and two   *)
(* requests, of which any three start.  Swapping the projects and with     *)
(* them their directories changes nothing, Homes included.                 *)
EXTENDS ProjectOps, TLC

CONSTANTS p1, p2, d1, d2

MCHomes == [p \in {p1, p2} |-> IF p = p1 THEN d1 ELSE d2]
MCSwap == [x \in {p1, p2, d1, d2} |->
             CASE x = p1 -> p2 [] x = p2 -> p1 [] x = d1 -> d2 [] x = d2 -> d1]
Symmetric == Permutations(Jobs) \cup Permutations(Reqs) \cup {MCSwap}

=============================================================================
