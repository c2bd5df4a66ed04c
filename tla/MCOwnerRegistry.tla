--------------------------- MODULE MCOwnerRegistry ---------------------------
(* OwnerRegistry with two projects, their directories, one tool and two    *)
(* requests at a time.                                                     *)
EXTENDS OwnerRegistry, TLC

CONSTANTS p1, p2, d1, d2

MCHomes == [p \in {p1, p2} |-> IF p = p1 THEN d1 ELSE d2]
MCLabels == [p \in {p1, p2} |-> d1]
Symmetric == Permutations(Reqs)

=============================================================================
