---------------------------- MODULE MCIdempotency ----------------------------
(* Idempotency with two requests on two keys, two bodies to fingerprint    *)
(* and two to answer; one answer fits in memory and one in the table.      *)
EXTENDS Idempotency, TLC

Symmetric == Permutations(Reqs) \cup Permutations(Keys)
             \cup Permutations(Prints) \cup Permutations(Bodies)

=============================================================================
