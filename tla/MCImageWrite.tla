---------------------------- MODULE MCImageWrite ----------------------------
(* ImageWrite with three files and two services.  The third file has one   *)
(* edit that both share.                                                   *)
EXTENDS ImageWrite, TLC

MCPlans == {p \in [Files -> SUBSET Edits \ {{}}] : p[N] = {Services}}
Symmetric == Permutations(Services)

=============================================================================
