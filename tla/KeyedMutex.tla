----------------------------- MODULE KeyedMutex -----------------------------
(***************************************************************************)
(* What projectlock.go promises its callers: at any time a project key has *)
(* at most one owner, only a free key is acquired and only its owner frees *)
(* it, and no caller owns two keys (the copy request releases the source's *)
(* lock before it takes the destination's, so no order of keys can         *)
(* deadlock).  ProjectLock implements this specification.                  *)
(***************************************************************************)
CONSTANTS
  Procs,   \* jobs and requests that change projects
  Keys,    \* project lock keys ("dir:..." or "name:...")
  NoOne    \* stands for no owner

VARIABLE owner   \* owner[k]: who may change what key k names

Init == owner = [k \in Keys |-> NoOne]

Acquire(p, k) ==
  /\ owner[k] = NoOne
  /\ \A x \in Keys : owner[x] # p
  /\ owner' = [owner EXCEPT ![k] = p]

Release(p, k) ==
  /\ owner[k] = p
  /\ owner' = [owner EXCEPT ![k] = NoOne]

Next == \E p \in Procs, k \in Keys : Acquire(p, k) \/ Release(p, k)

Spec == Init /\ [][Next]_owner

=============================================================================
