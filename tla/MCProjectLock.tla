--------------------------- MODULE MCProjectLock ---------------------------
(* ProjectLock on three processes and two keys, with enough lock objects   *)
(* that an allocation never runs out: each process refers to at most one.  *)
EXTENDS ProjectLock

=============================================================================
