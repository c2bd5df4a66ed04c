----------------------------- MODULE MCLogStream -----------------------------
(* LogStream with a bulk operation on three containers, two at a time, a   *)
(* viewer, a ring of two lines and a channel that holds two.               *)
EXTENDS LogStream

=============================================================================
