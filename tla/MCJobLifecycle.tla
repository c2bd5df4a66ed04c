--------------------------- MODULE MCJobLifecycle ---------------------------
(* JobLifecycle on two jobs and one cancel request at a time, with any two *)
(* faults (the agent dies, a statement on the table fails, the sweep skips *)
(* a row) and days that pass; one job is retained, so the second start may *)
(* evict the first.                                                        *)
EXTENDS JobLifecycle

=============================================================================
