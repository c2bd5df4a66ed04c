----------------------------- MODULE Capability -----------------------------
(***************************************************************************)
(* capability.go: what the agent can honestly do with a compose project.   *)
(* "The ONE decision about a project": the fleet snapshot advertises it    *)
(* and every mutating endpoint enforces it.                                *)
(*                                                                         *)
(* A project is a record: the place its registry entry names (under the    *)
(* compose root or not), whether its name is one that compose uses         *)
(* unchanged, and its owner.  A view says which projects are the agent's   *)
(* own and which one runs its control path.                                *)
(***************************************************************************)

CONSTANT None   \* no view, no project, no owner

labelOps == {"down", "restart"}
fileOps == {"pull", "recreate", "up", "update"}
projectOps == labelOps \cup fileOps

(* A nil view protects nothing. *)
isSelfProject(v, p) == v # None /\ p \in v.self
isControlPathProject(v, p) == v # None /\ v.control = p

blocked(p, e, v) ==
  CASE isSelfProject(v, p)        -> "self"
    [] ~e.valid                   -> "invalid_name"
    [] ~e.inside                  -> "outside_compose_root"
    [] isControlPathProject(v, p) -> "control_path"
    [] OTHER                      -> ""

Untouchable(p, e, v) == blocked(p, e, v) \in {"self", "invalid_name"}

allowed(p, e, v) ==
  IF Untouchable(p, e, v) THEN {}
  ELSE (labelOps \cup (IF e.inside THEN fileOps ELSE {}))
         \ (IF isControlPathProject(v, p) THEN {"down"} ELSE {})

readable(p, e, v) == ~Untouchable(p, e, v) /\ e.inside
editable(p, e, v) == readable(p, e, v) /\ e.owner = None
operable(p, e, v) == "update" \in allowed(p, e, v)
serviceOps(p, e, v) == allowed(p, e, v) \ {"update"} # {}

(* mergeKnown: a project with its verdict, as a fleet row shows it. *)
Verdict(p, e, v) ==
  [AllowedOps |-> allowed(p, e, v), Operable |-> operable(p, e, v),
   Managed |-> editable(p, e, v), OpsBlocked |-> blocked(p, e, v),
   ServiceOps |-> serviceOps(p, e, v), Owner |-> e.owner]

=============================================================================
