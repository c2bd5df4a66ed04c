----------------------------- MODULE ImageCheck -----------------------------
(***************************************************************************)
(* imagecheck.go: the slow pass that finds out which images of a compose   *)
(* project are outdated, and the cache it leaves for every snapshot.  One  *)
(* goroutine runs the passes, woken by a timer or by a channel of one      *)
(* token; a pass that was asked for is dropped while the last one is       *)
(* young, unless it was forced.  A finished update forces one.             *)
(*                                                                         *)
(* The content of an image is a number; upstream moves to higher ones.     *)
(* The tag of a service either moves with it or is pinned to it.           *)
(***************************************************************************)
EXTENDS Integers, FiniteSets, Capability

CONSTANTS
  Services,     \* the services of the watched project
  Pinned,       \* those whose reference names one content, not a moving tag
  MaxContent    \* bound: the newest content upstream may publish

ASSUME ImageAssumption ==
  IsFiniteSet(Services) /\ Pinned \subseteq Services /\ MaxContent \in Nat

VARIABLES
  running,     \* the content each service runs
  upstream,    \* the newest content published for it
  strategy,    \* the controller's row: does a resolver couple the services?
  overrides,   \* the checker's copy of it
  forceNext,   \* defeat the TTL for the next pass
  trigger,     \* the token in the trigger channel
  pass,        \* where the pass is
  asked,       \* it was woken by the trigger, not by the timer
  units,       \* the containers its snapshot showed
  results,     \* per service: what the pass has found so far, or None
  plan,        \* the plan it has made, or None
  cache,       \* per service: the content checked and its status, or None
  projPlans,   \* the cached plan: the services an update would change, or None
  update,      \* where an update of the project is
  owed         \* history: an update asked for a recheck of what it deployed

imageVars == <<running, upstream, strategy, overrides, forceNext, trigger,
               pass, asked, units, results, plan, cache, projPlans, update, owed>>

Contents == 0..MaxContent
Statuses == {"outdated", "updated", "unknown"}
Checks == [ImageID : Contents, ImageStatus : Statuses]
Plans == [targets : SUBSET Services, err : BOOLEAN]
ImageTypeOK ==
  /\ {running, upstream, units} \subseteq [Services -> Contents]
  /\ {strategy, overrides} \subseteq {"registry", "coupled"}
  /\ {forceNext, trigger, asked, owed} \subseteq BOOLEAN
  /\ pass \in {"idle", "woken", "listing", "listed", "fetched", "checked", "planned",
               "stored"}
  /\ {results, cache} \subseteq [Services -> Checks \cup {None}]
  /\ {plan, projPlans} \subseteq Plans \cup {None}
  /\ update \in {"idle", "deployed", "forced"}

ImageInit ==
  /\ running = [s \in Services |-> 0]
  /\ upstream = [s \in Services |-> 0]
  /\ strategy = "registry"
  /\ overrides = "registry"
  /\ forceNext = FALSE /\ trigger = FALSE
  /\ pass = "idle" /\ asked = FALSE
  /\ units = running
  /\ results = [s \in Services |-> None] /\ plan = None
  /\ cache = [s \in Services |-> None]
  /\ projPlans = None
  /\ update = "idle" /\ owed = FALSE

world == <<running, upstream, strategy>>
stored == <<overrides, cache, projPlans>>
work == <<units, results, plan>>
wake == <<forceNext, trigger>>

-----------------------------------------------------------------------------
(* The pass.                                                               *)

Wake(byTrigger) ==
  /\ pass = "idle"
  /\ byTrigger => trigger
  /\ trigger' = (trigger /\ ~byTrigger)
  /\ asked' = byTrigger
  /\ pass' = "woken"
  /\ UNCHANGED <<world, stored, forceNext, work, update, owed>>

(* The force is taken before the snapshot: one that comes later is for the *)
(* next pass.  Instants are left out: any pass that has stored its results *)
(* may still be within the TTL. *)
AskedAgain(within) == asked /\ within                   \* seeded fault
Coalesced(within) == asked /\ ~forceNext /\ within
HasRun == \E s \in Services : cache[s] # None

BeginPass(within) ==
  /\ pass = "woken"
  /\ within => HasRun
  /\ forceNext' = FALSE
  /\ asked' = FALSE
  /\ pass' = IF Coalesced(within) THEN "idle" ELSE "listing"
  /\ UNCHANGED <<world, stored, trigger, work, update, owed>>

SnapshotUnits ==
  /\ pass = "listing"
  /\ pass' = "listed"
  /\ units' = running
  /\ UNCHANGED <<world, stored, wake, asked, results, plan, update, owed>>

(* A failed snapshot ends the pass, and a force it had taken is gone. *)
SnapshotFails ==
  /\ pass = "listing"
  /\ pass' = "idle"
  /\ owed' = FALSE
  /\ UNCHANGED <<world, stored, wake, asked, work, update>>

(* The strategies are fetched, or the last set is kept. *)
FetchOverrides(fails) ==
  /\ pass = "listed"
  /\ pass' = "fetched"
  /\ overrides' = IF fails THEN overrides ELSE strategy
  /\ UNCHANGED <<world, cache, projPlans, wake, asked, work, update, owed>>

CheckedOnce(s, failed) ==                                \* seeded fault
  IF cache[s] # None THEN cache[s]
  ELSE [ImageID |-> units[s],
        ImageStatus |-> IF units[s] # upstream[s] THEN "outdated" ELSE "updated"]
Checked(s, failed) ==
  [ImageID |-> units[s],
   ImageStatus |-> IF s \in failed THEN "unknown"
                   ELSE IF units[s] # upstream[s] THEN "outdated" ELSE "updated"]

(* Each image is checked by itself; they are one step here, because what   *)
(* upstream publishes for one service says nothing of another, so releases *)
(* may be thought to come in the order of the checks.                      *)
CheckImages(failed) ==
  /\ pass = "fetched"
  /\ pass' = "checked"
  /\ results' = [s \in Services |-> Checked(s, failed)]
  /\ UNCHANGED <<world, stored, wake, asked, units, plan, update, owed>>

(* A coupled project is planned, after all checks.                         *)
PlanProject(fails) ==
  /\ pass = "checked"
  /\ fails => overrides = "coupled"
  /\ pass' = "planned"
  /\ plan' = IF overrides = "registry" THEN None
             ELSE [targets |-> IF fails THEN {} ELSE {s \in Services : units[s] # upstream[s]},
                   err |-> fails]
  /\ UNCHANGED <<world, stored, wake, asked, units, results, update, owed>>

(* mergeProjPlans: a plan that failed gives way to the last good one while *)
(* that is young; a project that is planned no more is dropped.            *)
mergeProjPlans(prev, next, young) ==
  IF next # None /\ next.err /\ prev # None /\ ~prev.err /\ young
  THEN prev ELSE next

(* All of it is stored at once.                                            *)
StoreResults(young) ==
  /\ pass = "planned"
  /\ pass' = "stored"
  /\ cache' = results
  /\ projPlans' = mergeProjPlans(projPlans, plan, young)
  /\ results' = [s \in Services |-> None] /\ plan' = None
  /\ owed' = (owed /\ units # running)
  /\ UNCHANGED <<world, overrides, wake, asked, units, update>>

-----------------------------------------------------------------------------
(* Those who ask for a pass.                                               *)

(* ForceRecheckDebounced, from the refresh endpoint: one force a window,   *)
(* and the token in any case. *)
Refresh(admitted) ==
  /\ forceNext' = (forceNext \/ admitted)
  /\ trigger' = TRUE
  /\ UNCHANGED <<world, stored, pass, asked, work, update, owed>>

(* An update job puts the newest images in place, ... *)
Deploy ==
  /\ update = "idle"
  /\ update' = "deployed"
  /\ running' = upstream
  /\ owed' = FALSE
  /\ UNCHANGED <<upstream, strategy, stored, wake, pass, asked, work>>

(* ... completes, and calls ForceRecheck: the flag, then the token. *)
ForceRecheck ==
  \/ /\ update = "deployed"
     /\ update' = "forced"
     /\ forceNext' = TRUE
     /\ owed' = (\E s \in Services : cache[s] = None \/ cache[s].ImageID # running[s])
     /\ UNCHANGED <<world, stored, trigger, pass, asked, work>>
  \/ /\ update = "forced"
     /\ update' = "idle"
     /\ trigger' = TRUE
     /\ UNCHANGED <<world, stored, forceNext, pass, asked, work, owed>>

(* Upstream publishes; the controller couples or uncouples the project. *)
Release(s) ==
  /\ upstream[s] < MaxContent
  /\ upstream' = [upstream EXCEPT ![s] = @ + 1]
  /\ UNCHANGED <<running, strategy, stored, wake, pass, asked, work, update, owed>>
SetStrategy ==
  /\ strategy' \in {"registry", "coupled"} \ {strategy}
  /\ UNCHANGED <<running, upstream, stored, wake, pass, asked, work, update, owed>>

-----------------------------------------------------------------------------
(* What a snapshot shows of the cache: stampImageStatus, from what it read *)
(* of it for each container and of the plans.                              *)

(* compositeKey holds the reference, so a pinned one finds only its own. *)
lookup(s, images) ==
  IF cache[s] # None /\ (s \in Pinned => cache[s].ImageID = images[s]) THEN cache[s] ELSE None

Read(found) == {s \in Services : found[s] # None}
Rollup(found) ==
  LET statuses == {found[s].ImageStatus : s \in Read(found)}
  IN IF statuses = {} THEN "blank"
     ELSE IF "outdated" \in statuses THEN "outdated"
     ELSE IF "updated" \in statuses THEN "updated" ELSE "unknown"
PlanStatus(p) ==
  IF p.err THEN "unknown" ELSE IF p.targets # {} THEN "outdated" ELSE "updated"
StatusBy(p, found) == IF p # None THEN PlanStatus(p) ELSE Rollup(found)

(* What it would show if it read all at once.                              *)
ProjectStatus(images) == StatusBy(projPlans, [s \in Services |-> lookup(s, images)])

(* provenanceOf: a result that describes another image says nothing.       *)
AnyProvenance(check, image) == check.ImageID            \* seeded fault
provenanceOf(check, image) == IF check.ImageID = image THEN check.ImageID ELSE None
(* The fold over the project: every container, and all of them alike.      *)
RevisionBy(found, images) ==
  LET votes == {provenanceOf(found[s], images[s]) : s \in Read(found)}
  IN IF Read(found) = Services /\ Cardinality(votes) = 1
     THEN CHOOSE v \in votes : TRUE ELSE None

-----------------------------------------------------------------------------
(* A recheck an update asked for is not lost: until the cache describes    *)
(* what the update deployed, the force is pending with somebody to take    *)
(* it, or a pass is at work that will see those images.  (A failed         *)
(* snapshot does lose it: the next pass of the timer makes it good.)       *)
ForcedRecheckIsKept ==
  owed => \/ forceNext /\ (trigger \/ pass = "woken" \/ update = "forced")
          \/ pass = "listing"
          \/ pass \in {"listed", "fetched", "checked", "planned"} /\ units = running

=============================================================================
