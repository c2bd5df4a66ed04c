---------------------------- MODULE StackUpdate ----------------------------
(***************************************************************************)
(* One stack update (stackengine.go): resolve the images, write them to    *)
(* the project's files, pull, recreate, wait for swap and health           *)
(* (healthwait.go), and on failure revert the files and roll the           *)
(* containers back; at last, repair the networks (netreconcile.go).        *)
(*                                                                         *)
(* A service has one container.  The compose library and the daemon are    *)
(* outcomes: a call succeeds, or it fails and leaves any part of its work  *)
(* done.  A cancel and the deadlines may come at any time.  Files are the  *)
(* images they name; how they are written is in ImageWrite.                *)
(***************************************************************************)
EXTENDS HealthBudget, FiniteSets

CONSTANTS
  Services,  \* names of services, of the project or of containers left from before
  Cases,     \* the stacks an update finds, each with the budgets asked for
  Faults,    \* the faults that may happen, a subset of FaultNames
  MaxFaults  \* bound: how many kinds of fault happen in one update

FaultNames == {"snapshot", "write", "revert", "load", "deploy"}
ASSUME FaultsAssumption == Faults \subseteq FaultNames

Images == {"none", "old", "new"}
Observations == {"fine", "starting", "down", "crash"}
Statuses == Observations \cup {"unseen", "excluded"}
Phases == {"update", "rollback"}

VARIABLES
  stack,      \* the project: its services, disabled ones, containers before, policy
  ask,        \* what budgets were asked for
  pc,         \* the next step of the update
  phase,      \* the health wait and the deadline that count now
  disk,       \* the image the project's files name for a service
  running,    \* the image a service's container runs
  targets,    \* the services whose image is rewritten
  base,       \* the baseline: the services it has a container of
  fresh,      \* freshDeploy: the baseline was empty
  monitored,  \* the containers a health wait looks at
  polled,     \* the current wait has polled at least once
  swapped,    \* those seen to have been replaced
  missing,    \* seenMissing: those an inspect has failed for
  seen,       \* healthMap: the last status of each container, "unseen" if none
  unhealthy,  \* what the update's wait reported
  scope,      \* the services to roll back
  forward,    \* the budget of the update's wait, once known
  back,       \* the budget of the rollback's wait, once known
  verdict,    \* the job's: "running", "completed" or "failed"
  claim,      \* what the rollback's closing line says: "none", "healthy", "unhealthy"
  cancelled,  \* the job's context is done
  expired,    \* the phases whose own deadline has passed
  faults,     \* history: which faults have happened
  reached     \* history: "deployed", "rolledBack", "repaired"

waitVars == <<monitored, polled, swapped, missing, seen>>
planVars == <<stack, ask>>
outcomeVars == <<verdict, claim>>
rollbackVars == <<unhealthy, scope, back>>
clockVars == <<cancelled, expired>>
vars == <<planVars, pc, phase, disk, running, targets, base, fresh, waitVars, forward,
          rollbackVars, outcomeVars, clockVars, faults, reached>>

NoBudget == [swap |-> -1, health |-> -1]

(* The stacks an update can find.  A container may belong to a service of  *)
(* the project, to one that a profile disables, or to none any more.       *)
Stacks ==
  {s \in [services : SUBSET Services, disabled : SUBSET Services, before : SUBSET Services,
          registry : BOOLEAN, wholeStack : BOOLEAN, excluded : SUBSET Services] :
     s.services # {} /\ s.services \cap s.disabled = {}}

ASSUME CasesAssumption == Cases \subseteq [stack : Stacks, ask : AskType]

Init ==
  /\ \E c \in Cases : stack = c.stack /\ ask = c.ask
  /\ pc = "load" /\ phase = "update"
  /\ disk = [s \in Services |-> "old"]
  /\ running = [s \in Services |-> IF s \in stack.before THEN "old" ELSE "none"]
  /\ targets = {} /\ base = {} /\ fresh = FALSE
  /\ monitored = {} /\ polled = FALSE /\ swapped = {} /\ missing = {}
  /\ seen = [s \in Services |-> "unseen"]
  /\ unhealthy = {} /\ scope = {}
  /\ forward = NoBudget /\ back = NoBudget
  /\ verdict = "running" /\ claim = "none"
  /\ cancelled = FALSE /\ expired = {}
  /\ faults = {} /\ reached = {}

-----------------------------------------------------------------------------
(* Helpers.                                                                *)

Containers == {s \in Services : running[s] # "none"}

\* The context of the phase: the update's carries the operation's deadline, the rollback's
\* its own; both end with the job.
Done == cancelled \/ phase \in expired

Fault(name) ==
  /\ name \in Faults
  /\ faults' = faults \cup {name}
  /\ Cardinality(faults') <= MaxFaults

End(v) == pc' = "done" /\ verdict' = v /\ UNCHANGED claim

\* snapshotProject: the containers there are, or nothing when the daemon does not answer
\* or the context is done.
Snapshot(result) ==
  \/ ~Done /\ result = Containers /\ UNCHANGED faults
  \/ ~Done /\ result = {} /\ Fault("snapshot")
  \/ Done /\ result = {} /\ UNCHANGED faults

\* revertDisk: the services' files name the old image again.  It is detached from the
\* cancel.  An incomplete revert is reported and leaves some of them.
RevertNothing(services) == UNCHANGED <<disk, faults>>    \* seeded fault
RevertDisk(services) ==
  \/ /\ disk' = [s \in Services |-> IF s \in services THEN "old" ELSE disk[s]]
     /\ UNCHANGED faults
  \/ /\ Fault("revert")
     /\ \E some \in SUBSET services :
          disk' = [s \in Services |-> IF s \in some THEN "old" ELSE disk[s]]

\* `up --force-recreate` of the services of the project with these images: every container
\* is replaced, orphans are removed, disabled services are left alone.
UpDone(image) ==
  running' = [s \in Services |-> IF s \in stack.services THEN image[s]
                                 ELSE IF s \in stack.disabled THEN running[s] ELSE "none"]

\* An `up` that fails has replaced some containers and removed some.
UpPart(image) ==
  \E replaced, removed \in SUBSET (Services \ stack.disabled) :
    /\ replaced \subseteq stack.services /\ replaced \cap removed = {}
    /\ running' = [s \in Services |-> IF s \in replaced THEN image[s]
                                      ELSE IF s \in removed THEN "none" ELSE running[s]]

Pulled == [s \in Services |-> "new"]

\* excluded: named so, or outside the subset to check.
Excluded(s) == s \in stack.excluded

LaxStatus(s, obs) == IF Excluded(s) THEN "excluded" ELSE obs   \* seeded fault
\* One poll's status.  An excluded container that runs is taken as it is.
Status(s, obs) == IF Excluded(s) /\ obs \in {"fine", "starting"} THEN "excluded" ELSE obs

Bad(status) == status \notin {"unseen", "fine", "excluded"}
NotHealthy(map) == {s \in monitored : Bad(map[s])}

-----------------------------------------------------------------------------
(* The update up to the recreate.                                          *)

(* loadProject, snapshotProject and the resolver's plan.                   *)
LoadFails ==
  /\ pc = "load"
  /\ End("failed")
  /\ UNCHANGED <<planVars, phase, disk, running, targets, base, fresh, waitVars, forward,
                 rollbackVars, clockVars, faults, reached>>

Resolve ==
  /\ pc = "load"
  /\ Snapshot(base')
  /\ targets' \in SUBSET stack.services
  /\ IF ~stack.registry /\ targets' = {}
     THEN End("completed")
     ELSE pc' = "persist" /\ UNCHANGED outcomeVars
  /\ UNCHANGED <<planVars, phase, disk, running, fresh, waitVars, forward, rollbackVars,
                 clockVars, reached>>

(* persistTargets. *)
Persist ==
  /\ pc = "persist"
  /\ disk' = [s \in Services |-> IF s \in targets THEN "new" ELSE disk[s]]
  /\ pc' = "pull"
  /\ UNCHANGED <<planVars, phase, running, targets, base, fresh, waitVars, forward,
                 rollbackVars, outcomeVars, clockVars, faults, reached>>

PersistFails ==
  /\ pc = "persist"
  /\ \/ UNCHANGED <<disk, faults>>
     \/ /\ Fault("write")
        /\ \E some \in SUBSET targets :
             disk' = [s \in Services |-> IF s \in some THEN "new" ELSE disk[s]]
  /\ End("failed")
  /\ UNCHANGED <<planVars, phase, running, targets, base, fresh, waitVars, forward,
                 rollbackVars, clockVars, reached>>

Pull ==
  /\ pc = "pull" /\ ~Done
  /\ pc' = "up"
  /\ UNCHANGED <<planVars, phase, disk, running, targets, base, fresh, waitVars, forward,
                 rollbackVars, outcomeVars, clockVars, faults, reached>>

PullFails ==
  /\ pc = "pull"
  /\ RevertDisk(targets)
  /\ End("failed")
  /\ UNCHANGED <<planVars, phase, running, targets, base, fresh, waitVars, forward,
                 rollbackVars, clockVars, reached>>

(* upProject, and the choice of what the health wait looks at. *)
Up ==
  /\ pc = "up" /\ ~Done
  /\ UpDone(Pulled)
  /\ fresh' = (base = {})
  /\ reached' = reached \cup {"deployed"}
  /\ pc' = "monitor"
  /\ UNCHANGED <<planVars, phase, disk, targets, base, waitVars, forward, rollbackVars,
                 outcomeVars, clockVars, faults>>

UpFails ==
  /\ pc = "up"
  /\ UpPart(Pulled)
  /\ scope' = base
  /\ pc' = "rollback"
  /\ UNCHANGED <<planVars, phase, disk, targets, base, fresh, waitVars, forward, unhealthy,
                 back, outcomeVars, clockVars, faults, reached>>

\* A stack that was down has no baseline: the containers that run now are looked at, and
\* there is no swap to wait for.
Monitor ==
  /\ pc = "monitor"
  /\ IF fresh THEN Snapshot(base') ELSE UNCHANGED <<base, faults>>
  /\ monitored' = base'
  /\ IF monitored' = {}
     THEN End("failed") /\ UNCHANGED forward
     ELSE /\ forward' = Effective(ask)
          /\ pc' = IF fresh THEN "health" ELSE "swap"
          /\ UNCHANGED outcomeVars
  /\ UNCHANGED <<planVars, phase, disk, running, targets, fresh, polled, swapped, missing, seen,
                 rollbackVars, clockVars, reached>>

-----------------------------------------------------------------------------
(* The health wait, in either phase.                                       *)

\* What follows a wait: an error with a set of unhealthy containers, or none.
\* A fresh deploy has nothing to go back to but its files.
WidestScope(reported) == base                             \* seeded fault
Scope(reported) ==
  IF stack.wholeStack THEN base ELSE reported
WaitFails(reported) ==
  IF phase = "rollback"
  THEN /\ pc' = "done" /\ verdict' = "failed" /\ claim' = "unhealthy"
       /\ UNCHANGED <<disk, faults, unhealthy, scope>>
  ELSE /\ unhealthy' = reported
       /\ IF fresh
          THEN RevertDisk(targets) /\ End("failed") /\ UNCHANGED scope
          ELSE /\ scope' = Scope(reported)
               /\ pc' = "rollback"
               /\ UNCHANGED <<disk, faults, outcomeVars>>

WaitPasses ==
  IF phase = "rollback"
  THEN pc' = "done" /\ verdict' = "failed" /\ claim' = "healthy"
  ELSE pc' = "networks" /\ UNCHANGED outcomeVars

waitFrame == <<planVars, phase, running, targets, base, fresh, monitored, forward, back,
               clockVars, reached>>

(* waitForSwap: it polls until all are replaced; once one is, the others   *)
(* get a grace period, and at the timeout it goes on with what there is.   *)
SwapCut ==
  /\ pc = "swap" /\ Done
  /\ WaitFails({})
  /\ UNCHANGED <<waitFrame, polled, swapped, missing, seen>>

\* Containers outside the baseline count as replaced; an old one that was missing before
\* and answers now counts too.
NewlySwapped(failing) ==
  {s \in monitored \ swapped :
     s \notin base \/ (s \notin failing /\ (s \in stack.services \/ s \in missing))}

SwapPoll ==
  /\ pc = "swap" /\ ~Done
  /\ \E failing \in SUBSET monitored :
       /\ monitored \ Containers \subseteq failing
       /\ swapped' = swapped \cup NewlySwapped(failing)
       /\ missing' = missing \cup ((failing \cap base) \ swapped)
  /\ IF swapped' = monitored
     THEN pc' = "health" /\ polled' = FALSE
     ELSE polled' = TRUE /\ UNCHANGED pc
  /\ UNCHANGED <<waitFrame, seen, disk, faults, unhealthy, scope, outcomeVars>>

TimeUpOnceMoved == polled /\ swapped # {}                   \* seeded fault
TimeUp == polled

SwapTimeout ==
  /\ pc = "swap" /\ TimeUp
  /\ polled' = FALSE
  /\ IF swapped = {}
     THEN WaitFails({})
     ELSE pc' = "health" /\ UNCHANGED <<disk, faults, unhealthy, scope, outcomeVars>>
  /\ UNCHANGED <<waitFrame, swapped, missing, seen>>

(* waitForHealth: it polls until every container is well, one crash-loops, *)
(* the time is up or the context is done.                                  *)
CutPasses(reported) == WaitPasses /\ UNCHANGED <<disk, faults, unhealthy, scope>>  \* seeded fault
CutVerdict(reported) == WaitFails(reported)

HealthCut ==
  /\ pc = "health" /\ Done
  /\ CutVerdict(NotHealthy(seen))
  /\ UNCHANGED <<waitFrame, polled, swapped, missing, seen>>

HealthPoll ==
  /\ pc = "health" /\ ~Done
  /\ polled' = TRUE
  /\ \E obs \in [monitored -> Observations] :
       /\ \A s \in monitored \ Containers : obs[s] = "down"
       /\ seen' = [s \in Services |-> IF s \in monitored THEN Status(s, obs[s]) ELSE seen[s]]
  /\ IF NotHealthy(seen') = {}
     THEN WaitPasses /\ UNCHANGED <<disk, faults, unhealthy, scope>>
     ELSE IF \E s \in monitored : seen'[s] = "crash"
     THEN WaitFails(NotHealthy(seen'))
     ELSE UNCHANGED <<pc, disk, faults, unhealthy, scope, outcomeVars>>
  /\ UNCHANGED <<waitFrame, swapped, missing>>

HealthTimeout ==
  /\ pc = "health" /\ polled
  /\ WaitFails(NotHealthy(seen))
  /\ UNCHANGED <<waitFrame, polled, swapped, missing, seen>>

-----------------------------------------------------------------------------
(* The rollback.                                                           *)

RollbackEmpty ==
  /\ pc = "rollback" /\ scope = {}
  /\ End("failed")
  /\ UNCHANGED <<planVars, phase, disk, running, targets, base, fresh, waitVars, forward,
                 rollbackVars, clockVars, faults, reached>>

RollbackBudget(a) == Effective(a)

RollbackStart ==
  /\ pc = "rollback" /\ scope # {}
  /\ phase' = "rollback"
  /\ back' = RollbackBudget(ask)
  /\ RevertDisk(scope \cap targets)
  /\ reached' = reached \cup {"rolledBack"}
  /\ pc' = "reload"
  /\ UNCHANGED <<planVars, running, targets, base, fresh, waitVars, forward, unhealthy,
                 scope, outcomeVars, clockVars>>

Pinned == scope \cap stack.services

RollbackLoad ==
  /\ pc = "reload"
  /\ \/ Pinned # {} /\ pc' = "redeploy" /\ UNCHANGED <<outcomeVars, faults>>
     \/ Pinned = {} /\ End("failed") /\ UNCHANGED faults
     \/ Fault("load") /\ End("failed")
     \/ Done /\ End("failed") /\ UNCHANGED faults
  /\ UNCHANGED <<planVars, phase, disk, running, targets, base, fresh, waitVars, forward,
                 rollbackVars, clockVars, reached>>

\* The services rolled back run the very image they ran; the others what the files name.
RolledBack == [s \in Services |-> IF s \in Pinned THEN "old"
                                  ELSE IF s \in targets THEN disk[s] ELSE "new"]

RollbackUp ==
  /\ pc = "redeploy" /\ ~Done
  /\ UpDone(RolledBack)
  /\ pc' = "verify"
  /\ UNCHANGED <<planVars, phase, disk, targets, base, fresh, waitVars, forward,
                 rollbackVars, outcomeVars, clockVars, faults, reached>>

RollbackUpFails ==
  /\ pc = "redeploy"
  /\ UpPart(RolledBack)
  /\ \/ Fault("deploy")
     \/ Done /\ UNCHANGED faults
  /\ End("failed")
  /\ UNCHANGED <<planVars, phase, disk, targets, base, fresh, waitVars, forward,
                 rollbackVars, clockVars, reached>>

RollbackVerify ==
  /\ pc = "verify"
  /\ Snapshot(monitored')
  /\ polled' = FALSE /\ swapped' = {} /\ missing' = {}
  /\ seen' = [s \in Services |-> "unseen"]
  /\ pc' = "swap"
  /\ UNCHANGED <<planVars, phase, disk, running, targets, base, fresh, forward,
                 rollbackVars, outcomeVars, clockVars, reached>>

-----------------------------------------------------------------------------
(* reconcileNetworks never fails the update.                               *)

NetworksFine ==
  /\ pc = "networks"
  /\ End("completed")
  /\ UNCHANGED <<planVars, phase, disk, running, targets, base, fresh, waitVars, forward,
                 rollbackVars, clockVars, faults, reached>>

NetworksRepaired ==
  /\ pc = "networks" /\ ~Done
  /\ reached' = reached \cup {"repaired"}
  /\ \/ UpDone(Pulled) /\ UNCHANGED faults
     \/ UpPart(Pulled) /\ UNCHANGED faults
  /\ End("completed")
  /\ UNCHANGED <<planVars, phase, disk, targets, base, fresh, waitVars, forward,
                 rollbackVars, clockVars>>

(* POST /v1/jobs/{id}/cancel, and the deadlines. *)
Cancel ==
  /\ pc # "done" /\ ~cancelled
  /\ cancelled' = TRUE
  /\ UNCHANGED <<planVars, pc, phase, disk, running, targets, base, fresh, waitVars, forward,
                 rollbackVars, outcomeVars, expired, faults, reached>>

Expire ==
  /\ pc # "done" /\ phase \notin expired
  /\ phase = "update" => ask.op > 0
  /\ expired' = expired \cup {phase}
  /\ UNCHANGED <<planVars, pc, phase, disk, running, targets, base, fresh, waitVars, forward,
                 rollbackVars, outcomeVars, cancelled, faults, reached>>

Deploy == LoadFails \/ Resolve \/ Persist \/ PersistFails \/ Pull \/ PullFails \/ Up \/ UpFails
          \/ Monitor
Poll == SwapPoll \/ HealthPoll
EndWait == SwapCut \/ SwapTimeout \/ HealthCut \/ HealthTimeout
Recover == RollbackEmpty \/ RollbackStart \/ RollbackLoad \/ RollbackUp \/ RollbackUpFails
           \/ RollbackVerify
Repair == NetworksFine \/ NetworksRepaired

Next == Deploy \/ Poll \/ EndWait \/ Recover \/ Repair \/ Cancel \/ Expire

(* The job's goroutine goes on: each call of the compose library returns,  *)
(* a wait polls, and its time runs out.  Cancels are never forced.         *)
Fairness == /\ WF_vars(Deploy) /\ WF_vars(Poll) /\ WF_vars(EndWait)
            /\ WF_vars(Recover) /\ WF_vars(Repair)

Spec == Init /\ [][Next]_vars /\ Fairness

-----------------------------------------------------------------------------
(* Properties.                                                             *)

TypeOK ==
  /\ [stack |-> stack, ask |-> ask] \in Cases
  /\ phase \in Phases /\ expired \subseteq Phases /\ cancelled \in BOOLEAN
  /\ disk \in [Services -> Images \ {"none"}] /\ running \in [Services -> Images]
  /\ targets \subseteq stack.services /\ base \subseteq Services /\ fresh \in BOOLEAN
  /\ monitored \subseteq Services /\ swapped \subseteq monitored /\ missing \subseteq monitored
  /\ polled \in BOOLEAN /\ seen \in [Services -> Statuses]
  /\ unhealthy \subseteq Services /\ scope \subseteq base
  /\ verdict \in {"running", "completed", "failed"} /\ (verdict = "running") = (pc # "done")
  /\ claim \in {"none", "healthy", "unhealthy"} /\ faults \subseteq Faults

(* An update that deployed is completed only when every container of the   *)
(* baseline still exists and its last status was good: a wait that was cut *)
(* short, or an excluded container that is down, is no success             *)
(* (healthVerdict, notHealthy).  A network repair recreates the containers *)
(* after the wait, and nobody looks again.                                 *)
CompletedIsVerified ==
  verdict = "completed" /\ "deployed" \in reached /\ "repaired" \notin reached
    => /\ monitored # {}
       /\ \A s \in monitored : seen[s] \in {"fine", "excluded"} /\ running[s] # "none"
       /\ "snapshot" \notin faults => stack.before \subseteq monitored

(* However an update ends, the files name the image the container runs     *)
(* (the comments of minRollbackDeadline and persistTargets), unless a step *)
(* of the recovery failed or was cancelled, which the job's log says, or   *)
(* the stack was down before: a fresh deploy that fails its health check   *)
(* gets its files back and keeps its new containers.                       *)
DiskMatchesContainers ==
  pc = "done" /\ faults = {} /\ ~cancelled /\ "rollback" \notin expired /\ ~fresh
    => \A s \in targets : running[s] \in {"none", disk[s]}

(* A finished rollback brought back the old image of exactly the services  *)
(* in its scope: all of a version-locked stack or of an `up` that failed,  *)
(* else those reported unhealthy; healthy ones keep their update.          *)
RollbackScopeIsKept ==
  claim # "none"
    => \A s \in stack.services \cap base :
         (running[s] = "old") = \/ stack.wholeStack
                                \/ "deployed" \notin reached
                                \/ s \in unhealthy

(* "rollback healthy" is written only when every container was seen well   *)
(* after the redeploy, unless the daemon did not list them.                *)
RollbackHealthyIsTrue ==
  claim = "healthy" /\ "snapshot" \notin faults
    => /\ Containers # {}
       /\ \A s \in Containers : seen[s] \in {"fine", "excluded"}

(* The rollback waits as long as the update did (effectiveHealthTimeouts). *)
SameBudgetBothWays ==
  forward # NoBudget /\ back # NoBudget => back = forward

(* With a limit for the whole operation both waits fit into their share of *)
(* it, the swap is never negative, and the health wait keeps its minimum   *)
(* unless less was asked for (clampBudget).                                *)
BudgetsFit ==
  \A b \in {forward, back} \ {NoBudget} :
    /\ b.swap >= 0
    /\ b.health >= AtMost(Asked(ask).health, MinHealth)
    /\ ask.op > 0 /\ WaitShare(ask.op) >= MinHealth => b.swap + b.health <= WaitShare(ask.op)

(* Every update ends. *)
UpdateEnds == <>(pc = "done")

(* An update of a running stack that failed after its containers were      *)
(* replaced, and that nobody cancelled, has at least tried its rollback    *)
(* (updateProject: "Returns an error on any failure AFTER a best-effort    *)
(* rollback").                                                             *)
FailureIsRolledBack ==
  verdict = "failed" /\ "deployed" \in reached /\ ~fresh /\ ~cancelled
    => "rolledBack" \in reached
=============================================================================
