------------------------- MODULE StackUpdateProofs -------------------------
(***************************************************************************)
(* Theorems about StackUpdate, for any services, stacks and faults.  The   *)
(* budgets: the arithmetic of HealthBudget for every value of its          *)
(* constants, and what an update does with it.  The containers and files:  *)
(* where each is at every step of an update and of its rollback.           *)
(***************************************************************************)
EXTENDS StackUpdate, TLAPS

(* An override that is accepted is positive and at most the maximum,       *)
(* whatever the product of the seconds wraps round to (budgetOf).          *)
LEMMA BudgetOfBounded ==
  ASSUME NEW seconds \in Int
  PROVE  BudgetOf(seconds) \in Nat /\ BudgetOf(seconds) <= MaxBudget
<1>1. MaxBudget \in Nat
  BY BudgetAssumption
<1>2. Second \in Nat /\ HalfWord \in Nat \ {0}
  BY BudgetAssumption
<1>. DEFINE d == Wrap(seconds * Second)
<1>3. seconds * Second \in Int
  BY <1>2
<1>4. \A x \in Int : Wrap(x) \in Int
  BY <1>2 DEF Wrap
<1>5. d \in Int
  BY <1>3, <1>4
<1>6. BudgetOf(seconds) = IF seconds > 0 /\ d > 0 /\ d <= MaxBudget THEN d ELSE 0
  BY DEF BudgetOf, NotSet
<1>. HIDE DEF d
<1> QED
  BY <1>1, <1>5, <1>6

(* What was asked for is a pair of durations that are not negative,        *)
(* whichever of request, row and node it comes from.                       *)
LEMMA AskedType ==
  ASSUME NEW a \in AskType
  PROVE  Asked(a) \in Pairs(Nat)
<1>1. /\ a.request.swap \in Int /\ a.request.health \in Int
      /\ a.row.swap \in Int /\ a.row.health \in Int
      /\ a.node.swap \in Nat /\ a.node.health \in Nat
  BY DEF AskType, Pairs
<1>2. ASSUME NEW request \in Int, NEW row \in Int, NEW node \in Nat
      PROVE  Pick(request, row, node) \in Nat
  BY BudgetOfBounded DEF Pick
<1>3. /\ Pick(a.request.swap, a.row.swap, a.node.swap) \in Nat
      /\ Pick(a.request.health, a.row.health, a.node.health) \in Nat
  BY <1>1, <1>2
<1> QED
  BY <1>3 DEF Asked, Pairs

(* clampBudget.  The result is a pair of durations that are not negative;  *)
(* it fits into the waits' share of the operation's time unless that share *)
(* is below the minimum; the health wait keeps its minimum or what was     *)
(* asked for, and no less than was asked for when that leaves the minimum  *)
(* for the swap.                                                           *)
THEOREM ClampFits ==
  ASSUME NEW op \in Int, NEW b \in Pairs(Nat)
  PROVE  /\ Clamp(op, b) \in Pairs(Nat)
         /\ Clamp(op, b).health >= AtMost(b.health, MinHealth)
         /\ op > 0 /\ WaitShare(op) >= MinHealth
              => Clamp(op, b).swap + Clamp(op, b).health <= WaitShare(op)
         /\ b.health <= WaitShare(op) - MinHealth => Clamp(op, b).health >= b.health
<1>1. /\ MinHealth \in Nat \ {0} /\ Reserve \in Nat
      /\ b.swap \in Nat /\ b.health \in Nat
  BY BudgetAssumption DEF Pairs
<1>2. WaitShare(op) \in Int
  BY <1>1 DEF WaitShare, AtMost
<1>. DEFINE c == Clamp(op, b)
            share == WaitShare(op)
<1>3. CASE Fits(op, b)
  <2>1. c = b
    BY <1>3 DEF Clamp
  <2>2. op > 0 /\ share >= MinHealth => b.swap + b.health <= share
    BY <1>1, <1>2, <1>3 DEF Fits
  <2> QED
    BY <1>1, <2>1, <2>2 DEF AtMost
<1>4. CASE ~Fits(op, b)
  <2>. DEFINE s == FitSwap(op, b.swap, b.health)
              h == FitHealth(op, b.health)
  <2>1. c = [swap |-> s, health |-> h]
    BY <1>4 DEF Clamp
  <2>2. /\ h \in Nat /\ h >= MinHealth
        /\ share >= MinHealth => h <= share
        /\ b.health <= share - MinHealth => h >= b.health
    BY <1>1, <1>2 DEF FitHealth, AtMost, AtLeast
  <2>3. s \in Nat /\ (h <= share => s + h <= share)
    <3>. HIDE DEF h
    <3> QED
      BY <1>1, <1>2, <2>2 DEF FitSwap, AtMost, AtLeast, h
  <2> QED
    BY <1>1, <1>2, <2>1, <2>2, <2>3 DEF Pairs, AtMost
<1> QED
  BY <1>3, <1>4

-----------------------------------------------------------------------------
(* The budgets in the update: each is unknown, or what was asked for after *)
(* the clamp, and what was asked for never changes.                        *)

BudgetInv ==
  /\ ask \in AskType
  /\ forward \in {NoBudget, Effective(ask)}
  /\ back \in {NoBudget, Effective(ask)}

LEMMA InitBudgetInv == Init => BudgetInv
<1>. SUFFICES ASSUME Init PROVE BudgetInv
  OBVIOUS
<1>1. PICK c \in Cases : stack = c.stack /\ ask = c.ask
  BY DEF Init
<1>2. c.ask \in AskType
  BY <1>1, CasesAssumption
<1> QED
  BY <1>1, <1>2 DEF Init, BudgetInv

(* Only Monitor learns the update's budget, and only RollbackStart the     *)
(* rollback's.                                                             *)
LEMMA NextBudgetInv == BudgetInv /\ [Next]_vars => BudgetInv'
<1>. SUFFICES ASSUME BudgetInv, [Next]_vars PROVE BudgetInv'
  OBVIOUS
<1>. USE DEF BudgetInv
<1>1. CASE Deploy
  <2>1. CASE Monitor
    BY <2>1 DEF Monitor, rollbackVars, planVars
  <2>2. CASE LoadFails \/ Resolve \/ Persist \/ PersistFails \/ Pull \/ PullFails \/ Up \/ UpFails
    BY <2>2 DEF LoadFails, Resolve, Persist, PersistFails, Pull, PullFails, Up, UpFails,
                rollbackVars, planVars
  <2> QED
    BY <1>1, <2>1, <2>2 DEF Deploy
<1>2. CASE Poll \/ EndWait
  BY <1>2 DEF Poll, EndWait, SwapPoll, HealthPoll, SwapCut, SwapTimeout, HealthCut,
              HealthTimeout, waitFrame, planVars
<1>3. CASE Recover
  <2>1. CASE RollbackStart
    BY <2>1 DEF RollbackStart, RollbackBudget, planVars
  <2>2. CASE RollbackEmpty \/ RollbackLoad \/ RollbackUp \/ RollbackUpFails \/ RollbackVerify
    BY <2>2 DEF RollbackEmpty, RollbackLoad, RollbackUp, RollbackUpFails, RollbackVerify,
                rollbackVars, planVars
  <2> QED
    BY <1>3, <2>1, <2>2 DEF Recover
<1>4. CASE Repair \/ Cancel \/ Expire
  BY <1>4 DEF Repair, NetworksFine, NetworksRepaired, Cancel, Expire, rollbackVars, planVars
<1>5. CASE UNCHANGED vars
  BY <1>5 DEF vars, rollbackVars, planVars
<1> QED
  BY <1>1, <1>2, <1>3, <1>4, <1>5 DEF Next

LEMMA AlwaysBudgetInv == Spec => []BudgetInv
BY InitBudgetInv, NextBudgetInv, PTL DEF Spec

LEMMA BudgetInvFits == BudgetInv => BudgetsFit
<1>. SUFFICES ASSUME BudgetInv, NEW b \in {forward, back} \ {NoBudget}
     PROVE  /\ b.swap >= 0
            /\ b.health >= AtMost(Asked(ask).health, MinHealth)
            /\ ask.op > 0 /\ WaitShare(ask.op) >= MinHealth
                 => b.swap + b.health <= WaitShare(ask.op)
  BY DEF BudgetsFit
<1>1. b = Clamp(ask.op, Asked(ask))
  BY DEF BudgetInv, Effective
<1>2. ask.op \in Int /\ Asked(ask) \in Pairs(Nat)
  BY AskedType DEF BudgetInv, AskType
<1>3. b \in Pairs(Nat)
  BY <1>1, <1>2, ClampFits
<1>4. b.swap \in Nat
  BY <1>3 DEF Pairs
<1> QED
  BY <1>1, <1>2, <1>4, ClampFits

(* The budgets of both waits fit the operation, in every state of every    *)
(* update, for every maximum, minimum, reserve and word (clampBudget).     *)
THEOREM BudgetsAlwaysFit == Spec => []BudgetsFit
BY AlwaysBudgetInv, BudgetInvFits, PTL

(* The rollback waits exactly as long as the update did.                   *)
THEOREM BudgetsAreTheSame == Spec => []SameBudgetBothWays
<1>1. BudgetInv => SameBudgetBothWays
  BY DEF BudgetInv, SameBudgetBothWays
<1> QED
  BY AlwaysBudgetInv, <1>1, PTL

-----------------------------------------------------------------------------
(* The containers and the files at each step of an update.                 *)

Before == {"load", "persist", "pull", "up"}
Waits == {"swap", "health"}
Forward == pc \in {"monitor", "networks"} \/ (pc \in Waits /\ phase = "update")
Undoing == pc \in {"rollback", "reload", "redeploy"}
Undone == claim # "none" \/ pc = "verify" \/ (pc \in Waits /\ phase = "rollback")
Deployed == "deployed" \in reached
Listed == "snapshot" \notin faults

Shape ==
  /\ stack \in Stacks /\ targets \subseteq stack.services
  /\ disk \in [Services -> Images] /\ running \in [Services -> Images]
  /\ seen \in [Services -> Statuses] /\ monitored \subseteq Services
  /\ fresh \in BOOLEAN /\ base \subseteq Services

(* Where the update is. *)
Placed ==
  /\ phase = IF pc \in {"reload", "redeploy", "verify"} THEN "rollback"
             ELSE IF pc \in Waits \cup {"done"} THEN phase ELSE "update"
  /\ phase \in Phases
  /\ pc \in Before => ~Deployed
  /\ Forward => Deployed
  /\ pc # "done" => claim = "none" /\ verdict = "running"
  /\ pc \in Before \cup {"rollback", "reload", "redeploy"} => ~fresh

(* What the files name: the old images until they are written, the new     *)
(* ones until they are reverted, and those of the scope after that.        *)
FilesAre ==
  /\ pc = "load" => targets = {}
  /\ pc \in {"load", "persist"} => \A s \in Services : disk[s] = "old"
  /\ Forward \/ pc \in {"pull", "up", "rollback"} => \A s \in targets : disk[s] = "new"
  /\ pc \in {"reload", "redeploy"} \/ Undone =>
       \A s \in targets : IF s \in scope THEN faults = {} => disk[s] = "old"
                          ELSE disk[s] = "new"

(* What the containers run.  An `up` that failed has not replaced them all.*)
ContainersAre ==
  /\ pc \in Before => \A s \in Services : running[s] = IF s \in stack.before THEN "old" ELSE "none"
  /\ Forward \/ (Undoing /\ Deployed) => \A s \in stack.services : running[s] = "new"
  /\ Undoing /\ ~Deployed /\ Listed =>
       \A s \in stack.services \ base : running[s] \in {"none", "new"}
  /\ Undone => /\ \A s \in stack.services : running[s] = RolledBack[s]
               /\ Pinned # {}
  /\ pc = "redeploy" => Pinned # {}

(* What was there before, and what is looked at. *)
BaseIs ==
  /\ pc \in {"persist", "pull"} /\ Listed /\ ~Done => base = stack.before
  /\ pc = "up" /\ Listed => base = stack.before
  /\ Forward /\ Listed => stack.before \subseteq base
  /\ pc = "monitor" => (fresh <=> base = {})
  /\ Forward /\ pc # "monitor" => monitored = base /\ monitored # {}
  /\ pc \in Waits /\ phase = "rollback" /\ Listed /\ ~Done => monitored = Containers

ScopeIs ==
  Undoing \/ Undone =>
    scope = IF stack.wholeStack \/ ~Deployed THEN base ELSE unhealthy

Good(s) == seen[s] \in {"fine", "excluded"} /\ running[s] # "none"
Seen == pc = "networks" => \A s \in monitored : Good(s)

Ended == CompletedIsVerified /\ DiskMatchesContainers /\ RollbackHealthyIsTrue

UpdateInv == /\ Shape /\ Placed /\ FilesAre /\ ContainersAre /\ BaseIs /\ ScopeIs
             /\ Seen /\ Ended
LEMMA InitUpdateInv == Init => UpdateInv
<1> SUFFICES ASSUME Init PROVE UpdateInv
  OBVIOUS
<1>1. stack \in Stacks
  BY CasesAssumption DEF Init
<1>2. Shape /\ Placed /\ FilesAre
  BY <1>1 DEF Init, Shape, Placed, FilesAre, Images, Statuses, Phases, Before, Waits, Forward,
     Undone, Undoing, Deployed
<1>3. ContainersAre /\ BaseIs /\ ScopeIs /\ Seen /\ Ended
  BY DEF Init, ContainersAre, BaseIs, ScopeIs, Seen, Ended, Before, Waits, Forward, Undone, Undoing,
     CompletedIsVerified, DiskMatchesContainers, RollbackHealthyIsTrue
<1> QED
  BY <1>2, <1>3 DEF UpdateInv

(* An update that goes on has not ended.                                   *)
LEMMA GoesOn ==
  ASSUME pc' # "done", verdict' = "running", claim' = "none"
  PROVE  Ended'
  BY DEF Ended, CompletedIsVerified, DiskMatchesContainers, RollbackHealthyIsTrue

(* The files can be reverted whole, or a fault leaves some as they are.    *)
LEMMA RevertFiles ==
  ASSUME Shape, NEW T \in SUBSET Services, RevertDisk(T)
  PROVE  /\ disk' \in [Services -> Images] /\ faults \subseteq faults'
         /\ \A s \in Services \ T : disk'[s] = disk[s]
         /\ faults' = {} => \A s \in T : disk'[s] = "old"
<1>1. CASE /\ disk' = [s \in Services |-> IF s \in T THEN "old" ELSE disk[s]]
           /\ UNCHANGED faults
  BY <1>1 DEF Shape, Images
<1>2. CASE /\ Fault("revert")
           /\ \E some \in SUBSET T :
                disk' = [s \in Services |-> IF s \in some THEN "old" ELSE disk[s]]
  BY <1>2 DEF Shape, Images, Fault
<1> QED
  BY <1>1, <1>2 DEF RevertDisk

(* A snapshot without a fault and in time is what there is.                *)
LEMMA SnapshotIs ==
  ASSUME NEW result, Snapshot(result)
  PROVE  /\ result \subseteq Containers /\ faults \subseteq faults'
         /\ "snapshot" \notin faults' /\ ~Done => result = Containers
         /\ faults' # faults => "snapshot" \in faults'
  BY DEF Snapshot, Fault

-----------------------------------------------------------------------------
(* Steps before the recreate.                                              *)

LEMMA BeforeKeeps ==
  ASSUME UpdateInv, LoadFails \/ Resolve \/ Persist \/ PersistFails \/ Pull \/ PullFails
  PROVE  UpdateInv'
<1> USE DEF Before, Waits, Forward, Undoing, Undone, Deployed, Listed
<1>1. CASE LoadFails
  <2>1. /\ UNCHANGED <<stack, targets, base, disk, running, seen, monitored, fresh, phase, claim, reached>>
        /\ pc = "load" /\ pc' = "done" /\ verdict' = "failed"
    BY <1>1 DEF LoadFails, End, planVars, waitVars
  <2>2. Shape' /\ Placed' /\ FilesAre' /\ ContainersAre' /\ BaseIs' /\ ScopeIs' /\ Seen'
    BY <2>1 DEF UpdateInv, Shape, Placed, FilesAre, ContainersAre, BaseIs, ScopeIs, Seen
  <2>3. Ended'
    BY <2>1 DEF UpdateInv, Placed, FilesAre, Ended, CompletedIsVerified, DiskMatchesContainers,
       RollbackHealthyIsTrue
  <2> QED
    BY <2>2, <2>3 DEF UpdateInv
<1>2. CASE Resolve
  <2>1. /\ UNCHANGED <<stack, disk, running, seen, monitored, fresh, phase, claim, reached,
                       cancelled, expired>>
        /\ pc = "load" /\ targets' \subseteq stack.services
        /\ \/ targets' = {} /\ pc' = "done" /\ verdict' = "completed"
           \/ pc' = "persist" /\ verdict' = verdict
        /\ Snapshot(base')
    BY <1>2 DEF Resolve, End, planVars, waitVars, clockVars, outcomeVars
  <2>2. Containers = stack.before
    BY <2>1 DEF UpdateInv, Shape, ContainersAre, Containers, Stacks
  <2>3. base' \subseteq Services /\ ("snapshot" \notin faults' /\ ~Done => base' = stack.before)
    BY <2>1, <2>2, SnapshotIs DEF Containers
  <2>4. Done' = Done
    BY <2>1 DEF Done
  <2>5. Shape' /\ Placed' /\ FilesAre' /\ ContainersAre' /\ BaseIs' /\ ScopeIs' /\ Seen'
    BY <2>1, <2>3, <2>4 DEF UpdateInv, Shape, Placed, FilesAre, ContainersAre, BaseIs, ScopeIs, Seen
  <2>6. Ended'
    BY <2>1 DEF UpdateInv, Placed, Ended, CompletedIsVerified, DiskMatchesContainers,
       RollbackHealthyIsTrue
  <2> QED
    BY <2>5, <2>6 DEF UpdateInv
<1>3. CASE Persist \/ Pull
  <2>1. /\ UNCHANGED <<stack, targets, base, running, seen, monitored, fresh, phase, claim, verdict,
                       reached, cancelled, expired, faults>>
        /\ \/ /\ pc = "persist" /\ pc' = "pull"
              /\ disk' = [s \in Services |-> IF s \in targets THEN "new" ELSE disk[s]]
           \/ pc = "pull" /\ pc' = "up" /\ ~Done /\ UNCHANGED disk
    BY <1>3 DEF Persist, Pull, planVars, waitVars, outcomeVars, clockVars
  <2>2. Done' = Done
    BY <2>1 DEF Done
  <2>3. targets \subseteq Services
    BY DEF UpdateInv, Shape, Stacks
  <2>4. Shape' /\ FilesAre'
    BY <2>1, <2>3 DEF UpdateInv, Shape, FilesAre, Placed, Images
  <2>5. Placed' /\ ContainersAre' /\ BaseIs' /\ ScopeIs' /\ Seen'
    BY <2>1, <2>2 DEF UpdateInv, Placed, ContainersAre, BaseIs, ScopeIs, Seen
  <2>6. Ended'
    BY <2>1, GoesOn DEF UpdateInv, Placed
  <2> QED
    BY <2>4, <2>5, <2>6 DEF UpdateInv
<1>4. CASE PersistFails \/ PullFails
  <2>1. /\ UNCHANGED <<stack, targets, base, running, seen, monitored, fresh, phase, claim, reached>>
        /\ pc \in {"persist", "pull"} /\ pc' = "done" /\ verdict' = "failed"
        /\ PersistFails \/ RevertDisk(targets)
        /\ PersistFails => pc = "persist"
    BY <1>4 DEF PersistFails, PullFails, End, planVars, waitVars
  <2>2. targets \in SUBSET Services
    BY DEF UpdateInv, Shape, Stacks
  <2>3. /\ disk' \in [Services -> Images]
        /\ faults' = {} => \A s \in targets : disk'[s] = "old"
    <3>1. CASE PersistFails
      BY <2>1, <2>2, <3>1 DEF UpdateInv, Shape, FilesAre, PersistFails, Fault, Images
    <3>2. CASE RevertDisk(targets)
      BY <2>2, <3>2, RevertFiles DEF UpdateInv
    <3> QED
      BY <2>1, <3>1, <3>2
  <2>4. Shape' /\ Placed' /\ FilesAre' /\ ContainersAre' /\ BaseIs' /\ ScopeIs' /\ Seen'
    BY <2>1, <2>3 DEF UpdateInv, Shape, Placed, FilesAre, ContainersAre, BaseIs, ScopeIs, Seen
  <2>5. Ended'
    BY <2>1, <2>2, <2>3 DEF UpdateInv, Placed, ContainersAre, Ended, CompletedIsVerified,
       DiskMatchesContainers, RollbackHealthyIsTrue
  <2> QED
    BY <2>4, <2>5 DEF UpdateInv
<1> QED
  BY <1>1, <1>2, <1>3, <1>4

(* The recreate, and what is looked at after it.                           *)
LEMMA UpKeeps ==
  ASSUME UpdateInv, Up \/ UpFails
  PROVE  UpdateInv'
<1> USE DEF Before, Waits, Forward, Undoing, Undone, Deployed, Listed
<1>1. /\ pc = "up" /\ phase = "update" /\ ~Deployed /\ stack \in Stacks
      /\ UNCHANGED <<stack, phase, disk, targets, base, seen, monitored, faults, verdict, claim>>
  BY DEF UpdateInv, Shape, Placed, Up, UpFails, planVars, waitVars, outcomeVars
<1>2. CASE Up
  <2>1. /\ fresh' = (base = {}) /\ reached' = reached \cup {"deployed"} /\ pc' = "monitor"
        /\ running' = [s \in Services |-> IF s \in stack.services THEN "new"
                                         ELSE IF s \in stack.disabled THEN running[s] ELSE "none"]
    BY <1>1, <1>2 DEF Up, UpDone, Pulled, Stacks
  <2>2. running' \in [Services -> Images] /\ \A s \in stack.services : running'[s] = "new"
    BY <1>1, <2>1 DEF UpdateInv, Shape, Images, Stacks
  <2>3. Shape' /\ Placed' /\ FilesAre' /\ ContainersAre' /\ BaseIs' /\ ScopeIs' /\ Seen'
    BY <1>1, <2>1, <2>2
       DEF UpdateInv, Shape, Placed, FilesAre, ContainersAre, BaseIs, ScopeIs, Seen
  <2>4. Ended'
    BY <1>1, <2>1, GoesOn DEF UpdateInv, Placed
  <2> QED
    BY <2>3, <2>4 DEF UpdateInv
<1>3. CASE UpFails
  <2>1. UNCHANGED <<fresh, reached>> /\ pc' = "rollback" /\ scope' = base /\ UpPart(Pulled)
    BY <1>3 DEF UpFails
  <2>2. /\ running' \in [Services -> Images]
        /\ \A s \in Services : running'[s] \in {running[s], "none", "new"}
    BY <1>1, <2>1 DEF UpdateInv, Shape, UpPart, Pulled, Images
  <2>3. Listed => \A s \in stack.services \ base : running'[s] \in {"none", "new"}
    BY <1>1, <2>2 DEF UpdateInv, ContainersAre, BaseIs, Stacks
  <2>4. Shape' /\ Placed' /\ FilesAre' /\ ContainersAre' /\ BaseIs' /\ ScopeIs' /\ Seen'
    BY <1>1, <2>1, <2>2, <2>3
       DEF UpdateInv, Shape, Placed, FilesAre, ContainersAre, BaseIs, ScopeIs, Seen
  <2>5. Ended'
    BY <1>1, <2>1, GoesOn DEF UpdateInv, Placed
  <2> QED
    BY <2>4, <2>5 DEF UpdateInv
<1> QED
  BY <1>2, <1>3

LEMMA MonitorKeeps ==
  ASSUME UpdateInv, Monitor
  PROVE  UpdateInv'
<1> USE DEF Before, Waits, Forward, Undoing, Undone, Deployed, Listed
<1>1. /\ pc = "monitor" /\ phase = "update" /\ Deployed /\ (fresh <=> base = {})
      /\ UNCHANGED <<stack, phase, disk, running, targets, fresh, seen, claim, reached>>
      /\ monitored' = base'
      /\ IF fresh THEN Snapshot(base') ELSE UNCHANGED <<base, faults>>
      /\ IF monitored' = {} THEN pc' = "done" /\ verdict' = "failed"
         ELSE pc' \in Waits /\ UNCHANGED verdict
  BY DEF UpdateInv, Placed, BaseIs, Monitor, End, planVars, outcomeVars
<1>2. base' \subseteq Services /\ faults \subseteq faults' /\ (monitored' = {} => fresh)
  BY <1>1, SnapshotIs DEF UpdateInv, Shape, Containers
<1>3. "snapshot" \notin faults' => stack.before \subseteq base'
  BY <1>1, <1>2 DEF UpdateInv, BaseIs
<1>4. Shape' /\ Placed' /\ FilesAre' /\ ContainersAre' /\ BaseIs' /\ ScopeIs' /\ Seen'
  BY <1>1, <1>2, <1>3
     DEF UpdateInv, Shape, Placed, FilesAre, ContainersAre, BaseIs, ScopeIs, Seen
<1>5. Ended'
  BY <1>1, <1>2 DEF UpdateInv, Placed, Ended, CompletedIsVerified, DiskMatchesContainers,
     RollbackHealthyIsTrue
<1> QED
  BY <1>4, <1>5 DEF UpdateInv

-----------------------------------------------------------------------------
(* The waits, in either phase.                                             *)

(* A wait that goes on: nothing is decided, what it has seen is kept.      *)
LEMMA WaitGoesOn ==
  ASSUME UpdateInv, pc \in Waits, pc' \in Waits, UNCHANGED <<waitFrame, disk, faults, unhealthy, scope>>,
         UNCHANGED outcomeVars, seen' \in [Services -> Statuses]
  PROVE  UpdateInv'
<1> USE DEF Before, Waits, Forward, Undoing, Undone, Deployed, Listed
<1>1. UNCHANGED <<stack, phase, running, targets, base, fresh, monitored, cancelled, expired,
                  reached, disk, faults, unhealthy, scope, verdict, claim>>
  BY DEF waitFrame, planVars, clockVars, outcomeVars
<1>2. Done' = Done /\ Containers' = Containers /\ RolledBack' = RolledBack /\ Pinned' = Pinned
  BY <1>1 DEF Done, Containers, RolledBack, Pinned
<1>3. Shape' /\ Placed' /\ FilesAre' /\ ContainersAre' /\ BaseIs' /\ ScopeIs' /\ Seen'
  BY <1>1, <1>2
     DEF UpdateInv, Shape, Placed, FilesAre, ContainersAre, BaseIs, ScopeIs, Seen
<1>4. Ended'
  BY <1>1, GoesOn DEF UpdateInv, Placed
<1> QED
  BY <1>3, <1>4 DEF UpdateInv

(* A wait that fails: the rollback follows it, or it was the rollback's.   *)
LEMMA WaitThatFails ==
  ASSUME UpdateInv, pc \in Waits, UNCHANGED waitFrame, seen' \in [Services -> Statuses],
         NEW reported, WaitFails(reported)
  PROVE  UpdateInv'
<1> USE DEF Before, Waits, Forward, Undoing, Undone, Deployed, Listed
<1>1. UNCHANGED <<stack, phase, running, targets, base, fresh, monitored, cancelled, expired, reached>>
  BY DEF waitFrame, planVars, clockVars
<1>2. CASE phase = "rollback"
  <2>1. /\ pc' = "done" /\ verdict' = "failed" /\ claim' = "unhealthy"
        /\ UNCHANGED <<disk, faults, unhealthy, scope>>
    BY <1>2 DEF WaitFails
  <2>2. RolledBack' = RolledBack /\ Pinned' = Pinned
    BY <1>1, <2>1 DEF RolledBack, Pinned
  <2>3. Shape' /\ Placed' /\ FilesAre' /\ ContainersAre' /\ BaseIs' /\ ScopeIs' /\ Seen'
    BY <1>1, <1>2, <2>1, <2>2
       DEF UpdateInv, Shape, Placed, FilesAre, ContainersAre, BaseIs, ScopeIs, Seen
  <2>4. Ended'
    <3>1. \A s \in targets : faults = {} => running[s] = disk[s]
      BY <1>2 DEF UpdateInv, FilesAre, ContainersAre, RolledBack, Pinned, Shape, Stacks
    <3> QED
      BY <1>1, <2>1, <3>1 DEF Ended, CompletedIsVerified, DiskMatchesContainers, RollbackHealthyIsTrue
  <2> QED
    BY <2>3, <2>4 DEF UpdateInv
<1>3. CASE phase # "rollback" /\ fresh
  <2>1. pc' = "done" /\ verdict' = "failed" /\ UNCHANGED <<claim, scope>> /\ RevertDisk(targets)
    BY <1>3 DEF WaitFails, End
  <2>2. disk' \in [Services -> Images]
    BY <2>1, RevertFiles DEF UpdateInv, Shape, Stacks
  <2>3. Shape' /\ Placed' /\ FilesAre' /\ ContainersAre' /\ BaseIs' /\ ScopeIs' /\ Seen'
    BY <1>1, <1>3, <2>1, <2>2
       DEF UpdateInv, Shape, Placed, FilesAre, ContainersAre, BaseIs, ScopeIs, Seen
  <2>4. Ended'
    BY <1>1, <1>3, <2>1
       DEF UpdateInv, Placed, Ended, CompletedIsVerified, DiskMatchesContainers, RollbackHealthyIsTrue
  <2> QED
    BY <2>3, <2>4 DEF UpdateInv
<1>4. CASE phase # "rollback" /\ ~fresh
  <2>1. /\ pc' = "rollback" /\ UNCHANGED <<disk, faults, verdict, claim>>
        /\ unhealthy' = reported /\ scope' = IF stack.wholeStack THEN base ELSE reported
    BY <1>4 DEF WaitFails, Scope, outcomeVars
  <2>2. Shape' /\ Placed' /\ FilesAre' /\ ContainersAre' /\ BaseIs' /\ ScopeIs' /\ Seen'
    BY <1>1, <1>4, <2>1
       DEF UpdateInv, Shape, Placed, Phases, FilesAre, ContainersAre, BaseIs, ScopeIs, Seen
  <2>3. Ended'
    BY <2>1, GoesOn DEF UpdateInv, Placed
  <2> QED
    BY <2>2, <2>3 DEF UpdateInv
<1> QED
  BY <1>2, <1>3, <1>4

(* The rollback has ended: what it could not do is a fault or a deadline.  *)
LEMMA RolledBackFiles ==
  ASSUME UpdateInv, Undone, faults = {}, NEW s \in targets
  PROVE  running[s] = disk[s]
  BY DEF UpdateInv, FilesAre, ContainersAre, RolledBack, Pinned, Shape, Stacks

(* One poll that finds nothing wrong: every container is there and well.   *)
LEMMA PollIsTrue ==
  ASSUME UpdateInv, NEW obs \in [monitored -> Observations],
         \A s \in monitored \ Containers : obs[s] = "down",
         seen' = [s \in Services |-> IF s \in monitored THEN Status(s, obs[s]) ELSE seen[s]],
         NotHealthy(seen') = {}
  PROVE  \A s \in monitored : seen'[s] \in {"fine", "excluded"} /\ s \in Containers
<1> SUFFICES ASSUME NEW s \in monitored
             PROVE  seen'[s] \in {"fine", "excluded"} /\ s \in Containers
  OBVIOUS
<1>1. s \in Services /\ obs[s] \in Observations
  BY DEF UpdateInv, Shape
<1>2. seen'[s] = Status(s, obs[s]) /\ ~Bad(seen'[s])
  BY <1>1 DEF NotHealthy
<1>3. seen'[s] \in {"fine", "excluded"}
  BY <1>1, <1>2 DEF Status, Bad, Observations
<1>4. obs[s] # "down"
  BY <1>2 DEF Status, Bad
<1> QED
  BY <1>3, <1>4

LEMMA PassKeeps ==
  ASSUME UpdateInv, pc = "health", ~Done, UNCHANGED <<waitFrame, disk, faults, unhealthy, scope>>,
         seen' \in [Services -> Statuses], WaitPasses,
         \A s \in monitored : seen'[s] \in {"fine", "excluded"} /\ s \in Containers
  PROVE  UpdateInv'
<1> USE DEF Before, Waits, Forward, Undoing, Undone, Deployed, Listed
<1>1. UNCHANGED <<stack, phase, running, targets, base, fresh, monitored, cancelled, expired,
                  reached>>
  BY DEF waitFrame, planVars, clockVars
<1>2. Done' = Done /\ Containers' = Containers /\ RolledBack' = RolledBack /\ Pinned' = Pinned
  BY <1>1 DEF Done, Containers, RolledBack, Pinned
<1>3. CASE phase = "rollback"
  <2>1. pc' = "done" /\ verdict' = "failed" /\ claim' = "healthy"
    BY <1>3 DEF WaitPasses
  <2>2. Shape' /\ Placed' /\ FilesAre' /\ ContainersAre' /\ BaseIs' /\ ScopeIs' /\ Seen'
    BY <1>1, <1>2, <1>3, <2>1
       DEF UpdateInv, Shape, Placed, FilesAre, ContainersAre, BaseIs, ScopeIs, Seen
  <2>3. RollbackHealthyIsTrue'
    <3>1. Containers # {}
      BY <1>3 DEF UpdateInv, ContainersAre, RolledBack, Pinned, Containers, Shape, Stacks
    <3>2. Listed => monitored = Containers
      BY <1>3 DEF UpdateInv, BaseIs
    <3> QED
      BY <1>1, <1>2, <3>1, <3>2 DEF RollbackHealthyIsTrue
  <2>4. DiskMatchesContainers'
    BY <1>1, <1>3, RolledBackFiles DEF DiskMatchesContainers
  <2> QED
    BY <2>1, <2>2, <2>3, <2>4 DEF UpdateInv, Ended, CompletedIsVerified
<1>4. CASE phase # "rollback"
  <2>1. pc' = "networks" /\ UNCHANGED <<verdict, claim>>
    BY <1>4 DEF WaitPasses, outcomeVars
  <2>2. phase = "update"
    BY <1>4 DEF UpdateInv, Placed, Phases
  <2>3. Shape' /\ Placed' /\ FilesAre' /\ ContainersAre' /\ BaseIs' /\ ScopeIs'
    BY <1>1, <1>2, <2>1, <2>2
       DEF UpdateInv, Shape, Placed, FilesAre, ContainersAre, BaseIs, ScopeIs
  <2>4. Seen'
    BY <1>1 DEF Seen, Good, Containers
  <2>5. Ended'
    BY <1>1, <2>1, GoesOn DEF UpdateInv, Placed
  <2> QED
    BY <2>3, <2>4, <2>5 DEF UpdateInv
<1> QED
  BY <1>3, <1>4

LEMMA WaitKeeps ==
  ASSUME UpdateInv, Poll \/ EndWait
  PROVE  UpdateInv'
<1>1. seen \in [Services -> Statuses]
  BY DEF UpdateInv, Shape
<1>2. CASE SwapPoll
  <2>1. pc \in Waits /\ pc' \in Waits /\ seen' = seen
        /\ UNCHANGED <<waitFrame, disk, faults, unhealthy, scope, outcomeVars>>
    BY <1>2 DEF SwapPoll, Waits
  <2> QED
    BY <1>1, <2>1, WaitGoesOn
<1>3. CASE SwapCut \/ SwapTimeout
  <2>1. pc \in Waits /\ seen' = seen /\ UNCHANGED waitFrame
    BY <1>3 DEF SwapCut, SwapTimeout, Waits
  <2>2. \/ WaitFails({})
        \/ pc' \in Waits /\ UNCHANGED <<disk, faults, unhealthy, scope, outcomeVars>>
    BY <1>3 DEF SwapCut, SwapTimeout, Waits
  <2> QED
    BY <1>1, <2>1, <2>2, WaitThatFails, WaitGoesOn
<1>4. CASE HealthCut \/ HealthTimeout
  <2>1. pc \in Waits /\ seen' = seen /\ UNCHANGED waitFrame /\ WaitFails(NotHealthy(seen))
    BY <1>4 DEF HealthCut, HealthTimeout, CutVerdict, Waits
  <2> QED
    BY <1>1, <2>1, WaitThatFails
<1>5. CASE HealthPoll
  <2>1. PICK obs \in [monitored -> Observations] :
          /\ \A s \in monitored \ Containers : obs[s] = "down"
          /\ seen' = [s \in Services |-> IF s \in monitored THEN Status(s, obs[s]) ELSE seen[s]]
    BY <1>5 DEF HealthPoll
  <2>2. seen' \in [Services -> Statuses]
    <3>1. \A s \in monitored : Status(s, obs[s]) \in Statuses
      BY DEF Status, Statuses
    <3> QED
      BY <1>1, <2>1, <3>1
  <2>3. pc = "health" /\ ~Done /\ UNCHANGED waitFrame
    BY <1>5 DEF HealthPoll
  <2>4. \/ /\ NotHealthy(seen') = {}
           /\ WaitPasses /\ UNCHANGED <<disk, faults, unhealthy, scope>>
        \/ WaitFails(NotHealthy(seen'))
        \/ UNCHANGED <<pc, disk, faults, unhealthy, scope, outcomeVars>>
    BY <1>5 DEF HealthPoll
  <2>5. CASE NotHealthy(seen') = {} /\ WaitPasses /\ UNCHANGED <<disk, faults, unhealthy, scope>>
    BY <2>1, <2>2, <2>3, <2>5, PollIsTrue, PassKeeps
  <2>6. CASE WaitFails(NotHealthy(seen'))
    BY <2>2, <2>3, <2>6, WaitThatFails DEF Waits
  <2>7. CASE UNCHANGED <<pc, disk, faults, unhealthy, scope, outcomeVars>>
    BY <2>2, <2>3, <2>7, WaitGoesOn DEF Waits
  <2> QED
    BY <2>4, <2>5, <2>6, <2>7
<1> QED
  BY <1>2, <1>3, <1>4, <1>5 DEF Poll, EndWait

-----------------------------------------------------------------------------
(* The rollback.                                                           *)

(* Where nothing of the project is rolled back, its containers run what    *)
(* the files name, or are gone.                                            *)
LEMMA NothingToUndo ==
  ASSUME UpdateInv, Undoing, Pinned = {}, faults = {}, NEW s \in targets
  PROVE  running[s] \in {"none", disk[s]}
<1> USE DEF Before, Waits, Forward, Undoing, Undone, Deployed, Listed
<1>1. s \in stack.services /\ s \notin scope
  BY DEF UpdateInv, Shape, Pinned
<1>2. disk[s] = "new"
  BY <1>1 DEF UpdateInv, FilesAre
<1>3. running[s] \in {"none", "new"}
  BY <1>1 DEF UpdateInv, ContainersAre, ScopeIs
<1> QED
  BY <1>2, <1>3

LEMMA RecoverKeeps ==
  ASSUME UpdateInv, Recover
  PROVE  UpdateInv'
<1> USE DEF Before, Waits, Forward, Undoing, Undone, Deployed, Listed
<1>1. CASE RollbackEmpty
  <2>1. /\ pc = "rollback" /\ scope = {} /\ pc' = "done" /\ verdict' = "failed"
        /\ UNCHANGED <<stack, phase, disk, running, targets, base, fresh, monitored, seen, scope,
                       unhealthy, claim, cancelled, expired, faults, reached>>
    BY <1>1 DEF RollbackEmpty, End, planVars, waitVars, rollbackVars, clockVars
  <2>2. Shape' /\ Placed' /\ FilesAre' /\ ContainersAre' /\ BaseIs' /\ ScopeIs' /\ Seen'
    BY <2>1 DEF UpdateInv, Shape, Placed, FilesAre, ContainersAre, BaseIs, ScopeIs, Seen
  <2>3. faults = {} => \A s \in targets : running[s] \in {"none", disk[s]}
    BY <2>1, NothingToUndo DEF Pinned
  <2>4. Ended'
    BY <2>1, <2>3 DEF UpdateInv, Placed, Ended, CompletedIsVerified, DiskMatchesContainers,
       RollbackHealthyIsTrue
  <2> QED
    BY <2>2, <2>4 DEF UpdateInv
<1>2. CASE RollbackStart
  <2>1. /\ pc = "rollback" /\ pc' = "reload" /\ phase' = "rollback"
        /\ reached' = reached \cup {"rolledBack"} /\ RevertDisk(scope \cap targets)
        /\ UNCHANGED <<stack, running, targets, base, fresh, monitored, seen, scope, unhealthy,
                       claim, verdict>>
    BY <1>2 DEF RollbackStart, planVars, waitVars, outcomeVars
  <2>2. /\ disk' \in [Services -> Images] /\ faults \subseteq faults'
        /\ \A s \in targets : IF s \in scope THEN faults' = {} => disk'[s] = "old"
                              ELSE disk'[s] = disk[s]
    <3>1. scope \cap targets \in SUBSET Services /\ targets \subseteq Services
      BY DEF UpdateInv, Shape, Stacks
    <3> QED
      BY <2>1, <3>1, RevertFiles DEF UpdateInv
  <2>3. Shape' /\ Placed' /\ BaseIs' /\ ScopeIs' /\ Seen'
    BY <2>1, <2>2 DEF UpdateInv, Shape, Placed, Phases, BaseIs, ScopeIs, Seen
  <2>4. FilesAre' /\ ContainersAre'
    BY <2>1, <2>2 DEF UpdateInv, FilesAre, ContainersAre, Placed
  <2>5. Ended'
    BY <2>1, GoesOn DEF UpdateInv, Placed
  <2> QED
    BY <2>3, <2>4, <2>5 DEF UpdateInv
<1>3. CASE RollbackLoad
  <2>1. /\ pc = "reload"
        /\ UNCHANGED <<stack, phase, disk, running, targets, base, fresh, monitored, seen, scope,
                       unhealthy, claim, cancelled, expired, reached>>
        /\ faults \subseteq faults'
        /\ \/ pc' = "redeploy" /\ Pinned # {} /\ UNCHANGED <<faults, verdict>>
           \/ /\ pc' = "done" /\ verdict' = "failed"
              /\ (Pinned = {} /\ faults' = faults) \/ faults' # {} \/ Done
    BY <1>3 DEF RollbackLoad, Fault, End, planVars, waitVars, rollbackVars, clockVars, outcomeVars
  <2>2. RolledBack' = RolledBack /\ Pinned' = Pinned
    BY <2>1 DEF RolledBack, Pinned
  <2>3. Shape' /\ Placed' /\ FilesAre' /\ ContainersAre' /\ BaseIs' /\ ScopeIs' /\ Seen'
    BY <2>1, <2>2 DEF UpdateInv, Shape, Placed, FilesAre, ContainersAre, BaseIs, ScopeIs, Seen
  <2>4. CASE pc' = "redeploy"
    BY <2>1, <2>3, <2>4, GoesOn DEF UpdateInv, Placed
  <2>5. CASE pc' = "done"
    <3>1. faults' = {} /\ ~cancelled /\ "rollback" \notin expired =>
            \A s \in targets : running[s] \in {"none", disk[s]}
      BY <2>1, <2>5, NothingToUndo DEF UpdateInv, Placed, Done
    <3>2. Ended'
      BY <2>1, <2>5, <3>1 DEF UpdateInv, Placed, Ended, CompletedIsVerified,
         DiskMatchesContainers, RollbackHealthyIsTrue
    <3> QED
      BY <2>3, <3>2 DEF UpdateInv
  <2> QED
    BY <2>1, <2>4, <2>5
<1>4. CASE RollbackUp
  <2>1. /\ pc = "redeploy" /\ pc' = "verify"
        /\ UNCHANGED <<stack, phase, disk, targets, base, fresh, monitored, seen, scope,
                       unhealthy, claim, verdict, cancelled, expired, faults, reached>>
        /\ UpDone(RolledBack)
    BY <1>4 DEF RollbackUp, planVars, waitVars, rollbackVars, clockVars, outcomeVars
  <2>2. RolledBack' = RolledBack /\ Pinned' = Pinned
    BY <2>1 DEF RolledBack, Pinned
  <2>3. /\ running' \in [Services -> Images]
        /\ \A s \in stack.services : running'[s] = RolledBack[s]
    BY <2>1 DEF UpdateInv, Shape, Stacks, UpDone, RolledBack, Images
  <2>4. Shape' /\ Placed' /\ FilesAre' /\ BaseIs' /\ ScopeIs' /\ Seen'
    BY <2>1, <2>3 DEF UpdateInv, Shape, Placed, FilesAre, BaseIs, ScopeIs, Seen
  <2>5. ContainersAre'
    BY <2>1, <2>2, <2>3 DEF UpdateInv, ContainersAre, Placed
  <2>6. Ended'
    BY <2>1, GoesOn DEF UpdateInv, Placed
  <2> QED
    BY <2>4, <2>5, <2>6 DEF UpdateInv
<1>5. CASE RollbackUpFails
  <2>1. /\ pc = "redeploy" /\ pc' = "done" /\ verdict' = "failed"
        /\ UNCHANGED <<stack, phase, disk, targets, base, fresh, monitored, seen, scope,
                       unhealthy, claim, cancelled, expired, reached>>
        /\ UpPart(RolledBack) /\ (faults' # {} \/ Done)
    BY <1>5 DEF RollbackUpFails, Fault, End, planVars, waitVars, rollbackVars, clockVars
  <2>2. running' \in [Services -> Images]
    BY <2>1 DEF UpdateInv, Shape, Stacks, UpPart, RolledBack, Images
  <2>3. Shape' /\ Placed' /\ FilesAre' /\ ContainersAre' /\ BaseIs' /\ ScopeIs' /\ Seen'
    BY <2>1, <2>2 DEF UpdateInv, Shape, Placed, FilesAre, ContainersAre, BaseIs, ScopeIs, Seen
  <2>4. Ended'
    BY <2>1 DEF UpdateInv, Placed, Done, Ended, CompletedIsVerified, DiskMatchesContainers,
       RollbackHealthyIsTrue
  <2> QED
    BY <2>3, <2>4 DEF UpdateInv
<1>6. CASE RollbackVerify
  <2>1. /\ pc = "verify" /\ pc' = "swap" /\ Snapshot(monitored')
        /\ seen' = [s \in Services |-> "unseen"]
        /\ UNCHANGED <<stack, phase, disk, running, targets, base, fresh, scope,
                       unhealthy, claim, verdict, cancelled, expired, reached>>
    BY <1>6 DEF RollbackVerify, planVars, rollbackVars, clockVars, outcomeVars
  <2>2. /\ RolledBack' = RolledBack /\ Pinned' = Pinned /\ Done' = Done /\ Containers' = Containers
        /\ phase = "rollback"
    BY <2>1 DEF RolledBack, Pinned, Done, Containers, UpdateInv, Placed
  <2>3. /\ monitored' \subseteq Services /\ faults \subseteq faults'
        /\ "snapshot" \notin faults' /\ ~Done => monitored' = Containers
    BY <2>1, SnapshotIs DEF Containers
  <2>4. Shape' /\ Placed' /\ FilesAre' /\ ContainersAre' /\ BaseIs' /\ ScopeIs' /\ Seen'
    BY <2>1, <2>2, <2>3
       DEF UpdateInv, Shape, Statuses, Placed, FilesAre, ContainersAre, BaseIs, ScopeIs, Seen
  <2>5. Ended'
    BY <2>1, GoesOn DEF UpdateInv, Placed
  <2> QED
    BY <2>4, <2>5 DEF UpdateInv
<1> QED
  BY <1>1, <1>2, <1>3, <1>4, <1>5, <1>6 DEF Recover

-----------------------------------------------------------------------------
(* The network repair, and the clocks.                                     *)
LEMMA RepairKeeps ==
  ASSUME UpdateInv, Repair
  PROVE  UpdateInv'
<1> USE DEF Before, Waits, Forward, Undoing, Undone, Deployed, Listed
<1>1. /\ pc = "networks" /\ pc' = "done" /\ verdict' = "completed"
      /\ UNCHANGED <<stack, phase, disk, targets, base, fresh, monitored, seen, claim, faults>>
      /\ \/ UNCHANGED <<running, reached>>
         \/ /\ reached' = reached \cup {"repaired"}
            /\ UpDone(Pulled) \/ UpPart(Pulled)
  BY DEF Repair, NetworksFine, NetworksRepaired, End, planVars, waitVars
<1>2. /\ running' \in [Services -> Images]
      /\ \A s \in stack.services : running'[s] \in {"none", "new"}
  BY <1>1 DEF UpdateInv, Shape, Stacks, ContainersAre, UpDone, UpPart, Pulled, Images
<1>3. Shape' /\ Placed' /\ FilesAre' /\ ContainersAre' /\ BaseIs' /\ ScopeIs' /\ Seen'
  BY <1>1, <1>2 DEF UpdateInv, Shape, Placed, FilesAre, ContainersAre, BaseIs, ScopeIs, Seen
<1>4. DiskMatchesContainers'
  BY <1>1, <1>2 DEF UpdateInv, Shape, FilesAre, DiskMatchesContainers
<1>5. CompletedIsVerified'
  <2>1. CASE UNCHANGED <<running, reached>>
    BY <1>1, <2>1 DEF UpdateInv, BaseIs, Seen, Good, CompletedIsVerified
  <2>2. CASE "repaired" \in reached'
    BY <2>2 DEF CompletedIsVerified
  <2> QED
    BY <1>1, <2>1, <2>2
<1>6. RollbackHealthyIsTrue'
  BY <1>1 DEF UpdateInv, Placed, RollbackHealthyIsTrue
<1> QED
  BY <1>3, <1>4, <1>5, <1>6 DEF UpdateInv, Ended

LEMMA ClockKeeps ==
  ASSUME UpdateInv, Cancel \/ Expire
  PROVE  UpdateInv'
<1> USE DEF Before, Waits, Forward, Undoing, Undone, Deployed, Listed
<1>1. /\ pc # "done"
      /\ UNCHANGED <<stack, pc, phase, disk, running, targets, base, fresh, monitored, seen, scope,
                     unhealthy, claim, verdict, faults, reached>>
      /\ cancelled => cancelled'
      /\ expired \subseteq expired'
  BY DEF Cancel, Expire, planVars, waitVars, rollbackVars, outcomeVars
<1>2. /\ RolledBack' = RolledBack /\ Pinned' = Pinned /\ Containers' = Containers
      /\ ~Done' => ~Done
  BY <1>1 DEF RolledBack, Pinned, Done, Containers
<1>3. Shape' /\ Placed' /\ FilesAre' /\ ContainersAre' /\ BaseIs' /\ ScopeIs' /\ Seen'
  BY <1>1, <1>2
     DEF UpdateInv, Shape, Placed, FilesAre, ContainersAre, BaseIs, ScopeIs, Seen, Good
<1>4. Ended'
  BY <1>1, GoesOn DEF UpdateInv, Placed
<1> QED
  BY <1>3, <1>4 DEF UpdateInv

LEMMA RestsKeeps == UpdateInv /\ UNCHANGED vars => UpdateInv'
<1> SUFFICES ASSUME UpdateInv, UNCHANGED vars PROVE UpdateInv'
  OBVIOUS
<1> USE DEF Before, Waits, Forward, Undoing, Undone, Deployed, Listed
<1>1. UNCHANGED <<stack, pc, phase, disk, running, targets, base, fresh, monitored, seen, scope,
                  unhealthy, claim, verdict, faults, reached, cancelled, expired>>
  BY DEF vars, planVars, waitVars, rollbackVars, outcomeVars, clockVars
<1>2. /\ RolledBack' = RolledBack /\ Pinned' = Pinned /\ Containers' = Containers
      /\ Done' = Done
  BY <1>1 DEF RolledBack, Pinned, Done, Containers
<1>3. Shape' /\ Placed' /\ FilesAre' /\ ContainersAre' /\ BaseIs' /\ ScopeIs' /\ Seen'
  BY <1>1, <1>2
     DEF UpdateInv, Shape, Placed, FilesAre, ContainersAre, BaseIs, ScopeIs, Seen, Good
<1>4. Ended'
  BY <1>1, <1>2 DEF UpdateInv, Ended, CompletedIsVerified, DiskMatchesContainers,
     RollbackHealthyIsTrue
<1> QED
  BY <1>3, <1>4 DEF UpdateInv

(* The inductive invariant of the update.                                  *)
THEOREM UpdateIInv == Spec => []UpdateInv
<1>1. UpdateInv /\ [Next]_vars => UpdateInv'
  BY BeforeKeeps, UpKeeps, MonitorKeeps, WaitKeeps, RecoverKeeps, RepairKeeps, ClockKeeps,
     RestsKeeps DEF Next, Deploy
<1> QED
  BY InitUpdateInv, <1>1, PTL DEF Spec

(* A completed update has seen every container well (healthVerdict).       *)
THEOREM CompletedUpdatesAreVerified == Spec => []CompletedIsVerified
  BY UpdateIInv, PTL DEF UpdateInv, Ended

(* A stack that was up ends with files and containers in agreement,        *)
(* wherever its update failed, unless the recovery failed too or was cut   *)
(* short (persistTargets, rollback).                                       *)
THEOREM DiskAlwaysMatches == Spec => []DiskMatchesContainers
  BY UpdateIInv, PTL DEF UpdateInv, Ended

(* A rollback that reports healthy has seen it (rollback's closing line).  *)
THEOREM HealthyRollbacksAreTrue == Spec => []RollbackHealthyIsTrue
  BY UpdateIInv, PTL DEF UpdateInv, Ended

(* A rollback brings back its scope and nothing else (rollbackScope).      *)
THEOREM RollbackScopesAreKept == Spec => []RollbackScopeIsKept
<1>1. UpdateInv => RollbackScopeIsKept
  <2> SUFFICES ASSUME UpdateInv, claim # "none", NEW s \in stack.services \cap base
               PROVE  (running[s] = "old") <=> \/ stack.wholeStack
                                              \/ "deployed" \notin reached
                                              \/ s \in unhealthy
    BY DEF RollbackScopeIsKept
  <2>1. Undone
    BY DEF Undone
  <2>2. running[s] = RolledBack[s] /\ s \in Services
    BY <2>1 DEF UpdateInv, ContainersAre, Shape, Stacks
  <2>3. s \in targets \ scope => disk[s] = "new"
    BY <2>1 DEF UpdateInv, FilesAre
  <2>4. running[s] = "old" <=> s \in scope
    BY <2>2, <2>3 DEF RolledBack, Pinned
  <2>5. scope = IF stack.wholeStack \/ ~Deployed THEN base ELSE unhealthy
    BY <2>1 DEF UpdateInv, ScopeIs
  <2> QED
    BY <2>4, <2>5 DEF Deployed
<1> QED
  BY <1>1, UpdateIInv, PTL

=============================================================================
