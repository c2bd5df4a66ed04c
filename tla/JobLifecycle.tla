---------------------------- MODULE JobLifecycle ----------------------------
(***************************************************************************)
(* The life of a job: jobRegistry.start and cancelJob (jobs.go), the state *)
(* changes of types.go, engine.run (engine.go), the event hook that writes *)
(* the compose_jobs row and the durable outbox (events.go), the agent's    *)
(* crash, and the boot sweep and reconcile that repair what it left        *)
(* (orphan_sweep.go, app.go).                                              *)
(*                                                                         *)
(* Two kinds of goroutine act on a job: its runner and cancel requests.    *)
(* Each critical section of Job.mu is one step.  The hook runs under       *)
(* emitMu in three steps (snapshot, row, outbox), so Job.mu sections of    *)
(* others fall between them, and the agent may die between any two steps.  *)
(***************************************************************************)
EXTENDS Naturals, Sequences, FiniteSets

CONSTANTS
  Jobs,        \* job ids: uuids, each started at most once
  Cancels,     \* concurrent cancel requests
  NoJob,       \* the target of a cancel request that is not running
  NoActor,     \* emitMu is free
  Retained,    \* recentJobsRetained: jobs kept in memory before eviction
  MaxFaults    \* bound on agent deaths and failed statements on compose_jobs

ASSUME ActorsAssumption == /\ Jobs \cap Cancels = {} /\ NoJob \notin Jobs
                           /\ NoActor \notin Jobs \cup Cancels
ASSUME BoundsAssumption == {Retained, MaxFaults} \subseteq Nat

VARIABLES
  agent,      \* "flip" and "announce": the two parts of the boot sweep; "up"
  faults,     \* deaths of the agent and failed statements so far
  state,      \* Job.State, with "unborn" before start and "gone" after a crash
  inMap,      \* the ids in jobRegistry.jobs
  ends,       \* the jobs with a CompletedAt, in its order
  runner,     \* how far the job's goroutine is
  target,     \* the job a cancel request is cancelling
  emit,       \* each goroutine's progress through onChange
  emitMu,     \* the goroutine inside the event hook
  row,        \* the job's state in compose_jobs, or "absent"
  stale,      \* jobs whose last write to compose_jobs failed
  aged,       \* jobs whose row ended longer ago than a reconcile looks back
  known,      \* the controller's picture of each job
  swept       \* swept jobs whose event the boot has yet to enqueue

mem == <<state, inMap, ends, runner, target, emit, emitMu>>
disk == <<row, stale, aged, known>>
vars == <<agent, faults, mem, disk, swept>>

Actors == Jobs \cup Cancels

Terminal == {"completed", "failed", "cancelled"}
States == {"pending", "running"} \cup Terminal
Events == {"started"} \cup Terminal
NoEmit == [step |-> "none", event |-> "started", snap |-> "pending"]

JobOf(a) == IF a \in Jobs THEN a ELSE target[a]
Emitting(j) == \E a \in Actors : JobOf(a) = j /\ emit[a].step # "none"

(* The outbox is durable and delivers in order, so what the controller     *)
(* knows of a job is the last event enqueued for it, until a reconcile     *)
(* tells it that a job it believes active has ended.                       *)
NoEvent == [event |-> "none", state |-> "none"]

Init ==
  /\ agent = "flip" /\ faults = 0
  /\ state = [j \in Jobs |-> "unborn"]
  /\ inMap = {}
  /\ ends = <<>>
  /\ runner = [j \in Jobs |-> "none"]
  /\ target = [c \in Cancels |-> NoJob]
  /\ emit = [a \in Actors |-> NoEmit]
  /\ emitMu = NoActor
  /\ row = [j \in Jobs |-> "absent"]
  /\ stale = {} /\ aged = {}
  /\ known = [j \in Jobs |-> NoEvent]
  /\ swept = {}

-----------------------------------------------------------------------------
(* onChange: the hook's three steps, one goroutine at a time. *)

(* The goroutine a is about to call onChange(e). *)
Announces(a, e) ==
  emit' = [emit EXCEPT ![a] = [step |-> "want", event |-> e, snap |-> "pending"]]

HookBusy == TRUE                                        \* seeded fault
HookFree == emitMu = NoActor

EmitSnapshot(a) ==
  /\ emit[a].step = "want"
  /\ HookFree
  /\ emitMu' = a
  /\ emit' = [emit EXCEPT ![a].step = "snapped", ![a].snap = state[JobOf(a)]]
  /\ UNCHANGED <<agent, faults, state, inMap, ends, runner, target, disk,
                 swept>>

(* upsertJob: an error is only logged. *)
EmitRow(a) ==
  /\ emit[a].step = "snapped"
  /\ emit' = [emit EXCEPT ![a].step = "stored"]
  /\ \/ /\ row' = [row EXCEPT ![JobOf(a)] = emit[a].snap]
        /\ stale' = stale \ {JobOf(a)}
        /\ UNCHANGED faults
     \/ /\ faults < MaxFaults
        /\ faults' = faults + 1
        /\ stale' = stale \cup {JobOf(a)}
        /\ UNCHANGED row
  /\ UNCHANGED <<agent, state, inMap, ends, runner, target, emitMu,
                 aged, known, swept>>

(* Enqueue, and the end of onChange; a cancel request then answers 200. *)
EmitEnqueue(a) ==
  /\ emit[a].step = "stored"
  /\ known' = [known EXCEPT ![JobOf(a)] =
                     [event |-> emit[a].event, state |-> emit[a].snap]]
  /\ emit' = [emit EXCEPT ![a] = NoEmit]
  /\ emitMu' = NoActor
  /\ target' = IF a \in Cancels THEN [target EXCEPT ![a] = NoJob] ELSE target
  /\ UNCHANGED <<agent, faults, state, inMap, ends, runner, row, stale,
                 aged, swept>>

EmitStep(a) == EmitSnapshot(a) \/ EmitRow(a) \/ EmitEnqueue(a)

-----------------------------------------------------------------------------
(* jobRegistry.start, with its eviction of the oldest finished jobs.       *)

Earlier(i, j) == \E m, n \in DOMAIN ends : m < n /\ ends[m] = i /\ ends[n] = j

Finished(S) == {j \in S : state[j] \in Terminal}

(* evictOldLocked on map m may delete the jobs E: as many finished ones as *)
(* the map exceeds its limit by, if there are that many, oldest first.     *)
Evicts(m, E) ==
  LET old == Finished(m)
      excess == IF Cardinality(m) > Retained THEN Cardinality(m) - Retained ELSE 0
  IN /\ E \subseteq old
     /\ Cardinality(E) = IF excess < Cardinality(old) THEN excess
                         ELSE Cardinality(old)
     /\ \A e \in E, k \in old \ E : ~Earlier(k, e)

Start(j) ==
  /\ agent = "up"
  /\ state[j] = "unborn"
  /\ state' = [state EXCEPT ![j] = "pending"]
  /\ \E E \in SUBSET inMap : /\ Evicts(inMap \cup {j}, E)
                             /\ inMap' = (inMap \cup {j}) \ E
  /\ runner' = [runner EXCEPT ![j] = "ready"]
  /\ UNCHANGED <<agent, faults, ends, target, emit, emitMu, disk, swept>>

-----------------------------------------------------------------------------
(* engine.run.  setRunning does not look at the state it overwrites.       *)
SetRunning(j) ==
  /\ runner[j] = "ready"
  /\ state' = [state EXCEPT ![j] = "running"]
  /\ runner' = [runner EXCEPT ![j] = "working"]
  /\ Announces(j, "started")
  /\ UNCHANGED <<agent, faults, inMap, ends, target, emitMu, disk, swept>>

(* Job j ends, for the last time so far. *)
EndedNow(j) == Append(SelectSeq(ends, LAMBDA k : k # j), j)

AlwaysMarked(j, s) ==                                   \* seeded fault
  /\ state' = [state EXCEPT ![j] = s]
  /\ ends' = EndedNow(j)

(* markCompleted and markFailed leave a cancelled job alone. *)
Marked(j, s) ==
  IF state[j] = "cancelled"
  THEN UNCHANGED <<state, ends>>
  ELSE /\ state' = [state EXCEPT ![j] = s]
       /\ ends' = EndedNow(j)

(* The operation ends, well or not; a cancelled context makes it end soon. *)
OperationEnds(j) ==
  /\ runner[j] = "working" /\ emit[j].step = "none"
  /\ \E s \in {"completed", "failed"} : Marked(j, s)
  /\ runner' = [runner EXCEPT ![j] = "closing"]
  /\ UNCHANGED <<agent, faults, inMap, target, emit, emitMu, disk, swept>>

(* run announces the state it finds: cancelled, completed, else failed. *)
AnnounceEnd(j) ==
  /\ runner[j] = "closing"
  /\ runner' = [runner EXCEPT ![j] = "ended"]
  /\ Announces(j, IF state[j] \in {"cancelled", "completed"} THEN state[j]
                  ELSE "failed")
  /\ UNCHANGED <<agent, faults, state, inMap, ends, target, emitMu, disk,
                 swept>>

RunnerStep(j) == SetRunning(j) \/ OperationEnds(j) \/ AnnounceEnd(j)

-----------------------------------------------------------------------------
(* cancelJob: a job that is not in the map or is terminal is refused, and  *)
(* then nothing changes; otherwise the request is answered after its event.*)
Cancel(c, j) ==
  /\ agent = "up"
  /\ target[c] = NoJob
  /\ j \in inMap /\ state[j] \notin Terminal
  /\ state' = [state EXCEPT ![j] = "cancelled"]
  /\ ends' = EndedNow(j)
  /\ target' = [target EXCEPT ![c] = j]
  /\ Announces(c, "cancelled")
  /\ UNCHANGED <<agent, faults, inMap, runner, emitMu, disk, swept>>

-----------------------------------------------------------------------------
(* The agent dies: what is in memory is lost, the database is not. *)
Crash ==
  /\ faults < MaxFaults
  /\ faults' = faults + 1
  /\ agent' = "flip"
  /\ state' = [j \in Jobs |-> IF state[j] = "unborn" THEN "unborn" ELSE "gone"]
  /\ inMap' = {}
  /\ ends' = <<>>
  /\ runner' = [j \in Jobs |-> "none"]
  /\ target' = [c \in Cancels |-> NoJob]
  /\ emit' = [a \in Actors |-> NoEmit]
  /\ emitMu' = NoActor
  /\ swept' = {}
  /\ UNCHANGED disk

Active == {"pending", "running"}

PendingOnly == {j \in Jobs : row[j] = "pending"}        \* seeded fault
Orphans == {j \in Jobs : row[j] \in Active}

(* sweepOrphanJobs, before the listener opens: one statement flips the     *)
(* rows; when it fails, the boot goes on without a sweep.                  *)
SweepRows ==
  /\ agent = "flip"
  /\ \/ /\ row' = [j \in Jobs |-> IF j \in Orphans THEN "failed" ELSE row[j]]
        /\ stale' = stale \ Orphans
        /\ swept' = Orphans
        /\ agent' = "announce"
        /\ UNCHANGED faults
     \/ /\ faults < MaxFaults
        /\ faults' = faults + 1
        /\ stale' = stale \cup Orphans
        /\ agent' = "up"
        /\ UNCHANGED <<row, swept>>
  /\ UNCHANGED <<mem, aged, known>>

(* ... then an event for each is enqueued; a row that cannot be read back  *)
(* (getJob) is skipped.                                                    *)
SweepEnqueue(j) ==
  /\ agent = "announce" /\ j \in swept
  /\ swept' = swept \ {j}
  /\ \/ /\ known' = [known EXCEPT ![j] =
                           [event |-> "failed", state |-> "failed"]]
        /\ UNCHANGED faults
     \/ /\ faults < MaxFaults
        /\ faults' = faults + 1
        /\ UNCHANGED known
  /\ UNCHANGED <<agent, mem, row, stale, aged>>

Listen ==
  /\ agent = "announce" /\ swept = {}
  /\ agent' = "up"
  /\ UNCHANGED <<faults, mem, disk, swept>>

(* A day goes by on which no reconcile gets through, because the agent is  *)
(* down or the controller is not reached: what had ended leaves the window *)
(* of the reconcile (RecentTerminalPredicate).  Days are only worth a step *)
(* for that, and an operation takes less than one.                         *)
Retired(j) == /\ row[j] \in Terminal
              /\ runner[j] \in {"none", "ended"} /\ ~Emitting(j)

DayPasses ==
  /\ agent \in {"flip", "up"}
  /\ aged' = aged \cup {j \in Jobs : Retired(j)}
  /\ aged' # aged
  /\ UNCHANGED <<agent, faults, mem, row, stale, known, swept>>

(* startReconcile: at boot and every five minutes the job rows are posted  *)
(* to the controller (ListForReconcile, POST /api/docker/reconcile), those *)
(* that ended within a day; it settles the jobs whose end it had not heard.*)
NoneEnded == {}                                         \* seeded fault
Unheard == {j \in Jobs \ aged :
              row[j] \in Terminal /\ known[j].event \notin Terminal}

Reconcile ==
  /\ agent = "up"
  /\ Unheard # {}
  /\ known' = [j \in Jobs |-> IF j \in Unheard
                              THEN [event |-> row[j], state |-> row[j]]
                              ELSE known[j]]
  /\ UNCHANGED <<agent, faults, mem, row, stale, aged, swept>>

Boot == SweepRows \/ (\E j \in Jobs : SweepEnqueue(j)) \/ Listen

Next == \/ \E j \in Jobs : Start(j) \/ RunnerStep(j)
        \/ \E a \in Actors : EmitStep(a)
        \/ \E c \in Cancels, j \in Jobs : Cancel(c, j)
        \/ Crash \/ Boot \/ DayPasses \/ Reconcile

Spec == Init /\ [][Next]_vars

(* Goroutines are scheduled, an operation ends (composeOpTimeout bounds a  *)
(* compose operation, the daemon answers a container verb), the boot runs  *)
(* and reconcile recurs.  Requests, crashes and days are never forced.     *)
Fairness == /\ \A j \in Jobs : WF_vars(RunnerStep(j))
            /\ \A a \in Actors : WF_vars(EmitStep(a))
            /\ WF_vars(Boot) /\ WF_vars(Reconcile)

FairSpec == Spec /\ Fairness

-----------------------------------------------------------------------------
(* Every variable holds a value of its Go or column type. *)
TypeOK ==
  /\ agent \in {"flip", "announce", "up"} /\ faults \in 0..MaxFaults
  /\ state \in [Jobs -> {"unborn", "gone"} \cup States]
  /\ inMap \subseteq {j \in Jobs : state[j] \notin {"unborn", "gone"}}
  /\ ends \in Seq(Jobs) /\ \A j \in Jobs : Len(SelectSeq(ends, LAMBDA k : k = j)) <= 1
  /\ runner \in [Jobs -> {"none", "ready", "working", "closing", "ended"}]
  /\ target \in [Cancels -> Jobs \cup {NoJob}]
  /\ emit \in [Actors -> [step : {"none", "want", "snapped", "stored"},
                          event : Events, snap : States]]
  /\ emitMu \in Actors \cup {NoActor}
  /\ row \in [Jobs -> States \cup {"absent"}]
  /\ stale \subseteq Jobs /\ aged \subseteq Jobs
  /\ known \in [Jobs -> [event : Events, state : States] \cup {NoEvent}]
  /\ swept \subseteq Jobs

(* When a job's goroutine and all cancels of it are through, the row and   *)
(* the last event the controller gets carry the job's final state: the     *)
(* hook takes its snapshot under emitMu, so an older state is never        *)
(* written over a newer one.  A failed row write is the only exception.    *)
RecordsConverge ==
  \A j \in Jobs : runner[j] = "ended" /\ ~Emitting(j) =>
    /\ known[j].state = state[j]
    /\ j \notin stale => row[j] = state[j]

(* Once the agent serves, every row that says pending or running belongs   *)
(* to a job whose goroutine is still at work: the sweep leaves no zombies. *)
NoZombieRows ==
  agent = "up" =>
    \A j \in Jobs \ stale : row[j] \in Active =>
      runner[j] \in {"working", "closing"} \/ Emitting(j)

(* From the start of its operation on, a job that reached a terminal state *)
(* keeps it: the end of the operation does not turn a cancelled job into a *)
(* completed one, nor a late cancel a completed one into a cancelled one.  *)
OutcomeIsFinal ==
  [][\A j \in Jobs : runner[j] # "ready" /\ state[j] \in Terminal =>
       state'[j] \in {state[j], "gone"}]_vars

(* The controller is never left with a job that runs forever: if a job has *)
(* a row, then from some time on the controller knows its end, however     *)
(* often the agent dies, also between the sweep of a row and its event or  *)
(* after a sweep that skipped it.  Two exceptions: the last write of the   *)
(* row failed, or a whole day passed after its end without a reconcile.    *)
ControllerLearnsEnd ==
  \A j \in Jobs : row[j] # "absent" ~>
    [](j \in stale \cup aged \/ known[j].event \in Terminal)

(* "markFailed sets the terminal failure state (unless cancelled)": a job  *)
(* whose cancellation was accepted stays cancelled.  The code breaks this  *)
(* when the cancel arrives before the goroutine's setRunning.              *)
CancelIsFinal ==
  [][\A j \in Jobs : state[j] = "cancelled" =>
       state'[j] \in {"cancelled", "gone"}]_vars

=============================================================================
