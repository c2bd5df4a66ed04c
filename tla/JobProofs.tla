------------------------------ MODULE JobProofs ------------------------------
(***************************************************************************)
(* The safety properties of the two components about jobs, JobLifecycle    *)
(* and LogStream, one after the other; they share no state.                *)
(*                                                                         *)
(* JobLifecycle, for any jobs, cancel requests, restarts, failed           *)
(* statements and days.  A job's state changes only with an event still to *)
(* come, and the hook lets one event through at a time, so once a job has  *)
(* ended either somebody has yet to take a snapshot, or the one in the     *)
(* hook carries the final state, or all records have it (Settled).         *)
(*                                                                         *)
(* LogStream, for any workers, viewers and sizes.  Lines are numbered when *)
(* appended and have one sender each, and a viewer has been given, or will *)
(* be sent, only different lines later than its backlog (Delivered): so a  *)
(* full channel means a viewer with more than a channel's lines to read    *)
(* (Noticed, Behind), and only such a viewer loses lines.  The closing line has the log to itself (Last).     *)
(***************************************************************************)
EXTENDS JobLifecycle, LogStream, SequenceTheorems, FiniteSetTheorems, TLAPS

-----------------------------------------------------------------------------
(* JobLifecycle.                                                           *)

Steps == {"none", "want", "snapped", "stored"}
Stages == {"none", "ready", "working", "closing", "ended"}
Emissions == [step : Steps, event : Events, snap : {"unborn", "gone"} \cup States]

Typed ==
  /\ agent \in {"flip", "announce", "up"}
  /\ state \in [Jobs -> {"unborn", "gone"} \cup States] /\ inMap \subseteq Jobs
  /\ runner \in [Jobs -> Stages]
  /\ target \in [Cancels -> Jobs \cup {NoJob}]
  /\ emit \in [Actors -> Emissions]
  /\ row \in [Jobs -> {"absent", "unborn", "gone"} \cup States] /\ stale \subseteq Jobs
  /\ known \in [Jobs -> [event : Events \cup {"none"},
                         state : {"none", "unborn", "gone"} \cup States]]

InHook(a) == emit[a].step \in {"snapped", "stored"}

(* What a job is at each step of its goroutine. *)
Stage(j) ==
  /\ runner[j] = "none" => state[j] \in {"unborn", "gone"} /\ j \notin inMap
  /\ runner[j] \in {"none", "ready", "closing"} => emit[j].step = "none"
  /\ runner[j] = "ready" => state[j] \in {"pending", "cancelled"}
  /\ runner[j] = "working" => state[j] \in {"running", "cancelled"}
  /\ runner[j] \in {"closing", "ended"} => state[j] \in Terminal
  /\ runner[j] = "ended" /\ emit[j].step # "none" => emit[j].event \in Terminal
Staged == \A j \in Jobs : Stage(j)

(* What a cancel request waits for. *)
Cancelling(c) ==
  IF emit[c].step = "none" THEN target[c] = NoJob
  ELSE /\ target[c] \in Jobs /\ emit[c].event = "cancelled"
       /\ runner[target[c]] # "none"
       /\ runner[target[c]] = "ready" => /\ state[target[c]] = "cancelled"
                                         /\ InHook(c) => emit[c].snap \in Terminal
Cancelled == \A c \in Cancels : Cancelling(c)

Hooked == \A a \in Actors : InHook(a) <=> emitMu = a
Quiet == agent # "up" => \A j \in Jobs : runner[j] = "none"

(* The final state of a job is on its way to its records, or there. *)
RowIs(j) == j \notin stale => row[j] = state[j]
Wanted(j) == \E a \in Actors : JobOf(a) = j /\ emit[a].step = "want"
Carried(j) == \E a \in Actors : /\ JobOf(a) = j /\ InHook(a) /\ emit[a].snap = state[j]
                                /\ emit[a].step = "stored" => RowIs(j)
Told(j) == /\ ~Emitting(j) /\ RowIs(j)
           /\ known[j].state = state[j] /\ known[j].event \in Terminal
Settled == \A j \in Jobs : runner[j] = "ended" => Wanted(j) \/ Carried(j) \/ Told(j)

(* A job that does not work has no row that says it does. *)
Rowed == agent # "flip" =>
           \A j \in Jobs \ stale : runner[j] \in {"none", "ready"} => row[j] \notin Active

IInv == Typed /\ Staged /\ Cancelled /\ Hooked /\ Quiet /\ Settled /\ Rowed

-----------------------------------------------------------------------------
(* No actor is both a job and a cancel request, and none is nobody.        *)
LEMMA Sets ==
  /\ Jobs \cap Cancels = {} /\ Jobs \subseteq Actors /\ Cancels \subseteq Actors
  /\ NoJob \notin Jobs /\ NoActor \notin Actors
  BY ActorsAssumption DEF Actors

(* Initially nothing is recorded and nobody is at work.                    *)
LEMMA InitIInv == Init => IInv
<1> SUFFICES ASSUME Init PROVE IInv
  OBVIOUS
<1>1. Typed
  <2>1. NoEmit \in Emissions
    BY DEF NoEmit, Emissions, Steps, Events, States
  <2> QED
    BY <2>1 DEF Init, Typed, Stages, NoEvent
<1>2. Staged /\ Cancelled /\ Hooked /\ Quiet
  BY Sets DEF Init, Staged, Stage, Cancelled, Cancelling, Hooked, InHook, Quiet, NoEmit
<1>3. Settled /\ Rowed
  BY DEF Init, Settled, Rowed, Active
<1> QED
  BY <1>1, <1>2, <1>3 DEF IInv

-----------------------------------------------------------------------------
(* Frames: what a step leaves alone.                                       *)
SameJob(j) == /\ state'[j] = state[j] /\ runner'[j] = runner[j] /\ emit'[j] = emit[j]
              /\ j \in inMap' => j \in inMap
SameCancel(c) == emit'[c] = emit[c] /\ target'[c] = target[c]

LEMMA StageFrame ==
  ASSUME IInv, NEW j \in Jobs, SameJob(j)
  PROVE  Stage(j)'
  BY DEF IInv, Staged, Stage, SameJob

(* A cancel request is disturbed only by a job that becomes ready or loses *)
(* its goroutine.                                                          *)
LEMMA CancelFrame ==
  ASSUME IInv, NEW c \in Cancels, SameCancel(c),
         target[c] \in Jobs /\ emit[c].step # "none" =>
           \/ state'[target[c]] \in {state[target[c]], "cancelled"} /\ runner'[target[c]] = runner[target[c]]
           \/ runner'[target[c]] \notin {"none", "ready"}
  PROVE  Cancelling(c)'
  BY DEF IInv, Cancelled, Cancelling, SameCancel, InHook

(* A job's records are untouched.                                          *)
SameRecords(j) == /\ row'[j] = row[j] /\ known'[j] = known[j]
                  /\ j \in stale' <=> j \in stale
SameEmitters(j) == \A a \in Actors : \/ emit'[a] = emit[a] /\ JobOf(a)' = JobOf(a)
                                     \/ JobOf(a)' # j /\ JobOf(a) # j
LEMMA SettledFrame ==
  ASSUME IInv, NEW j \in Jobs, SameRecords(j), SameEmitters(j),
         runner'[j] = "ended" => state'[j] = state[j] /\ runner[j] = "ended"
  PROVE  runner'[j] = "ended" => Wanted(j)' \/ Carried(j)' \/ Told(j)'
<1> SUFFICES ASSUME runner'[j] = "ended" PROVE Wanted(j)' \/ Carried(j)' \/ Told(j)'
  OBVIOUS
<1>1. state'[j] = state[j] /\ runner[j] = "ended"
  OBVIOUS
<1>2. CASE Wanted(j)
  <2>1. Wanted(j)'
    BY <1>2 DEF Wanted, SameEmitters
  <2> QED
    BY <2>1
<1>3. CASE Carried(j)
  <2>1. Carried(j)'
    BY <1>1, <1>3 DEF Carried, SameEmitters, SameRecords, RowIs, InHook
  <2> QED
    BY <2>1
<1>4. CASE Told(j)
  <2>1. Told(j)'
    BY <1>1, <1>4 DEF Told, SameEmitters, SameRecords, RowIs, Emitting
  <2> QED
    BY <2>1
<1> QED
  BY <1>1, <1>2, <1>3, <1>4 DEF IInv, Settled

(* An actor announces: nobody is in the hook who was not.                  *)
LEMMA AnnounceEffect ==
  ASSUME IInv, NEW a \in Actors, NEW e \in Events, Announces(a, e), emit[a].step = "none"
  PROVE  /\ emit' \in [Actors -> Emissions]
         /\ emit'[a].step = "want" /\ emit'[a].event = e
         /\ \A b \in Actors \ {a} : emit'[b] = emit[b]
         /\ \A b \in Actors : InHook(b)' <=> InHook(b)
<1>1. [step |-> "want", event |-> e, snap |-> "pending"] \in Emissions
  BY DEF Emissions, Steps, States
<1> QED
  BY <1>1 DEF IInv, Typed, Announces, InHook

(* Who announces something announces it of a job that has a goroutine.     *)
LEMMA EmitterOfJob ==
  ASSUME IInv, NEW a \in Actors, emit[a].step # "none"
  PROVE  JobOf(a) \in Jobs /\ runner[JobOf(a)] # "none"
  BY DEF IInv, Staged, Stage, Cancelled, Cancelling, JobOf, Actors

-----------------------------------------------------------------------------
(* The steps of a job's goroutine.                                         *)
LEMMA StartKeeps ==
  ASSUME IInv, NEW j \in Jobs, Start(j)
  PROVE  IInv'
<1>1. runner[j] = "none" /\ emit[j].step = "none"
  BY DEF IInv, Typed, Staged, Stage, Start, Stages, Terminal
<1>2. /\ state'[j] = "pending" /\ runner'[j] = "ready" /\ emit'[j] = emit[j]
      /\ \A i \in Jobs \ {j} : SameJob(i)
      /\ UNCHANGED <<agent, target, emit, emitMu, row, stale, known>>
  BY DEF IInv, Typed, Start, SameJob, disk
<1>3. Typed'
  <2>1. inMap' \subseteq Jobs
    BY DEF IInv, Typed, Start
  <2> QED
    BY <1>2, <2>1 DEF IInv, Typed, Start, Stages, States
<1>4. Staged'
  <2>1. Stage(j)'
    BY <1>1, <1>2 DEF Stage, Terminal
  <2> QED
    BY <1>2, <2>1, StageFrame DEF Staged
<1>5. Cancelled'
  <2> SUFFICES ASSUME NEW c \in Cancels PROVE Cancelling(c)'
    BY DEF Cancelled
  <2>1. emit[c].step # "none" => target[c] \in Jobs \ {j}
    BY <1>1 DEF IInv, Cancelled, Cancelling
  <2> QED
    BY <1>2, <2>1, CancelFrame DEF SameCancel, SameJob
<1>6. Hooked' /\ Quiet'
  BY <1>2 DEF IInv, Hooked, Quiet, InHook, Start
<1>7. Settled'
  <2> SUFFICES ASSUME NEW i \in Jobs, runner'[i] = "ended"
               PROVE  Wanted(i)' \/ Carried(i)' \/ Told(i)'
    BY DEF Settled
  <2>1. SameRecords(i) /\ SameEmitters(i) /\ i # j /\ SameJob(i)
    BY <1>2 DEF SameRecords, SameEmitters, JobOf
  <2> QED
    BY <2>1, SettledFrame DEF SameJob
<1>8. Rowed'
  BY <1>1, <1>2 DEF IInv, Rowed, Start, SameJob
<1> QED
  BY <1>3, <1>4, <1>5, <1>6, <1>7, <1>8 DEF IInv

(* What the steps of one goroutine have in common: all else follows when   *)
(* its job and its records are in order.                                   *)
LEMMA RunnerFrame ==
  ASSUME IInv, NEW j \in Jobs, runner[j] # "none", runner'[j] \notin {"none", "ready"},
         \A i \in Jobs \ {j} : SameJob(i), \A a \in Actors \ {j} : emit'[a] = emit[a],
         UNCHANGED <<agent, target, emitMu, row, stale, known>>,
         \A a \in Actors : InHook(a)' <=> InHook(a),
         Typed', Stage(j)', runner'[j] = "ended" => Wanted(j)'
  PROVE  IInv'
<1>1. Staged'
  BY StageFrame DEF Staged
<1>2. Cancelled'
  <2> SUFFICES ASSUME NEW c \in Cancels PROVE Cancelling(c)'
    BY DEF Cancelled
  <2>1. SameCancel(c)
    BY Sets DEF SameCancel
  <2> QED
    BY <2>1, CancelFrame DEF SameJob
<1>3. Hooked' /\ Quiet'
  BY DEF IInv, Hooked, Quiet, SameJob
<1>4. Settled'
  <2> SUFFICES ASSUME NEW i \in Jobs, runner'[i] = "ended"
               PROVE  Wanted(i)' \/ Carried(i)' \/ Told(i)'
    BY DEF Settled
  <2>1. CASE i = j
    BY <2>1
  <2>2. CASE i # j
    <3>1. SameRecords(i) /\ SameEmitters(i) /\ SameJob(i)
      BY <2>2, Sets DEF SameRecords, SameEmitters, JobOf
    <3> QED
      BY <3>1, SettledFrame DEF SameJob
  <2> QED
    BY <2>1, <2>2
<1>5. Rowed'
  BY DEF IInv, Rowed, SameJob
<1> QED
  BY <1>1, <1>2, <1>3, <1>4, <1>5 DEF IInv

LEMMA SetRunningKeeps ==
  ASSUME IInv, NEW j \in Jobs, SetRunning(j)
  PROVE  IInv'
<1>1. emit[j].step = "none" /\ j \in Actors /\ "started" \in Events
  BY Sets DEF IInv, Staged, Stage, SetRunning, Events
<1>2. /\ emit' \in [Actors -> Emissions] /\ emit'[j].step = "want"
      /\ \A b \in Actors \ {j} : emit'[b] = emit[b]
      /\ \A b \in Actors : InHook(b)' <=> InHook(b)
  BY <1>1, AnnounceEffect DEF SetRunning
<1>3. /\ state'[j] = "running" /\ runner'[j] = "working"
      /\ \A i \in Jobs \ {j} : SameJob(i)
      /\ UNCHANGED <<agent, target, emitMu, row, stale, known>>
  BY <1>2, Sets DEF IInv, Typed, SetRunning, SameJob, disk
<1>4. Typed'
  BY <1>2, <1>3 DEF IInv, Typed, SetRunning, Stages, States
<1>5. Stage(j)'
  BY <1>3 DEF Stage
<1> QED
  BY <1>2, <1>3, <1>4, <1>5, RunnerFrame DEF SetRunning

LEMMA OperationEndsKeeps ==
  ASSUME IInv, NEW j \in Jobs, OperationEnds(j)
  PROVE  IInv'
<1>1. /\ state'[j] \in Terminal /\ runner'[j] = "closing" /\ state' \in [Jobs -> {"unborn", "gone"} \cup States]
      /\ \A i \in Jobs \ {j} : SameJob(i)
      /\ UNCHANGED <<agent, target, emit, emitMu, row, stale, known>>
  BY Sets DEF IInv, Typed, OperationEnds, Marked, SameJob, disk, Terminal, States
<1>2. Typed'
  BY <1>1 DEF IInv, Typed, OperationEnds, Stages
<1>3. Stage(j)'
  BY <1>1 DEF Stage, OperationEnds
<1> QED
  BY <1>1, <1>2, <1>3, RunnerFrame DEF OperationEnds, InHook

LEMMA AnnounceEndKeeps ==
  ASSUME IInv, NEW j \in Jobs, AnnounceEnd(j)
  PROVE  IInv'
<1> DEFINE e == IF state[j] \in {"cancelled", "completed"} THEN state[j] ELSE "failed"
<1>1. emit[j].step = "none" /\ j \in Actors /\ e \in Terminal /\ e \in Events
  BY Sets DEF IInv, Staged, Stage, AnnounceEnd, Events, Terminal
<1>2. /\ emit' \in [Actors -> Emissions] /\ emit'[j].step = "want" /\ emit'[j].event \in Terminal
      /\ \A b \in Actors \ {j} : emit'[b] = emit[b]
      /\ \A b \in Actors : InHook(b)' <=> InHook(b)
  <2>1. Announces(j, e)
    BY DEF AnnounceEnd
  <2> HIDE DEF e
  <2> QED
    BY <1>1, <2>1, AnnounceEffect
<1>3. /\ state'[j] = state[j] /\ runner'[j] = "ended"
      /\ \A i \in Jobs \ {j} : SameJob(i)
      /\ UNCHANGED <<agent, target, emitMu, row, stale, known>>
  BY <1>2, Sets DEF IInv, Typed, AnnounceEnd, SameJob, disk
<1>4. Typed'
  BY <1>2, <1>3 DEF IInv, Typed, AnnounceEnd, Stages
<1>5. Stage(j)'
  BY <1>2, <1>3 DEF Stage, IInv, Staged, AnnounceEnd
<1>6. Wanted(j)'
  BY <1>1, <1>2 DEF Wanted, JobOf
<1> QED
  BY <1>2, <1>3, <1>4, <1>5, <1>6, RunnerFrame DEF AnnounceEnd

(* A cancel finds its job ready or at work.                                *)
LEMMA CancelKeeps ==
  ASSUME IInv, NEW c \in Cancels, NEW j \in Jobs, Cancel(c, j)
  PROVE  IInv'
<1>1. runner[j] \in {"ready", "working"} /\ emit[c].step = "none" /\ c \in Actors /\ c \notin Jobs
  BY Sets DEF IInv, Typed, Staged, Stage, Cancelled, Cancelling, Cancel, Stages
<1>2. /\ emit' \in [Actors -> Emissions] /\ emit'[c].step = "want" /\ emit'[c].event = "cancelled"
      /\ \A b \in Actors \ {c} : emit'[b] = emit[b]
      /\ \A b \in Actors : InHook(b)' <=> InHook(b)
  <2>1. "cancelled" \in Events
    BY DEF Events, Terminal
  <2> QED
    BY <1>1, <2>1, AnnounceEffect DEF Cancel
<1>3. /\ state'[j] = "cancelled" /\ target'[c] = j
      /\ \A i \in Jobs \ {j} : SameJob(i)
      /\ \A i \in Jobs : emit'[i] = emit[i]
      /\ \A d \in Cancels \ {c} : SameCancel(d)
      /\ UNCHANGED <<agent, runner, inMap, emitMu, row, stale, known>>
  BY <1>1, <1>2, Sets DEF IInv, Typed, Cancel, SameJob, SameCancel, disk
<1>4. Typed'
  BY <1>2, <1>3 DEF IInv, Typed, Cancel, States, Terminal
<1>5. Staged'
  <2>1. Stage(j)'
    BY <1>1, <1>3 DEF IInv, Staged, Stage
  <2> QED
    BY <1>3, <2>1, StageFrame DEF Staged
<1>6. Cancelled'
  <2>1. Cancelling(c)'
    BY <1>1, <1>2, <1>3 DEF Cancelling, InHook
  <2>2. \A d \in Cancels \ {c} : Cancelling(d)'
    BY <1>3, CancelFrame DEF SameJob
  <2> QED
    BY <2>1, <2>2 DEF Cancelled
<1>7. Hooked' /\ Quiet'
  BY <1>2, <1>3 DEF IInv, Hooked, Quiet
<1>8. Settled'
  <2> SUFFICES ASSUME NEW i \in Jobs, runner'[i] = "ended"
               PROVE  Wanted(i)' \/ Carried(i)' \/ Told(i)'
    BY DEF Settled
  <2>1. i # j /\ SameJob(i) /\ SameRecords(i)
    BY <1>1, <1>3 DEF SameRecords
  <2>2. SameEmitters(i)
    BY <1>1, <1>2, <1>3, <2>1, Sets DEF SameEmitters, SameCancel, JobOf, Cancel, Actors
  <2> QED
    BY <2>1, <2>2, SettledFrame DEF SameJob
<1>9. Rowed'
  BY <1>3 DEF IInv, Rowed
<1> QED
  BY <1>4, <1>5, <1>6, <1>7, <1>8, <1>9 DEF IInv

-----------------------------------------------------------------------------
(* The steps of the hook.                                                  *)

(* A goroutine goes on in the hook: its job and the others stay.           *)
LEMMA HookStages ==
  ASSUME IInv, NEW a \in Actors, UNCHANGED <<state, inMap, runner>>,
         \A b \in Actors \ {a} : emit'[b] = emit[b],
         emit[a].step # "none",
         emit'[a].step = "none" \/ emit'[a].event = emit[a].event
  PROVE  Staged'
  BY Sets DEF IInv, Staged, Stage

LEMMA EmitSnapshotKeeps ==
  ASSUME IInv, NEW a \in Actors, EmitSnapshot(a)
  PROVE  IInv'
<1>1. PICK j \in Jobs : j = JobOf(a) /\ runner[j] # "none"
  BY EmitterOfJob DEF EmitSnapshot
<1>2. state[j] \in {"unborn", "gone"} \cup States
  BY <1>1, <1>1 DEF IInv, Typed
<1>3. /\ emit' \in [Actors -> Emissions]
      /\ emit'[a].step = "snapped" /\ emit'[a].snap = state[j] /\ emit'[a].event = emit[a].event
      /\ \A b \in Actors \ {a} : emit'[b] = emit[b]
  BY <1>1, <1>2 DEF IInv, Typed, EmitSnapshot, Emissions, Steps
<1>4. /\ UNCHANGED <<agent, state, inMap, runner, target, row, stale, known>>
      /\ emitMu' = a /\ emitMu = NoActor
  BY <1>1 DEF EmitSnapshot, HookFree, disk
<1>5. Typed'
  BY <1>1, <1>3, <1>4 DEF IInv, Typed
<1>6. Staged'
  BY <1>1, <1>3, <1>4, HookStages DEF EmitSnapshot
<1>7. Cancelled'
  <2> SUFFICES ASSUME NEW c \in Cancels PROVE Cancelling(c)'
    BY DEF Cancelled
  <2>1. CASE c = a
    <3>1. j = target[c]
      BY <1>1, <2>1, Sets DEF JobOf
    <3> QED
      BY <1>3, <1>4, <2>1, <3>1 DEF IInv, Cancelled, Cancelling, EmitSnapshot, InHook, Terminal
  <2>2. CASE c # a
    BY <1>1, <1>3, <1>4, <2>2, CancelFrame, Sets DEF SameCancel
  <2> QED
    BY <2>1, <2>2
<1>8. Hooked'
  BY <1>1, <1>3, <1>4, Sets DEF IInv, Hooked, InHook
<1>9. Quiet' /\ Rowed'
  BY <1>1, <1>4 DEF IInv, Quiet, Rowed
<1>10. Settled'
  <2> SUFFICES ASSUME NEW i \in Jobs, runner'[i] = "ended"
               PROVE  Wanted(i)' \/ Carried(i)' \/ Told(i)'
    BY DEF Settled
  <2>1. CASE i = j
    <3>1. JobOf(a)' = j
      BY <1>1, <1>4 DEF JobOf
    <3>2. Carried(i)'
      BY <1>1, <1>3, <1>4, <2>1, <3>1 DEF Carried, InHook
    <3> QED
      BY <3>2
  <2>2. CASE i # j
    <3>1. SameRecords(i) /\ SameEmitters(i)
      BY <1>1, <1>3, <1>4, <2>2 DEF SameRecords, SameEmitters, JobOf
    <3> QED
      BY <1>1, <1>4, <3>1, SettledFrame
  <2> QED
    BY <2>1, <2>2
<1> QED
  BY <1>5, <1>6, <1>7, <1>8, <1>9, <1>10 DEF IInv

LEMMA EmitRowKeeps ==
  ASSUME IInv, NEW a \in Actors, EmitRow(a)
  PROVE  IInv'
<1>1. PICK j \in Jobs : j = JobOf(a) /\ runner[j] # "none"
  BY EmitterOfJob DEF EmitRow
<1>2. emit[a].snap \in {"unborn", "gone"} \cup States
  BY DEF IInv, Typed, Emissions
<1>3. /\ emit' \in [Actors -> Emissions]
      /\ emit'[a].step = "stored" /\ emit'[a].snap = emit[a].snap /\ emit'[a].event = emit[a].event
      /\ \A b \in Actors \ {a} : emit'[b] = emit[b]
  BY <1>1 DEF IInv, Typed, EmitRow, Emissions, Steps
<1>4. /\ UNCHANGED <<agent, state, inMap, runner, target, emitMu, known>>
      /\ \A i \in Jobs \ {j} : SameRecords(i)
      /\ j \in stale' \/ row'[j] = emit[a].snap
      /\ row' \in [Jobs -> {"absent", "unborn", "gone"} \cup States] /\ stale' \subseteq Jobs
  BY <1>1, <1>2 DEF IInv, Typed, EmitRow, SameRecords
<1>5. Typed'
  BY <1>1, <1>3, <1>4 DEF IInv, Typed
<1>6. Staged'
  BY <1>1, <1>3, <1>4, HookStages DEF EmitRow
<1>7. Cancelled'
  <2> SUFFICES ASSUME NEW c \in Cancels PROVE Cancelling(c)'
    BY DEF Cancelled
  <2>1. CASE c = a
    BY <1>1, <1>3, <1>4, <2>1 DEF IInv, Cancelled, Cancelling, EmitRow, InHook
  <2>2. CASE c # a
    BY <1>1, <1>3, <1>4, <2>2, CancelFrame, Sets DEF SameCancel
  <2> QED
    BY <2>1, <2>2
<1>8. Hooked' /\ Quiet'
  BY <1>1, <1>3, <1>4 DEF IInv, Hooked, Quiet, InHook, EmitRow
<1>9. Settled'
  <2> SUFFICES ASSUME NEW i \in Jobs, runner'[i] = "ended"
               PROVE  Wanted(i)' \/ Carried(i)' \/ Told(i)'
    BY DEF Settled
  <2>1. CASE i = j
    <3>1. Wanted(j) \/ Carried(j)
      BY <1>1, <1>4, <2>1 DEF IInv, Settled, Told, Emitting, EmitRow
    <3>2. CASE Wanted(j)
      <4>1. Wanted(j)'
        BY <1>1, <1>3, <1>4, <3>2 DEF Wanted, JobOf, EmitRow
      <4> QED
        BY <2>1, <4>1
    <3>3. CASE Carried(j)
      <4>1. emit[a].snap = state[j]
        BY <1>1, <3>3 DEF Carried, IInv, Hooked, InHook, EmitRow
      <4>2. RowIs(j)'
        BY <1>1, <1>4, <4>1 DEF RowIs
      <4>3. JobOf(a)' = j
        BY <1>1, <1>4 DEF JobOf
      <4>4. Carried(j)'
        BY <1>1, <1>3, <1>4, <4>1, <4>2, <4>3 DEF Carried, InHook
      <4> QED
        BY <2>1, <4>4
    <3> QED
      BY <3>1, <3>2, <3>3
  <2>2. CASE i # j
    <3>1. SameEmitters(i)
      BY <1>1, <1>3, <1>4, <2>2 DEF SameEmitters, JobOf
    <3> QED
      BY <1>1, <1>4, <2>2, <3>1, SettledFrame
  <2> QED
    BY <2>1, <2>2
<1>10. Rowed'
  <2> SUFFICES ASSUME agent # "flip", NEW i \in Jobs, i \notin stale', runner[i] \in {"none", "ready"}
               PROVE  row'[i] \notin Active
    BY <1>1, <1>4 DEF Rowed
  <2>1. CASE i = j
    <3>1. a \in Cancels /\ j = target[a]
      BY <1>1, <2>1 DEF IInv, Staged, Stage, EmitRow, JobOf, Actors
    <3>2. emit[a].snap \in Terminal
      BY <1>1, <2>1, <3>1 DEF IInv, Cancelled, Cancelling, InHook, EmitRow
    <3> QED
      BY <1>4, <2>1, <3>2 DEF Terminal, Active
  <2>2. CASE i # j
    BY <1>1, <1>4, <2>2 DEF IInv, Rowed, SameRecords
  <2> QED
    BY <2>1, <2>2
<1> QED
  BY <1>5, <1>6, <1>7, <1>8, <1>9, <1>10 DEF IInv

LEMMA EmitEnqueueKeeps ==
  ASSUME IInv, NEW a \in Actors, EmitEnqueue(a)
  PROVE  IInv'
<1>1. PICK j \in Jobs : j = JobOf(a) /\ runner[j] # "none"
  BY EmitterOfJob DEF EmitEnqueue
<1>2. /\ emit[a].snap \in {"unborn", "gone"} \cup States /\ emit[a].event \in Events
      /\ NoEmit \in Emissions
  BY DEF IInv, Typed, Emissions, NoEmit, Steps, Events, States
<1>3. /\ emit' \in [Actors -> Emissions] /\ emit'[a].step = "none"
      /\ \A b \in Actors \ {a} : emit'[b] = emit[b]
  BY <1>1, <1>2 DEF IInv, Typed, EmitEnqueue, NoEmit
<1>4. /\ UNCHANGED <<agent, state, inMap, runner, row, stale>> /\ emitMu' = NoActor
      /\ \A i \in Jobs \ {j} : SameRecords(i)
      /\ known'[j].event = emit[a].event /\ known'[j].state = emit[a].snap
  BY <1>1, <1>1 DEF IInv, Typed, EmitEnqueue, SameRecords
<1>5. /\ target' \in [Cancels -> Jobs \cup {NoJob}]
      /\ a \in Cancels => target'[a] = NoJob
      /\ \A c \in Cancels \ {a} : target'[c] = target[c]
  BY <1>1 DEF IInv, Typed, EmitEnqueue
<1>6. Typed'
  <2>1. known' \in [Jobs -> [event : Events \cup {"none"},
                            state : {"none", "unborn", "gone"} \cup States]]
    BY <1>1, <1>2 DEF IInv, Typed, EmitEnqueue
  <2> QED
    BY <1>3, <1>4, <1>5, <2>1 DEF IInv, Typed
<1>7. Staged'
  BY <1>1, <1>3, <1>4, HookStages DEF EmitEnqueue
<1>8. Cancelled'
  <2> SUFFICES ASSUME NEW c \in Cancels PROVE Cancelling(c)'
    BY DEF Cancelled
  <2>1. CASE c = a
    BY <1>1, <1>3, <1>5, <2>1 DEF Cancelling
  <2>2. CASE c # a
    BY <1>1, <1>3, <1>4, <1>5, <2>2, CancelFrame, Sets DEF SameCancel
  <2> QED
    BY <2>1, <2>2
<1>9. Hooked' /\ Quiet'
  BY <1>1, <1>3, <1>4, Sets DEF IInv, Hooked, Quiet, InHook, EmitEnqueue
<1>10. \A b \in Actors \ {a} : JobOf(b)' = JobOf(b)
  BY <1>1, <1>5 DEF JobOf, Actors
<1>11. Settled'
  <2> SUFFICES ASSUME NEW i \in Jobs, runner'[i] = "ended"
               PROVE  Wanted(i)' \/ Carried(i)' \/ Told(i)'
    BY DEF Settled
  <2>1. CASE i = j
    <3>1. Wanted(j) \/ Carried(j)
      BY <1>1, <1>4, <2>1 DEF IInv, Settled, Told, Emitting, EmitEnqueue
    <3>2. CASE Emitting(j)'
      <4>1. PICK b \in Actors : JobOf(b)' = j /\ emit'[b].step # "none"
        BY <1>1, <3>2 DEF Emitting
      <4>2. b # a /\ emit'[b] = emit[b] /\ ~InHook(b) /\ emit[b] \in Emissions
        BY <1>1, <1>3, <4>1 DEF IInv, Typed, Hooked, InHook, EmitEnqueue
      <4>3. emit'[b].step = "want"
        BY <1>1, <4>1, <4>2 DEF InHook, Emissions, Steps
      <4>4. Wanted(j)'
        BY <1>1, <4>1, <4>3 DEF Wanted
      <4> QED
        BY <2>1, <4>4
    <3>3. CASE ~Emitting(j)'
      <4>1. ~Wanted(j)
        BY <1>1, <1>3, <1>10, <3>3 DEF Wanted, Emitting, EmitEnqueue
      <4>2. emit[a].snap = state[j] /\ RowIs(j)
        BY <1>1, <3>1, <4>1 DEF Carried, IInv, Hooked, InHook, EmitEnqueue
      <4>3. emit[a].event \in Terminal
        <5>1. CASE a \in Jobs
          BY <1>1, <1>4, <2>1, <5>1 DEF IInv, Staged, Stage, JobOf, EmitEnqueue
        <5>2. CASE a \in Cancels
          BY <1>1, <5>2 DEF IInv, Cancelled, Cancelling, EmitEnqueue, Terminal
        <5> QED
          BY <5>1, <5>2 DEF Actors
      <4>4. Told(j)'
        BY <1>1, <1>4, <3>3, <4>2, <4>3 DEF Told, RowIs
      <4> QED
        BY <2>1, <4>4
    <3> QED
      BY <3>2, <3>3
  <2>2. CASE i # j
    <3>1. SameEmitters(i)
      BY <1>1, <1>3, <1>5, <1>10, <2>2, Sets DEF SameEmitters, JobOf, Actors
    <3> QED
      BY <1>1, <1>4, <2>2, <3>1, SettledFrame
  <2> QED
    BY <2>1, <2>2
<1>12. Rowed'
  BY <1>1, <1>4 DEF IInv, Rowed
<1> QED
  BY <1>6, <1>7, <1>8, <1>9, <1>11, <1>12 DEF IInv

-----------------------------------------------------------------------------
(* Crash, boot and reconcile.                                              *)
LEMMA CrashKeeps ==
  ASSUME IInv, Crash
  PROVE  IInv'
<1>1. /\ agent' = "flip" /\ inMap' = {} /\ emitMu' = NoActor
      /\ \A j \in Jobs : state'[j] \in {"unborn", "gone"} /\ runner'[j] = "none"
      /\ \A a \in Actors : emit'[a] = NoEmit
      /\ \A c \in Cancels : target'[c] = NoJob
  BY DEF Crash
<1>2. Typed'
  <2>1. NoEmit \in Emissions
    BY DEF NoEmit, Emissions, Steps, Events, States
  <2> QED
    BY <2>1 DEF IInv, Typed, Crash, disk, Stages
<1>3. Staged' /\ Cancelled' /\ Quiet' /\ Settled' /\ Rowed'
  BY <1>1, Sets DEF Staged, Stage, Cancelled, Cancelling, Quiet, Settled, Rowed, NoEmit
<1>4. Hooked'
  BY <1>1, Sets DEF Hooked, InHook, NoEmit
<1> QED
  BY <1>2, <1>3, <1>4 DEF IInv

(* Before the listener opens no job has a goroutine to disturb.            *)
LEMMA BootKeeps ==
  ASSUME IInv, Boot
  PROVE  IInv'
<1>1. /\ UNCHANGED <<state, inMap, runner, target, emit, emitMu>>
      /\ \A j \in Jobs : runner[j] = "none"
  BY DEF IInv, Quiet, Boot, SweepRows, SweepEnqueue, Listen, mem
<1>2. Staged' /\ Cancelled' /\ Hooked' /\ Quiet' /\ Settled'
  BY <1>1 DEF IInv, Staged, Stage, Cancelled, Cancelling, Hooked, InHook, Quiet, Settled
<1>3. CASE SweepRows
  <2>1. Typed'
    BY <1>1, <1>3 DEF IInv, Typed, SweepRows, Orphans, States, Terminal
  <2>2. Rowed'
    BY <1>3 DEF IInv, Typed, Rowed, SweepRows, Orphans, Active
  <2> QED
    BY <1>2, <2>1, <2>2 DEF IInv
<1>4. ASSUME NEW j \in Jobs, SweepEnqueue(j) PROVE IInv'
  <2>1. Typed'
    BY <1>1, <1>4 DEF IInv, Typed, SweepEnqueue, Events, States, Terminal
  <2>2. Rowed'
    BY <1>1, <1>4 DEF IInv, Rowed, SweepEnqueue
  <2> QED
    BY <1>2, <2>1, <2>2 DEF IInv
<1>5. CASE Listen
  BY <1>1, <1>2, <1>5 DEF IInv, Typed, Rowed, Listen, disk
<1> QED
  BY <1>3, <1>4, <1>5 DEF Boot

(* Reconcile touches no job whose end the controller has heard of.         *)
LEMMA ReconcileKeeps ==
  ASSUME IInv, Reconcile
  PROVE  IInv'
<1>1. /\ UNCHANGED <<agent, state, inMap, runner, target, emit, emitMu, row, stale>>
      /\ \A j \in Jobs : known[j].event \in Terminal => known'[j] = known[j]
  BY DEF IInv, Typed, Reconcile, Unheard, mem
<1>2. Typed'
  <2>1. \A j \in Unheard : [event |-> row[j], state |-> row[j]]
          \in [event : Events \cup {"none"}, state : {"none", "unborn", "gone"} \cup States]
    BY DEF Unheard, Events, States
  <2>2. known' \in [Jobs -> [event : Events \cup {"none"},
                             state : {"none", "unborn", "gone"} \cup States]]
    BY <2>1 DEF IInv, Typed, Reconcile
  <2> QED
    BY <1>1, <2>2 DEF IInv, Typed
<1>3. Staged' /\ Cancelled' /\ Hooked' /\ Quiet' /\ Rowed'
  BY <1>1 DEF IInv, Staged, Stage, Cancelled, Cancelling, Hooked, InHook, Quiet, Rowed
<1>4. Settled'
  <2> SUFFICES ASSUME NEW j \in Jobs, runner'[j] = "ended"
               PROVE  Wanted(j)' \/ Carried(j)' \/ Told(j)'
    BY DEF Settled
  <2>1. Wanted(j) \/ Carried(j) \/ Told(j)
    BY <1>1 DEF IInv, Settled
  <2>2. Wanted(j) => Wanted(j)'
    BY <1>1 DEF Wanted, JobOf
  <2>3. Carried(j) => Carried(j)'
    BY <1>1 DEF Carried, JobOf, InHook, RowIs
  <2>4. Told(j) => Told(j)'
    BY <1>1 DEF Told, Emitting, JobOf, RowIs
  <2> QED
    BY <2>1, <2>2, <2>3, <2>4
<1> QED
  BY <1>2, <1>3, <1>4 DEF IInv

(* A day ages rows, which only the reconcile looks at.                     *)
LEMMA IdleKeeps ==
  ASSUME IInv, DayPasses \/ UNCHANGED vars
  PROVE  IInv'
<1>1. UNCHANGED <<agent, state, inMap, runner, target, emit, emitMu, row, stale, known>>
  BY DEF DayPasses, vars, mem, disk
<1>2. Typed' /\ Staged' /\ Cancelled' /\ Hooked' /\ Quiet' /\ Rowed'
  BY <1>1 DEF IInv, Typed, Staged, Stage, Cancelled, Cancelling, Hooked, InHook, Quiet, Rowed
<1>3. Settled'
  BY <1>1 DEF IInv, Settled, Wanted, Carried, Told, Emitting, JobOf, InHook, RowIs
<1> QED
  BY <1>2, <1>3 DEF IInv

LEMMA NextIInv == IInv /\ [Next]_vars => IInv'
  BY IdleKeeps, StartKeeps, SetRunningKeeps, OperationEndsKeeps, AnnounceEndKeeps,
     EmitSnapshotKeeps, EmitRowKeeps, EmitEnqueueKeeps, CancelKeeps, CrashKeeps, BootKeeps,
     ReconcileKeeps DEF Next, RunnerStep, EmitStep

-----------------------------------------------------------------------------
(* The invariant of jobs, hook and records.                                *)
THEOREM SpecIInv == Spec => []IInv
  BY InitIInv, NextIInv, PTL DEF Spec

(* What memory, table and controller say of a job that is through.         *)
THEOREM RecordsAgree == Spec => []RecordsConverge
<1>1. IInv => RecordsConverge
  BY DEF IInv, Settled, Wanted, Carried, Told, RowIs, Emitting, InHook, RecordsConverge
<1> QED
  BY <1>1, SpecIInv, PTL

(* After the sweep a row that says it is at work is.                       *)
THEOREM NoZombies == Spec => []NoZombieRows
<1>1. ASSUME IInv PROVE NoZombieRows
  <2> SUFFICES ASSUME agent = "up", NEW j \in Jobs \ stale, row[j] \in Active, ~Emitting(j)
               PROVE  runner[j] \in {"working", "closing"}
    BY DEF NoZombieRows
  <2>1. runner[j] \notin {"none", "ready"}
    BY <1>1 DEF IInv, Rowed
  <2>2. runner[j] # "ended"
    <3> SUFFICES ASSUME runner[j] = "ended" PROVE FALSE
      OBVIOUS
    <3>1. row[j] = state[j]
      BY <1>1 DEF IInv, Settled, Wanted, Carried, Told, RowIs, Emitting, InHook
    <3>2. state[j] \in Terminal
      BY <1>1 DEF IInv, Staged, Stage
    <3> QED
      BY <3>1, <3>2 DEF Terminal, Active
  <2> QED
    BY <1>1, <2>1, <2>2 DEF IInv, Typed, Stages
<1> QED
  BY <1>1, SpecIInv, PTL

(* A terminal state is final once the job's goroutine has begun.           *)
THEOREM OutcomesFinal == Spec => OutcomeIsFinal
<1>1. ASSUME IInv, [Next]_vars, NEW j \in Jobs, runner[j] # "ready", state[j] \in Terminal
      PROVE  state'[j] \in {state[j], "gone"}
  <2>1. ASSUME NEW i \in Jobs, Start(i) PROVE state'[j] = state[j]
    BY <1>1, <2>1 DEF IInv, Typed, Start, Terminal
  <2>2. ASSUME NEW i \in Jobs, RunnerStep(i) PROVE state'[j] = state[j]
    <3>1. CASE SetRunning(i)
      BY <1>1, <3>1 DEF IInv, Typed, SetRunning
    <3>2. CASE OperationEnds(i)
      <4>1. i = j => state[i] = "cancelled"
        BY <1>1, <3>2 DEF IInv, Staged, Stage, OperationEnds, Terminal
      <4> QED
        BY <1>1, <3>2, <4>1 DEF IInv, Typed, OperationEnds, Marked
    <3>3. CASE AnnounceEnd(i)
      BY <3>3 DEF AnnounceEnd
    <3> QED
      BY <2>2, <3>1, <3>2, <3>3 DEF RunnerStep
  <2>3. ASSUME NEW a \in Actors, EmitStep(a) PROVE state'[j] = state[j]
    BY <2>3 DEF EmitStep, EmitSnapshot, EmitRow, EmitEnqueue
  <2>4. ASSUME NEW c \in Cancels, NEW i \in Jobs, Cancel(c, i) PROVE state'[j] = state[j]
    BY <1>1, <2>4 DEF IInv, Typed, Cancel
  <2>5. CASE Crash
    BY <1>1, <2>5 DEF Crash, Terminal
  <2>6. CASE Boot \/ DayPasses \/ Reconcile \/ UNCHANGED vars
    BY <2>6 DEF Boot, SweepRows, SweepEnqueue, Listen, DayPasses, Reconcile, mem, vars
  <2> QED
    BY <1>1, <2>1, <2>2, <2>3, <2>4, <2>5, <2>6 DEF Next
<1>2. IInv /\ [Next]_vars =>
        [\A j \in Jobs : runner[j] # "ready" /\ state[j] \in Terminal =>
           state'[j] \in {state[j], "gone"}]_vars
  BY <1>1
<1> QED
  BY <1>2, SpecIInv, PTL DEF Spec, OutcomeIsFinal

-----------------------------------------------------------------------------
(* LogStream.                                                              *)

Busy(a) == step[a] # "none"
Speaking == {"spawning", "reporting", "closing"}
Fresh == stage[Main] \in {"opening", "spawning"}
Over == stage[Main] \in {"closing", "ended"}

(* Where the operation's goroutines are; one is inside appendLine only     *)
(* while it has a line to send.                                            *)
Phased ==
  /\ stage[Main] \in {"opening", "spawning", "waiting", "closing", "ended"}
  /\ \A w \in Workers : IF Fresh THEN stage[w] = "unborn"
                        ELSE stage[w] \in {"queued", "working", "reporting", "ended"}
  /\ Over => AllEnded
  /\ \A a \in Appenders : IF Busy(a) THEN stage[a] \in Speaking
                          ELSE todo[a] = {}
  /\ \A a \in Appenders : step[a] \in {"drop", "retry"} => todo[a] # {}

(* One line to open, one per worker, one to close; and then the verdict.   *)
Reported == {w \in Workers : stage[w] \in {"reporting", "ended"}}
Counted ==
  count = (IF stage[Main] = "opening" THEN 0 ELSE 1) + Cardinality(Reported)
          + (IF Over /\ ~failed THEN 1 ELSE 0)
Judged ==
  /\ verdict = IF stage[Main] # "ended" THEN "running"
               ELSE IF failed THEN "failed" ELSE "completed"
  /\ stage[Main] = "closing" => ~failed

(* A line has one goroutine that sends it; the ring has the last in order. *)
Numbered ==
  /\ \A a \in Appenders : Busy(a) => line[a] \in 1..count
  /\ \A a, b \in Appenders : Busy(a) /\ Busy(b) /\ line[a] = line[b] => a = b
  /\ \A i \in DOMAIN ring : ring[i] = count - Len(ring) + i

(* What a viewer has been given, and what is still to be sent to it, are   *)
(* different lines later than its backlog.                                 *)
Injective(s) == \A i, j \in DOMAIN s : s[i] = s[j] => i = j
Received(v) == Lines(got[v]) \cup Lines(chan[v])
DeliveredTo(v) ==
  /\ viewer[v] = "away" => /\ backlog[v] = <<>> /\ got[v] = <<>> /\ chan[v] = <<>>
                           /\ \A a \in Appenders : v \notin todo[a]
  /\ \A i \in DOMAIN backlog[v] : backlog[v][i] = since[v] - Len(backlog[v]) + i
  /\ Injective(got[v]) /\ Injective(chan[v])
  /\ Lines(got[v]) \cap Lines(chan[v]) = {}
  /\ Received(v) \subseteq since[v] + 1 .. count
  /\ \A a \in Appenders : v \in todo[a] => /\ line[a] > since[v]
                                           /\ line[a] \notin Received(v)
Delivered == \A v \in Viewers : DeliveredTo(v)

(* Whoever has more to read than a channel holds is known to have lagged,  *)
(* and a sender finds a channel full only if its viewer has: different     *)
(* unread lines fill the channel, and the sender's is not among them.      *)
Awaited(v, n) == \E a \in Appenders : line[a] = n /\ v \in todo[a]
Noticed == \A v \in subs : Unread(v) > BufferSize => v \in lagged
Behind ==
  \A a \in Appenders :
    step[a] \in {"drop", "retry"} /\ Current(a) \in subs => Current(a) \in lagged
Abreast == NoSilentGap /\ Noticed /\ Behind

(* Once the closing line is written nobody else appends: it is the last,   *)
(* and after the oldest is dropped there is room for it.                   *)
Last ==
  Over /\ ~failed =>
    /\ \A v \in subs : since[v] < count =>
         \/ count \in Received(v)
         \/ v \in todo[Main]
    /\ Busy(Main) => line[Main] = count
    /\ step[Main] = "retry" => Len(chan[Current(Main)]) < BufferSize
StreamIInv ==
  StreamTypeOK /\ Phased /\ Counted /\ Judged /\ Numbered /\ Delivered /\ Abreast /\ Last

-----------------------------------------------------------------------------
(* Sequences of lines: what appending to one and dropping its head do.     *)

LEMMA AppendedLine ==
  ASSUME NEW S, NEW s \in Seq(S), NEW e \in S
  PROVE  /\ Append(s, e) \in Seq(S) /\ Len(Append(s, e)) = Len(s) + 1
         /\ Lines(Append(s, e)) = Lines(s) \cup {e}
         /\ Injective(s) /\ e \notin Lines(s) => Injective(Append(s, e))
<1> DEFINE t == Append(s, e)
<1>1. /\ t \in Seq(S) /\ Len(t) = Len(s) + 1 /\ Len(s) \in Nat
      /\ \A i \in 1..Len(s) : t[i] = s[i]
      /\ t[Len(s) + 1] = e
  BY AppendProperties
<1>2. DOMAIN s = 1..Len(s) /\ DOMAIN t = 1..(Len(s) + 1)
  BY <1>1, LenProperties
<1>3. \A i \in DOMAIN t : i \in DOMAIN s \/ i = Len(s) + 1
  BY <1>1, <1>2
<1>4. \A i \in DOMAIN s : i \in DOMAIN t
  BY <1>1, <1>2
<1>5. Lines(t) = Lines(s) \cup {e}
  BY <1>1, <1>2, <1>3, <1>4 DEF Lines
<1>6. ASSUME Injective(s), e \notin Lines(s) PROVE Injective(t)
  <2> SUFFICES ASSUME NEW i \in DOMAIN t, NEW j \in DOMAIN t, t[i] = t[j] PROVE i = j
    BY DEF Injective
  <2>1. CASE i \in DOMAIN s /\ j \in DOMAIN s
    BY <1>1, <1>2, <1>6, <2>1 DEF Injective
  <2>2. CASE i \in DOMAIN s /\ j = Len(s) + 1
    BY <1>1, <1>2, <1>6, <2>2 DEF Lines
  <2>3. CASE j \in DOMAIN s /\ i = Len(s) + 1
    BY <1>1, <1>2, <1>6, <2>3 DEF Lines
  <2> QED
    BY <1>3, <2>1, <2>2, <2>3
<1> QED
  BY <1>1, <1>5, <1>6

LEMMA AppendedLines ==
  \A S : \A s \in Seq(S) : \A e \in S :
    /\ Lines(Append(s, e)) = Lines(s) \cup {e}
    /\ Injective(s) /\ e \notin Lines(s) => Injective(Append(s, e))
<1> SUFFICES ASSUME NEW S, NEW s \in Seq(S), NEW e \in S
             PROVE  /\ Lines(Append(s, e)) = Lines(s) \cup {e}
                    /\ Injective(s) /\ e \notin Lines(s) => Injective(Append(s, e))
  OBVIOUS
<1> QED
  BY AppendedLine

LEMMA DroppedHead ==
  ASSUME NEW S, NEW s \in Seq(S), s # <<>>
  PROVE  LET t == SubSeq(s, 2, Len(s))
         IN /\ t \in Seq(S) /\ Len(t) = Len(s) - 1
            /\ Lines(t) \subseteq Lines(s) /\ Lines(s) = Lines(t) \cup {Head(s)}
            /\ Injective(s) => Injective(t) /\ Head(s) \notin Lines(t)
<1> DEFINE t == SubSeq(s, 2, Len(s))
<1>1. /\ Len(s) \in Nat \ {0} /\ DOMAIN s = 1..Len(s) /\ Head(s) = s[1]
      /\ \A i \in 1..Len(s) : s[i] \in S
  BY EmptySeq, LenProperties
<1>2. /\ t \in Seq(S)
      /\ Len(t) = Len(s) - 1
      /\ \A i \in 1..(Len(s) - 1) : t[i] = s[i + 1]
  <2>1. \A i \in 2..Len(s) : s[i] \in S
    BY <1>1
  <2>2. 2 \in Int /\ Len(s) \in Int
    BY <1>1
  <2>3. /\ t \in Seq(S)
        /\ Len(t) = IF 2 <= Len(s) THEN Len(s) - 2 + 1 ELSE 0
        /\ \A i \in 1..(Len(s) - 2 + 1) : t[i] = s[2 + i - 1]
    BY <2>1, <2>2, SubSeqProperties
  <2> QED
    BY <1>1, <2>3
<1>3. DOMAIN t = 1..(Len(s) - 1)
  BY <1>2, LenProperties
<1>4. \A i \in DOMAIN t : i + 1 \in DOMAIN s /\ t[i] = s[i + 1] /\ i \in Nat /\ i + 1 # 1
  BY <1>1, <1>2, <1>3
<1>5. \A i \in DOMAIN s : i = 1 \/ (i - 1 \in DOMAIN t /\ t[i - 1] = s[i])
  BY <1>1, <1>2, <1>3
<1>6. Lines(t) \subseteq Lines(s)
  BY <1>4 DEF Lines
<1>7. Lines(s) = Lines(t) \cup {Head(s)}
  <2>1. Head(s) \in Lines(s)
    BY <1>1 DEF Lines
  <2>2. \A x \in Lines(s) : x \in Lines(t) \/ x = Head(s)
    BY <1>1, <1>5 DEF Lines
  <2> QED
    BY <1>6, <2>1, <2>2
<1>8. ASSUME Injective(s) PROVE Injective(t) /\ Head(s) \notin Lines(t)
  <2>1. Injective(t)
    <3> SUFFICES ASSUME NEW i \in DOMAIN t, NEW j \in DOMAIN t, t[i] = t[j] PROVE i = j
      BY DEF Injective
    <3>1. i + 1 = j + 1
      BY <1>4, <1>8 DEF Injective
    <3> QED
      BY <1>4, <3>1
  <2>2. Head(s) \notin Lines(t)
    <3> SUFFICES ASSUME NEW i \in DOMAIN t, t[i] = s[1] PROVE FALSE
      BY <1>1 DEF Lines
    <3>1. i + 1 = 1
      BY <1>1, <1>4, <1>8 DEF Injective
    <3> QED
      BY <1>4, <3>1
  <2> QED
    BY <2>1, <2>2
<1> QED
  BY <1>2, <1>6, <1>7, <1>8

LEMMA LastLines ==
  ASSUME NEW S, NEW s \in Seq(S), NEW n \in Nat \ {0}
  PROVE  /\ LastOf(s, n) \in Seq(S) /\ Len(LastOf(s, n)) <= n
         /\ \A i \in DOMAIN LastOf(s, n) :
              LET k == Len(s) - Len(LastOf(s, n)) + i
              IN k \in DOMAIN s /\ LastOf(s, n)[i] = s[k]
<1> DEFINE m == IF Len(s) > n THEN Len(s) - n + 1 ELSE 1
           t == SubSeq(s, m, Len(s))
<1>1. Len(s) \in Nat /\ DOMAIN s = 1..Len(s) /\ \A i \in 1..Len(s) : s[i] \in S
  BY LenProperties
<1>2. m \in Nat \ {0} /\ m <= Len(s) + 1
  BY <1>1
<1>3. \A i \in m..Len(s) : s[i] \in S
  BY <1>1, <1>2
<1>4. m \in Int /\ Len(s) \in Int
  BY <1>1, <1>2
<1> HIDE DEF m
<1>5. /\ t \in Seq(S)
      /\ Len(t) = IF m <= Len(s) THEN Len(s) - m + 1 ELSE 0
      /\ \A i \in 1..(Len(s) - m + 1) : t[i] = s[m + i - 1]
  BY <1>3, <1>4, SubSeqProperties
<1>6. Len(t) = Len(s) - m + 1
  BY <1>1, <1>2, <1>5
<1>7. DOMAIN t = 1..Len(t)
  BY <1>5, LenProperties
<1>8. Len(t) <= n
  BY <1>1, <1>6 DEF m
<1>9. \A i \in DOMAIN t : LET k == Len(s) - Len(t) + i IN k \in DOMAIN s /\ t[i] = s[k]
  BY <1>1, <1>2, <1>5, <1>6, <1>7
<1>10. LastOf(s, n) = t
  BY DEF LastOf, m
<1> QED
  BY <1>5, <1>8, <1>9, <1>10

LEMMA Joined ==
  ASSUME NEW S, NEW s \in Seq(S), NEW t \in Seq(S), Injective(s), Injective(t),
         Lines(s) \cap Lines(t) = {}
  PROVE  /\ s \o t \in Seq(S) /\ Injective(s \o t)
         /\ Lines(s \o t) = Lines(s) \cup Lines(t)
<1> DEFINE u == s \o t
<1>1. /\ u \in Seq(S) /\ Len(u) = Len(s) + Len(t) /\ Len(s) \in Nat /\ Len(t) \in Nat
      /\ \A i \in 1..Len(s) + Len(t) : u[i] = IF i <= Len(s) THEN s[i] ELSE t[i - Len(s)]
  BY ConcatProperties, LenProperties
<1>2. DOMAIN s = 1..Len(s) /\ DOMAIN t = 1..Len(t) /\ DOMAIN u = 1..Len(u)
  BY <1>1, LenProperties
<1> HIDE DEF u
<1>3. ASSUME NEW i \in DOMAIN u
      PROVE  \/ i \in DOMAIN s /\ u[i] = s[i]
             \/ i - Len(s) \in DOMAIN t /\ i \notin DOMAIN s /\ u[i] = t[i - Len(s)]
  BY <1>1, <1>2
<1>4. /\ \A i \in DOMAIN s : i \in DOMAIN u /\ u[i] = s[i]
      /\ \A i \in DOMAIN t : i + Len(s) \in DOMAIN u /\ u[i + Len(s)] = t[i]
  BY <1>1, <1>2
<1>5. Injective(u)
  <2> SUFFICES ASSUME NEW i \in DOMAIN u, NEW j \in DOMAIN u, u[i] = u[j] PROVE i = j
    BY DEF Injective
  <2>1. CASE i \in DOMAIN s /\ j \in DOMAIN s
    BY <1>4, <2>1 DEF Injective
  <2>2. CASE i \notin DOMAIN s /\ j \notin DOMAIN s
    <3>1. i - Len(s) = j - Len(s)
      BY <1>3, <2>2 DEF Injective
    <3> QED
      BY <1>1, <1>2, <3>1
  <2>3. CASE (i \in DOMAIN s) # (j \in DOMAIN s)
    <3>1. \E x \in DOMAIN s, y \in DOMAIN t : s[x] = t[y]
      BY <1>3, <2>3
    <3> QED
      BY <3>1 DEF Lines
  <2> QED
    BY <2>1, <2>2, <2>3
<1>6. Lines(u) = Lines(s) \cup Lines(t)
  <2>1. \A x : x \in Lines(u) => x \in Lines(s) \/ x \in Lines(t)
    BY <1>3 DEF Lines
  <2>2. \A x : x \in Lines(s) \/ x \in Lines(t) => x \in Lines(u)
    BY <1>4 DEF Lines
  <2> QED
    BY <2>1, <2>2
<1> QED
  BY <1>1, <1>5, <1>6 DEF u

(* A channel of different lines that all lie in an interval, and not all   *)
(* of them, is shorter than the interval.                                  *)
LEMMA Crowd ==
  ASSUME NEW s \in Seq(Nat), Injective(s), NEW lo \in Nat, NEW hi \in Nat,
         Lines(s) \subseteq lo + 1 .. hi, NEW x \in lo + 1 .. hi, x \notin Lines(s)
  PROVE  Len(s) < hi - lo
<1> DEFINE P == 1..Len(s)
           I == lo + 1 .. hi
           T == I \ {x}
<1>1. Len(s) \in Nat /\ DOMAIN s = P /\ s \in [P -> Nat]
  BY LenProperties
<1>2. IsFiniteSet(lo + 1 .. hi) /\ Cardinality(lo + 1 .. hi) = hi - lo
  BY FS_Interval
<1>3. IsFiniteSet(T) /\ Cardinality(T) = hi - lo - 1
  <2>1. IsFiniteSet(I) /\ x \in I /\ Cardinality(I) = hi - lo
    BY <1>2
  <2> HIDE DEF I
  <2>2. IsFiniteSet(T) /\ Cardinality(T) = Cardinality(I) - 1
    BY <2>1, FS_RemoveElement
  <2> QED
    BY <2>1, <2>2
<1>4. IsFiniteSet(P) /\ Cardinality(P) = Len(s)
  <2>1. 1 \in Int /\ Len(s) \in Int /\ Len(s) >= 0
    BY <1>1
  <2>2. IsFiniteSet(1..Len(s)) /\ Cardinality(1..Len(s)) = IF 1 > Len(s) THEN 0 ELSE Len(s) - 1 + 1
    BY <2>1, FS_Interval
  <2> QED
    BY <2>1, <2>2, <1>1
<1>5. s \in [P -> T]
  BY <1>1 DEF Lines
<1>6. ~(Cardinality(T) < Cardinality(P))
  <2> SUFFICES ASSUME Cardinality(T) < Cardinality(P) PROVE FALSE
    OBVIOUS
  <2>1. \E i, j \in P : i # j /\ s[i] = s[j]
    BY <1>3, <1>4, <1>5, FS_PigeonHole
  <2> QED
    BY <2>1, <1>1 DEF Injective
<1> QED
  BY <1>1, <1>3, <1>4, <1>6

-----------------------------------------------------------------------------
(* The kinds of steps.                                                     *)

(* a appends a line and goes on to stage s.                                *)
Says(a, s) ==
  /\ AppendLine(a, s) /\ ~Busy(a) /\ verdict' = verdict
  /\ \/ a = Main /\ stage[a] = "opening" /\ s = "spawning" /\ failed' = failed
     \/ a \in Workers /\ stage[a] = "working" /\ s = "reporting" /\ failed' \in {failed, TRUE}
     \/ /\ a = Main /\ stage[a] = "waiting" /\ s = "closing" /\ failed' = failed
        /\ AllEnded /\ ~failed

(* It finds a channel full, or gives a line up, or has sent it to all.     *)
FindsFull(a) ==
  /\ step[a] = "try" /\ todo[a] # {} /\ Full(Current(a))
  /\ step' = [step EXCEPT ![a] = "drop"]
  /\ UNCHANGED <<stage, line, todo, failed, verdict, logVars, viewVars, panicked>>
GivesUp(a) ==
  /\ step[a] = "retry" /\ todo[a] # {} /\ Full(Current(a))
  /\ todo' = Sent(a, Current(a))
  /\ step' = [step EXCEPT ![a] = "try"]
  /\ UNCHANGED <<stage, line, failed, verdict, logVars, viewVars, panicked>>
Puts(a) == step[a] \in {"try", "retry"} /\ todo[a] # {} /\ SendTo(a, Current(a))

(* The operation goes on without a line.                                   *)
Moves ==
  /\ UNCHANGED <<step, line, todo, failed, logVars, viewVars, panicked>>
  /\ \/ Spawn \/ Complete
     \/ \E w \in Workers : Enter(w) \/ Exit(w)
     \/ /\ stage[Main] = "waiting" /\ AllEnded /\ failed
        /\ stage' = [stage EXCEPT ![Main] = "ended"] /\ verdict' = "failed"

LEMMA Kinds ==
  ASSUME Phased, StreamNext
  PROVE  \/ \E a \in Appenders, s \in Speaking : Says(a, s)
         \/ \E a \in Appenders : \/ Puts(a) \/ FindsFull(a) \/ DropOldest(a) \/ GivesUp(a)
                                 \/ Returns(a) \/ SendPanics(a, Current(a))
         \/ Moves
         \/ \E v \in Viewers : ViewerStep(v)
<1>1. ASSUME NEW a \in Appenders, Appending(a)
      PROVE  \/ Puts(a) \/ FindsFull(a) \/ DropOldest(a) \/ GivesUp(a)
             \/ Returns(a) \/ SendPanics(a, Current(a))
  <2>1. CASE TrySend(a)
    BY <2>1 DEF TrySend, Puts, FindsFull
  <2>2. CASE Retry(a)
    <3>1. step[a] = "retry" /\ todo[a] # {}
      BY <2>2 DEF Retry, Phased
    <3> QED
      BY <2>2, <3>1 DEF Retry, Puts, GivesUp
  <2> QED
    BY <1>1, <2>1, <2>2 DEF Appending
<1>2. Main \in Appenders /\ Workers \subseteq Appenders /\ Speaking = {"spawning", "reporting", "closing"}
  BY DEF Appenders, Speaking
<1>3. \A a \in Appenders : stage[a] \in {"opening", "waiting", "working"} => ~Busy(a)
  BY DEF Phased, Speaking
<1>4. Open => Says(Main, "spawning")
  BY <1>2, <1>3 DEF Open, Says
<1>5. Finish => Says(Main, "closing") \/ Moves
  BY <1>2, <1>3 DEF Finish, Says, Moves, logVars, viewVars
<1>6. \A w \in Workers : Report(w) => Says(w, "reporting")
  BY <1>2, <1>3 DEF Report, Says
<1>7. Spawn \/ Complete \/ (\E w \in Workers : Enter(w) \/ Exit(w)) => Moves
  BY DEF Moves, Spawn, Complete, Enter, Exit, logVars, viewVars
<1>8. CASE MainStep
  BY <1>1, <1>2, <1>4, <1>5, <1>7, <1>8 DEF MainStep
<1>9. CASE \E w \in Workers : WorkerStep(w)
  BY <1>1, <1>2, <1>6, <1>7, <1>9 DEF WorkerStep
<1> QED
  BY <1>8, <1>9 DEF StreamNext

(* Numbers are never taken back, and lines of a log are lines of a longer  *)
(* one.                                                                    *)
LEMMA LongerLog ==
  ASSUME NEW n \in Nat, NEW k \in Nat, n <= k
  PROVE  /\ 0..n \subseteq 0..k /\ Seq(1..n) \subseteq Seq(1..k)
         /\ \A D : [D -> Seq(1..n)] \subseteq [D -> Seq(1..k)]
<1>1. 0..n \subseteq 0..k /\ 1..n \subseteq 1..k
  OBVIOUS
<1>2. Seq(1..n) \subseteq Seq(1..k)
  BY <1>1, SeqMonotonic
<1> QED
  BY <1>1, <1>2

LEMMA InitStreamType == StreamInit => StreamTypeOK
<1> SUFFICES ASSUME StreamInit PROVE StreamTypeOK
  OBVIOUS
<1>1. RingSize \in Nat /\ BufferSize \in Nat
  BY SizesAssumption
<1>2. <<>> \in Seq(1..count) /\ Len(<<>>) = 0
  BY EmptySeq
<1>3. /\ {chan, backlog, got} \subseteq [Viewers -> Seq(1..count)]
      /\ \A v \in Viewers : Len(chan[v]) <= BufferSize
      /\ ring \in Seq(1..count) /\ Len(ring) <= RingSize
  BY <1>1, <1>2 DEF StreamInit
<1>4. 0 \in 0..count /\ count \in Nat
  BY DEF StreamInit
<1>5. line \in [Appenders -> 0..count] /\ since \in [Viewers -> 0..count] /\ lagged \subseteq Viewers
  BY <1>4 DEF StreamInit
<1>6. subs = {v \in Viewers : viewer[v] = "reading"} /\ closed = {v \in Viewers : viewer[v] = "gone"}
  BY DEF StreamInit
<1> QED
  BY <1>3, <1>4, <1>5, <1>6 DEF StreamInit, StreamTypeOK

LEMMA StreamTypes == StreamTypeOK /\ Phased /\ Numbered /\ [StreamNext]_streamVars => StreamTypeOK'
<1> SUFFICES ASSUME StreamTypeOK, Phased, Numbered, [StreamNext]_streamVars PROVE StreamTypeOK'
  OBVIOUS
<1>1. RingSize \in Nat \ {0} /\ BufferSize \in Nat \ {0} /\ count \in Nat
  BY SizesAssumption DEF StreamTypeOK
<1>2. ASSUME NEW a \in Appenders, NEW s \in Speaking, Says(a, s) PROVE StreamTypeOK'
  <2>1. /\ AppendLine(a, s) /\ count' = count + 1
        /\ UNCHANGED <<subs, chan, closed, viewer, backlog, got, since, panicked>>
    BY <1>2 DEF Says, AppendLine
  <2>2. /\ 0..count \subseteq 0..count' /\ Seq(1..count) \subseteq Seq(1..count')
        /\ \A D : [D -> Seq(1..count)] \subseteq [D -> Seq(1..count')]
    BY <2>1, <1>1, LongerLog
  <2>3. ring' \in Seq(1..count') /\ Len(ring') <= RingSize
    <3>1. Append(ring, count') \in Seq(1..count')
      BY <2>1, <2>2, <1>1, AppendedLine DEF StreamTypeOK
    <3> QED
      BY <3>1, <2>1, <1>1, LastLines DEF AppendLine
  <2>4. line' \in [Appenders -> 0..count'] /\ count' \in Nat
    BY <2>1, <2>2, <1>1 DEF AppendLine, StreamTypeOK
  <2>5. /\ todo' \in [Appenders -> SUBSET Viewers]
        /\ step' \in [Appenders -> {"none", "try", "drop", "retry"}]
    BY <2>1 DEF AppendLine, StreamTypeOK, Audience
  <2>6. /\ stage' \in [Appenders -> {"opening", "unborn", "spawning", "queued",
                                     "working", "reporting", "waiting", "closing", "ended"}]
    BY <2>1 DEF AppendLine, StreamTypeOK, Speaking
  <2>7. failed' \in BOOLEAN /\ verdict' = verdict
    BY <1>2 DEF Says, StreamTypeOK
  <2>8. {chan', backlog', got'} \subseteq [Viewers -> Seq(1..count')]
    BY <2>1, <2>2 DEF StreamTypeOK
  <2>9. since' \in [Viewers -> 0..count'] /\ lagged' \subseteq Viewers
    BY <2>1, <2>2 DEF AppendLine, StreamTypeOK
  <2> QED
    BY <2>1, <2>3, <2>4, <2>5, <2>6, <2>7, <2>8, <2>9 DEF StreamTypeOK
<1>3. ASSUME NEW a \in Appenders, Puts(a) PROVE StreamTypeOK'
  <2> DEFINE v == Current(a)
  <2>1. SendTo(a, v) /\ v \in todo[a]
    BY <1>3 DEF Puts, Current, SomeOf
  <2>2. v \in Viewers /\ line[a] \in 1..count
    BY <1>3, <2>1 DEF Puts, Numbered, Busy, StreamTypeOK
  <2> HIDE DEF v
  <2>3. chan[v] \in Seq(1..count) /\ Len(chan[v]) < BufferSize /\ Len(chan[v]) \in Nat
    BY <2>1, <2>2, LenProperties DEF SendTo, StreamTypeOK
  <2>4. Append(chan[v], line[a]) \in Seq(1..count) /\ Len(Append(chan[v], line[a])) <= BufferSize
    BY <2>2, <2>3, <1>1, AppendedLine
  <2>5. chan' \in [Viewers -> Seq(1..count)] /\ \A u \in Viewers : Len(chan'[u]) <= BufferSize
    BY <2>1, <2>2, <2>4 DEF SendTo, StreamTypeOK
  <2>6. /\ todo' \in [Appenders -> SUBSET Viewers]
        /\ step' \in [Appenders -> {"none", "try", "drop", "retry"}]
    BY <2>1 DEF SendTo, Sent, StreamTypeOK
  <2> QED
    BY <2>1, <2>5, <2>6 DEF SendTo, StreamTypeOK, logVars
<1>4. \A v \in Viewers : /\ WithoutOldest(v) \in [Viewers -> Seq(1..count)]
                         /\ \A u \in Viewers : Len(WithoutOldest(v)[u]) <= BufferSize
  <2> SUFFICES ASSUME NEW v \in Viewers
               PROVE  /\ WithoutOldest(v) \in [Viewers -> Seq(1..count)]
                      /\ \A u \in Viewers : Len(WithoutOldest(v)[u]) <= BufferSize
    OBVIOUS
  <2>1. chan \in [Viewers -> Seq(1..count)] /\ \A u \in Viewers : Len(chan[u]) <= BufferSize
    BY DEF StreamTypeOK
  <2> DEFINE t == IF chan[v] = <<>> THEN <<>> ELSE SubSeq(chan[v], 2, Len(chan[v]))
  <2>2. t \in Seq(1..count) /\ Len(t) <= BufferSize
    <3>1. CASE chan[v] = <<>>
      BY <3>1, <1>1, EmptySeq
    <3>2. CASE chan[v] # <<>>
      <4>1. t \in Seq(1..count) /\ Len(t) = Len(chan[v]) - 1
        BY <3>2, <2>1, DroppedHead
      <4>2. Len(chan[v]) \in Nat
        BY <2>1, LenProperties
      <4> QED
        BY <4>1, <4>2, <2>1, <1>1
    <3> QED
      BY <3>1, <3>2
  <2> HIDE DEF t
  <2>3. WithoutOldest(v) = [chan EXCEPT ![v] = t]
    BY DEF WithoutOldest, t
  <2> QED
    BY <2>1, <2>2, <2>3
<1>5. ASSUME NEW a \in Appenders, FindsFull(a) \/ GivesUp(a) \/ Returns(a) PROVE StreamTypeOK'
  <2>1. /\ todo' \in [Appenders -> SUBSET Viewers]
        /\ step' \in [Appenders -> {"none", "try", "drop", "retry"}]
    BY <1>5 DEF FindsFull, GivesUp, Returns, Sent, StreamTypeOK
  <2>3. line' = line \/ line' = [line EXCEPT ![a] = 0]
    BY <1>5 DEF FindsFull, GivesUp, Returns
  <2>4. line' \in [Appenders -> 0..count]
    <3>1. 0 \in 0..count
      BY <1>1
    <3> QED
      BY <2>3, <3>1 DEF StreamTypeOK
  <2>2. UNCHANGED <<stage, failed, verdict, logVars, viewVars, panicked>>
    BY <1>5 DEF FindsFull, GivesUp, Returns
  <2> QED
    BY <2>1, <2>2, <2>4 DEF StreamTypeOK, logVars, viewVars
<1>6. ASSUME NEW a \in Appenders, DropOldest(a) PROVE StreamTypeOK'
  <2>1. Current(a) \in Viewers
    BY <1>6 DEF DropOldest, Phased, Current, SomeOf, StreamTypeOK
  <2>2. chan' \in [Viewers -> Seq(1..count)] /\ \A u \in Viewers : Len(chan'[u]) <= BufferSize
    BY <2>1, <1>4, <1>6 DEF DropOldest
  <2>3. step' \in [Appenders -> {"none", "try", "drop", "retry"}]
    BY <1>6 DEF DropOldest, StreamTypeOK
  <2> QED
    BY <1>6, <2>2, <2>3 DEF DropOldest, StreamTypeOK, logVars
<1>7. ASSUME NEW a \in Appenders, SendPanics(a, Current(a)) PROVE StreamTypeOK'
  BY <1>7 DEF SendPanics, StreamTypeOK, opVars, logVars, viewVars
<1>8. CASE Moves
  <2>1. UNCHANGED <<step, line, todo, failed, logVars, viewVars, panicked>>
    BY <1>8 DEF Moves
  <2>2. Main \in Appenders /\ Workers \subseteq Appenders
    BY DEF Appenders
  <2>3. /\ stage' \in [Appenders -> {"opening", "unborn", "spawning", "queued",
                                     "working", "reporting", "waiting", "closing", "ended"}]
        /\ verdict' \in {"running", "failed", "completed"}
    BY <1>8, <2>2 DEF Moves, Spawn, Complete, Enter, Exit, StreamTypeOK
  <2> QED
    BY <2>1, <2>3 DEF StreamTypeOK, logVars, viewVars
<1>9. ASSUME NEW v \in Viewers, ViewerStep(v) PROVE StreamTypeOK'
  <2>1. UNCHANGED <<opVars, logVars, lagged, panicked>>
    BY <1>9 DEF ViewerStep, Subscribe, Receive, Unsubscribe, CloseChannel
  <2>2. /\ viewer' \in [Viewers -> {"away", "reading", "leaving", "gone"}]
        /\ subs' = {u \in Viewers : viewer'[u] = "reading"}
        /\ closed' = {u \in Viewers : viewer'[u] = "gone"}
    <3>1. CASE Subscribe(v)
      BY <3>1 DEF Subscribe, StreamTypeOK
    <3>2. CASE Receive(v)
      BY <3>2 DEF Receive, StreamTypeOK
    <3>3. CASE Unsubscribe(v)
      BY <3>3 DEF Unsubscribe, StreamTypeOK
    <3>4. CASE CloseChannel(v)
      BY <3>4 DEF CloseChannel, StreamTypeOK
    <3> QED
      BY <1>9, <3>1, <3>2, <3>3, <3>4 DEF ViewerStep
  <2>3. backlog' \in [Viewers -> Seq(1..count)] /\ since' \in [Viewers -> 0..count]
    <3>1. \/ UNCHANGED <<backlog, since>>
          \/ backlog' = [backlog EXCEPT ![v] = ring] /\ since' = [since EXCEPT ![v] = count]
      BY <1>9 DEF ViewerStep, Subscribe, Receive, Unsubscribe, CloseChannel
    <3>2. count \in 0..count
      BY <1>1
    <3> QED
      BY <3>1, <3>2 DEF StreamTypeOK
  <2>4. /\ {chan', got'} \subseteq [Viewers -> Seq(1..count)]
        /\ \A u \in Viewers : Len(chan'[u]) <= BufferSize
    <3>1. CASE Receive(v)
      <4>1. Head(chan[v]) \in 1..count
        BY <3>1, HeadTailProperties DEF Receive, StreamTypeOK
      <4>2. Append(got[v], Head(chan[v])) \in Seq(1..count)
        BY <4>1, AppendedLine DEF StreamTypeOK
      <4>3. got' \in [Viewers -> Seq(1..count)]
        BY <3>1, <4>2 DEF Receive, StreamTypeOK
      <4> QED
        BY <3>1, <4>3, <1>4 DEF Receive
    <3>2. CASE ~Receive(v)
      BY <1>9, <3>2 DEF ViewerStep, Subscribe, Unsubscribe, CloseChannel, StreamTypeOK
    <3> QED
      BY <3>1, <3>2
  <2> QED
    BY <2>1, <2>2, <2>3, <2>4 DEF StreamTypeOK, opVars, logVars
<1>10. CASE UNCHANGED streamVars
  BY <1>10 DEF streamVars, opVars, logVars, viewVars, StreamTypeOK
<1> QED
  BY <1>2, <1>3, <1>5, <1>6, <1>7, <1>8, <1>9, <1>10, Kinds

-----------------------------------------------------------------------------
(* The operation: where its goroutines are, and how many lines there are.  *)

(* A step inside appendLine, or of a viewer, leaves the operation alone.   *)
Sends(a) == Puts(a) \/ FindsFull(a) \/ DropOldest(a) \/ GivesUp(a) \/ Returns(a)

LEMMA SendsAlone ==
  ASSUME StreamTypeOK, Phased, NEW a \in Appenders, Sends(a)
  PROVE  /\ UNCHANGED <<stage, failed, verdict, logVars, subs, closed, viewer, backlog, got, since, lagged>>
         /\ Busy(a)
         /\ \A b \in Appenders : b # a => step'[b] = step[b] /\ todo'[b] = todo[b] /\ line'[b] = line[b]
         /\ Busy(a)' => line'[a] = line[a] /\ todo'[a] \subseteq todo[a]
         /\ ~Busy(a)' => todo'[a] = {}
         /\ step'[a] \in {"drop", "retry"} => todo'[a] # {}
<1>1. CASE Puts(a)
  BY <1>1 DEF Puts, SendTo, Sent, Busy, StreamTypeOK
<1>2. CASE FindsFull(a)
  BY <1>2 DEF FindsFull, Busy, viewVars, StreamTypeOK
<1>3. CASE DropOldest(a)
  BY <1>3 DEF DropOldest, Busy, Phased, StreamTypeOK
<1>4. CASE GivesUp(a)
  BY <1>4 DEF GivesUp, Sent, Busy, viewVars, StreamTypeOK
<1>5. CASE Returns(a)
  BY <1>5 DEF Returns, Busy, viewVars, StreamTypeOK
<1> QED
  BY <1>1, <1>2, <1>3, <1>4, <1>5 DEF Sends

(* The other steps that leave the operation alone.                         *)
Aside == \/ \E a \in Appenders : SendPanics(a, Current(a))
         \/ \E v \in Viewers : ViewerStep(v)
         \/ UNCHANGED streamVars
LEMMA AsideAlone == Aside => UNCHANGED <<opVars, logVars>>
  BY DEF Aside, SendPanics, ViewerStep, Subscribe, Receive, Unsubscribe, CloseChannel, streamVars

LEMMA KindsOfSteps ==
  ASSUME Phased, [StreamNext]_streamVars
  PROVE  \/ \E a \in Appenders, s \in Speaking : Says(a, s)
         \/ \E a \in Appenders : Sends(a)
         \/ Moves
         \/ Aside
  BY Kinds DEF Sends, Aside

LEMMA PhasedInit == StreamInit => Phased
  BY WorkersAssumption DEF StreamInit, Phased, Fresh, Over, Busy, Appenders

LEMMA PhasedNext == StreamTypeOK /\ Phased /\ [StreamNext]_streamVars => Phased'
<1> SUFFICES ASSUME StreamTypeOK, Phased, [StreamNext]_streamVars PROVE Phased'
  OBVIOUS
<1>1. Main \in Appenders /\ Workers \subseteq Appenders /\ Main \notin Workers
  BY WorkersAssumption DEF Appenders
<1>2. ASSUME NEW a \in Appenders, NEW s \in Speaking, Says(a, s) PROVE Phased'
  <2>1. /\ \A b \in Appenders : stage'[b] = IF b = a THEN s ELSE stage[b]
        /\ \A b \in Appenders : step'[b] = IF b = a THEN "try" ELSE step[b]
        /\ \A b \in Appenders : b # a => todo'[b] = todo[b]
    BY <1>2 DEF Says, AppendLine, StreamTypeOK
  <2>2. \/ a = Main /\ stage[a] = "opening" /\ s = "spawning"
        \/ a \in Workers /\ stage[a] = "working" /\ s = "reporting"
        \/ a = Main /\ stage[a] = "waiting" /\ s = "closing" /\ AllEnded
    BY <1>2 DEF Says
  <2>3. /\ \A b \in Appenders : IF Busy(b)' THEN stage'[b] \in Speaking ELSE todo'[b] = {}
        /\ \A b \in Appenders : step'[b] \in {"drop", "retry"} => todo'[b] # {}
    BY <2>1 DEF Phased, Busy
  <2>4. /\ stage'[Main] \in {"opening", "spawning", "waiting", "closing", "ended"}
        /\ \A w \in Workers : IF Fresh' THEN stage'[w] = "unborn"
                              ELSE stage'[w] \in {"queued", "working", "reporting", "ended"}
        /\ Over' => AllEnded'
    BY <1>1, <2>1, <2>2 DEF Phased, Fresh, Over, AllEnded
  <2> QED
    BY <2>3, <2>4 DEF Phased, Fresh, Over, AllEnded, Busy, Speaking
<1>3. ASSUME NEW a \in Appenders, Sends(a) PROVE Phased'
  BY <1>3, SendsAlone DEF Phased, Fresh, Over, AllEnded, Busy, Speaking
<1>4. CASE Moves
  <2>1. UNCHANGED <<step, todo>>
    BY <1>4 DEF Moves
  <2>2. CASE Spawn
    <3>1. /\ stage[Main] = "spawning" /\ step[Main] = "none"
          /\ stage' = [b \in Appenders |-> IF b = Main THEN "waiting" ELSE "queued"]
      BY <2>2 DEF Spawn
    <3>2. stage'[Main] = "waiting" /\ \A w \in Workers : stage'[w] = "queued"
      BY <1>1, <3>1
    <3>3. \A b \in Appenders : ~Busy(b)
      BY <1>1, <3>1 DEF Phased, Fresh, Busy, Speaking, Appenders
    <3>4. \A b \in Appenders : ~Busy(b)' /\ todo'[b] = {} /\ step'[b] = "none"
      BY <2>1, <3>3 DEF Busy, Phased
    <3> QED
      BY <3>2, <3>4 DEF Phased, Fresh, Over, AllEnded, Busy
  <2>3. CASE Complete \/ (stage[Main] = "waiting" /\ AllEnded /\ failed
                          /\ stage' = [stage EXCEPT ![Main] = "ended"])
    <3>1. /\ ~Busy(Main) /\ stage' = [stage EXCEPT ![Main] = "ended"]
          /\ AllEnded /\ ~Fresh
      BY <1>1, <2>3 DEF Complete, Phased, Over, Fresh, Busy, Speaking
    <3>2. \A b \in Appenders : stage'[b] = IF b = Main THEN "ended" ELSE stage[b]
      BY <3>1 DEF StreamTypeOK
    <3> QED
      BY <1>1, <2>1, <3>1, <3>2 DEF Phased, Fresh, Over, AllEnded, Busy, Speaking
  <2>4. ASSUME NEW w \in Workers, Enter(w) \/ Exit(w) PROVE Phased'
    <3>1. \A b \in Appenders : b # w => stage'[b] = stage[b]
      BY <2>4 DEF Enter, Exit, StreamTypeOK
    <3>2. ~Busy(w) /\ stage'[w] \in {"working", "ended"} /\ stage[w] \in {"queued", "reporting"}
      BY <1>1, <2>4 DEF Enter, Exit, Phased, Busy, Speaking, StreamTypeOK
    <3> QED
      BY <1>1, <2>1, <3>1, <3>2 DEF Phased, Fresh, Over, AllEnded, Busy, Speaking
  <2> QED
    BY <1>4, <2>2, <2>3, <2>4 DEF Moves
<1>5. CASE Aside
  BY <1>5, AsideAlone DEF Phased, Fresh, Over, AllEnded, Busy, Speaking, opVars
<1> QED
  BY <1>2, <1>3, <1>4, <1>5, KindsOfSteps

LEMMA JudgedInit == StreamInit => Judged /\ Counted
<1> SUFFICES ASSUME StreamInit PROVE Judged /\ Counted
  OBVIOUS
<1>1. Main \in Appenders /\ Workers \subseteq Appenders /\ Main \notin Workers
  BY WorkersAssumption DEF Appenders
<1>2. Reported = {}
  BY <1>1 DEF StreamInit, Reported
<1>3. Cardinality(Reported) = 0
  BY <1>2, FS_EmptySet
<1> QED
  BY <1>1, <1>3 DEF StreamInit, Judged, Counted, Over

LEMMA JudgedNext == StreamTypeOK /\ Phased /\ Judged /\ [StreamNext]_streamVars => Judged'
<1> SUFFICES ASSUME StreamTypeOK, Phased, Judged, [StreamNext]_streamVars PROVE Judged'
  OBVIOUS
<1>1. Main \in Appenders /\ Workers \subseteq Appenders /\ Main \notin Workers
  BY WorkersAssumption DEF Appenders
<1>2. ASSUME NEW a \in Appenders, NEW s \in Speaking, Says(a, s) PROVE Judged'
  <2>1. /\ \A b \in Appenders : stage'[b] = IF b = a THEN s ELSE stage[b]
        /\ verdict' = verdict
    BY <1>2 DEF Says, AppendLine, StreamTypeOK
  <2>2. CASE a = Main
    <3>1. /\ stage[Main] # "ended" /\ stage'[Main] = s /\ s \in {"spawning", "closing"}
          /\ failed' = failed /\ (s = "closing" => ~failed)
      BY <1>1, <1>2, <2>1, <2>2 DEF Says
    <3> QED
      BY <2>1, <3>1 DEF Judged
  <2>3. CASE a \in Workers
    <3>1. ~Over
      BY <1>1, <1>2, <2>3 DEF Says, Phased, AllEnded
    <3> QED
      BY <1>1, <2>1, <2>3, <3>1 DEF Judged, Over
  <2> QED
    BY <2>2, <2>3 DEF Appenders
<1>3. ASSUME NEW a \in Appenders, Sends(a) PROVE Judged'
  BY <1>3, SendsAlone DEF Judged
<1>4. CASE Moves
  BY <1>1, <1>4 DEF Moves, Spawn, Complete, Enter, Exit, Judged, StreamTypeOK
<1>5. CASE Aside
  BY <1>5, AsideAlone DEF Judged, opVars
<1> QED
  BY <1>2, <1>3, <1>4, <1>5, KindsOfSteps

LEMMA CountedNext ==
  StreamTypeOK /\ Phased /\ Judged /\ Counted /\ [StreamNext]_streamVars => Counted'
<1> SUFFICES ASSUME StreamTypeOK, Phased, Judged, Counted, [StreamNext]_streamVars PROVE Counted'
  OBVIOUS
<1>1. Main \in Appenders /\ Workers \subseteq Appenders /\ Main \notin Workers
  BY WorkersAssumption DEF Appenders
<1>2. IsFiniteSet(Reported) /\ Cardinality(Reported) \in Nat
  BY WorkersAssumption, FS_Subset, FS_CardinalityType DEF Reported
<1>3. ASSUME NEW a \in Appenders, NEW s \in Speaking, Says(a, s) PROVE Counted'
  <2>1. /\ \A b \in Appenders : stage'[b] = IF b = a THEN s ELSE stage[b]
        /\ count' = count + 1
    BY <1>3 DEF Says, AppendLine, StreamTypeOK
  <2>2. CASE a = Main
    <3>1. Reported' = Reported
      BY <1>1, <2>1, <2>2 DEF Reported
    <3>2. stage'[Main] = s /\ failed' = failed
      BY <1>1, <1>3, <2>1, <2>2 DEF Says
    <3>3. CASE stage[Main] = "opening" /\ s = "spawning"
      <4>1. ~Over /\ ~Over'
        BY <3>2, <3>3 DEF Over
      <4> QED
        BY <1>2, <2>1, <3>1, <3>2, <3>3, <4>1 DEF Counted
    <3>4. CASE stage[Main] = "waiting" /\ s = "closing" /\ ~failed
      <4>1. ~Over /\ Over'
        BY <3>2, <3>4 DEF Over
      <4> QED
        BY <1>2, <2>1, <3>1, <3>2, <3>4, <4>1 DEF Counted
    <3> QED
      BY <1>1, <1>3, <2>2, <3>3, <3>4 DEF Says
  <2>3. CASE a \in Workers
    <3>1. stage[a] = "working" /\ s = "reporting"
      BY <1>1, <1>3, <2>3 DEF Says
    <3>2. Reported' = Reported \cup {a} /\ a \notin Reported
      BY <1>1, <2>1, <2>3, <3>1 DEF Reported
    <3>3. Cardinality(Reported') = Cardinality(Reported) + 1
      BY <1>2, <3>2, FS_AddElement
    <3>4. ~Over /\ ~Over' /\ stage[Main] # "opening" /\ stage'[Main] = stage[Main]
      BY <1>1, <2>1, <2>3, <3>1 DEF Phased, AllEnded, Over, Fresh
    <3> QED
      BY <1>2, <2>1, <3>3, <3>4 DEF Counted
  <2> QED
    BY <2>2, <2>3 DEF Appenders
<1>4. ASSUME NEW a \in Appenders, Sends(a) PROVE Counted'
  BY <1>4, SendsAlone DEF Counted, Reported, Over, logVars
<1>5. CASE Moves
  <2>1. UNCHANGED <<failed, count>>
    BY <1>5 DEF Moves, logVars
  <2>2. /\ Reported' = Reported
        /\ stage[Main] # "opening" /\ stage'[Main] # "opening"
        /\ (Over /\ ~failed) = (Over' /\ ~failed')
    <3>1. CASE Spawn
      BY <1>1, <2>1, <3>1 DEF Spawn, Phased, Fresh, Over, Reported
    <3>2. CASE Complete
      BY <1>1, <2>1, <3>2 DEF Complete, Over, Reported, StreamTypeOK
    <3>3. CASE stage[Main] = "waiting" /\ failed /\ stage' = [stage EXCEPT ![Main] = "ended"]
      BY <1>1, <2>1, <3>3 DEF Over, Reported, StreamTypeOK
    <3>4. ASSUME NEW w \in Workers, Enter(w) \/ Exit(w)
          PROVE  /\ Reported' = Reported
                 /\ stage[Main] # "opening" /\ stage'[Main] # "opening"
                 /\ (Over /\ ~failed) = (Over' /\ ~failed')
      <4>1. \A b \in Appenders : b # w => stage'[b] = stage[b]
        BY <3>4 DEF Enter, Exit, StreamTypeOK
      <4>2. \/ stage[w] = "queued" /\ stage'[w] = "working"
            \/ stage[w] = "reporting" /\ stage'[w] = "ended"
        BY <1>1, <3>4 DEF Enter, Exit, StreamTypeOK
      <4>3. Reported' = Reported
        BY <1>1, <4>1, <4>2 DEF Reported
      <4> QED
        BY <1>1, <2>1, <4>1, <4>2, <4>3 DEF Phased, Fresh, Over
    <3> QED
      BY <1>5, <3>1, <3>2, <3>3, <3>4 DEF Moves
  <2> QED
    BY <2>1, <2>2 DEF Counted
<1>6. CASE Aside
  BY <1>6, AsideAlone DEF Counted, Reported, Over, opVars, logVars
<1> QED
  BY <1>3, <1>4, <1>5, <1>6, KindsOfSteps

-----------------------------------------------------------------------------
(* The lines: each has one goroutine that sends it, and the ring holds the *)
(* last of them in order.                                                  *)

LEMMA NumberedInit == StreamInit => Numbered
<1> SUFFICES ASSUME StreamInit PROVE Numbered
  OBVIOUS
<1>1. DOMAIN ring = {}
  BY EmptySeq, LenProperties DEF StreamInit
<1> QED
  BY <1>1 DEF StreamInit, Numbered, Busy

LEMMA NumberedNext ==
  StreamTypeOK /\ Phased /\ Numbered /\ [StreamNext]_streamVars => Numbered'
<1> SUFFICES ASSUME StreamTypeOK, Phased, Numbered, [StreamNext]_streamVars PROVE Numbered'
  OBVIOUS
<1>1. count \in Nat /\ RingSize \in Nat \ {0}
  BY SizesAssumption DEF StreamTypeOK
<1>2. ASSUME NEW a \in Appenders, NEW s \in Speaking, Says(a, s) PROVE Numbered'
  <2>1. /\ \A b \in Appenders : line'[b] = IF b = a THEN count + 1 ELSE line[b]
        /\ \A b \in Appenders : Busy(b)' <=> (b = a \/ Busy(b))
        /\ count' = count + 1
        /\ ring' = LastOf(Append(ring, count + 1), RingSize)
    BY <1>2 DEF Says, AppendLine, StreamTypeOK, Busy
  <2>2. \A b \in Appenders : Busy(b)' => line'[b] \in 1..count'
    BY <1>1, <2>1 DEF Numbered
  <2>3. \A b, c \in Appenders : Busy(b)' /\ Busy(c)' /\ line'[b] = line'[c] => b = c
    BY <1>1, <2>1 DEF Numbered
  <2>4. \A i \in DOMAIN ring' : ring'[i] = count' - Len(ring') + i
    <3> DEFINE longer == Append(ring, count + 1)
    <3>1. ring \in Seq(Nat) /\ count + 1 \in Nat
      <4>1. ring \in Seq(1..count) /\ 1..count \subseteq Nat
        BY <1>1 DEF StreamTypeOK
      <4> QED
        BY <1>1, <4>1, SeqMonotonic
    <3>2. /\ longer \in Seq(Nat) /\ Len(longer) = Len(ring) + 1 /\ Len(ring) \in Nat
          /\ \A i \in 1..Len(ring) : longer[i] = ring[i]
          /\ longer[Len(ring) + 1] = count + 1
      BY <3>1, AppendProperties, LenProperties
    <3>3. DOMAIN longer = 1..(Len(ring) + 1) /\ DOMAIN ring = 1..Len(ring)
      BY <3>1, <3>2, LenProperties
    <3> HIDE DEF longer
    <3>4. \A i \in DOMAIN longer : longer[i] = count' - Len(longer) + i
      <4> SUFFICES ASSUME NEW i \in DOMAIN longer PROVE longer[i] = count' - Len(longer) + i
        OBVIOUS
      <4>1. CASE i \in DOMAIN ring
        <5>1. longer[i] = ring[i] /\ ring[i] = count - Len(ring) + i /\ i \in Nat
          BY <3>2, <3>3, <4>1 DEF Numbered
        <5> QED
          BY <1>1, <2>1, <3>2, <5>1
      <4>2. CASE i = Len(ring) + 1
        BY <1>1, <2>1, <3>2, <4>2
      <4> QED
        BY <3>2, <3>3, <4>1, <4>2
    <3>5. /\ ring' \in Seq(Nat)
          /\ \A i \in DOMAIN ring' : LET k == Len(longer) - Len(ring') + i
                                     IN k \in DOMAIN longer /\ ring'[i] = longer[k]
      <4>1. ring' = LastOf(longer, RingSize)
        BY <2>1 DEF longer
      <4> QED
        BY <1>1, <3>2, <4>1, LastLines
    <3>6. Len(ring') \in Nat /\ DOMAIN ring' \subseteq Nat
      BY <3>5, LenProperties
    <3> SUFFICES ASSUME NEW i \in DOMAIN ring' PROVE ring'[i] = count' - Len(ring') + i
      OBVIOUS
    <3> DEFINE k == Len(longer) - Len(ring') + i
    <3>7. k \in DOMAIN longer /\ ring'[i] = longer[k]
      BY <3>5
    <3>8. ring'[i] = count' - Len(longer) + k
      BY <3>4, <3>7
    <3> QED
      BY <1>1, <2>1, <3>2, <3>6, <3>8
  <2> QED
    BY <2>2, <2>3, <2>4 DEF Numbered, Busy
<1>3. ASSUME NEW a \in Appenders, Sends(a) PROVE Numbered'
  <2>1. \A b \in Appenders : Busy(b)' => Busy(b) /\ line'[b] = line[b]
    BY <1>3, SendsAlone DEF Busy
  <2>2. UNCHANGED <<count, ring>>
    BY <1>3, SendsAlone DEF logVars
  <2> QED
    BY <2>1, <2>2 DEF Numbered
<1>4. CASE Moves
  BY <1>4 DEF Moves, Numbered, Busy, logVars
<1>5. CASE Aside
  BY <1>5, AsideAlone DEF Numbered, Busy, opVars, logVars
<1> QED
  BY <1>2, <1>3, <1>4, <1>5, KindsOfSteps

-----------------------------------------------------------------------------
(* The deliveries: to each viewer its own lines, once.                     *)

LEMMA EmptyLine == Lines(<<>>) = {} /\ Injective(<<>>)
<1>1. DOMAIN <<>> = {}
  BY EmptySeq, LenProperties
<1> QED
  BY <1>1 DEF Lines, Injective

LEMMA DeliveredInit == StreamInit => Delivered
<1> SUFFICES ASSUME StreamInit, NEW v \in Viewers PROVE DeliveredTo(v)
  BY DEF Delivered
<1>1. backlog[v] = <<>> /\ got[v] = <<>> /\ chan[v] = <<>> /\ \A a \in Appenders : v \notin todo[a]
  BY DEF StreamInit
<1>2. DOMAIN backlog[v] = {}
  BY <1>1, EmptySeq, LenProperties
<1> QED
  BY <1>1, <1>2, EmptyLine DEF DeliveredTo, Received

(* Taking the oldest line from v's channel.                                *)
LEMMA Drained ==
  ASSUME StreamTypeOK, NEW v \in Viewers, NEW u \in Viewers
  PROVE  LET c == WithoutOldest(v)
         IN /\ Lines(c[u]) \subseteq Lines(chan[u])
            /\ Injective(chan[u]) => Injective(c[u])
            /\ chan[u] = <<>> => c[u] = <<>>
            /\ u # v => c[u] = chan[u]
            /\ chan[v] # <<>> => /\ Lines(chan[v]) = Lines(c[v]) \cup {Head(chan[v])}
                                 /\ Injective(chan[v]) => Head(chan[v]) \notin Lines(c[v])
                                 /\ Len(c[v]) = Len(chan[v]) - 1
<1> DEFINE t == IF chan[v] = <<>> THEN <<>> ELSE SubSeq(chan[v], 2, Len(chan[v]))
<1>1. chan \in [Viewers -> Seq(1..count)]
  BY DEF StreamTypeOK
<1>2. WithoutOldest(v) = [chan EXCEPT ![v] = t]
  BY DEF WithoutOldest
<1>3. /\ Lines(t) \subseteq Lines(chan[v])
      /\ Injective(chan[v]) => Injective(t)
      /\ chan[v] = <<>> => t = <<>>
      /\ chan[v] # <<>> => /\ Lines(chan[v]) = Lines(t) \cup {Head(chan[v])}
                           /\ Injective(chan[v]) => Head(chan[v]) \notin Lines(t)
                           /\ Len(t) = Len(chan[v]) - 1
  <2>1. CASE chan[v] = <<>>
    BY <2>1
  <2>2. CASE chan[v] # <<>>
    BY <1>1, <2>2, DroppedHead
  <2> QED
    BY <2>1, <2>2
<1> HIDE DEF t
<1>4. WithoutOldest(v)[v] = t /\ \A x \in Viewers : x # v => WithoutOldest(v)[x] = chan[x]
  BY <1>1, <1>2
<1> QED
  BY <1>3, <1>4

(* What must hold after a step of what v was sent, part by part.           *)
ReceivedNext(v) == Lines(got'[v]) \cup Lines(chan'[v])

LEMMA DeliveredAfter ==
  ASSUME NEW v \in Viewers,
         viewer'[v] = "away" => /\ backlog'[v] = <<>> /\ got'[v] = <<>> /\ chan'[v] = <<>>
                                /\ \A a \in Appenders : v \notin todo'[a],
         \A i \in DOMAIN backlog'[v] : backlog'[v][i] = since'[v] - Len(backlog'[v]) + i,
         Injective(got'[v]) /\ Injective(chan'[v]),
         Lines(got'[v]) \cap Lines(chan'[v]) = {},
         ReceivedNext(v) \subseteq since'[v] + 1 .. count',
         \A a \in Appenders : v \in todo'[a] => /\ line'[a] > since'[v]
                                               /\ line'[a] \notin ReceivedNext(v)
  PROVE  DeliveredTo(v)'
BY DEF DeliveredTo, Received, ReceivedNext, Lines, Injective

(* What a step that gives v nothing must leave alone.                      *)
LEMMA NothingNew ==
  ASSUME NEW v \in Viewers, DeliveredTo(v), StreamTypeOK,
         viewer'[v] = "away" => viewer[v] = "away",
         backlog'[v] = backlog[v], got'[v] = got[v], since'[v] = since[v], count' = count,
         Lines(chan'[v]) \subseteq Lines(chan[v]), Injective(chan[v]) => Injective(chan'[v]),
         chan[v] = <<>> => chan'[v] = <<>>,
         \A b \in Appenders : v \in todo'[b] => v \in todo[b] /\ line'[b] = line[b]
  PROVE  DeliveredTo(v)'
<1>1. ReceivedNext(v) \subseteq Received(v)
  BY DEF Received, ReceivedNext
<1>2. Injective(got'[v]) /\ Injective(chan'[v]) /\ Lines(got'[v]) \cap Lines(chan'[v]) = {}
  BY DEF DeliveredTo
<1>3. \A i \in DOMAIN backlog'[v] : backlog'[v][i] = since'[v] - Len(backlog'[v]) + i
  BY DEF DeliveredTo
<1>4. viewer'[v] = "away" => /\ backlog'[v] = <<>> /\ got'[v] = <<>> /\ chan'[v] = <<>>
                             /\ \A a \in Appenders : v \notin todo'[a]
  BY DEF DeliveredTo
<1>5. \A a \in Appenders : v \in todo'[a] => /\ line'[a] > since'[v]
                                            /\ line'[a] \notin ReceivedNext(v)
  BY <1>1 DEF DeliveredTo
<1>6. ReceivedNext(v) \subseteq since'[v] + 1 .. count'
  BY <1>1 DEF DeliveredTo
<1> QED
  BY <1>2, <1>3, <1>4, <1>5, <1>6, DeliveredAfter

LEMMA DeliveredNext ==
  StreamTypeOK /\ Phased /\ Numbered /\ Delivered /\ [StreamNext]_streamVars => Delivered'
<1> SUFFICES ASSUME StreamTypeOK, Phased, Numbered, Delivered, [StreamNext]_streamVars,
                    NEW v \in Viewers
             PROVE  DeliveredTo(v)'
  BY DEF Delivered
<1>1. DeliveredTo(v) /\ count \in Nat /\ since[v] \in 0..count
  BY DEF Delivered, StreamTypeOK
<1>2. ASSUME NEW a \in Appenders, NEW s \in Speaking, Says(a, s) PROVE DeliveredTo(v)'
  <2>1. /\ todo'[a] = subs /\ line'[a] = count + 1 /\ count' = count + 1
        /\ \A b \in Appenders : b # a => todo'[b] = todo[b] /\ line'[b] = line[b]
        /\ UNCHANGED <<viewer, backlog, got, chan, since>>
    BY <1>2 DEF Says, AppendLine, Audience, StreamTypeOK
  <2>2. ReceivedNext(v) = Received(v) /\ Received(v) \subseteq since[v] + 1 .. count
    BY <1>1, <2>1 DEF ReceivedNext, Received, DeliveredTo
  <2>3. \A b \in Appenders : v \in todo'[b] => line'[b] > since[v] /\ line'[b] \notin ReceivedNext(v)
    BY <1>1, <2>1, <2>2 DEF DeliveredTo
  <2>4. viewer'[v] = "away" => /\ backlog'[v] = <<>> /\ got'[v] = <<>> /\ chan'[v] = <<>>
                               /\ \A b \in Appenders : v \notin todo'[b]
    BY <1>1, <2>1 DEF DeliveredTo, StreamTypeOK
  <2>5. ReceivedNext(v) \subseteq since'[v] + 1 .. count'
    BY <1>1, <2>1, <2>2
  <2>6. Injective(got'[v]) /\ Injective(chan'[v]) /\ Lines(got'[v]) \cap Lines(chan'[v]) = {}
    BY <1>1, <2>1 DEF DeliveredTo
  <2>7. \A i \in DOMAIN backlog'[v] : backlog'[v][i] = since'[v] - Len(backlog'[v]) + i
    BY <1>1, <2>1 DEF DeliveredTo
  <2> QED
    BY <2>1, <2>3, <2>4, <2>5, <2>6, <2>7, DeliveredAfter
<1>3. ASSUME NEW a \in Appenders, Puts(a), v = Current(a) PROVE DeliveredTo(v)'
  <2>1. /\ v \in todo[a] /\ Busy(a) /\ SendTo(a, v)
    BY <1>3 DEF Puts, Current, SomeOf, Busy
  <2>2. /\ chan'[v] = Append(chan[v], line[a])
        /\ todo'[a] = todo[a] \ {v} /\ \A b \in Appenders : b # a => todo'[b] = todo[b]
        /\ UNCHANGED <<viewer, backlog, got, since, line, count>>
    BY <2>1 DEF SendTo, Sent, StreamTypeOK, logVars
  <2>3. /\ line[a] \in 1..count /\ line[a] > since[v] /\ line[a] \notin Received(v)
        /\ viewer[v] # "away"
    BY <1>1, <2>1 DEF Numbered, DeliveredTo
  <2>4. /\ Lines(chan'[v]) = Lines(chan[v]) \cup {line[a]} /\ Injective(chan'[v])
    <3>1. /\ chan[v] \in Seq(1..count) /\ line[a] \in 1..count
          /\ line[a] \notin Lines(chan[v]) /\ Injective(chan[v])
      BY <1>1, <2>3 DEF StreamTypeOK, Received, DeliveredTo
    <3> DEFINE s == chan[v]
               e == line[a]
    <3>2. s \in Seq(1..count) /\ e \in 1..count /\ e \notin Lines(s) /\ Injective(s)
      BY <3>1
    <3>3. Lines(Append(s, e)) = Lines(s) \cup {e} /\ Injective(Append(s, e))
      <4>1. \A x \in Seq(1..count) : \A y \in 1..count :
              /\ Lines(Append(x, y)) = Lines(x) \cup {y}
              /\ Injective(x) /\ y \notin Lines(x) => Injective(Append(x, y))
        BY AppendedLines
      <4> HIDE DEF s, e
      <4> QED
        BY <3>2, <4>1
    <3> QED
      BY <2>2, <3>3 DEF s, e
  <2>5. ReceivedNext(v) = Received(v) \cup {line[a]} /\ Lines(got'[v]) \cap Lines(chan'[v]) = {}
    BY <1>1, <2>2, <2>3, <2>4 DEF ReceivedNext, Received, DeliveredTo
  <2>6. \A b \in Appenders : v \in todo'[b] => line[b] > since[v] /\ line[b] \notin ReceivedNext(v)
    <3> SUFFICES ASSUME NEW b \in Appenders, v \in todo'[b]
                 PROVE  line[b] > since[v] /\ line[b] \notin ReceivedNext(v)
      OBVIOUS
    <3>1. b # a /\ v \in todo[b]
      BY <2>2
    <3>2. Busy(b)
      BY <3>1 DEF Phased
    <3>3. line[b] # line[a]
      BY <2>1, <3>1, <3>2 DEF Numbered
    <3> QED
      BY <1>1, <2>5, <3>1, <3>3 DEF DeliveredTo
  <2>7. ReceivedNext(v) \subseteq since[v] + 1 .. count
    BY <1>1, <2>3, <2>5 DEF DeliveredTo
  <2>8. Injective(got'[v])
    BY <1>1, <2>2 DEF DeliveredTo
  <2>9. \A i \in DOMAIN backlog'[v] : backlog'[v][i] = since'[v] - Len(backlog'[v]) + i
    BY <1>1, <2>2 DEF DeliveredTo
  <2> QED
    BY <2>2, <2>3, <2>4, <2>5, <2>6, <2>7, <2>8, <2>9, DeliveredAfter
<1>4. ASSUME NEW a \in Appenders, Sends(a), ~(Puts(a) /\ v = Current(a)) PROVE DeliveredTo(v)'
  <2>1. /\ UNCHANGED <<viewer, backlog, got, since, count>>
        /\ \A b \in Appenders : v \in todo'[b] => v \in todo[b] /\ line'[b] = line[b]
    BY <1>4, SendsAlone DEF logVars
  <2>2. /\ Lines(chan'[v]) \subseteq Lines(chan[v])
        /\ Injective(chan[v]) => Injective(chan'[v])
        /\ chan[v] = <<>> => chan'[v] = <<>>
    <3>1. CASE DropOldest(a)
      <4>1. Current(a) \in Viewers /\ chan' = WithoutOldest(Current(a))
        BY <3>1 DEF DropOldest, Phased, Current, SomeOf, StreamTypeOK
      <4> QED
        BY <4>1, Drained
    <3>2. CASE ~DropOldest(a)
      <4>1. chan'[v] = chan[v]
        BY <1>4, <3>2 DEF Sends, Puts, SendTo, FindsFull, GivesUp, Returns, viewVars, StreamTypeOK
      <4> QED
        BY <4>1
    <3> QED
      BY <3>1, <3>2
  <2> QED
    BY <1>1, <2>1, <2>2, NothingNew
<1>5. CASE Moves \/ (\E a \in Appenders : SendPanics(a, Current(a))) \/ UNCHANGED streamVars
  <2>1. UNCHANGED <<line, todo, logVars, viewVars>>
    BY <1>5 DEF Moves, SendPanics, streamVars, opVars
  <2> QED
    BY <1>1, <2>1, NothingNew DEF logVars, viewVars
<1>6. ASSUME NEW u \in Viewers, ViewerStep(u), u # v PROVE DeliveredTo(v)'
  <2>1. /\ UNCHANGED <<line, todo, count>> /\ viewer'[v] = viewer[v]
        /\ backlog'[v] = backlog[v] /\ got'[v] = got[v] /\ since'[v] = since[v]
        /\ chan'[v] = chan[v]
    <3>1. \/ UNCHANGED chan
          \/ chan' = WithoutOldest(u)
      BY <1>6 DEF ViewerStep, Subscribe, Receive, Unsubscribe, CloseChannel
    <3>2. chan'[v] = chan[v]
      BY <1>6, <3>1, Drained
    <3>3. UNCHANGED <<line, todo, count>>
      BY <1>6 DEF ViewerStep, Subscribe, Receive, Unsubscribe, CloseChannel, opVars, logVars
    <3>4. viewer'[v] = viewer[v] /\ backlog'[v] = backlog[v] /\ got'[v] = got[v]
          /\ since'[v] = since[v]
      BY <1>6 DEF ViewerStep, Subscribe, Receive, Unsubscribe, CloseChannel, StreamTypeOK
    <3> QED
      BY <3>2, <3>3, <3>4
  <2> QED
    BY <1>1, <2>1, NothingNew
<1>7. CASE Subscribe(v)
  <2>1. /\ viewer[v] = "away" /\ viewer'[v] = "reading"
        /\ backlog'[v] = ring /\ since'[v] = count
        /\ UNCHANGED <<line, todo, count, got, chan>>
    BY <1>7 DEF Subscribe, StreamTypeOK, opVars, logVars
  <2>2. got'[v] = <<>> /\ chan'[v] = <<>> /\ \A b \in Appenders : v \notin todo'[b]
    BY <1>1, <2>1 DEF DeliveredTo
  <2>3. Injective(got'[v]) /\ Injective(chan'[v]) /\ Lines(got'[v]) = {} /\ Lines(chan'[v]) = {}
    BY <2>2, EmptyLine
  <2>5. ReceivedNext(v) = {}
    BY <2>3 DEF ReceivedNext
  <2>4. \A i \in DOMAIN backlog'[v] : backlog'[v][i] = since'[v] - Len(backlog'[v]) + i
    BY <2>1 DEF Numbered
  <2> QED
    BY <2>1, <2>2, <2>3, <2>4, <2>5, DeliveredAfter
<1>8. CASE Receive(v)
  <2>1. /\ chan[v] # <<>> /\ chan' = WithoutOldest(v) /\ viewer[v] = "reading"
        /\ got'[v] = Append(got[v], Head(chan[v]))
        /\ UNCHANGED <<line, todo, count, viewer, backlog, since>>
    BY <1>8 DEF Receive, StreamTypeOK, opVars, logVars
  <2>2. /\ Lines(chan[v]) = Lines(chan'[v]) \cup {Head(chan[v])}
        /\ Head(chan[v]) \notin Lines(chan'[v]) /\ Injective(chan'[v])
    BY <1>1, <2>1, Drained DEF DeliveredTo
  <2>3. Lines(got'[v]) = Lines(got[v]) \cup {Head(chan[v])} /\ Injective(got'[v])
    <3> DEFINE s == got[v]
               e == Head(chan[v])
    <3>1. s \in Seq(1..count) /\ e \in 1..count /\ e \notin Lines(s) /\ Injective(s)
      BY <1>1, <2>1, <2>2, HeadTailProperties DEF DeliveredTo, StreamTypeOK
    <3>2. Lines(Append(s, e)) = Lines(s) \cup {e} /\ Injective(Append(s, e))
      <4>1. \A x \in Seq(1..count) : \A y \in 1..count :
              /\ Lines(Append(x, y)) = Lines(x) \cup {y}
              /\ Injective(x) /\ y \notin Lines(x) => Injective(Append(x, y))
        BY AppendedLines
      <4> HIDE DEF s, e
      <4> QED
        BY <3>1, <4>1
    <3> QED
      BY <2>1, <3>2 DEF s, e
  <2>4. ReceivedNext(v) = Received(v) /\ Lines(got'[v]) \cap Lines(chan'[v]) = {}
    BY <1>1, <2>2, <2>3 DEF ReceivedNext, Received, DeliveredTo
  <2>5. /\ ReceivedNext(v) \subseteq since'[v] + 1 .. count'
        /\ \A a \in Appenders : v \in todo'[a] => /\ line'[a] > since'[v]
                                                 /\ line'[a] \notin ReceivedNext(v)
        /\ \A i \in DOMAIN backlog'[v] : backlog'[v][i] = since'[v] - Len(backlog'[v]) + i
    BY <1>1, <2>1, <2>4 DEF DeliveredTo
  <2> QED
    BY <2>1, <2>2, <2>3, <2>4, <2>5, DeliveredAfter
<1>9. CASE Unsubscribe(v) \/ CloseChannel(v)
  <2>1. viewer'[v] # "away" /\ UNCHANGED <<line, todo, count, backlog, got, chan, since>>
    BY <1>9 DEF Unsubscribe, CloseChannel, StreamTypeOK, opVars, logVars
  <2> QED
    BY <1>1, <2>1, NothingNew
<1>10. CASE Aside
  BY <1>5, <1>6, <1>7, <1>8, <1>9, <1>10 DEF Aside, ViewerStep
<1> QED
  BY <1>2, <1>3, <1>4, <1>5, <1>10, KindsOfSteps DEF Sends

-----------------------------------------------------------------------------
(* The losses: only of a viewer a buffer behind, and never the closing     *)
(* line.                                                                   *)

LEMMA ReceivedAfter == \A v \in Viewers : Received(v)' = ReceivedNext(v)
BY DEF Received, ReceivedNext, Lines

LEMMA SameCurrent == \A a \in Appenders : todo'[a] = todo[a] => Current(a)' = Current(a)
BY DEF Current, SomeOf

(* What a step inside appendLine keeps of what v received and awaits.      *)
LEMMA SendsKeep ==
  ASSUME StreamTypeOK, Phased, NEW a \in Appenders, Sends(a), NEW v \in Viewers
  PROVE  /\ v # Current(a) \/ ~DropOldest(a) => Received(v) \subseteq ReceivedNext(v)
         /\ Puts(a) /\ v = Current(a) => line[a] \in ReceivedNext(v)
         /\ v \in todo[a] => \/ Busy(a)' /\ v \in todo'[a]
                             \/ v = Current(a) /\ (Puts(a) \/ GivesUp(a))
<1>1. CASE Puts(a)
  <2>1. SendTo(a, Current(a)) /\ Current(a) \in todo[a]
    BY <1>1 DEF Puts, Current, SomeOf
  <2>2. /\ got' = got /\ \A u \in Viewers : u # Current(a) => chan'[u] = chan[u]
        /\ Busy(a)' /\ todo'[a] = todo[a] \ {Current(a)}
    BY <2>1 DEF SendTo, Sent, Busy, StreamTypeOK
  <2>3. ASSUME v = Current(a)
        PROVE  Lines(chan'[v]) = Lines(chan[v]) \cup {line[a]}
    <3> DEFINE s == chan[v]
               e == line[a]
    <3>1. s \in Seq(0..count) /\ e \in 0..count
      <4>1. s \in Seq(1..count) /\ e \in 0..count /\ 1..count \subseteq 0..count
        BY DEF StreamTypeOK
      <4> QED
        BY <4>1, SeqMonotonic
    <3>2. Lines(Append(s, e)) = Lines(s) \cup {e}
      <4>1. \A x \in Seq(0..count) : \A y \in 0..count :
              /\ Lines(Append(x, y)) = Lines(x) \cup {y}
              /\ Injective(x) /\ y \notin Lines(x) => Injective(Append(x, y))
        BY AppendedLines
      <4> HIDE DEF s, e
      <4> QED
        BY <3>1, <4>1
    <3>3. chan'[v] = Append(s, e)
      BY <2>1, <2>3 DEF SendTo, StreamTypeOK, s, e
    <3> QED
      BY <3>2, <3>3 DEF s, e
  <2> QED
    BY <1>1, <2>2, <2>3 DEF Received, ReceivedNext
<1>2. CASE FindsFull(a)
  <2>1. ~Puts(a)
    BY <1>2 DEF FindsFull, Full, Puts, SendTo, StreamTypeOK
  <2> QED
    BY <1>2, <2>1 DEF FindsFull, Busy, Received, ReceivedNext, viewVars, StreamTypeOK
<1>3. CASE GivesUp(a)
  BY <1>3 DEF GivesUp, Sent, Busy, Received, ReceivedNext, Puts, SendTo, Full, viewVars, StreamTypeOK
<1>4. CASE Returns(a)
  BY <1>4 DEF Returns, Received, ReceivedNext, Puts, viewVars
<1>5. CASE DropOldest(a)
  <2>1. /\ chan' = WithoutOldest(Current(a)) /\ got' = got /\ todo' = todo /\ Busy(a)'
        /\ Current(a) \in Viewers /\ step[a] = "drop"
    BY <1>5 DEF DropOldest, Busy, Phased, Current, SomeOf, StreamTypeOK
  <2>2. v # Current(a) => chan'[v] = chan[v]
    BY <2>1, Drained
  <2> QED
    BY <1>5, <2>1, <2>2 DEF Received, ReceivedNext, Puts
<1> QED
  BY <1>1, <1>2, <1>3, <1>4, <1>5 DEF Sends

(* A viewer's own steps take nothing from it, and it subscribes once.      *)
LEMMA ViewersKeep ==
  ASSUME StreamTypeOK, NEW u \in Viewers, ViewerStep(u), NEW v \in Viewers
  PROVE  /\ ReceivedNext(v) = Received(v)
         /\ Len(chan'[v]) <= Len(chan[v])
         /\ Len(got'[v]) \in Nat /\ Len(got'[v]) >= Len(got[v]) /\ lagged' = lagged
         /\ v \in subs' => \/ v \in subs /\ since'[v] = since[v]
                           \/ since'[v] = count
         /\ viewer[v] # "away" => since'[v] = since[v] /\ (v \in subs' => v \in subs)
<1>1. /\ chan[v] \in Seq(1..count) /\ Len(chan[v]) \in Nat
      /\ got[v] \in Seq(1..count) /\ Len(got[v]) \in Nat
  BY LenProperties DEF StreamTypeOK
<1>2. CASE Receive(u)
  <2>1. /\ chan[u] # <<>> /\ chan' = WithoutOldest(u)
        /\ subs' = subs /\ since' = since /\ lagged' = lagged
        /\ got'[v] = IF v = u THEN Append(got[v], Head(chan[v])) ELSE got[v]
    BY <1>2 DEF Receive, StreamTypeOK
  <2>2. CASE v = u
    <3>1. /\ Lines(chan[v]) = Lines(chan'[v]) \cup {Head(chan[v])}
          /\ Len(chan'[v]) = Len(chan[v]) - 1
      BY <2>1, <2>2, Drained
    <3>2. Lines(got'[v]) = Lines(got[v]) \cup {Head(chan[v])} /\ Len(got'[v]) = Len(got[v]) + 1
      <4> DEFINE s == got[v]
                 e == Head(chan[v])
      <4>1. s \in Seq(1..count) /\ e \in 1..count
        BY <1>1, <2>1, <2>2, HeadTailProperties
      <4>4. Len(Append(s, e)) = Len(s) + 1
        BY <4>1, AppendProperties
      <4>2. Lines(Append(s, e)) = Lines(s) \cup {e}
        <5>1. \A x \in Seq(1..count) : \A y \in 1..count :
                /\ Lines(Append(x, y)) = Lines(x) \cup {y}
                /\ Injective(x) /\ y \notin Lines(x) => Injective(Append(x, y))
          BY AppendedLines
        <5> HIDE DEF s, e
        <5> QED
          BY <4>1, <5>1
      <4>3. got'[v] = Append(s, e)
        BY <2>1, <2>2 DEF s, e
      <4> QED
        BY <4>2, <4>3, <4>4 DEF s, e
    <3> QED
      BY <1>1, <2>1, <3>1, <3>2 DEF Received, ReceivedNext
  <2>3. CASE v # u
    <3>1. chan'[v] = chan[v] /\ got'[v] = got[v]
      BY <2>1, <2>3, Drained
    <3> QED
      BY <1>1, <2>1, <3>1 DEF Received, ReceivedNext
  <2> QED
    BY <2>2, <2>3
<1>3. CASE ~Receive(u)
  <2>1. UNCHANGED <<chan, got, lagged>>
    BY <1>3 DEF ViewerStep, Subscribe, Unsubscribe, CloseChannel
  <2>2. /\ v \in subs' => \/ v \in subs /\ since'[v] = since[v]
                          \/ since'[v] = count
        /\ viewer[v] # "away" => since'[v] = since[v] /\ (v \in subs' => v \in subs)
    <3>1. CASE Subscribe(u)
      BY <3>1 DEF Subscribe, StreamTypeOK
    <3>2. CASE Unsubscribe(u) \/ CloseChannel(u)
      BY <3>2 DEF Unsubscribe, CloseChannel
    <3> QED
      BY <1>3, <3>1, <3>2 DEF ViewerStep
  <2> QED
    BY <1>1, <2>1, <2>2 DEF Received, ReceivedNext
<1> QED
  BY <1>2, <1>3

LEMMA AbreastInit == StreamInit => Abreast
BY DEF StreamInit, Abreast, NoSilentGap, Noticed, Behind

(* What a viewer has read and what fills its channel are different lines,  *)
(* none of them the sender's: together they are fewer than there are.      *)
LEMMA FullIsBehind ==
  ASSUME StreamTypeOK, Phased, Numbered, Delivered, NEW a \in Appenders, todo[a] # {},
         Full(Current(a))
  PROVE  Unread(Current(a)) > BufferSize
<1> DEFINE v == Current(a)
<1>1. v \in Viewers /\ v \in todo[a] /\ Busy(a)
  BY DEF Current, SomeOf, Phased, StreamTypeOK
<1> HIDE DEF v
<1>2. count \in Nat /\ since[v] \in Nat /\ BufferSize \in Nat /\ line[a] \in 1..count
  BY <1>1, SizesAssumption DEF StreamTypeOK, Numbered
<1>3. DeliveredTo(v) /\ Received(v) \subseteq since[v] + 1 .. count
  BY <1>1 DEF Delivered, DeliveredTo
<1> DEFINE s == got[v] \o chan[v]
<1>4. /\ got[v] \in Seq(Nat) /\ chan[v] \in Seq(Nat)
      /\ Len(got[v]) \in Nat /\ Len(chan[v]) \in Nat
  <2>1. got[v] \in Seq(1..count) /\ chan[v] \in Seq(1..count) /\ 1..count \subseteq Nat
    BY <1>1, <1>2 DEF StreamTypeOK
  <2> QED
    BY <2>1, SeqMonotonic, LenProperties
<1>5. s \in Seq(Nat) /\ Injective(s) /\ Lines(s) = Received(v)
  BY <1>3, <1>4, Joined DEF DeliveredTo, Received
<1>6. Len(s) = Len(got[v]) + Len(chan[v])
  BY <1>4, ConcatProperties
<1>7. line[a] \in since[v] + 1 .. count /\ line[a] \notin Lines(s)
  <2>1. line[a] > since[v] /\ line[a] \notin Received(v)
    BY <1>1, <1>3 DEF DeliveredTo
  <2> QED
    BY <1>2, <1>5, <2>1
<1>8. Len(s) < count - since[v]
  <2>1. Lines(s) \subseteq since[v] + 1 .. count
    BY <1>3, <1>5
  <2> HIDE DEF s
  <2> QED
    BY <1>2, <1>5, <1>7, <2>1, Crowd
<1>9. count - since[v] - Len(got[v]) > BufferSize
  <2>1. Len(chan[v]) >= BufferSize
    BY DEF Full, v
  <2>2. Len(got[v]) + Len(chan[v]) < count - since[v]
    <3> HIDE DEF s
    <3> QED
      BY <1>6, <1>8
  <2>3. \A g, c, n, m, b \in Nat : c >= b /\ g + c < n - m => n - m - g > b
    OBVIOUS
  <2> HIDE DEF s
  <2> QED
    BY <1>2, <1>4, <2>1, <2>2, <2>3
<1> QED
  BY <1>9 DEF v, Unread

(* A viewer falls behind when a line is appended, and it is noticed then.  *)
LEMMA NoticedNext ==
  StreamTypeOK /\ Phased /\ Numbered /\ Noticed /\ [StreamNext]_streamVars => Noticed'
<1> SUFFICES ASSUME StreamTypeOK, Phased, Numbered, Noticed, [StreamNext]_streamVars
             PROVE  Noticed'
  OBVIOUS
<1>0. subs' \subseteq Viewers
  <2>1. StreamTypeOK'
    BY StreamTypes
  <2> QED
    BY <2>1 DEF StreamTypeOK
<1> SUFFICES ASSUME NEW v \in Viewers, v \in subs', Unread(v)' > BufferSize
             PROVE  v \in lagged'
  BY <1>0 DEF Noticed
<1>1. /\ count \in Nat /\ BufferSize \in Nat /\ since[v] \in Nat /\ Len(got[v]) \in Nat
  BY SizesAssumption, LenProperties DEF StreamTypeOK
<1>2. ASSUME UNCHANGED <<count, subs, got, since, lagged>> PROVE v \in lagged'
  BY <1>2 DEF Noticed, Unread
<1>3. ASSUME NEW a \in Appenders, NEW s \in Speaking, Says(a, s) PROVE v \in lagged'
  <2>1. /\ count' = count + 1 /\ UNCHANGED <<subs, got, since>>
        /\ lagged' = lagged \cup {u \in subs : Unread(u) >= BufferSize}
    BY <1>3 DEF Says, AppendLine
  <2>2. Unread(v)' = Unread(v) + 1 /\ Unread(v) \in Int
    BY <1>1, <2>1 DEF Unread
  <2> QED
    BY <1>1, <2>1, <2>2
<1>4. ASSUME NEW a \in Appenders, Sends(a) PROVE v \in lagged'
  BY <1>2, <1>4, SendsAlone DEF logVars
<1>5. CASE Moves \/ (\E a \in Appenders : SendPanics(a, Current(a))) \/ UNCHANGED streamVars
  BY <1>2, <1>5 DEF Moves, SendPanics, streamVars, opVars, logVars, viewVars
<1>6. ASSUME NEW u \in Viewers, ViewerStep(u) PROVE v \in lagged'
  <2>1. count' = count
    BY <1>6, AsideAlone DEF Aside, logVars
  <2>2. /\ Len(got'[v]) \in Nat /\ Len(got'[v]) >= Len(got[v]) /\ lagged' = lagged
        /\ \/ v \in subs /\ since'[v] = since[v]
           \/ since'[v] = count
    BY <1>6, ViewersKeep
  <2>3. Unread(v) > BufferSize /\ v \in subs
    BY <1>1, <2>1, <2>2 DEF Unread
  <2> QED
    BY <2>2, <2>3 DEF Noticed
<1> QED
  BY <1>3, <1>4, <1>5, <1>6, KindsOfSteps DEF Aside

LEMMA BehindNext ==
  StreamTypeOK /\ Phased /\ Numbered /\ Delivered /\ Abreast /\ [StreamNext]_streamVars => Behind'
<1> SUFFICES ASSUME StreamTypeOK, Phased, Numbered, Delivered, Abreast, [StreamNext]_streamVars,
                    NEW b \in Appenders, step'[b] \in {"drop", "retry"}
             PROVE  Current(b)' \in subs' => Current(b)' \in lagged'
  BY DEF Behind
<1>1. \A c \in Appenders : todo[c] # {} => Current(c) \in Viewers /\ Current(c) \in todo[c]
  BY DEF StreamTypeOK, Current, SomeOf
<1>2. ASSUME step[b] \in {"drop", "retry"}, todo'[b] = todo[b], lagged \subseteq lagged',
             Current(b) \in subs' => Current(b) \in subs
      PROVE  Current(b)' \in subs' => Current(b)' \in lagged'
  <2>1. Current(b)' = Current(b)
    BY <1>2, SameCurrent
  <2>2. Current(b) \in subs => Current(b) \in lagged
    BY <1>2 DEF Abreast, Behind
  <2> QED
    BY <1>2, <2>1, <2>2
<1>3. ASSUME NEW a \in Appenders, NEW s \in Speaking, Says(a, s)
      PROVE  Current(b)' \in subs' => Current(b)' \in lagged'
  <2>1. /\ step'[a] = "try" /\ lagged \subseteq lagged' /\ subs' = subs
        /\ b # a => step'[b] = step[b] /\ todo'[b] = todo[b]
    BY <1>3 DEF Says, AppendLine, StreamTypeOK
  <2> QED
    BY <1>2, <2>1
<1>4. ASSUME NEW a \in Appenders, Sends(a)
      PROVE  Current(b)' \in subs' => Current(b)' \in lagged'
  <2>1. /\ UNCHANGED <<subs, lagged>>
        /\ b # a => step'[b] = step[b] /\ todo'[b] = todo[b]
    BY <1>4, SendsAlone
  <2>2. CASE b # a
    BY <1>2, <2>1, <2>2
  <2>3. CASE b = a /\ FindsFull(a)
    <3>1. todo[a] # {} /\ Full(Current(a)) /\ todo'[a] = todo[a]
      BY <2>3 DEF FindsFull
    <3>2. Unread(Current(a)) > BufferSize
      BY <3>1, FullIsBehind
    <3>3. Current(a) \in subs => Current(a) \in lagged
      BY <3>2 DEF Abreast, Noticed
    <3>4. Current(a)' = Current(a)
      BY <3>1, SameCurrent
    <3> QED
      BY <2>1, <2>3, <3>3, <3>4
  <2>4. CASE b = a /\ DropOldest(a)
    BY <1>2, <2>1, <2>4 DEF DropOldest
  <2>5. CASE b = a /\ (Puts(a) \/ GivesUp(a) \/ Returns(a))
    BY <2>5 DEF Puts, SendTo, GivesUp, Returns, StreamTypeOK
  <2> QED
    BY <1>4, <2>2, <2>3, <2>4, <2>5 DEF Sends
<1>5. CASE Moves \/ (\E a \in Appenders : SendPanics(a, Current(a))) \/ UNCHANGED streamVars
  <2>1. UNCHANGED <<step, todo, subs, lagged>>
    BY <1>5 DEF Moves, SendPanics, streamVars, opVars, logVars, viewVars
  <2> QED
    BY <1>2, <2>1
<1>6. ASSUME NEW v \in Viewers, ViewerStep(v)
      PROVE  Current(b)' \in subs' => Current(b)' \in lagged'
  <2>1. UNCHANGED <<step, todo>>
    BY <1>6, AsideAlone DEF Aside, opVars
  <2>2. Current(b) \in Viewers /\ Current(b) \in todo[b]
    BY <1>1, <2>1 DEF Phased
  <2>3. viewer[Current(b)] # "away"
    BY <2>2 DEF Delivered, DeliveredTo
  <2>4. lagged' = lagged /\ (Current(b) \in subs' => Current(b) \in subs)
    BY <1>6, <2>2, <2>3, ViewersKeep
  <2> QED
    BY <1>2, <2>1, <2>4
<1> QED
  BY <1>3, <1>4, <1>5, <1>6, KindsOfSteps DEF Aside

LEMMA NoSilentGapNext ==
  StreamTypeOK /\ Phased /\ Numbered /\ Delivered /\ Abreast /\ [StreamNext]_streamVars
    => NoSilentGap'
<1> SUFFICES ASSUME StreamTypeOK, Phased, Numbered, Delivered, Abreast, [StreamNext]_streamVars
             PROVE  NoSilentGap'
  OBVIOUS
<1>0. subs' \subseteq Viewers
  <2>1. StreamTypeOK'
    BY StreamTypes
  <2> QED
    BY <2>1 DEF StreamTypeOK
<1> SUFFICES ASSUME NEW v \in Viewers, v \in subs', v \notin lagged',
                    NEW n \in since'[v] + 1 .. count'
             PROVE  n \in ReceivedNext(v) \/ Awaited(v, n)'
  BY <1>0 DEF NoSilentGap, ReceivedNext, Awaited
<1>1. /\ count \in Nat /\ since[v] \in Nat /\ n \in Int
  BY DEF StreamTypeOK
<1>2. ASSUME v \in subs, since'[v] = since[v], n <= count, lagged \subseteq lagged'
      PROVE  n \in Received(v) \/ Awaited(v, n)
  <2>1. v \notin lagged /\ n \in since[v] + 1 .. count
    BY <1>1, <1>2
  <2> QED
    BY <1>2, <2>1 DEF Abreast, NoSilentGap, Received, Awaited
<1>3. ASSUME NEW a \in Appenders, NEW s \in Speaking, Says(a, s)
      PROVE  n \in ReceivedNext(v) \/ Awaited(v, n)'
  <2>1. /\ count' = count + 1 /\ UNCHANGED <<subs, chan, got, since>> /\ lagged \subseteq lagged'
        /\ line'[a] = count + 1 /\ todo'[a] = subs /\ todo[a] = {}
        /\ \A b \in Appenders : b # a => todo'[b] = todo[b] /\ line'[b] = line[b]
    BY <1>3 DEF Says, AppendLine, Audience, Phased, StreamTypeOK
  <2>2. CASE n = count + 1
    BY <2>1, <2>2 DEF Awaited
  <2>3. CASE n <= count
    BY <1>1, <1>2, <2>1, <2>3 DEF Awaited, Received, ReceivedNext
  <2> QED
    BY <1>1, <2>1, <2>2, <2>3
<1>4. ASSUME NEW a \in Appenders, Sends(a)
      PROVE  n \in ReceivedNext(v) \/ Awaited(v, n)'
  <2>1. /\ UNCHANGED <<count, subs, since, lagged>>
        /\ \A b \in Appenders : b # a => todo'[b] = todo[b] /\ line'[b] = line[b]
        /\ Busy(a)' => line'[a] = line[a]
    BY <1>4, SendsAlone DEF logVars
  <2>2. n \in Received(v) \/ Awaited(v, n)
    BY <1>1, <1>2, <2>1
  <2>3. v \in subs /\ v \notin lagged
    BY <2>1
  <2>4. ~(v = Current(a) /\ (DropOldest(a) \/ GivesUp(a)))
    BY <2>3 DEF DropOldest, GivesUp, Abreast, Behind
  <2>5. Received(v) \subseteq ReceivedNext(v)
    BY <1>4, <2>4, SendsKeep
  <2>6. ASSUME NEW b \in Appenders, line[b] = n, v \in todo[b]
        PROVE  n \in ReceivedNext(v) \/ Awaited(v, n)'
    <3>1. CASE b # a
      BY <2>1, <2>6, <3>1 DEF Awaited
    <3>2. CASE b = a
      BY <1>4, <2>1, <2>4, <2>6, <3>2, SendsKeep DEF Awaited
    <3> QED
      BY <3>1, <3>2
  <2> QED
    BY <2>2, <2>5, <2>6 DEF Awaited
<1>5. CASE Moves \/ (\E a \in Appenders : SendPanics(a, Current(a))) \/ UNCHANGED streamVars
  <2>1. UNCHANGED <<line, todo, count, subs, chan, got, since, lagged>>
    BY <1>5 DEF Moves, SendPanics, streamVars, opVars, logVars, viewVars
  <2> QED
    BY <1>1, <1>2, <2>1 DEF Awaited, Received, ReceivedNext
<1>6. ASSUME NEW u \in Viewers, ViewerStep(u)
      PROVE  n \in ReceivedNext(v) \/ Awaited(v, n)'
  <2>1. UNCHANGED <<line, todo, count>>
    BY <1>6, AsideAlone DEF Aside, opVars, logVars
  <2>2. /\ ReceivedNext(v) = Received(v) /\ lagged' = lagged
        /\ \/ v \in subs /\ since'[v] = since[v]
           \/ since'[v] = count
    BY <1>6, ViewersKeep
  <2>3. v \in subs /\ since'[v] = since[v]
    BY <1>1, <2>1, <2>2
  <2> QED
    BY <1>1, <1>2, <2>1, <2>2, <2>3 DEF Awaited
<1> QED
  BY <1>3, <1>4, <1>5, <1>6, KindsOfSteps DEF Aside

LEMMA LastInit == StreamInit => Last
BY WorkersAssumption DEF StreamInit, Last, Over, Appenders

LEMMA LastNext ==
  StreamTypeOK /\ Phased /\ Judged /\ Numbered /\ Delivered /\ Last /\ [StreamNext]_streamVars
    => Last'
<1> DEFINE Closed == Over /\ ~failed
           Close(v) == since'[v] < count' => count' \in ReceivedNext(v) \/ v \in todo'[Main]
           Kept == /\ \A v \in subs' : Close(v)
                   /\ Busy(Main)' => line'[Main] = count'
                   /\ step'[Main] = "retry" => Len(chan'[Current(Main)']) < BufferSize
<1> SUFFICES ASSUME StreamTypeOK, Phased, Judged, Numbered, Delivered, Last,
                    [StreamNext]_streamVars, Over', ~failed'
             PROVE  Kept
  BY DEF Last, ReceivedNext, Received
<1>1. /\ Main \in Appenders /\ Workers \subseteq Appenders /\ Main \notin Workers
      /\ BufferSize \in Nat \ {0} /\ count \in Nat
  BY WorkersAssumption, SizesAssumption DEF Appenders, StreamTypeOK
<1>3. subs' \subseteq Viewers
  <2>1. StreamTypeOK'
    BY StreamTypes
  <2> QED
    BY <2>1 DEF StreamTypeOK
<1>4. Closed => /\ \A v \in subs : since[v] < count => count \in Received(v) \/ v \in todo[Main]
                /\ Busy(Main) => line[Main] = count
                /\ step[Main] = "retry" => Len(chan[Current(Main)]) < BufferSize
                /\ \A w \in Workers : ~Busy(w)
  <2>1. Closed => \A w \in Workers : ~Busy(w)
    BY <1>1 DEF Phased, AllEnded, Speaking
  <2> QED
    BY <2>1 DEF Last
<1>5. ASSUME NEW a \in Appenders, NEW s \in Speaking, Says(a, s) PROVE Kept
  <2>1. /\ \A b \in Appenders : stage'[b] = IF b = a THEN s ELSE stage[b]
        /\ line'[a] = count + 1 /\ todo'[a] = subs /\ step'[a] = "try"
        /\ count' = count + 1 /\ subs' = subs
    BY <1>5 DEF Says, AppendLine, Audience, StreamTypeOK
  <2>2. a = Main
    <3> SUFFICES ASSUME a \in Workers PROVE FALSE
      BY DEF Appenders
    <3>1. stage[a] = "working" /\ stage'[Main] = stage[Main]
      BY <1>1, <1>5, <2>1 DEF Says
    <3> QED
      BY <3>1 DEF Over, Phased, AllEnded
  <2> QED
    BY <2>1, <2>2
<1>6. ASSUME NEW a \in Appenders, Sends(a) PROVE Kept
  <2>1. /\ UNCHANGED <<stage, failed, count, subs, since>>
        /\ Busy(a) /\ (Busy(a)' => line'[a] = line[a])
    BY <1>6, SendsAlone DEF logVars
  <2>2. Closed
    BY <2>1 DEF Over
  <2>3. a = Main
    BY <1>4, <2>1, <2>2 DEF Appenders
  <2>4. ~GivesUp(a)
    BY <1>4, <1>1, <2>2, <2>3 DEF GivesUp, Full, StreamTypeOK
  <2>5. ASSUME NEW v \in subs' PROVE Close(v)
    <3> SUFFICES ASSUME since[v] < count PROVE count \in ReceivedNext(v) \/ v \in todo'[Main]
      BY <2>1
    <3>1. v \in Viewers /\ (count \in Received(v) \/ v \in todo[Main])
      BY <1>3, <1>4, <2>1, <2>2
    <3>2. CASE v \in todo[Main]
      <4>1. v \in todo'[a] \/ (v = Current(a) /\ Puts(a))
        BY <1>6, <2>3, <2>4, <3>1, <3>2, SendsKeep
      <4>2. Puts(a) /\ v = Current(a) => line[a] \in ReceivedNext(v)
        BY <1>6, <3>1, SendsKeep
      <4> QED
        BY <1>4, <2>1, <2>2, <2>3, <4>1, <4>2
    <3>3. CASE v \notin todo[Main]
      <4>1. ~(v = Current(a) /\ DropOldest(a))
        BY <2>3, <3>3 DEF DropOldest, Phased, Current, SomeOf
      <4>2. Received(v) \subseteq ReceivedNext(v)
        BY <1>6, <3>1, <4>1, SendsKeep
      <4> QED
        BY <3>1, <3>3, <4>2
    <3> QED
      BY <3>2, <3>3
  <2>6. Busy(Main)' => line'[Main] = count'
    BY <1>4, <2>1, <2>2, <2>3
  <2>7. ASSUME step'[Main] = "retry" PROVE Len(chan'[Current(Main)']) < BufferSize
    <3>1. DropOldest(a)
      BY <1>6, <2>3, <2>4, <2>7 DEF Sends, Puts, SendTo, FindsFull, Returns, StreamTypeOK
    <3> DEFINE v == Current(a)
    <3>2. /\ v \in Viewers /\ chan' = WithoutOldest(v) /\ Current(a)' = v
          /\ chan[v] \in Seq(1..count) /\ Len(chan[v]) <= BufferSize /\ Len(chan[v]) \in Nat
      <4>1. /\ todo' = todo /\ chan' = WithoutOldest(v) /\ v \in Viewers
        BY <3>1 DEF DropOldest, Phased, Current, SomeOf, StreamTypeOK
      <4>2. chan[v] \in Seq(1..count) /\ Len(chan[v]) <= BufferSize
        BY <4>1 DEF StreamTypeOK
      <4> QED
        BY <4>1, <4>2, SameCurrent, LenProperties
    <3> HIDE DEF v
    <3>3. Len(chan'[v]) < BufferSize
      <4>1. CASE chan[v] = <<>>
        BY <1>1, <3>2, <4>1, Drained, EmptySeq
      <4>2. CASE chan[v] # <<>>
        BY <1>1, <3>2, <4>2, Drained
      <4> QED
        BY <4>1, <4>2
    <3> QED
      BY <2>3, <3>2, <3>3
  <2> QED
    BY <2>5, <2>6, <2>7
<1>7. ASSUME UNCHANGED <<step, line, todo, failed, count, subs, chan, got, since>>, Closed
      PROVE  Kept
  <2>1. Current(Main)' = Current(Main)
    BY <1>1, <1>7, SameCurrent
  <2> QED
    BY <1>4, <1>7, <2>1 DEF ReceivedNext, Received, Busy
<1>8. CASE Moves
  <2>1. UNCHANGED <<step, line, todo, failed, count, subs, chan, got, since>>
    BY <1>8 DEF Moves, logVars, viewVars
  <2>2. Closed
    <3>1. CASE Spawn
      BY <1>1, <3>1 DEF Spawn, Over
    <3>2. CASE Complete
      BY <2>1, <3>2 DEF Complete, Over
    <3>3. ASSUME NEW w \in Workers, Enter(w) \/ Exit(w) PROVE Closed
      <4>1. stage'[Main] = stage[Main]
        BY <1>1, <3>3 DEF Enter, Exit, StreamTypeOK
      <4> QED
        BY <2>1, <4>1 DEF Over
    <3> QED
      BY <1>8, <2>1, <3>1, <3>2, <3>3 DEF Moves
  <2> QED
    BY <1>7, <2>1, <2>2
<1>9. CASE (\E a \in Appenders : SendPanics(a, Current(a))) \/ UNCHANGED streamVars
  <2>1. UNCHANGED <<stage, step, line, todo, failed, count, subs, chan, got, since>>
    BY <1>9 DEF SendPanics, streamVars, opVars, logVars, viewVars
  <2> QED
    BY <1>7, <2>1 DEF Over
<1>10. ASSUME NEW u \in Viewers, ViewerStep(u) PROVE Kept
  <2>1. UNCHANGED <<stage, step, line, todo, failed, count>>
    BY <1>10, AsideAlone DEF Aside, opVars, logVars
  <2>2. Closed
    BY <2>1 DEF Over
  <2>3. ASSUME NEW v \in subs' PROVE Close(v)
    <3>1. /\ ReceivedNext(v) = Received(v)
          /\ \/ v \in subs /\ since'[v] = since[v]
             \/ since'[v] = count
      BY <1>3, <1>10, ViewersKeep
    <3> QED
      BY <1>1, <1>4, <2>1, <2>2, <3>1
  <2>4. step'[Main] = "retry" => Len(chan'[Current(Main)']) < BufferSize
    <3> SUFFICES ASSUME step'[Main] = "retry" PROVE Len(chan'[Current(Main)']) < BufferSize
      OBVIOUS
    <3>1. Current(Main)' = Current(Main) /\ Current(Main) \in Viewers
      BY <1>1, <2>1, SameCurrent DEF Phased, Current, SomeOf, StreamTypeOK
    <3>2. Len(chan'[Current(Main)]) <= Len(chan[Current(Main)])
      BY <1>10, <3>1, ViewersKeep
    <3>3. /\ Len(chan[Current(Main)]) < BufferSize /\ Len(chan[Current(Main)]) \in Nat
          /\ Len(chan'[Current(Main)]) \in Nat
      <4>1. StreamTypeOK'
        BY StreamTypes
      <4>2. chan[Current(Main)] \in Seq(1..count) /\ chan'[Current(Main)] \in Seq(1..count')
        BY <3>1, <4>1 DEF StreamTypeOK
      <4> QED
        BY <1>4, <2>1, <2>2, <4>2, LenProperties
    <3> QED
      BY <1>1, <3>1, <3>2, <3>3
  <2>5. Busy(Main)' => line'[Main] = count'
    BY <1>4, <2>1, <2>2 DEF Busy
  <2> QED
    BY <2>3, <2>4, <2>5
<1> QED
  BY <1>5, <1>6, <1>8, <1>9, <1>10, KindsOfSteps DEF Aside

-----------------------------------------------------------------------------
(* What the invariant says to a viewer and of the verdict.                 *)

LEMMA ShownOnce == StreamTypeOK /\ Delivered => EachLineOnce
<1> SUFFICES ASSUME StreamTypeOK, Delivered, NEW v \in Viewers
             PROVE  Injective(backlog[v] \o got[v] \o chan[v])
  BY DEF EachLineOnce, Injective
<1> DEFINE r == backlog[v]
<1>1. /\ count \in Nat /\ since[v] \in Nat
      /\ r \in Seq(1..count) /\ got[v] \in Seq(1..count) /\ chan[v] \in Seq(1..count)
  BY DEF StreamTypeOK
<1>2. /\ \A i \in DOMAIN r : r[i] = since[v] - Len(r) + i
      /\ Injective(got[v]) /\ Injective(chan[v]) /\ Lines(got[v]) \cap Lines(chan[v]) = {}
      /\ Lines(got[v]) \cup Lines(chan[v]) \subseteq since[v] + 1 .. count
  BY DEF Delivered, DeliveredTo, Received
<1> HIDE DEF r
<1>3. DOMAIN r = 1..Len(r) /\ Len(r) \in Nat
  BY <1>1, LenProperties
<1>4. Injective(r)
  <2> SUFFICES ASSUME NEW i \in DOMAIN r, NEW j \in DOMAIN r, r[i] = r[j] PROVE i = j
    BY DEF Injective
  <2>1. r[i] = since[v] - Len(r) + i /\ r[j] = since[v] - Len(r) + j
    BY <1>2
  <2>2. i \in Nat /\ j \in Nat
    BY <1>3
  <2>3. since[v] - Len(r) + i = since[v] - Len(r) + j
    BY <2>1
  <2> QED
    BY <1>1, <1>3, <2>2, <2>3
<1>5. \A x \in Lines(r) : ~(x \in since[v] + 1 .. count)
  <2> SUFFICES ASSUME NEW i \in DOMAIN r PROVE ~(r[i] \in since[v] + 1 .. count)
    BY DEF Lines
  <2> QED
    BY <1>1, <1>2, <1>3
<1>6. Lines(r) \cap Lines(got[v]) = {} /\ (Lines(r) \cup Lines(got[v])) \cap Lines(chan[v]) = {}
  BY <1>2, <1>5
<1>7. /\ r \o got[v] \in Seq(1..count) /\ Injective(r \o got[v])
      /\ Lines(r \o got[v]) = Lines(r) \cup Lines(got[v])
  BY <1>1, <1>2, <1>4, <1>6, Joined
<1>8. Injective((r \o got[v]) \o chan[v])
  BY <1>1, <1>2, <1>6, <1>7, Joined
<1> QED
  BY <1>8 DEF r

LEMMA ClosingReached == Phased /\ Judged /\ Last => ClosingLineArrives
<1> SUFFICES ASSUME Phased, Judged, Last, verdict = "completed", NEW v \in subs,
                    since[v] < count
             PROVE  count \in Received(v)
  BY DEF ClosingLineArrives, Received
<1>1. Main \in Appenders /\ stage[Main] = "ended" /\ ~failed
  BY DEF Judged, Appenders
<1>2. todo[Main] = {}
  BY <1>1 DEF Phased, Speaking
<1> QED
  BY <1>1, <1>2 DEF Last, Over

LEMMA VerdictCounted == StreamTypeOK /\ Phased /\ Counted /\ Judged => VerdictIsLast
<1> SUFFICES ASSUME StreamTypeOK, Phased, Counted, Judged, verdict # "running"
             PROVE  /\ count = Cardinality(Workers) + (IF failed THEN 1 ELSE 2)
                    /\ verdict = "failed" <=> failed
                    /\ \A w \in Workers : step[w] = "none"
  BY DEF VerdictIsLast
<1>1. stage[Main] = "ended" /\ AllEnded /\ Over
  BY DEF Judged, Over, Phased
<1>2. Reported = Workers
  BY <1>1 DEF AllEnded, Reported
<1>3. Cardinality(Workers) \in Nat
  BY WorkersAssumption, FS_CardinalityType
<1>4. count = Cardinality(Workers) + (IF failed THEN 1 ELSE 2)
  BY <1>1, <1>2, <1>3 DEF Counted
<1>5. \A w \in Workers : step[w] = "none"
  BY <1>1 DEF Phased, AllEnded, Speaking, Busy, Appenders
<1> QED
  BY <1>1, <1>4, <1>5 DEF Judged

-----------------------------------------------------------------------------
LEMMA StreamIInvInit == StreamInit => StreamIInv
BY InitStreamType, PhasedInit, JudgedInit, NumberedInit, DeliveredInit, AbreastInit, LastInit
   DEF StreamIInv

LEMMA StreamIInvNext == StreamIInv /\ [StreamNext]_streamVars => StreamIInv'
BY StreamTypes, PhasedNext, JudgedNext, CountedNext, NumberedNext, DeliveredNext, NoticedNext,
   BehindNext, NoSilentGapNext, LastNext DEF StreamIInv, Abreast

(* The invariant of the log and its viewers (Job.appendLine, subscribe,    *)
(* streamLines, runBulk), for any number of workers and viewers.           *)
THEOREM StreamInvariant == StreamSpec => []StreamIInv
BY StreamIInvInit, StreamIInvNext, PTL DEF StreamSpec

(* Job's log fields keep their types, the ring and the viewers' channels   *)
(* their sizes, whoever appends and whoever comes and goes.                *)
THEOREM StreamTypeCorrect == StreamSpec => []StreamTypeOK
<1>1. StreamIInv => StreamTypeOK
  BY DEF StreamIInv
<1> QED
  BY <1>1, StreamInvariant, PTL

(* No viewer is shown a line twice: subscribe's critical section gives the *)
(* backlog and the channel their parts of the log.                         *)
THEOREM LinesOnce == StreamSpec => []EachLineOnce
<1>1. StreamIInv => EachLineOnce
  BY ShownOnce DEF StreamIInv
<1> QED
  BY <1>1, StreamInvariant, PTL

(* appendLine drops lines only of a viewer that once had more of them left *)
(* to read than its channel holds.                                         *)
THEOREM NoGaps == StreamSpec => []NoSilentGap
<1>1. StreamIInv => NoSilentGap
  BY DEF StreamIInv, Abreast
<1> QED
  BY <1>1, StreamInvariant, PTL

(* The closing line of runBulk reaches every viewer, whatever was dropped. *)
THEOREM ClosingLineReaches == StreamSpec => []ClosingLineArrives
<1>1. StreamIInv => ClosingLineArrives
  BY ClosingReached DEF StreamIInv
<1> QED
  BY <1>1, StreamInvariant, PTL

(* runBulk's verdict comes after every line of its workers, and counts     *)
(* their failures.                                                         *)
THEOREM VerdictComesLast == StreamSpec => []VerdictIsLast
<1>1. StreamIInv => VerdictIsLast
  BY VerdictCounted DEF StreamIInv
<1> QED
  BY <1>1, StreamInvariant, PTL

=============================================================================
