------------------------------ MODULE LogStream ------------------------------
(***************************************************************************)
(* The live log of a job: Job.appendLine (types.go), subscribe and its     *)
(* unsub (jobs.go), the line pump streamLines behind the job log WebSocket *)
(* (wslog.go, handlers.go), driven by the one operation whose goroutines   *)
(* append concurrently, engine.runBulk with its semaphore (engine.go).     *)
(*                                                                         *)
(* A line is its number, Job.LineCount when it was appended.  appendLine   *)
(* copies the subscribers under Job.mu and sends without it, so unsub can  *)
(* close a channel between the two; a send on a closed channel panics and, *)
(* nothing recovering it, ends the agent.                                  *)
(***************************************************************************)
EXTENDS Naturals, Sequences, FiniteSets

CONSTANTS
  Workers,      \* runBulk's goroutines, one per target container
  Main,         \* the job's own goroutine
  Viewers,      \* WebSocket viewers of the job's log
  Concurrency,  \* bulkConcurrency: the semaphore's capacity
  RingSize,     \* ringBufferSize
  BufferSize    \* subscriberBuffer

ASSUME WorkersAssumption == IsFiniteSet(Workers) /\ Main \notin Workers
ASSUME SizesAssumption == {Concurrency, RingSize, BufferSize} \subseteq Nat \ {0}

VARIABLES
  stage,      \* how far each goroutine of the operation is
  step,       \* how far it is in appendLine
  line,       \* the line it is sending
  todo,       \* the copied subscribers it has yet to send it to
  failed,     \* runBulk's failed count is positive
  verdict,    \* the job's state
  count,      \* Job.LineCount
  ring,       \* Job.ringBuffer
  subs,       \* Job.subscribers
  chan,       \* what each viewer's channel holds
  closed,     \* the viewers whose channel is closed
  viewer,     \* each viewer's connection
  backlog,    \* history: the lines a viewer was given on subscribing
  got,        \* history: the live lines it has received
  since,      \* history: LineCount when it subscribed
  lagged,     \* history: who once had more lines to read than a channel holds
  panicked    \* a goroutine sent on a closed channel: the agent is down

opVars == <<stage, step, line, todo, failed, verdict>>
logVars == <<count, ring>>
viewVars == <<subs, chan, closed, viewer, backlog, got, since, lagged>>
streamVars == <<opVars, logVars, viewVars, panicked>>

Appenders == Workers \cup {Main}

Alive == ~panicked

StreamInit ==
  /\ stage = [a \in Appenders |-> IF a = Main THEN "opening" ELSE "unborn"]
  /\ step = [a \in Appenders |-> "none"]
  /\ line = [a \in Appenders |-> 0]
  /\ todo = [a \in Appenders |-> {}]
  /\ failed = FALSE
  /\ verdict = "running"
  /\ count = 0 /\ ring = <<>>
  /\ subs = {} /\ chan = [v \in Viewers |-> <<>>] /\ closed = {}
  /\ viewer = [v \in Viewers |-> "away"]
  /\ backlog = [v \in Viewers |-> <<>>]
  /\ got = [v \in Viewers |-> <<>>]
  /\ since = [v \in Viewers |-> 0] /\ lagged = {}
  /\ panicked = FALSE

-----------------------------------------------------------------------------
(* appendLine's critical section: the line goes into the ring and the      *)
(* subscribers are copied; a goes on to stage s once it has sent the line. *)

LastOf(S, n) == SubSeq(S, IF Len(S) > n THEN Len(S) - n + 1 ELSE 1, Len(S))

NoAudience == {}                                        \* seeded fault
Audience == subs

(* How many of the lines since it subscribed a viewer has yet to read. *)
Unread(v) == count - since[v] - Len(got[v])

AppendLine(a, s) ==
  /\ count' = count + 1
  /\ ring' = LastOf(Append(ring, count + 1), RingSize)
  /\ line' = [line EXCEPT ![a] = count + 1]
  /\ todo' = [todo EXCEPT ![a] = Audience]
  /\ step' = [step EXCEPT ![a] = "try"]
  /\ stage' = [stage EXCEPT ![a] = s]
  /\ lagged' = lagged \cup {v \in subs : Unread(v) >= BufferSize}
  /\ UNCHANGED <<subs, chan, closed, viewer, backlog, got, since, panicked>>

StillToSend(a, v) == [todo EXCEPT ![a] = @]             \* seeded fault
Sent(a, v) == [todo EXCEPT ![a] = @ \ {v}]

(* The first send, or the one after the oldest line was dropped, to the    *)
(* channel of a copied subscriber: it panics when the channel is closed.   *)
SendTo(a, v) ==
  /\ v \notin closed
  /\ Len(chan[v]) < BufferSize
  /\ chan' = [chan EXCEPT ![v] = Append(@, line[a])]
  /\ todo' = Sent(a, v)
  /\ step' = [step EXCEPT ![a] = "try"]
  /\ UNCHANGED <<stage, line, failed, verdict, logVars, subs, closed, viewer,
                 backlog, got, since, lagged, panicked>>

SendPanics(a, v) ==
  /\ v \in closed
  /\ panicked' = TRUE
  /\ UNCHANGED <<opVars, logVars, viewVars>>

(* The loop over the copied subscribers, one at a time: todo[a] is where   *)
(* it is going, and mid-way through a subscriber it stays with it.         *)
SomeOf(S) == CHOOSE v \in S : TRUE
Current(a) == SomeOf(todo[a])

FullEarly(v) ==                                         \* seeded fault
  v \notin closed /\ Len(chan[v]) >= BufferSize - 1
Full(v) == v \notin closed /\ Len(chan[v]) >= BufferSize

TrySend(a) ==
  /\ Alive
  /\ step[a] = "try" /\ todo[a] # {}
  /\ LET v == Current(a)
     IN \/ SendTo(a, v)
        \/ SendPanics(a, v)
        \/ /\ Full(v)
           /\ step' = [step EXCEPT ![a] = "drop"]
           /\ UNCHANGED <<stage, line, todo, failed, verdict, logVars,
                          viewVars, panicked>>

KeepOldest(v) == chan                                   \* seeded fault
WithoutOldest(v) ==
  [chan EXCEPT ![v] = IF @ = <<>> THEN <<>> ELSE SubSeq(@, 2, Len(@))]

(* The buffer was full: drop the oldest line, if the viewer or another     *)
(* goroutine has not taken it since ... *)
DropOldest(a) ==
  /\ Alive
  /\ step[a] = "drop"
  /\ chan' = WithoutOldest(Current(a))
  /\ step' = [step EXCEPT ![a] = "retry"]
  /\ UNCHANGED <<stage, line, todo, failed, verdict, logVars, subs, closed,
                 viewer, backlog, got, since, lagged, panicked>>

WaitForRoom == FALSE                                    \* seeded fault
GiveUpAtOnce == TRUE

(* ... and retry once; when another goroutine has filled the place, this   *)
(* line is the one that is lost.                                           *)
Retry(a) ==
  /\ Alive
  /\ step[a] = "retry"
  /\ LET v == Current(a)
     IN \/ SendTo(a, v)
        \/ SendPanics(a, v)
        \/ /\ Full(v)
           /\ GiveUpAtOnce
           /\ todo' = Sent(a, v)
           /\ step' = [step EXCEPT ![a] = "try"]
           /\ UNCHANGED <<stage, line, failed, verdict, logVars, viewVars,
                          panicked>>

(* appendLine returns. *)
Returns(a) ==
  /\ Alive
  /\ step[a] = "try" /\ todo[a] = {}
  /\ step' = [step EXCEPT ![a] = "none"]
  /\ line' = [line EXCEPT ![a] = 0]
  /\ UNCHANGED <<stage, todo, failed, verdict, logVars, viewVars, panicked>>

Appending(a) == TrySend(a) \/ DropOldest(a) \/ Retry(a) \/ Returns(a)

-----------------------------------------------------------------------------
(* runBulk: an opening line, one goroutine per target, each holding one of *)
(* the semaphore's places while it works and appends its line, and after   *)
(* all of them the closing line, unless one failed.                        *)

Open ==
  /\ Alive
  /\ stage[Main] = "opening"
  /\ AppendLine(Main, "spawning")
  /\ UNCHANGED <<failed, verdict>>

Spawn ==
  /\ Alive
  /\ stage[Main] = "spawning" /\ step[Main] = "none"
  /\ stage' = [a \in Appenders |-> IF a = Main THEN "waiting" ELSE "queued"]
  /\ UNCHANGED <<step, line, todo, failed, verdict, logVars, viewVars, panicked>>

(* sem <- struct{}{} *)
Enter(w) ==
  /\ Alive
  /\ stage[w] = "queued"
  /\ Cardinality({x \in Workers : stage[x] \in {"working", "reporting"}})
       < Concurrency
  /\ stage' = [stage EXCEPT ![w] = "working"]
  /\ UNCHANGED <<step, line, todo, failed, verdict, logVars, viewVars, panicked>>

(* doContainerVerb is done, well or not (a cancelled job's is not). *)
Report(w) ==
  /\ Alive
  /\ stage[w] = "working"
  /\ failed' \in {failed, TRUE}
  /\ AppendLine(w, "reporting")
  /\ UNCHANGED verdict

Exit(w) ==
  /\ Alive
  /\ stage[w] = "reporting" /\ step[w] = "none"
  /\ stage' = [stage EXCEPT ![w] = "ended"]
  /\ UNCHANGED <<step, line, todo, failed, verdict, logVars, viewVars, panicked>>

SomeEnded == \E w \in Workers : stage[w] = "ended"      \* seeded fault
AllEnded == \A w \in Workers : stage[w] = "ended"

(* wg.Wait, then the verdict; the closing line only when all went well. *)
Finish ==
  /\ Alive
  /\ stage[Main] = "waiting"
  /\ AllEnded
  /\ \/ /\ failed
        /\ stage' = [stage EXCEPT ![Main] = "ended"]
        /\ verdict' = "failed"
        /\ UNCHANGED <<step, line, todo, failed, logVars, viewVars, panicked>>
     \/ /\ ~failed
        /\ AppendLine(Main, "closing")
        /\ UNCHANGED <<failed, verdict>>

Complete ==
  /\ Alive
  /\ stage[Main] = "closing" /\ step[Main] = "none"
  /\ stage' = [stage EXCEPT ![Main] = "ended"]
  /\ verdict' = "completed"
  /\ UNCHANGED <<step, line, todo, failed, logVars, viewVars, panicked>>

MainStep == Open \/ Spawn \/ Finish \/ Complete \/ Appending(Main)
WorkerStep(w) == Enter(w) \/ Report(w) \/ Exit(w) \/ Appending(w)

-----------------------------------------------------------------------------
(* A viewer connects: one critical section copies the backlog and adds its *)
(* channel to the subscribers.                                             *)
Subscribe(v) ==
  /\ Alive
  /\ viewer[v] = "away"
  /\ viewer' = [viewer EXCEPT ![v] = "reading"]
  /\ backlog' = [backlog EXCEPT ![v] = ring]
  /\ since' = [since EXCEPT ![v] = count]
  /\ subs' = subs \cup {v}
  /\ UNCHANGED <<opVars, logVars, chan, closed, got, lagged, panicked>>

(* streamLines takes a line; how many it puts in a frame is left out. *)
Receive(v) ==
  /\ Alive
  /\ viewer[v] = "reading" /\ chan[v] # <<>>
  /\ got' = [got EXCEPT ![v] = Append(@, Head(chan[v]))]
  /\ chan' = WithoutOldest(v)
  /\ UNCHANGED <<opVars, logVars, subs, closed, viewer, backlog, since, lagged,
                 panicked>>

(* The client is gone or a write fails: unsub, in its two steps. *)
Unsubscribe(v) ==
  /\ Alive
  /\ viewer[v] = "reading"
  /\ viewer' = [viewer EXCEPT ![v] = "leaving"]
  /\ subs' = subs \ {v}
  /\ UNCHANGED <<opVars, logVars, chan, closed, backlog, got, since, lagged,
                 panicked>>

CloseChannel(v) ==
  /\ Alive
  /\ viewer[v] = "leaving"
  /\ viewer' = [viewer EXCEPT ![v] = "gone"]
  /\ closed' = closed \cup {v}
  /\ UNCHANGED <<opVars, logVars, subs, chan, backlog, got, since, lagged,
                 panicked>>

ViewerStep(v) == Subscribe(v) \/ Receive(v) \/ Unsubscribe(v) \/ CloseChannel(v)

StreamNext ==
  \/ MainStep
  \/ \E w \in Workers : WorkerStep(w)
  \/ \E v \in Viewers : ViewerStep(v)

StreamSpec == StreamInit /\ [][StreamNext]_streamVars

(* The operation's goroutines are scheduled and a container verb returns.  *)
(* Nothing is asked of viewers: they may stop reading for good.            *)
StreamFairSpec ==
  /\ StreamSpec
  /\ WF_streamVars(MainStep)
  /\ \A w \in Workers : WF_streamVars(WorkerStep(w))

-----------------------------------------------------------------------------
Lines(s) == {s[i] : i \in DOMAIN s}

(* Every variable holds a value of its Go type; the ring and the channels  *)
(* stay within their sizes.                                                *)
StreamTypeOK ==
  /\ stage \in [Appenders -> {"opening", "unborn", "spawning", "queued",
                              "working", "reporting", "waiting", "closing",
                              "ended"}]
  /\ step \in [Appenders -> {"none", "try", "drop", "retry"}]
  /\ count \in Nat /\ line \in [Appenders -> 0..count]
  /\ todo \in [Appenders -> SUBSET Viewers]
  /\ failed \in BOOLEAN /\ verdict \in {"running", "failed", "completed"}
  /\ ring \in Seq(1..count) /\ Len(ring) <= RingSize
  /\ subs = {v \in Viewers : viewer[v] = "reading"}
  /\ {chan, backlog, got} \subseteq [Viewers -> Seq(1..count)]
  /\ \A v \in Viewers : Len(chan[v]) <= BufferSize
  /\ closed = {v \in Viewers : viewer[v] = "gone"}
  /\ viewer \in [Viewers -> {"away", "reading", "leaving", "gone"}]
  /\ since \in [Viewers -> 0..count] /\ lagged \subseteq Viewers
  /\ panicked \in BOOLEAN

(* No viewer is shown a line twice, neither in the backlog and live nor    *)
(* twice live, whoever appends while it subscribes.                        *)
EachLineOnce ==
  \A v \in Viewers :
    LET shown == backlog[v] \o got[v] \o chan[v]
    IN \A i, j \in DOMAIN shown : shown[i] = shown[j] => i = j

(* A viewer that at no time had more lines to read than its channel holds  *)
(* loses nothing, however many lines there are: each one since it          *)
(* subscribed has reached it, waits in its channel or is being sent.       *)
NoSilentGap ==
  \A v \in subs \ lagged :
    \A n \in since[v] + 1 .. count :
      \/ n \in Lines(got[v]) \cup Lines(chan[v])
      \/ \E a \in Appenders : line[a] = n /\ v \in todo[a]

(* The closing line of a completed job reaches every viewer that was there *)
(* for it, however slow: what a full buffer drops is older.                *)
ClosingLineArrives ==
  verdict = "completed" =>
    \A v \in subs : since[v] < count => count \in Lines(got[v]) \cup Lines(chan[v])

(* A completed job has all its lines in its log: the verdict and the       *)
(* closing line come after the last worker's line, and no worker failed.   *)
VerdictIsLast ==
  verdict # "running" =>
    /\ count = Cardinality(Workers) + (IF failed THEN 1 ELSE 2)
    /\ verdict = "failed" <=> failed
    /\ \A w \in Workers : step[w] = "none"

(* "a slow viewer must never block the operation goroutine": the operation *)
(* ends even if no viewer ever reads another line.                         *)
BulkEnds == <>(panicked \/ verdict # "running")

(* The operation survives its viewers: leaving the log of a running job    *)
(* never stops it.  The code breaks this: a line whose subscribers were    *)
(* copied before unsub is sent on the channel that unsub then closes.      *)
ViewersAreHarmless == ~panicked

=============================================================================
