----------------------------- MODULE Idempotency -----------------------------
(***************************************************************************)
(* The Idempotency-Key store of idempotency.go: the middleware idempotent  *)
(* around every job-starting route, the idempotency_keys table in sqlite,  *)
(* the answers kept in memory while sqlite refuses writes, the background  *)
(* writers, the prune, the close on shutdown and the sweep at boot.        *)
(*                                                                         *)
(* A key stands for (method, path, Idempotency-Key), a print for the body  *)
(* fingerprint.  Each sqlite statement is one step and any of them may     *)
(* fail; each critical section of idempotencyStore.mu is one step.         *)
(***************************************************************************)
EXTENDS Naturals, Sequences, FiniteSets

CONSTANTS
  Reqs,        \* request goroutines, one at a time each; a retry is a request
  Keys,        \* (method, path, Idempotency-Key) scopes
  Prints,      \* fingerprints of request bodies
  Bodies,      \* the answers' bodies (a job id makes each its own)
  None,        \* no key, no print, no answer
  MaxRows,     \* idempotencyMaxRows: recorded answers kept
  MaxPending   \* idempotencyMaxPending: answers kept in memory

ASSUME NoneAssumption ==
  /\ None \notin Keys \cup Prints
  /\ None \notin [fp : Prints, acted : BOOLEAN, body : Bodies]
ASSUME LimitsAssumption == MaxRows \in Nat /\ MaxPending \in Nat

VARIABLES
  row,       \* the idempotency_keys row of each key
  order,     \* the keys that have a row, by rowid
  mine,      \* the keys whose row carries this process's proc
  pending,   \* idempotencyStore.pending
  landed,    \* pending answers whose background writer is through
  pc,        \* where each request is in the middleware
  key,       \* its key
  fp,        \* its body's fingerprint
  tries,     \* the claim attempts it has left
  answer,    \* the answer its handler gave
  replayed,  \* the recorded answer it was given instead of running
  up,        \* FALSE from the process's end to the end of the boot sweep
  owed       \* history: the answer of the request that acted for a key,
             \* until the agent may forget it

reqVars == <<pc, key, fp, tries, answer, replayed>>
table == <<row, order, mine>>
memory == <<pending, landed>>
vars == <<table, memory, reqVars, up, owed>>

(* An answer is final when recorded: the request acted (2xx) or was        *)
(* refused (4xx).  A 5xx or a retryable refusal is transient: no answer.   *)
Answers == [fp : Prints, acted : BOOLEAN, body : Bodies]
NoRow == [state |-> "absent", fp |-> None, answer |-> None]
Claimed(f) == [state |-> "in_flight", fp |-> f, answer |-> None]
Done(a) == [state |-> "done", fp |-> a.fp, answer |-> a]

Handling(k) == {r \in Reqs : key[r] = k}

Init ==
  /\ row = [k \in Keys |-> NoRow] /\ order = <<>> /\ mine = {}
  /\ pending = [k \in Keys |-> None] /\ landed = {}
  /\ pc = [r \in Reqs |-> "idle"]
  /\ key = [r \in Reqs |-> None]
  /\ fp = [r \in Reqs |-> None]
  /\ tries = [r \in Reqs |-> 0]
  /\ answer = [r \in Reqs |-> None]
  /\ replayed = [r \in Reqs |-> None]
  /\ up = FALSE
  /\ owed = [k \in Keys |-> None]

-----------------------------------------------------------------------------
(* The request leaves the middleware, with rep replayed (or nothing). *)
Leave(r, rep) ==
  /\ pc' = [pc EXCEPT ![r] = "idle"]
  /\ key' = [key EXCEPT ![r] = None]
  /\ fp' = [fp EXCEPT ![r] = None]
  /\ tries' = [tries EXCEPT ![r] = 0]
  /\ answer' = [answer EXCEPT ![r] = None]
  /\ replayed' = [replayed EXCEPT ![r] = rep]

Goto(r, label) ==
  /\ pc' = [pc EXCEPT ![r] = label]
  /\ UNCHANGED <<key, fp, tries, answer, replayed>>

AnyPrint(f, g) == TRUE                                  \* seeded fault
SamePrint(f, g) == f = g

(* A request with a key: an answer pending in memory is replayed, or       *)
(* refused as reused (422) when the body differs.                          *)
Arrive(r, k, f) ==
  /\ up
  /\ pc[r] = "idle"
  /\ IF pending[k] # None
     THEN Leave(r, IF SamePrint(pending[k].fp, f) THEN pending[k] ELSE None)
     ELSE /\ pc' = [pc EXCEPT ![r] = "insert"]
          /\ key' = [key EXCEPT ![r] = k]
          /\ fp' = [fp EXCEPT ![r] = f]
          /\ tries' = [tries EXCEPT ![r] = 3]
          /\ replayed' = [replayed EXCEPT ![r] = None]
          /\ UNCHANGED answer
  /\ UNCHANGED <<table, memory, up, owed>>

(* INSERT ... ON CONFLICT DO NOTHING: the claim, before the handler runs.  *)
Insert(r) ==
  /\ pc[r] = "insert"
  /\ LET k == key[r]
     IN IF row[k] = NoRow
        THEN /\ row' = [row EXCEPT ![k] = Claimed(fp[r])]
             /\ order' = Append(order, k)
             /\ mine' = mine \cup {k}
             /\ Goto(r, "handle")
        ELSE /\ Goto(r, "read")
             /\ UNCHANGED table
  /\ UNCHANGED <<memory, up, owed>>

(* The claim's read of the row it met: gone again, another body's (422), a *)
(* recorded answer, or a request still in flight (409).                    *)
Read(r) ==
  /\ pc[r] = "read"
  /\ LET e == row[key[r]]
     IN \/ /\ e = NoRow /\ tries[r] > 1
           /\ tries' = [tries EXCEPT ![r] = @ - 1]
           /\ pc' = [pc EXCEPT ![r] = "insert"]
           /\ UNCHANGED <<key, fp, answer, replayed>>
        \/ /\ e.state = "done" /\ SamePrint(e.fp, fp[r])
           /\ Leave(r, e.answer)
        \/ /\ \/ e = NoRow /\ tries[r] = 1
              \/ e # NoRow /\ ~SamePrint(e.fp, fp[r])
              \/ e.state = "in_flight" /\ SamePrint(e.fp, fp[r])
           /\ Leave(r, None)
  /\ UNCHANGED <<table, memory, up, owed>>

(* A failed statement of the claim: 503, and the handler does not run. *)
ClaimFails(r) ==
  /\ pc[r] \in {"insert", "read"}
  /\ Leave(r, None)
  /\ UNCHANGED <<table, memory, up, owed>>

-----------------------------------------------------------------------------
(* The handler runs: it acts, refuses for good, or gives a transient       *)
(* answer (or panics), for which the deferred release frees the claim.     *)
Handle(r) ==
  /\ pc[r] = "handle"
  /\ \/ \E b \in Bodies, acted \in BOOLEAN :
          LET a == [fp |-> fp[r], acted |-> acted, body |-> b]
          IN /\ answer' = [answer EXCEPT ![r] = a]
             /\ pc' = [pc EXCEPT ![r] = "record"]
             /\ owed' = IF acted THEN [owed EXCEPT ![key[r]] = a] ELSE owed
             /\ UNCHANGED <<key, fp, tries, replayed>>
     \/ Goto(r, "release") /\ UNCHANGED owed
  /\ UNCHANGED <<table, memory, up>>

(* recordOn: the row after storing a: over a claim of the same body or     *)
(* where the row has vanished, never over another request's answer.        *)
ClaimedOnly(k, a) == row[k] = Claimed(a.fp)             \* seeded fault
Storable(k, a) == row[k] = NoRow \/ row[k] = Claimed(a.fp)

Store(k, a) ==
  IF Storable(k, a)
  THEN /\ row' = [row EXCEPT ![k] = Done(a)]
       /\ order' = IF row[k] = NoRow THEN Append(order, k) ELSE order
       /\ mine' = IF row[k] = NoRow THEN mine \cup {k} ELSE mine
  ELSE UNCHANGED table

Record(r) ==
  /\ pc[r] = "record"
  /\ Store(key[r], answer[r])
  /\ IF Storable(key[r], answer[r])
     THEN Goto(r, "prune")
     ELSE Leave(r, None)
  /\ UNCHANGED <<memory, up, owed>>

HasRoom == Cardinality({k \in Keys : pending[k] # None}) < MaxPending

AnyAnswer(a) == FALSE                                   \* seeded fault
MustKeep(a) == a.acted

(* The statement failed.  What acted is kept in memory when there is room, *)
(* and otherwise its claim stays in flight; a refusal's claim is released. *)
RecordFails(r) ==
  /\ pc[r] = "record"
  /\ IF MustKeep(answer[r])
     THEN /\ pending' = IF HasRoom THEN [pending EXCEPT ![key[r]] = answer[r]]
                        ELSE pending
          /\ Leave(r, None)
     ELSE /\ Goto(r, "release")
          /\ UNCHANGED pending
  /\ UNCHANGED <<table, landed, up, owed>>

(* The table without some of its rows. *)
Without(S) == SelectSeq(order, LAMBDA k : k \notin S)

(* The deferred release: DELETE of the row in flight, whoever claimed it.  *)
(* Its failure is only logged.                                             *)
Release(r) ==
  /\ pc[r] = "release"
  /\ IF row[key[r]].state = "in_flight"
     THEN /\ row' = [row EXCEPT ![key[r]] = NoRow]
          /\ order' = Without({key[r]})
          /\ mine' = mine \ {key[r]}
     ELSE UNCHANGED table
  /\ Leave(r, None)
  /\ UNCHANGED <<memory, up, owed>>

ReleaseFails(r) ==
  /\ pc[r] = "release"
  /\ Leave(r, None)
  /\ UNCHANGED <<table, memory, up, owed>>

-----------------------------------------------------------------------------
(* prune.  Its age bound may remove any first part of the table (a row's   *)
(* age is its place in it), its row and byte bounds the oldest recorded    *)
(* answers.  Both are far away (24 h, 5000 rows) from a row of this        *)
(* process that a request is working with, and from one that a writer has  *)
(* just stored.                                                            *)

InUse == landed \cup {k \in mine : Handling(k) # {}}

AnyState(k) == TRUE                                     \* seeded fault
Recorded(k) == row[k].state = "done"

Aged == {S \in SUBSET Keys :
           \E n \in 0..Len(order) :
             S = {order[i] : i \in 1..n} \ InUse}

Newer(k, S) == {j \in S : \E m, n \in DOMAIN order :
                            m < n /\ order[m] = k /\ order[n] = j}

Evicted(S) == LET rest == {k \in Keys : row[k] # NoRow /\ Recorded(k)} \ S
              IN {k \in rest \ landed : Cardinality(Newer(k, rest)) >= MaxRows}

(* The rows of S are deleted; the agent owes their answers no longer, but  *)
(* for those it still has in memory.                                       *)
Delete(S) ==
  /\ row' = [k \in Keys |-> IF k \in S THEN NoRow ELSE row[k]]
  /\ order' = Without(S)
  /\ mine' = mine \ S
  /\ owed' = [k \in Keys |-> IF k \in S /\ pending[k] = None THEN None
                             ELSE owed[k]]

PruneRows == \E S \in Aged : Delete(S \cup Evicted(S))

(* maybePrune, after a recorded answer: at most once a minute. *)
Prune(r) ==
  /\ pc[r] = "prune"
  /\ PruneRows \/ UNCHANGED <<table, owed>>
  /\ Leave(r, None)
  /\ UNCHANGED <<memory, up>>

-----------------------------------------------------------------------------
(* keepPending's background writer: it stores the answer, or finds the key *)
(* re-claimed by another request; then it drops the answer from memory.    *)
WriterStores(k) ==
  /\ up
  /\ pending[k] # None /\ k \notin landed
  /\ Store(k, pending[k])
  /\ landed' = landed \cup {k}
  /\ UNCHANGED <<pending, reqVars, up, owed>>

WriterForgets(k) ==
  /\ k \in landed
  /\ pending' = [pending EXCEPT ![k] = None]
  /\ landed' = landed \ {k}
  /\ UNCHANGED <<table, reqVars, up, owed>>

-----------------------------------------------------------------------------
(* The process ends.  On a shutdown close() stores what it can of the      *)
(* pending answers; a crash stores none.  What then is neither recorded    *)
(* nor pending may run again.                                              *)
Stop(S) ==
  /\ up
  /\ S \subseteq {k \in Keys : pending[k] # None /\ Storable(k, pending[k])}
  /\ row' = [k \in Keys |-> IF k \in S THEN Done(pending[k]) ELSE row[k]]
  /\ \E s \in [1..Cardinality({k \in S : row[k] = NoRow}) ->
                 {k \in S : row[k] = NoRow}] :
       /\ {s[i] : i \in DOMAIN s} = {k \in S : row[k] = NoRow}
       /\ order' = order \o s
  /\ pending' = [k \in Keys |-> None] /\ landed' = {} /\ mine' = {}
  /\ pc' = [r \in Reqs |-> "idle"]
  /\ key' = [r \in Reqs |-> None]
  /\ fp' = [r \in Reqs |-> None]
  /\ tries' = [r \in Reqs |-> 0]
  /\ answer' = [r \in Reqs |-> None]
  /\ replayed' = [r \in Reqs |-> None]
  /\ up' = FALSE
  /\ owed' = [k \in Keys |-> IF row'[k].state = "done" THEN owed[k] ELSE None]

InFlight == {k \in Keys : row[k].state = "in_flight"}

(* sweepIdempotency, before the listener opens: the claims in flight are   *)
(* released, then the bounds enforced; either may fail, which is logged.   *)
Boot ==
  /\ ~up
  /\ \/ Delete(InFlight)
     \/ PruneRows
     \/ \E S \in Aged : Delete(S \cup Evicted(S) \cup InFlight)
     \/ UNCHANGED <<table, owed>>
  /\ up' = TRUE
  /\ UNCHANGED <<memory, reqVars>>

Request(r) ==
  \/ \E k \in Keys, f \in Prints : Arrive(r, k, f)
  \/ Insert(r) \/ Read(r) \/ ClaimFails(r) \/ Handle(r)
  \/ Record(r) \/ RecordFails(r) \/ Release(r) \/ ReleaseFails(r) \/ Prune(r)

Next == \/ \E r \in Reqs : Request(r)
        \/ \E k \in Keys : WriterStores(k) \/ WriterForgets(k)
        \/ \E S \in SUBSET Keys : Stop(S)
        \/ Boot

Spec == Init /\ [][Next]_vars

-----------------------------------------------------------------------------
(* Every variable holds a value of its Go or column type; the pending      *)
(* answers never outgrow idempotencyMaxPending.                            *)
TypeOK ==
  /\ row \in [Keys -> [state : {"absent"}, fp : {None}, answer : {None}]
                      \cup [state : {"in_flight"}, fp : Prints, answer : {None}]
                      \cup [state : {"done"}, fp : Prints, answer : Answers]]
  /\ order \in Seq(Keys)
  /\ {order[i] : i \in DOMAIN order} = {k \in Keys : row[k] # NoRow}
  /\ mine \subseteq {k \in Keys : row[k] # NoRow}
  /\ pending \in [Keys -> Answers \cup {None}]
  /\ Cardinality({k \in Keys : pending[k] # None}) <= MaxPending
  /\ landed \subseteq {k \in Keys : pending[k] # None}
  /\ pc \in [Reqs -> {"idle", "insert", "read", "handle", "record", "release",
                      "prune"}]
  /\ key \in [Reqs -> Keys \cup {None}]
  /\ fp \in [Reqs -> Prints \cup {None}]
  /\ tries \in [Reqs -> 0..3]
  /\ answer \in [Reqs -> Answers \cup {None}]
  /\ replayed \in [Reqs -> Answers \cup {None}]
  /\ up \in BOOLEAN
  /\ owed \in [Keys -> Answers \cup {None}]

(* A duplicate never executes: two requests with one key never run their   *)
(* handlers at the same time, nor while the answer of one is being stored. *)
OneHandler ==
  \A r, q \in Reqs :
    /\ pc[r] \in {"handle", "record"} /\ pc[q] \in {"handle", "record"}
    /\ key[r] = key[q]
    => r = q

(* At most once: while the agent owes the answer of a request that acted,  *)
(* no other request with its key acts, whatever statements fail, until the *)
(* answer expires or is lost with the process that could not store it.     *)
AtMostOnce ==
  [][\A k \in Keys : owed[k] # None => owed'[k] \in {owed[k], None}]_vars

(* A replayed answer is a true one: an answer to the same body, and when   *)
(* it says that the request acted, no other than the one the agent owes.   *)
ReplaysAreTrue ==
  [][\A r \in Reqs, k \in Keys, f \in Prints :
       (Arrive(r, k, f) \/ (Read(r) /\ key[r] = k /\ fp[r] = f)) /\
       replayed'[r] # None =>
         /\ replayed'[r].fp = f
         /\ replayed'[r].acted => replayed'[r] = owed[k]]_vars

(* What the agent owes it can still give or at least defend: the answer is *)
(* in the table or in memory, or the claim is still in flight, so that a   *)
(* retry is replayed the answer or turned away, through crashes, failed    *)
(* statements and rows that expire under a pending answer.                 *)
OwedIsKept ==
  \A k \in Keys : owed[k] # None =>
    \/ row[k] = Done(owed[k])
    \/ pending[k] = owed[k]
    \/ row[k] = Claimed(owed[k].fp)

=============================================================================
