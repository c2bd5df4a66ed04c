------------------------------ MODULE SelfView ------------------------------
(***************************************************************************)
(* selfid.go: which containers are the agent itself and which one carries  *)
(* its control path, derived from every container list the agent takes.    *)
(* Lists are taken by several goroutines at once - the discovery feed, the *)
(* requests - and finish in any order; a list may also fail.  The view of  *)
(* the list that STARTED last is the one published, and readiness shows    *)
(* the failure of a list only while no later list succeeded.               *)
(*                                                                         *)
(* Instants are compared and never computed with, so a start takes the     *)
(* next rank and the ranks in use are packed again: the order is kept and  *)
(* the state space is finite.                                              *)
(***************************************************************************)
EXTENDS Integers, FiniteSets, Sequences, Capability

CONSTANTS
  Listers,          \* the goroutines that take container lists
  Lists,            \* what the daemon may answer: a sequence of container sets
  AgentIDs,         \* what mountinfo may say at the start: an ID, or None
  controlPathName   \* the configured name of the control-path proxy, or None

(* A container: its ID and name, its compose project or None, and the      *)
(* container whose network it shares or None.  The first list is what the  *)
(* daemon would answer at the start.                                       *)
ASSUME ListsAssumption ==
  /\ 1 \in DOMAIN Lists
  /\ \A k \in DOMAIN Lists : \A c \in Lists[k] :
       DOMAIN c = {"id", "name", "project", "net"}
(* A container's labels are fixed when it is created. *)
ASSUME LabelsAssumption ==
  \A j, k \in DOMAIN Lists : \A c \in Lists[j], d \in Lists[k] :
    c.id # None /\ (c.id = d.id => c.project = d.project)
ASSUME ListersAssumption == IsFiniteSet(Listers)
ASSUME ViewAssumption ==
  None \notin DOMAIN Lists \cup [observedAt : Nat, list : DOMAIN Lists]

VARIABLES
  containerID,  \* selfIdentity.containerID, fixed at the start
  now,          \* the list the daemon would answer now
  stage,        \* where a lister is
  startedAt,    \* when its list started
  got,          \* the list it was answered
  view,         \* the published view: when its list started, and which it was
  lastListErr,  \* the recorded failure: when its list started
  newest        \* history: the latest start among the lists that are settled

selfVars == <<containerID, now, stage, startedAt, got, view, lastListErr, newest>>

Instants == 0..(Cardinality(Listers) + 3)
SelfTypeOK ==
  /\ containerID \in AgentIDs
  /\ now \in DOMAIN Lists
  /\ stage \in [Listers -> {"idle", "listing", "answered", "published",
                            "failing", "checked", "seen", "blind"}]
  /\ startedAt \in [Listers -> Instants]
  /\ got \in [Listers -> DOMAIN Lists \cup {None}]
  /\ view = None \/ view \in [observedAt : Instants, list : DOMAIN Lists]
  /\ lastListErr \in Instants
  /\ newest \in [startedAt : Instants, list : DOMAIN Lists \cup {None}]

SelfInit ==
  /\ containerID \in AgentIDs
  /\ now = 1
  /\ stage = [l \in Listers |-> "idle"]
  /\ startedAt = [l \in Listers |-> 0]
  /\ got = [l \in Listers |-> None]
  /\ view = None
  /\ lastListErr = 0
  /\ newest = [startedAt |-> 0, list |-> None]

-----------------------------------------------------------------------------
(* One list, one view.                                                     *)

deriveSelfView(selfID, list) ==
  LET own == {c \in list : selfID # None /\ c.id = selfID}
      Shares(c) == selfID # None /\ c.id # selfID
                   /\ c.net \in {selfID} \cup {o.name : o \in own}
      mine == own \cup {c \in list : Shares(c)}
      proxies == {c \in list : c.name = controlPathName}
  IN [found   |-> own # {},
      ids     |-> ({selfID} \ {None}) \cup {c.id : c \in mine},
      self    |-> {c.project : c \in mine} \ {None},
      control |-> IF proxies = {} THEN None
                  ELSE (CHOOSE c \in proxies : TRUE).project]
Views == [id \in AgentIDs |-> [k \in DOMAIN Lists |-> deriveSelfView(id, Lists[k])]]
ViewOf(list) == Views[containerID][list]

ASSUME DerivedAssumption ==
  \A id \in AgentIDs, k \in DOMAIN Lists : Views[id][k] # None

known == containerID # None
protects == known \/ controlPathName # None

(* Reads only: the published view stands in for a list that failed, when   *)
(* it can still state what is protected (viewForRead).                     *)
NeverTooStale == FALSE                                  \* seeded fault
TooStale == IF view = None THEN protects ELSE known /\ ~ViewOf(view.list).found

-----------------------------------------------------------------------------
At(l, s) == stage[l] = s
Goto(l, s) == stage' = [stage EXCEPT ![l] = s]

Started == {l \in Listers : stage[l] # "idle"}
InUse == ({startedAt[l] : l \in Started} \cup {lastListErr, newest.startedAt}
          \cup (IF view = None THEN {} ELSE {view.observedAt})) \ {0}
Packed(t) == Cardinality({u \in InUse : u <= t})

(* startedAt := time.Now(), and the call goes out. *)
StartList(l) ==
  /\ At(l, "idle")
  /\ Goto(l, "listing")
  /\ startedAt' = [k \in Listers |->
       IF k = l THEN Cardinality(InUse) + 1
       ELSE IF k \in Started THEN Packed(startedAt[k]) ELSE 0]
  /\ view' = IF view = None THEN None
             ELSE [view EXCEPT !.observedAt = Packed(@)]
  /\ lastListErr' = Packed(lastListErr)
  /\ newest' = [newest EXCEPT !.startedAt = Packed(@)]
  /\ UNCHANGED <<containerID, now, got>>

(* The daemon's answer describes the host of this moment. *)
AnswerList(l) ==
  /\ At(l, "listing")
  /\ Goto(l, "answered")
  /\ got' = [got EXCEPT ![l] = now]
  /\ UNCHANGED <<containerID, now, startedAt, view, lastListErr, newest>>

FailList(l) ==
  /\ At(l, "listing")
  /\ Goto(l, "failing")
  /\ UNCHANGED <<containerID, now, startedAt, got, view, lastListErr, newest>>

NeverLater(t, l) == FALSE                               \* seeded fault
Later(t, l) == t > startedAt[l]
Superseded(l) == view # None /\ Later(view.observedAt, l)

(* observe: publish unless a list that started later already has. *)
Publish(l) ==
  /\ At(l, "answered")
  /\ IF Superseded(l)
     THEN Goto(l, "seen") /\ UNCHANGED view
     ELSE /\ Goto(l, "published")
          /\ view' = [observedAt |-> startedAt[l], list |-> got[l]]
  /\ UNCHANGED <<containerID, now, startedAt, got, lastListErr, newest>>

(* A success clears only a failure that started no later than it did. *)
ClearFailure(l) ==
  /\ At(l, "published")
  /\ Goto(l, "seen")
  /\ lastListErr' = IF Later(lastListErr, l) THEN lastListErr ELSE 0
  /\ UNCHANGED <<containerID, now, startedAt, got, view, newest>>

(* observeFailed reads the view once, and records the failure after it. *)
CheckView(l) ==
  /\ At(l, "failing")
  /\ Goto(l, IF Superseded(l) THEN "blind" ELSE "checked")
  /\ UNCHANGED <<containerID, now, startedAt, got, view, lastListErr, newest>>

RecordFailure(l) ==
  /\ At(l, "checked")
  /\ Goto(l, "blind")
  /\ lastListErr' = IF Later(lastListErr, l) THEN lastListErr ELSE startedAt[l]
  /\ UNCHANGED <<containerID, now, startedAt, got, view, newest>>

(* The list is settled; its caller goes on with what it saw, and the       *)
(* locals of the call are gone. *)
Settle(l) ==
  /\ stage[l] \in {"seen", "blind"}
  /\ Goto(l, "idle")
  /\ newest' = IF newest.startedAt > startedAt[l] THEN newest
               ELSE [startedAt |-> startedAt[l],
                     list |-> IF At(l, "seen") THEN got[l] ELSE None]
  /\ startedAt' = [startedAt EXCEPT ![l] = 0]
  /\ got' = [got EXCEPT ![l] = None]
  /\ UNCHANGED <<containerID, now, view, lastListErr>>

(* Containers are recreated, moved and removed behind the agent's back. *)
HostChanges(k) ==
  /\ k # now
  /\ now' = k
  /\ UNCHANGED <<containerID, stage, startedAt, got, view, lastListErr, newest>>

SelfStep(l) ==
  \/ StartList(l) \/ AnswerList(l)
  \/ Publish(l) \/ ClearFailure(l) \/ CheckView(l) \/ RecordFailure(l)

-----------------------------------------------------------------------------
(* Whatever order the lists finish in, once they are settled the agent     *)
(* shows what the list that started LAST found: its view if it succeeded,  *)
(* and a failure newer than the view exactly if it failed.  (A failure     *)
(* older than the view may stay recorded until the next success:           *)
(* observeFailed's look at the view and its write are two steps.)          *)
NewestListDecides ==
  (\A l \in Listers : At(l, "idle")) /\ newest.startedAt > 0 =>
    LET failing == lastListErr > (IF view = None THEN 0 ELSE view.observedAt)
    IN IF newest.list = None
       THEN failing
       ELSE ~failing /\ view # None /\ view.list = newest.list

=============================================================================
