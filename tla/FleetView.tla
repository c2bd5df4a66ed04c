----------------------------- MODULE FleetView ------------------------------
(***************************************************************************)
(* fleet.go, discovery.go and the callers of selfid.go: what the outside   *)
(* is told of the host.  The discovery feed takes a container list, which  *)
(* also refreshes the self view, stamps the checker's cached results on    *)
(* it one by one, and posts the whole to the controller; it does so on a   *)
(* timer and when a pass of the checker has ended.  Requests take a list   *)
(* of their own: a mutation decides by it or is refused, a read may fall   *)
(* back on the published view.                                             *)
(*                                                                         *)
(* Composition: SelfView and ImageCheck share the feed, and whatever       *)
(* happens to the host or goes wrong is drawn from an allowance, `fuel`.    *)
(***************************************************************************)
EXTENDS SelfView, ImageCheck

CONSTANTS
  Feed,      \* the feed's lister; the others belong to requests
  Entries,   \* the registry entries verdicts are given on: name -> entry
  Budgets    \* bounds: how many times the host moves, a request arrives, a
             \* list fails, and the images change or a check or post fails

Message == [list : DOMAIN Lists, status : Statuses \cup {"blank"},
            revision : Contents \cup {None}]
ASSUME FeedAssumption == Feed \in Listers /\ None \notin Message

Requests == Listers \ {Feed}

VARIABLES
  feed,     \* where the feed is
  nudge,    \* the token in its trigger channel
  shown,    \* per lister: the images its list showed
  unread,   \* the services it has not looked up in the cache yet
  found,    \* what it has found there for the others
  payload,  \* what it is about to post
  told,     \* what the controller was told last
  unsent,   \* history: a post or a list of the feed failed since
  since,    \* history: the lists the daemon could give since it arrived
  fuel

fleetVars == <<feed, nudge, shown, unread, found, payload, told, unsent, since, fuel>>
vars == <<selfVars, imageVars, fleetVars>>

TypeOK ==
  /\ SelfTypeOK /\ ImageTypeOK
  /\ feed \in {"idle", "listing", "stamping", "posting"}
  /\ {nudge, unsent} \subseteq BOOLEAN
  /\ shown \in [Services -> Contents]
  /\ unread \subseteq Services /\ found \in [Services -> Checks \cup {None}]
  /\ {payload, told} \subseteq Message \cup {None}
  /\ since \in [Requests -> SUBSET DOMAIN Lists]
  /\ \E b \in Budgets : \A k \in DOMAIN b : fuel[k] \in 0..b[k]

Init ==
  /\ SelfInit /\ ImageInit
  /\ feed = "idle" /\ nudge = FALSE
  /\ shown = running
  /\ unread = {} /\ found = [s \in Services |-> None]
  /\ payload = None /\ told = None /\ unsent = FALSE
  /\ since = [r \in Requests |-> {}]
  /\ fuel \in Budgets

Burn(kind) == fuel[kind] > 0 /\ fuel' = [fuel EXCEPT ![kind] = @ - 1]
Free == fuel' = fuel
stampVars == <<unread, found>>
feedVars == <<feed, nudge, shown, stampVars, payload, told, unsent>>

-----------------------------------------------------------------------------
(* The feed.                                                               *)

(* A tick, or a nudge: fleetHub's build takes a list. *)
FeedWakes ==
  /\ feed = "idle"
  /\ feed' = "listing"
  /\ nudge' \in {nudge, FALSE}
  /\ StartList(Feed)
  /\ Free
  /\ UNCHANGED <<imageVars, shown, stampVars, payload, told, unsent, since>>

FeedAnswered ==
  /\ AnswerList(Feed)
  /\ shown' = running
  /\ Free
  /\ UNCHANGED <<imageVars, feed, nudge, stampVars, payload, told, unsent, since>>

FeedObserves ==
  /\ Publish(Feed) \/ ClearFailure(Feed) \/ CheckView(Feed) \/ RecordFailure(Feed)
  /\ Free
  /\ UNCHANGED <<imageVars, feedVars, since>>

(* It goes on with its own list, whichever view is published; a failed     *)
(* list ends the push.                                                     *)
FeedListed ==
  /\ feed = "listing"
  /\ feed' = IF At(Feed, "seen") THEN "stamping" ELSE "idle"
  /\ unsent' = (unsent \/ At(Feed, "blind"))
  /\ payload' = IF At(Feed, "blind") THEN None
                ELSE [list |-> got[Feed], status |-> "blank", revision |-> None]
  /\ unread' = IF At(Feed, "seen") THEN Services ELSE {}
  /\ Settle(Feed)
  /\ Free
  /\ UNCHANGED <<imageVars, nudge, shown, found, told, since>>

(* stampImageStatus: each container is looked up under a lock of its own,  *)
(* then the plans are; a pass may store its results in between.            *)
StampContainer(s) ==
  /\ feed = "stamping" /\ s \in unread
  /\ unread' = unread \ {s}
  /\ found' = [found EXCEPT ![s] = lookup(s, shown)]
  /\ Free
  /\ UNCHANGED <<selfVars, imageVars, feed, nudge, shown, payload, told, unsent, since>>

StampProject ==
  /\ feed = "stamping" /\ unread = {}
  /\ feed' = "posting"
  /\ payload' = [payload EXCEPT !.status = StatusBy(projPlans, found),
                                !.revision = RevisionBy(found, shown)]
  /\ found' = [s \in Services |-> None]
  /\ Free
  /\ UNCHANGED <<selfVars, imageVars, nudge, shown, unread, told, unsent, since>>

Post(fails) ==
  /\ feed = "posting"
  /\ feed' = "idle"
  /\ payload' = None
  /\ told' = IF fails THEN told ELSE payload
  /\ unsent' = fails
  /\ IF fails THEN Burn("image") ELSE Free
  /\ UNCHANGED <<selfVars, imageVars, nudge, shown, stampVars, since>>

-----------------------------------------------------------------------------
(* Requests.                                                               *)

RequestArrives(r) ==
  /\ StartList(r)
  /\ since' = [since EXCEPT ![r] = {now}]
  /\ Burn("request")
  /\ UNCHANGED <<imageVars, feedVars>>

RequestLists(r) ==
  /\ \/ AnswerList(r) \/ Publish(r) \/ ClearFailure(r) \/ CheckView(r) \/ RecordFailure(r)
  /\ Free
  /\ UNCHANGED <<imageVars, feedVars, since>>

(* What a request wants, a read or a mutation, matters when it decides:    *)
(* selfForMutation never falls back to an earlier view.                    *)
Kinds == {"read", "mutation"}
FallsBackAlways(r, kind) == view # None                 \* seeded fault
FallsBack(r, kind) == kind = "read" /\ ~TooStale

(* viewForRead and selfForMutation: the view it decides by, or a 503.      *)
Refused(r, kind) == At(r, "blind") /\ ~FallsBack(r, kind)
DecidedBy(r) ==
  IF At(r, "seen") THEN ViewOf(got[r])
  ELSE IF view = None THEN None ELSE ViewOf(view.list)

Decide(r) ==
  /\ Settle(r)
  /\ since' = [since EXCEPT ![r] = {}]
  /\ Free
  /\ UNCHANGED <<imageVars, feedVars>>

-----------------------------------------------------------------------------
(* The checker's goroutine and the callers of its triggers.                *)

CheckerGoesOn ==
  \/ \E byTrigger \in BOOLEAN : Wake(byTrigger)
  \/ \E within \in BOOLEAN : BeginPass(within)
  \/ SnapshotUnits
  \/ \E young \in BOOLEAN : StoreResults(young)

CheckerTries(fails) ==
  \/ FetchOverrides(fails)
  \/ \E failed \in SUBSET Services : (failed # {} <=> fails) /\ CheckImages(failed)
  \/ PlanProject(fails)

(* afterPass, once the results are stored: the token waits in a channel of *)
(* one while the feed is busy. *)
NudgeIfListening == feed = "idle"                       \* seeded fault
NudgeKept == TRUE
AfterPass ==
  /\ pass = "stored"
  /\ pass' = "idle"
  /\ nudge' = (nudge \/ NudgeKept)
  /\ Free
  /\ UNCHANGED <<selfVars, world, stored, wake, asked, work, update, owed,
                 feed, shown, stampVars, payload, told, unsent, since>>

CheckerSteps ==
  \/ AfterPass
  \/ /\ CheckerGoesOn \/ CheckerTries(FALSE)
     /\ Free
     /\ UNCHANGED <<selfVars, feedVars, since>>
  \/ /\ SnapshotFails \/ CheckerTries(TRUE)
     /\ Burn("image")
     /\ UNCHANGED <<selfVars, feedVars, since>>

UpdateSteps ==
  /\ ForceRecheck
  /\ Free
  /\ UNCHANGED <<selfVars, feedVars, since>>

(* What happens to the host and around it. *)
Happens ==
  /\ \/ Deploy
     \/ SetStrategy
     \/ \E admitted \in BOOLEAN : Refresh(admitted)
     \/ \E s \in Services : Release(s)
  /\ Burn("image")
  /\ UNCHANGED <<selfVars, feedVars, since>>

HostMoves(k) ==
  /\ HostChanges(k)
  /\ since' = [r \in Requests |-> IF At(r, "idle") THEN since[r] ELSE since[r] \cup {k}]
  /\ Burn("move")
  /\ UNCHANGED <<imageVars, feedVars>>

ListFails(l) ==
  /\ FailList(l)
  /\ Burn("list")
  /\ UNCHANGED <<imageVars, feedVars, since>>

FeedSteps == FeedWakes \/ FeedAnswered \/ FeedObserves \/ FeedListed \/ Post(FALSE)
          \/ (\E s \in Services : StampContainer(s)) \/ StampProject

Next ==
  \/ FeedSteps \/ Post(TRUE)
  \/ CheckerSteps \/ UpdateSteps \/ Happens
  \/ \E k \in DOMAIN Lists : HostMoves(k)
  \/ \E l \in Listers : ListFails(l)
  \/ \E r \in Requests :
       RequestArrives(r) \/ RequestLists(r) \/ Decide(r)

(* The two goroutines run as long as the process does, their timers fire   *)
(* again and again, and a job that has deployed completes.  (No step of    *)
(* these leaves its subscript as it was.)                                  *)
Fairness ==
  /\ WF_<<feed, stage, unread>>(FeedSteps)
  /\ WF_pass(CheckerSteps)
  /\ WF_update(UpdateSteps)
Spec == Init /\ [][Next]_vars /\ Fairness

-----------------------------------------------------------------------------
(* An accepted mutation was allowed on the host as it was at some moment   *)
(* since the request arrived, never by an older view; and a read that did  *)
(* not see the host still shows the agent's own project as its own.        *)
AgentProjects ==
  {c.project : c \in {d \in UNION {Lists[k] : k \in DOMAIN Lists} : d.id = containerID}}
    \ {None}
AllowedBy(v) ==
  {o \in (DOMAIN Entries) \X projectOps : o[2] \in allowed(o[1], Entries[o[1]], v)}
Founded(r, kind) ==
  IF kind = "mutation"
  THEN AllowedBy(DecidedBy(r)) \subseteq UNION {AllowedBy(ViewOf(k)) : k \in since[r]}
  ELSE At(r, "blind") => \A p \in AgentProjects : isSelfProject(DecidedBy(r), p)
DecisionsAreFounded ==
  [][\A r \in Requests, kind \in Kinds :
       ~At(r, "idle") /\ At(r, "idle")' /\ ~Refused(r, kind) => Founded(r, kind)]_vars

(* What a pass has stored is what the controller was told, or is about to  *)
(* be: no result is left behind by a nudge that coalesced with another, or *)
(* came while a push was under way.  (A push that failed is not retried    *)
(* before the next tick.)                                                  *)
StatusIsOnItsWay ==
  LET last == IF feed = "posting" THEN payload ELSE told
  IN (\E s \in Services : cache[s] # None) /\ ~nudge /\ pass # "stored"
       /\ (feed = "posting" \/ (feed = "idle" /\ ~unsent))
     => last # None /\ last.status = ProjectStatus(shown)

(* The revision a project is posted with is the one that every container   *)
(* in that list runs, although the cache is keyed by tags that move.       *)
ProvenanceIsTrue ==
  payload # None /\ payload.revision # None =>
    \A s \in Services : shown[s] = payload.revision

(* When the host settles and calls stop failing, the controller comes to   *)
(* know it: the verdicts on its projects and the true status of its images,*)
(* under whichever strategy it has set.                                    *)
Judged == [id \in AgentIDs, k \in DOMAIN Lists |->
  [n \in DOMAIN Entries |-> Verdict(n, Entries[n], Views[id][k])]]
Verdicts(list) == Judged[containerID, list]
TrueStatus == IF running = upstream THEN "updated" ELSE "outdated"
ControllerIsTold ==
  <>[](told # None /\ Verdicts(told.list) = Verdicts(now) /\ told.status = TrueStatus)

=============================================================================
