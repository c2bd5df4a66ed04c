----------------------------- MODULE ProjectOps -----------------------------
(***************************************************************************)
(* Changes to projects: the compose jobs of engine.go and stackengine.go   *)
(* (lockProject, then runComposeOp or runUpdate), the register, copy and   *)
(* deregister requests of compose_handlers.go, the index they change       *)
(* (projects.go) and the boot's adoption of running projects (app.go), all *)
(* of them kept apart by the project lock of projectlock.go.               *)
(*                                                                         *)
(* The lock is keyed by the working directory a caller believes in when it *)
(* asks, and the index may re-point the project at any time after that: a  *)
(* job reads its directory a second time once it has the lock.  The lock   *)
(* itself is used here as the keyed mutex that ProjectLock implements.     *)
(***************************************************************************)
EXTENDS Naturals, FiniteSets

CONSTANTS
  Projects,    \* project names
  Homes,       \* a project's directory under ComposeRoot: [Projects -> Dirs]
  Dirs,        \* canonical working directories
  Jobs,        \* compose jobs (up, down, pull, restart, recreate, update)
  Reqs,        \* register and copy requests
  MaxStarted,  \* bound on how many of these jobs and requests start
  None         \* no project, no directory, no lock owner

ASSUME NoneAssumption == None \notin Projects \cup Dirs \cup Jobs \cup Reqs
ASSUME HomesAssumption == Homes \in [Projects -> Dirs]
ASSUME StartedAssumption == MaxStarted \in Nat
ASSUME ActorsAssumption == Jobs \cap Reqs = {} /\ Projects \cap Dirs = {}

VARIABLES
  index,    \* composeRegistry.byName: a project's working directory, or None
  live,     \* the working_dir label of a project's running containers, or None
  owner,    \* the project lock: key -> job or request
  pc,       \* how far each job or request is
  project,  \* the project a job or request changes
  key,      \* the lock key it asked for, or None
  dir,      \* the directory it works in, or None
  target,   \* the directory a request registers, or None
  deploy,   \* the requests that asked for an up after it
  adopt,    \* how far the boot's adoption is
  found,    \* the running projects the adoption is about to insert
  adopted,  \* history: projects whose entry the adoption inserted
  stable    \* history: jobs whose project has not been re-pointed under them

actorVars == <<pc, project, key, dir, target, deploy>>
bootVars == <<adopt, found, adopted>>
vars == <<index, live, owner, actorVars, bootVars, stable>>

Actors == Jobs \cup Reqs

(* projectLockKey: the directory, so that two names of one directory take  *)
(* one lock, or the name when there is none.                               *)
Keys == Dirs \cup Projects
NameKey(p, d) == p                                      \* seeded fault
KeyOf(p, d) == IF d = None THEN p ELSE d

(* resolveEntry: the index first, then the labels of running containers.  *)
Resolve(p) == IF index[p] # None THEN index[p] ELSE live[p]

(* workingDirOwner: another entry already has the directory. *)
Taken(d, p) == \E q \in Projects \ {p} : index[q] = d

(* What load finds in projects.json and what runs at boot; an index that   *)
(* already had two names for one directory (readiness reports it) is left  *)
(* out.                                                                    *)
Init ==
  /\ index \in [Projects -> Dirs \cup {None}]
  /\ \A p \in Projects : index[p] # None => ~Taken(index[p], p)
  /\ live \in [Projects -> Dirs \cup {None}]
  /\ owner = [k \in Keys |-> None]
  /\ pc = [a \in Actors |-> "new"]
  /\ project = [a \in Actors |-> None]
  /\ key = [a \in Actors |-> None]
  /\ dir = [a \in Actors |-> None]
  /\ target = [r \in Reqs |-> None] /\ deploy = {}
  /\ adopt = "before" /\ found = [p \in Projects |-> None]
  /\ adopted = {}
  /\ stable = {}

(* The job's or request's goroutine is through. *)
Leave(a) ==
  /\ pc' = [pc EXCEPT ![a] = "ended"]
  /\ project' = [project EXCEPT ![a] = None]
  /\ key' = [key EXCEPT ![a] = None]
  /\ target' = [r \in Reqs |-> IF r = a THEN None ELSE target[r]]
  /\ deploy' = deploy \ {a}
  /\ stable' = stable \ {a}

Goto(a, label) == pc' = [pc EXCEPT ![a] = label]

MayStart(a) == /\ pc[a] = "new"
               /\ Cardinality({b \in Actors : pc[b] # "new"}) < MaxStarted

-----------------------------------------------------------------------------
(* The project lock.  To take it changes nothing another actor can see but *)
(* the lock itself, so an actor's acquire and its next step are one action *)
(* here; so are its last step and the deferred release.                    *)
Acquire(a) ==
  /\ owner[key[a]] = None
  /\ owner' = [owner EXCEPT ![key[a]] = a]

Release(a) == owner' = [owner EXCEPT ![key[a]] = None]

(* The projects whose directory a change of the index to i changes: their  *)
(* queued and running jobs are re-pointed under way.                       *)
Repointed(i) ==
  {p \in Projects : Resolve(p) # (IF i[p] # None THEN i[p] ELSE live[p])}

Unmoved(i) == {j \in stable : project[j] \notin Repointed(i)}

-----------------------------------------------------------------------------
(* A job: handleComposeOp starts it for a project it can resolve.          *)
StartOp(j, p) ==
  /\ MayStart(j)
  /\ Resolve(p) # None
  /\ Goto(j, "ready")
  /\ project' = [project EXCEPT ![j] = p]
  /\ UNCHANGED <<index, live, owner, key, dir, target, deploy, bootVars, stable>>

(* lockProject chooses the key: what the project's entry says now. *)
ChooseKey(j) ==
  /\ pc[j] = "ready"
  /\ key' = [key EXCEPT ![j] = KeyOf(project[j], Resolve(project[j]))]
  /\ stable' = stable \cup {j}
  /\ Goto(j, "queued")
  /\ UNCHANGED <<index, live, owner, project, dir, target, deploy, bootVars>>

(* Cancelled while queued, or composeOpTimeout: the job fails. *)
GiveUp(j) ==
  /\ j \in Jobs /\ pc[j] = "queued"
  /\ Leave(j)
  /\ UNCHANGED <<index, live, owner, dir, bootVars>>

(* The lock, and runComposeOp or runUpdate resolves the project again.     *)
Begin(j) ==
  /\ j \in Jobs /\ pc[j] = "queued"
  /\ Resolve(project[j]) # None
  /\ Acquire(j)
  /\ dir' = [dir EXCEPT ![j] = Resolve(project[j])]
  /\ Goto(j, "working")
  /\ UNCHANGED <<index, live, project, key, target, deploy, bootVars, stable>>

(* The project is gone by then: the job fails and frees the lock at once.  *)
BeginNothing(j) ==
  /\ j \in Jobs /\ pc[j] = "queued"
  /\ owner[key[j]] = None
  /\ Resolve(project[j]) = None
  /\ Leave(j)
  /\ UNCHANGED <<index, live, owner, dir, bootVars>>

(* The operation ends: an up-like one leaves containers labelled with its  *)
(* directory, a down none, any other one or a failure what there was.      *)
(* Containers decide where an unregistered project is.                     *)
Finish(j) ==
  /\ pc[j] = "working"
  /\ LET p == project[j]
     IN \E l \in {dir[j], None, live[p]} :
          /\ live' = [live EXCEPT ![p] = l]
          /\ stable' = {i \in stable \ {j} :
                          ~(project[i] = p /\ index[p] = None /\ live[p] # l)}
  /\ dir' = [dir EXCEPT ![j] = None]
  /\ Release(j)
  /\ Goto(j, "ended")
  /\ project' = [project EXCEPT ![j] = None]
  /\ key' = [key EXCEPT ![j] = None]
  /\ UNCHANGED <<index, target, deploy, bootVars>>

JobStep(j) == \/ ChooseKey(j) \/ GiveUp(j)
              \/ Begin(j) \/ BeginNothing(j) \/ Finish(j)

-----------------------------------------------------------------------------
(* A register request, past its early refusals (a project that exists      *)
(* needs "replace"): of an existing directory, or of inline files, which   *)
(* always land in the project's own directory under ComposeRoot.           *)
ArriveRegister(r, p, d) ==
  /\ MayStart(r)
  /\ target' = [target EXCEPT ![r] = d]
  /\ deploy' \in {deploy, deploy \cup {r}}
  /\ project' = [project EXCEPT ![r] = p]
  /\ key' = [key EXCEPT ![r] = KeyOf(p, d)]
  /\ Goto(r, "queued")
  /\ UNCHANGED <<index, live, owner, dir, bootVars, stable>>

(* A copy request: the new name is free, the source is registered.  It     *)
(* reads the source under the source's lock.                               *)
ArriveCopy(r, p, s) ==
  /\ MayStart(r)
  /\ index[p] = None /\ index[s] # None
  /\ target' = [target EXCEPT ![r] = Homes[p]]
  /\ deploy' \in {deploy, deploy \cup {r}}
  /\ project' = [project EXCEPT ![r] = p]
  /\ key' = [key EXCEPT ![r] = KeyOf(s, index[s])]
  /\ Goto(r, "copying")
  /\ UNCHANGED <<index, live, owner, dir, bootVars, stable>>

LockSource(r) ==
  /\ pc[r] = "copying"
  /\ Acquire(r)
  /\ dir' = [dir EXCEPT ![r] = key[r]]
  /\ Goto(r, "reading")
  /\ UNCHANGED <<index, live, project, key, target, deploy, bootVars, stable>>

HoldSource(r) == owner                                  \* seeded fault
FreeSource(r) == [owner EXCEPT ![key[r]] = None]

(* readBundle, and the source's lock is released before anything else. *)
ReadSource(r) ==
  /\ pc[r] = "reading"
  /\ owner' = FreeSource(r)
  /\ dir' = [dir EXCEPT ![r] = None]
  /\ key' = [key EXCEPT ![r] = KeyOf(project[r], target[r])]
  /\ Goto(r, "queued")
  /\ UNCHANGED <<index, live, project, target, deploy, bootVars, stable>>

(* requestLockWait runs out or the caller goes away: 409 project_busy. *)
Busy(r) ==
  /\ r \in Reqs /\ pc[r] \in {"queued", "copying"}
  /\ Leave(r)
  /\ UNCHANGED <<index, live, owner, dir, bootVars>>

NeverInUse(d, p) == FALSE                               \* seeded fault
InUse(d, p) == Taken(d, p)

(* The decision under the lock: a directory another entry has is refused,  *)
(* otherwise the request goes on to write.                                 *)
Admit(r) ==
  /\ r \in Reqs /\ pc[r] = "queued"
  /\ ~InUse(target[r], project[r])
  /\ Acquire(r)
  /\ dir' = [dir EXCEPT ![r] = target[r]]
  /\ Goto(r, "writing")
  /\ UNCHANGED <<index, live, project, key, target, deploy, bootVars, stable>>

(* working_dir_in_use: the refusal frees the lock. *)
Refuse(r) ==
  /\ r \in Reqs /\ pc[r] = "queued"
  /\ owner[key[r]] = None
  /\ InUse(target[r], project[r])
  /\ Leave(r)
  /\ UNCHANGED <<index, live, owner, dir, bootVars>>

(* A refusal by the directory's owner mark, or a write that fails. *)
Fail(r) ==
  /\ r \in Reqs /\ pc[r] = "writing"
  /\ Release(r)
  /\ dir' = [dir EXCEPT ![r] = None]
  /\ Leave(r)
  /\ UNCHANGED <<index, live, bootVars>>

(* The files are written; register re-points the project and the lock is   *)
(* freed.  When projects.json cannot be written the index has changed all  *)
(* the same, and there is no deploy.                                       *)
Register(r) ==
  /\ pc[r] = "writing"
  /\ index' = [index EXCEPT ![project[r]] = target[r]]
  /\ adopted' = adopted \ {project[r]}
  /\ dir' = [dir EXCEPT ![r] = None]
  /\ Release(r)
  /\ stable' = Unmoved(index')
  /\ key' = [key EXCEPT ![r] = None]
  /\ target' = [target EXCEPT ![r] = None]
  /\ deploy' = deploy \ {r}
  /\ \/ /\ r \in deploy
        /\ Goto(r, "deploying")
        /\ UNCHANGED project
     \/ /\ Goto(r, "ended")
        /\ project' = [project EXCEPT ![r] = None]
  /\ UNCHANGED <<live, adopt, found>>

(* "the deploy job takes the lock itself, in turn" *)
Deploy(r, j) ==
  /\ pc[r] = "deploying"
  /\ MayStart(j)
  /\ pc' = [pc EXCEPT ![j] = "ready", ![r] = "ended"]
  /\ project' = [project EXCEPT ![j] = project[r], ![r] = None]
  /\ UNCHANGED <<index, live, owner, key, dir, target, deploy, bootVars, stable>>

RequestStep(r) == \/ LockSource(r) \/ ReadSource(r) \/ Busy(r)
                  \/ Admit(r) \/ Refuse(r) \/ Fail(r) \/ Register(r)

-----------------------------------------------------------------------------
(* deregister takes no lock. *)
Deregister(p) ==
  /\ index[p] # None
  /\ index' = [index EXCEPT ![p] = None]
  /\ adopted' = adopted \ {p}
  /\ stable' = Unmoved(index')
  /\ UNCHANGED <<live, owner, actorVars, adopt, found>>

-----------------------------------------------------------------------------
(* enrichProjectsOnce, beside the listener and without the lock: list the  *)
(* running projects, choose one for each directory that no other entry has *)
(* (none where the owner mark cannot be read), then insert those whose     *)
(* name is still not in the index.                                         *)
AdoptList ==
  /\ adopt = "before"
  /\ found' = live
  /\ adopt' = "listed"
  /\ UNCHANGED <<index, live, owner, actorVars, adopted, stable>>

AdoptChoose ==
  /\ adopt = "listed"
  /\ \E C \in SUBSET {p \in Projects : found[p] # None /\ ~Taken(found[p], p)} :
       /\ \A p, q \in C : found[p] = found[q] => p = q
       /\ found' = [p \in Projects |-> IF p \in C THEN found[p] ELSE None]
  /\ adopt' = "found"
  /\ UNCHANGED <<index, live, owner, actorVars, adopted, stable>>

AdoptInsert ==
  /\ adopt = "found"
  /\ LET new == {p \in Projects : found[p] # None /\ index[p] = None}
     IN /\ index' = [p \in Projects |-> IF p \in new THEN found[p] ELSE index[p]]
        /\ adopted' = adopted \cup new
  /\ stable' = Unmoved(index')
  /\ adopt' = "after"
  /\ found' = [p \in Projects |-> None]
  /\ UNCHANGED <<live, owner, actorVars>>

Next == \/ \E j \in Jobs, p \in Projects : StartOp(j, p)
        \/ \E j \in Jobs : JobStep(j)
        \/ \E r \in Reqs, p \in Projects, d \in Dirs : ArriveRegister(r, p, d)
        \/ \E r \in Reqs, p, s \in Projects : ArriveCopy(r, p, s)
        \/ \E r \in Reqs : RequestStep(r)
        \/ \E r \in Reqs, j \in Jobs : Deploy(r, j)
        \/ \E p \in Projects : Deregister(p)
        \/ AdoptList \/ AdoptChoose \/ AdoptInsert

Spec == Init /\ [][Next]_vars

-----------------------------------------------------------------------------
(* Every variable holds a value of its Go type. *)
TypeOK ==
  /\ index \in [Projects -> Dirs \cup {None}]
  /\ live \in [Projects -> Dirs \cup {None}]
  /\ owner \in [Keys -> Actors \cup {None}]
  /\ pc \in [Actors -> {"new", "ready", "copying", "reading", "queued", "working",
                        "writing", "deploying", "ended"}]
  /\ project \in [Actors -> Projects \cup {None}]
  /\ key \in [Actors -> Keys \cup {None}]
  /\ dir \in [Actors -> Dirs \cup {None}]
  /\ target \in [Reqs -> Dirs \cup {None}] /\ deploy \subseteq Reqs
  /\ adopt \in {"before", "listed", "found", "after"}
  /\ found \in [Projects -> Dirs \cup {None}]
  /\ adopted \subseteq Projects /\ stable \subseteq Jobs

(* One change per directory at a time: two actors are in one directory at  *)
(* once (changing it, or reading it for a copy) only when one of them is a *)
(* job whose project was re-pointed after it chose its lock.               *)
OneChangePerDirectory ==
  \A a, b \in Actors :
    /\ a # b /\ dir[a] # None /\ dir[a] = dir[b]
    => ~({a, b} \cap Jobs \subseteq stable)

(* No two entries of the index have one directory, so no change through    *)
(* one name bypasses a change through another, unless the boot's adoption, *)
(* which takes no lock, inserted one of them.                              *)
NoSharedDirectory ==
  \A p, q \in Projects :
    p # q /\ index[p] # None /\ index[p] = index[q] =>
      p \in adopted \/ q \in adopted

Lock == INSTANCE KeyedMutex WITH Procs <- Actors, NoOne <- None, owner <- owner

(* Jobs and requests use the lock as it is meant: nobody takes a second    *)
(* key while it has one, so no cycle of jobs and copies waits on each      *)
(* other's keys, and only the owner of a key frees it.                     *)
UsesTheMutex == Lock!Spec

=============================================================================
