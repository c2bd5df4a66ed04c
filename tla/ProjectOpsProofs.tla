-------------------------- MODULE ProjectOpsProofs --------------------------
(***************************************************************************)
(* The three properties of ProjectOps, for any projects, directories, jobs *)
(* and requests.  Who has a key is the actor between its acquire and its   *)
(* release (Locked); a request, and a job whose project stayed where it    *)
(* was, has the key of the directory it works in (Steered); and while a    *)
(* request writes, no entry but an adopted one has its directory (Apart).  *)
(***************************************************************************)
EXTENDS ProjectOps, TLAPS

JobStages == {"new", "ready", "queued", "working", "ended"}
ReqStages == {"new", "copying", "reading", "queued", "writing", "deploying", "ended"}

Typed ==
  /\ index \in [Projects -> Dirs \cup {None}]
  /\ live \in [Projects -> Dirs \cup {None}]
  /\ owner \in [Keys -> Actors \cup {None}]
  /\ pc \in [Actors -> JobStages \cup ReqStages]
  /\ project \in [Actors -> Projects \cup {None}]
  /\ key \in [Actors -> Keys \cup {None}]
  /\ dir \in [Actors -> Dirs \cup {None}]
  /\ target \in [Reqs -> Dirs \cup {None}] /\ deploy \subseteq Reqs
  /\ adopt \in {"before", "listed", "found", "after"}
  /\ found \in [Projects -> Dirs \cup {None}]
  /\ adopted \subseteq Projects /\ stable \subseteq Jobs

(* What an actor has at each of its steps. *)
Holds(a) == pc[a] \in {"reading", "working", "writing"}
Asks(a) == pc[a] \in {"queued", "copying"}
At(a) ==
  /\ a \in Jobs => pc[a] \in JobStages
  /\ a \in Reqs => pc[a] \in ReqStages
  /\ a \in stable => pc[a] \in {"queued", "working"}
  /\ dir[a] # None => Holds(a)
  /\ pc[a] \notin {"new", "ended"} => project[a] \in Projects
  /\ Holds(a) \/ Asks(a) => key[a] \in Keys

(* The key is that of the directory the actor works in, or will. *)
Steered(a) ==
  /\ a \in Reqs /\ Holds(a) => dir[a] = key[a]
  /\ a \in Reqs /\ (Holds(a) \/ Asks(a)) => target[a] \in Dirs /\ key[a] \in Dirs
  /\ a \in Reqs /\ pc[a] \in {"queued", "writing"} => key[a] = target[a]
  /\ a \in stable /\ pc[a] = "working" => dir[a] = key[a]
  /\ a \in stable /\ pc[a] = "queued" => key[a] = KeyOf(project[a], Resolve(project[a]))
Placed == \A a \in Actors : At(a) /\ Steered(a)

(* A key's owner is the actor that holds it. *)
Locked ==
  /\ \A k \in Keys : owner[k] # None => Holds(owner[k]) /\ key[owner[k]] = k
  /\ \A a \in Actors : Holds(a) => owner[key[a]] = a

(* While a request writes a directory only adopted entries share it. *)
Apart ==
  \A r \in Reqs : pc[r] = "writing" =>
    \A q \in Projects \ {project[r]} : index[q] = target[r] => q \in adopted

IInv == Typed /\ Placed /\ Locked /\ Apart /\ NoSharedDirectory

-----------------------------------------------------------------------------
(* No actor is both a job and a request, and none is the value for nobody. *)
LEMMA Sets ==
  /\ Jobs \cap Reqs = {} /\ Jobs \subseteq Actors /\ Reqs \subseteq Actors
  /\ None \notin Actors /\ None \notin Keys /\ None \notin Dirs /\ None \notin Projects
  /\ Dirs \subseteq Keys /\ Projects \subseteq Keys
  BY NoneAssumption, ActorsAssumption DEF Actors, Keys

(* A project resolves to a directory or to nothing; its key is a key.      *)
LEMMA KeyIsKey ==
  ASSUME Typed, NEW p \in Projects
  PROVE  Resolve(p) \in Dirs \cup {None} /\ KeyOf(p, Resolve(p)) \in Keys
  BY Sets DEF Typed, Resolve, KeyOf, Keys

LEMMA DirIsKey == \A p \in Projects, d \in Dirs : KeyOf(p, d) = d
  BY Sets DEF KeyOf

(* Initially nobody has a key and no two entries have one directory.       *)
LEMMA InitIInv == Init => IInv
<1> SUFFICES ASSUME Init PROVE IInv
  OBVIOUS
<1>1. Typed
  <2>1. /\ index \in [Projects -> Dirs \cup {None}] /\ live \in [Projects -> Dirs \cup {None}]
        /\ owner \in [Keys -> Actors \cup {None}] /\ found \in [Projects -> Dirs \cup {None}]
    BY DEF Init
  <2>2. /\ pc \in [Actors -> JobStages \cup ReqStages] /\ project \in [Actors -> Projects \cup {None}]
        /\ key \in [Actors -> Keys \cup {None}] /\ dir \in [Actors -> Dirs \cup {None}]
        /\ target \in [Reqs -> Dirs \cup {None}]
    BY DEF Init, JobStages
  <2> QED
    BY <2>1, <2>2 DEF Init, Typed
<1>2. Placed
  BY Sets DEF Init, Placed, At, Steered, Holds, Asks, JobStages, ReqStages
<1>3. Locked /\ Apart
  BY Sets DEF Init, Locked, Apart, Holds
<1>4. NoSharedDirectory
  BY DEF Init, NoSharedDirectory, Taken
<1> QED
  BY <1>1, <1>2, <1>3, <1>4 DEF IInv

-----------------------------------------------------------------------------
(* Frames: what a step does to the actors it is not about.                 *)
Same(b) == /\ pc'[b] = pc[b] /\ project'[b] = project[b]
           /\ key'[b] = key[b] /\ dir'[b] = dir[b]
           /\ b \in Reqs => target'[b] = target[b]
Idle(b) == ~Holds(b) /\ ~Holds(b)'

(* An actor that a step leaves alone stays where it was: its project may   *)
(* have moved, but then it is not stable any more.                         *)
LEMMA SameStays ==
  ASSUME IInv, NEW b \in Actors, Same(b), b \in stable' => b \in stable,
         b \in stable' /\ pc[b] = "queued" => Resolve(project[b])' = Resolve(project[b])
  PROVE  At(b)' /\ Steered(b)'
<1>1. At(b) /\ Steered(b)
  BY DEF IInv, Placed
<1>2. At(b)'
  BY <1>1 DEF At, Same, Holds, Asks
<1>3. b \in stable' /\ pc'[b] = "queued" => key'[b] = KeyOf(project[b], Resolve(project[b]))'
  BY <1>1 DEF Steered, Same, KeyOf
<1> QED
  BY <1>1, <1>2, <1>3 DEF Steered, Same, Holds, Asks

(* Nothing is acquired or released.                                        *)
LEMMA LockFrame ==
  ASSUME IInv, UNCHANGED owner, \A b \in Actors : Same(b) \/ Idle(b)
  PROVE  Locked'
<1>1. \A b \in Actors : /\ Holds(b) <=> Holds(b)'
                        /\ Holds(b) => key'[b] = key[b]
  BY DEF Same, Idle, Holds
<1> QED
  BY <1>1, Sets DEF IInv, Typed, Locked

(* A free key is acquired by an actor that has none.                       *)
LEMMA AcquireKeeps ==
  ASSUME IInv, NEW a \in Actors, Acquire(a), key[a] \in Keys, ~Holds(a), Holds(a)',
         UNCHANGED key, \A b \in Actors \ {a} : Same(b)
  PROVE  Locked' /\ owner' \in [Keys -> Actors \cup {None}]
<1>1. \A b \in Actors \ {a} : /\ Holds(b) <=> Holds(b)'
                              /\ key'[b] = key[b]
  BY DEF Same, Holds
<1>2. \A b \in Actors : Holds(b) => key[b] \in Keys
  BY DEF IInv, Placed, At
<1> QED
  BY <1>1, <1>2, Sets DEF IInv, Typed, Locked, Acquire

(* An owner frees its key.                                                 *)
LEMMA ReleaseKeeps ==
  ASSUME IInv, NEW a \in Actors, Release(a), Holds(a), ~Holds(a)',
         \A b \in Actors \ {a} : Same(b)
  PROVE  Locked' /\ owner' \in [Keys -> Actors \cup {None}]
<1>1. \A b \in Actors \ {a} : /\ Holds(b) <=> Holds(b)'
                              /\ key'[b] = key[b]
  BY DEF Same, Holds
<1>2. \A b \in Actors : Holds(b) => key[b] \in Keys
  BY DEF IInv, Placed, At
<1> QED
  BY <1>1, <1>2, Sets DEF IInv, Typed, Locked, Release

(* The index stays, and no request begins to write.                        *)
LEMMA IndexFrame ==
  ASSUME IInv, UNCHANGED <<index, adopted>>,
         \A r \in Reqs : Same(r) \/ pc'[r] # "writing"
  PROVE  Apart' /\ NoSharedDirectory'
<1>1. Apart'
  BY DEF IInv, Apart, Same
<1>2. NoSharedDirectory'
  BY DEF IInv, NoSharedDirectory
<1> QED
  BY <1>1, <1>2

(* An actor leaves without a key.                                          *)
LEMMA LeaveKeeps ==
  ASSUME IInv, NEW a \in Actors, Leave(a), ~Holds(a),
         UNCHANGED <<index, live, owner, dir, bootVars>>
  PROVE  IInv'
<1>1. Typed'
  BY Sets DEF IInv, Typed, Leave, bootVars, JobStages
<1>2. /\ pc'[a] = "ended" /\ a \notin stable'
      /\ \A b \in Actors \ {a} : Same(b) /\ (b \in stable' => b \in stable)
  BY DEF Leave, IInv, Typed, Same
<1>3. \A b \in Actors : Resolve(project[b])' = Resolve(project'[b])
  BY DEF Resolve
<1>4. At(a)' /\ Steered(a)'
  BY <1>2 DEF IInv, Placed, At, Steered, Holds, Asks, JobStages, ReqStages
<1>5. Placed'
  BY <1>2, <1>3, <1>4, SameStays DEF Placed, Same
<1>6. Locked'
  BY <1>2, LockFrame DEF Idle, Holds
<1>7. Apart' /\ NoSharedDirectory'
  BY <1>2, IndexFrame, Sets DEF bootVars
<1> QED
  BY <1>1, <1>5, <1>6, <1>7 DEF IInv

-----------------------------------------------------------------------------
(* The steps of a job.                                                     *)

(* A step that acquires and frees nothing and leaves the index alone keeps *)
(* the invariant if its actor is placed.                                   *)
LEMMA WaitKeeps ==
  ASSUME IInv, NEW a \in Actors, Typed', At(a)', Steered(a)', Idle(a),
         stable' \ {a} \subseteq stable, UNCHANGED <<index, live, owner, adopted>>,
         \A b \in Actors \ {a} : Same(b),
         pc'[a] # "writing"
  PROVE  IInv'
<1>1. \A b \in Actors : Resolve(project[b])' = Resolve(project'[b])
  BY DEF Resolve
<1>2. Placed'
  BY <1>1, SameStays DEF Placed, Same
<1>3. Locked'
  BY LockFrame
<1>4. Apart' /\ NoSharedDirectory'
  BY IndexFrame, Sets
<1> QED
  BY <1>2, <1>3, <1>4 DEF IInv

LEMMA StartOpKeeps ==
  ASSUME IInv, NEW j \in Jobs, NEW p \in Projects, StartOp(j, p)
  PROVE  IInv'
<1>1. Typed'
  BY Sets DEF IInv, Typed, StartOp, Goto, bootVars, JobStages
<1>2. /\ pc'[j] = "ready" /\ project'[j] = p /\ dir'[j] = dir[j] /\ Idle(j) /\ j \notin Reqs
      /\ \A b \in Actors \ {j} : Same(b)
  BY Sets DEF IInv, Typed, StartOp, MayStart, Goto, Same, Idle, Holds
<1>3. dir[j] = None /\ j \notin stable
  BY <1>2, Sets DEF IInv, Placed, At, StartOp, MayStart, Holds
<1>4. At(j)' /\ Steered(j)'
  BY <1>2, <1>3 DEF StartOp, At, Steered, Holds, Asks, JobStages
<1> QED
  BY <1>1, <1>2, <1>4, WaitKeeps, Sets DEF StartOp, bootVars

LEMMA ChooseKeyKeeps ==
  ASSUME IInv, NEW j \in Jobs, ChooseKey(j)
  PROVE  IInv'
<1>1. project[j] \in Projects /\ dir[j] = None /\ j \in Actors
  BY Sets DEF IInv, Placed, At, ChooseKey, Holds
<1>2. KeyOf(project[j], Resolve(project[j])) \in Keys
  BY <1>1, KeyIsKey DEF IInv
<1>3. Typed'
  BY <1>2, Sets DEF IInv, Typed, ChooseKey, Goto, bootVars, JobStages
<1>4. /\ pc'[j] = "queued" /\ project'[j] = project[j] /\ dir'[j] = dir[j] /\ Idle(j) /\ j \notin Reqs
      /\ key'[j] = KeyOf(project[j], Resolve(project[j]))
      /\ \A b \in Actors \ {j} : Same(b)
  BY Sets DEF IInv, Typed, ChooseKey, Goto, Same, Idle, Holds
<1>5. key'[j] = KeyOf(project[j], Resolve(project[j]))'
  BY <1>4 DEF ChooseKey, KeyOf, Resolve
<1>6. At(j)' /\ Steered(j)'
  BY <1>1, <1>2, <1>4, <1>5 DEF At, Steered, Holds, Asks, JobStages
<1> QED
  BY <1>3, <1>4, <1>6, WaitKeeps, Sets DEF ChooseKey, bootVars

LEMMA BeginKeeps ==
  ASSUME IInv, NEW j \in Jobs, Begin(j)
  PROVE  IInv'
<1>1. /\ project[j] \in Projects /\ dir[j] = None /\ key[j] \in Keys /\ ~Holds(j)
      /\ At(j) /\ Steered(j) /\ j \in Actors
  BY Sets DEF IInv, Placed, At, Begin, Holds, Asks
<1>2. Resolve(project[j]) \in Dirs
  BY <1>1, KeyIsKey DEF IInv, Begin
<1>3. /\ pc'[j] = "working" /\ dir'[j] = Resolve(project[j]) /\ Holds(j)' /\ j \notin Reqs
      /\ UNCHANGED <<key, project, stable, index, live>>
      /\ \A b \in Actors \ {j} : Same(b)
  BY Sets DEF IInv, Typed, Begin, Goto, Same, Holds
<1>4. Locked' /\ owner' \in [Keys -> Actors \cup {None}]
  BY <1>1, <1>3, AcquireKeeps DEF Begin
<1>5. Typed'
  BY <1>2, <1>4, Sets DEF IInv, Typed, Begin, Goto, bootVars, JobStages
<1>6. At(j)' /\ Steered(j)'
  BY <1>1, <1>2, <1>3, Sets DEF At, Steered, Begin, KeyOf, Holds, Asks, JobStages
<1>7. \A b \in Actors : Resolve(project[b])' = Resolve(project[b])
  BY <1>3 DEF Resolve
<1>8. Placed'
  BY <1>3, <1>6, <1>7, SameStays DEF Placed
<1>9. Apart' /\ NoSharedDirectory'
  BY <1>3, IndexFrame, Sets DEF Begin, bootVars
<1> QED
  BY <1>4, <1>5, <1>8, <1>9 DEF IInv

LEMMA FinishKeeps ==
  ASSUME IInv, NEW j \in Jobs, Finish(j)
  PROVE  IInv'
<1>1. /\ project[j] \in Projects /\ Holds(j) /\ key[j] \in Keys /\ dir[j] \in Dirs \cup {None}
      /\ j \in Actors
  BY Sets DEF IInv, Typed, Placed, At, Finish, Holds
<1>2. /\ pc'[j] = "ended" /\ dir'[j] = None /\ ~Holds(j)' /\ j \notin Reqs
      /\ UNCHANGED <<index, target, deploy, bootVars>>
      /\ \A b \in Actors \ {j} : Same(b)
  BY Sets DEF IInv, Typed, Finish, Goto, Same, Holds
<1>3. Locked' /\ owner' \in [Keys -> Actors \cup {None}]
  BY <1>1, <1>2, ReleaseKeeps DEF Finish
<1>4. PICK l \in {dir[j], None, live[project[j]]} :
        /\ live' = [live EXCEPT ![project[j]] = l]
        /\ stable' = {i \in stable \ {j} :
                        ~(project[i] = project[j] /\ index[project[j]] = None /\ live[project[j]] # l)}
  BY DEF Finish
<1>5. stable' \subseteq stable /\ j \notin stable'
  BY <1>4
<1>6. l \in Dirs \cup {None}
  BY <1>1 DEF IInv, Typed
<1>7. Typed'
  <2>1. live' \in [Projects -> Dirs \cup {None}] /\ stable' \subseteq Jobs
    BY <1>4, <1>5, <1>6 DEF IInv, Typed
  <2> QED
    BY <1>2, <1>3, <2>1, Sets DEF IInv, Typed, Finish, Goto, bootVars, JobStages
<1>8. \A b \in Actors \ {j} : b \in stable' /\ pc[b] = "queued" =>
                                Resolve(project[b])' = Resolve(project[b])
  <2> SUFFICES ASSUME NEW b \in Actors \ {j}, b \in stable', pc[b] = "queued"
               PROVE  Resolve(project[b])' = Resolve(project[b])
    OBVIOUS
  <2>1. project'[b] = project[b] /\ project[b] \in Projects
    BY <1>2, Sets DEF Same, IInv, Placed, At
  <2>2. index[project[b]] # None \/ live'[project[b]] = live[project[b]]
    BY <1>4, <2>1 DEF IInv, Typed
  <2> QED
    BY <1>2, <2>1, <2>2 DEF Resolve
<1>9. At(j)' /\ Steered(j)'
  BY <1>2, <1>5 DEF At, Steered, Holds, Asks, JobStages
<1>10. Placed'
  BY <1>2, <1>5, <1>8, <1>9, SameStays DEF Placed
<1>11. Apart' /\ NoSharedDirectory'
  BY <1>2, IndexFrame, Sets DEF bootVars
<1> QED
  BY <1>3, <1>7, <1>10, <1>11 DEF IInv

(* A job fails before it has the lock, or finds its project gone.          *)
LEMMA JobStepKeeps ==
  ASSUME IInv, NEW j \in Jobs, JobStep(j)
  PROVE  IInv'
<1>1. CASE GiveUp(j) \/ BeginNothing(j)
  BY <1>1, LeaveKeeps, Sets DEF GiveUp, BeginNothing, Holds
<1> QED
  BY <1>1, ChooseKeyKeeps, BeginKeeps, FinishKeeps DEF JobStep

-----------------------------------------------------------------------------
(* The steps of a request.                                                 *)

LEMMA ArriveKeeps ==
  ASSUME IInv, NEW r \in Reqs, NEW p \in Projects, NEW d \in Dirs, NEW k \in Dirs,
         NEW label \in {"queued", "copying"}, label = "queued" => k = d,
         pc[r] = "new", Goto(r, label),
         target' = [target EXCEPT ![r] = d], deploy' \in {deploy, deploy \cup {r}},
         project' = [project EXCEPT ![r] = p], key' = [key EXCEPT ![r] = k],
         UNCHANGED <<index, live, owner, dir, bootVars, stable>>
  PROVE  IInv'
<1>1. Typed'
  BY Sets DEF IInv, Typed, Goto, bootVars, ReqStages
<1>2. /\ pc'[r] = label /\ project'[r] = p /\ dir'[r] = dir[r] /\ key'[r] = k /\ target'[r] = d
      /\ Idle(r) /\ r \notin Jobs
      /\ \A b \in Actors \ {r} : Same(b)
  BY Sets DEF IInv, Typed, Goto, Same, Idle, Holds
<1>3. dir[r] = None /\ r \notin stable
  BY <1>2, Sets DEF IInv, Typed, Placed, At, Holds
<1>4. At(r)' /\ Steered(r)'
  BY <1>2, <1>3, Sets DEF At, Steered, Holds, Asks, ReqStages
<1> QED
  BY <1>1, <1>2, <1>4, WaitKeeps, Sets DEF bootVars

LEMMA ArriveRegisterKeeps ==
  ASSUME IInv, NEW r \in Reqs, NEW p \in Projects, NEW d \in Dirs, ArriveRegister(r, p, d)
  PROVE  IInv'
  BY ArriveKeeps, DirIsKey DEF ArriveRegister, MayStart

LEMMA ArriveCopyKeeps ==
  ASSUME IInv, NEW r \in Reqs, NEW p \in Projects, NEW s \in Projects, ArriveCopy(r, p, s)
  PROVE  IInv'
<1>1. index[s] \in Dirs /\ Homes[p] \in Dirs
  BY HomesAssumption DEF IInv, Typed, ArriveCopy
<1> QED
  BY <1>1, ArriveKeeps, DirIsKey DEF ArriveCopy, MayStart

LEMMA LockSourceKeeps ==
  ASSUME IInv, NEW r \in Reqs, LockSource(r)
  PROVE  IInv'
<1>1. /\ project[r] \in Projects /\ dir[r] = None /\ key[r] \in Dirs /\ ~Holds(r)
      /\ target[r] \in Dirs /\ r \in Actors /\ r \notin Jobs /\ r \notin stable
  BY Sets DEF IInv, Typed, Placed, At, Steered, LockSource, Holds, Asks
<1>2. /\ pc'[r] = "reading" /\ dir'[r] = key[r] /\ Holds(r)'
      /\ UNCHANGED <<key, project, target, stable, index, live>>
      /\ \A b \in Actors \ {r} : Same(b)
  BY Sets DEF IInv, Typed, LockSource, Goto, Same, Holds
<1>3. Locked' /\ owner' \in [Keys -> Actors \cup {None}]
  BY <1>1, <1>2, AcquireKeeps, Sets DEF LockSource
<1>4. Typed'
  BY <1>1, <1>3, Sets DEF IInv, Typed, LockSource, Goto, bootVars, ReqStages
<1>5. At(r)' /\ Steered(r)'
  BY <1>1, <1>2, Sets DEF At, Steered, Holds, Asks, ReqStages
<1>6. \A b \in Actors : Resolve(project[b])' = Resolve(project[b])
  BY <1>2 DEF Resolve
<1>7. Placed'
  BY <1>2, <1>5, <1>6, SameStays DEF Placed
<1>8. Apart' /\ NoSharedDirectory'
  BY <1>2, IndexFrame, Sets DEF LockSource, bootVars
<1> QED
  BY <1>3, <1>4, <1>7, <1>8 DEF IInv

LEMMA ReadSourceKeeps ==
  ASSUME IInv, NEW r \in Reqs, ReadSource(r)
  PROVE  IInv'
<1>1. /\ project[r] \in Projects /\ key[r] \in Dirs /\ Holds(r)
      /\ target[r] \in Dirs /\ r \in Actors /\ r \notin Jobs /\ r \notin stable
  BY Sets DEF IInv, Typed, Placed, At, Steered, ReadSource, Holds, Asks
<1>2. /\ pc'[r] = "queued" /\ dir'[r] = None /\ key'[r] = target[r] /\ ~Holds(r)'
      /\ UNCHANGED <<project, target, stable, index, live>>
      /\ \A b \in Actors \ {r} : Same(b)
  BY <1>1, Sets, DirIsKey DEF IInv, Typed, ReadSource, Goto, Same, Holds
<1>3. Locked' /\ owner' \in [Keys -> Actors \cup {None}]
  BY <1>1, <1>2, ReleaseKeeps DEF ReadSource, FreeSource, Release
<1>4. Typed'
  BY <1>1, <1>3, Sets, DirIsKey DEF IInv, Typed, ReadSource, Goto, bootVars, ReqStages
<1>5. At(r)' /\ Steered(r)'
  BY <1>1, <1>2, Sets DEF At, Steered, Holds, Asks, ReqStages
<1>6. \A b \in Actors : Resolve(project[b])' = Resolve(project[b])
  BY <1>2 DEF Resolve
<1>7. Placed'
  BY <1>2, <1>5, <1>6, SameStays DEF Placed
<1>8. Apart' /\ NoSharedDirectory'
  BY <1>2, IndexFrame, Sets DEF ReadSource, bootVars
<1> QED
  BY <1>3, <1>4, <1>7, <1>8 DEF IInv

(* A request that begins to write shares its directory with nobody yet.    *)
LEMMA AdmitKeeps ==
  ASSUME IInv, NEW r \in Reqs, Admit(r)
  PROVE  IInv'
<1>1. /\ project[r] \in Projects /\ dir[r] = None /\ key[r] \in Dirs /\ ~Holds(r)
      /\ target[r] = key[r] /\ r \in Actors /\ r \notin Jobs /\ r \notin stable
  BY Sets DEF IInv, Typed, Placed, At, Steered, Admit, Holds, Asks
<1>2. /\ pc'[r] = "writing" /\ dir'[r] = target[r] /\ Holds(r)'
      /\ UNCHANGED <<key, project, target, stable, index, live, adopted>>
      /\ \A b \in Actors \ {r} : Same(b)
  BY Sets DEF IInv, Typed, Admit, Goto, Same, Holds, bootVars
<1>3. Locked' /\ owner' \in [Keys -> Actors \cup {None}]
  BY <1>1, <1>2, AcquireKeeps, Sets DEF Admit
<1>4. Typed'
  BY <1>1, <1>3, Sets DEF IInv, Typed, Admit, Goto, bootVars, ReqStages
<1>5. At(r)' /\ Steered(r)'
  BY <1>1, <1>2, Sets DEF At, Steered, Holds, Asks, ReqStages
<1>6. \A b \in Actors : Resolve(project[b])' = Resolve(project[b])
  BY <1>2 DEF Resolve
<1>7. Placed'
  BY <1>2, <1>5, <1>6, SameStays DEF Placed
<1>8. \A q \in Projects \ {project[r]} : index[q] # target[r]
  BY DEF Admit, InUse, Taken
<1>9. Apart'
  BY <1>2, <1>8, Sets DEF IInv, Apart, Same
<1>10. NoSharedDirectory'
  BY <1>2 DEF IInv, NoSharedDirectory
<1> QED
  BY <1>3, <1>4, <1>7, <1>9, <1>10 DEF IInv

LEMMA FailKeeps ==
  ASSUME IInv, NEW r \in Reqs, Fail(r)
  PROVE  IInv'
<1>1. Holds(r) /\ r \in Actors /\ r \notin Jobs
  BY Sets DEF Fail, Holds
<1>2. /\ pc'[r] = "ended" /\ dir'[r] = None /\ ~Holds(r)' /\ r \notin stable'
      /\ UNCHANGED <<index, live, adopted>> /\ stable' \subseteq stable
      /\ \A b \in Actors \ {r} : Same(b)
  BY Sets DEF IInv, Typed, Fail, Leave, Same, Holds, bootVars
<1>3. Locked' /\ owner' \in [Keys -> Actors \cup {None}]
  BY <1>1, <1>2, ReleaseKeeps DEF Fail
<1>4. Typed'
  BY <1>3, Sets DEF IInv, Typed, Fail, Leave, bootVars, ReqStages
<1>5. At(r)' /\ Steered(r)'
  BY <1>1, <1>2 DEF At, Steered, Holds, Asks, ReqStages
<1>6. \A b \in Actors : Resolve(project[b])' = Resolve(project'[b])
  BY <1>2 DEF Resolve
<1>7. Placed'
  BY <1>2, <1>5, <1>6, SameStays DEF Placed, Same
<1>8. Apart' /\ NoSharedDirectory'
  BY <1>2, IndexFrame, Sets
<1> QED
  BY <1>3, <1>4, <1>7, <1>8 DEF IInv

(* A change of the index moves no stable job's project.                    *)
LEMMA UnmovedStay ==
  ASSUME IInv, UNCHANGED live, stable' = Unmoved(index')
  PROVE  /\ stable' \subseteq stable
         /\ \A b \in Actors : b \in stable' /\ Same(b) =>
                                Resolve(project[b])' = Resolve(project[b])
<1>1. stable' \subseteq stable
  BY DEF Unmoved
<1>2. ASSUME NEW b \in Actors, b \in stable', Same(b)
      PROVE  Resolve(project[b])' = Resolve(project[b])
  <2>1. project[b] \in Projects
    BY <1>1, <1>2 DEF IInv, Placed, At
  <2>2. Resolve(project[b]) = IF index'[project[b]] # None THEN index'[project[b]]
                              ELSE live[project[b]]
    BY <1>2, <2>1 DEF Unmoved, Repointed
  <2> QED
    BY <1>2, <2>2 DEF Resolve, Same
<1> QED
  BY <1>1, <1>2

(* Two requests that write are in two directories.                         *)
LEMMA WritersApart ==
  ASSUME IInv, NEW r \in Reqs, NEW s \in Reqs, pc[r] = "writing", pc[s] = "writing",
         target[r] = target[s]
  PROVE  r = s
  BY Sets DEF IInv, Placed, Steered, Locked, Holds

(* The entry a request writes is shared by adopted entries only.           *)
LEMMA RegisterKeeps ==
  ASSUME IInv, NEW r \in Reqs, Register(r)
  PROVE  IInv'
<1>1. /\ project[r] \in Projects /\ key[r] \in Dirs /\ Holds(r) /\ target[r] \in Dirs
      /\ r \in Actors /\ r \notin Jobs
  BY Sets DEF IInv, Placed, At, Steered, Register, Holds
<1>2. /\ pc'[r] \in {"deploying", "ended"} /\ dir'[r] = None /\ ~Holds(r)' /\ ~Asks(r)'
      /\ pc'[r] = "deploying" => project'[r] = project[r]
      /\ index' = [index EXCEPT ![project[r]] = target[r]]
      /\ adopted' = adopted \ {project[r]} /\ UNCHANGED live
      /\ \A b \in Actors \ {r} : Same(b)
  BY <1>1, Sets DEF IInv, Typed, Register, Goto, Same, Holds, Asks
<1>3. /\ stable' \subseteq stable
      /\ \A b \in Actors : b \in stable' /\ Same(b) =>
                             Resolve(project[b])' = Resolve(project[b])
  BY UnmovedStay DEF Register
<1>4. Locked' /\ owner' \in [Keys -> Actors \cup {None}]
  BY <1>1, <1>2, ReleaseKeeps DEF Register
<1>5. Typed'
  <2>1. /\ index' \in [Projects -> Dirs \cup {None}] /\ adopted' \subseteq Projects
        /\ stable' \subseteq Jobs
    BY <1>1, <1>2, <1>3 DEF IInv, Typed
  <2>2. /\ pc' \in [Actors -> JobStages \cup ReqStages]
        /\ project' \in [Actors -> Projects \cup {None}]
    BY DEF IInv, Typed, Register, Goto, ReqStages
  <2>3. /\ key' \in [Actors -> Keys \cup {None}] /\ dir' \in [Actors -> Dirs \cup {None}]
        /\ target' \in [Reqs -> Dirs \cup {None}] /\ deploy' \subseteq Reqs
        /\ UNCHANGED <<live, adopt, found>>
    BY DEF IInv, Typed, Register
  <2> QED
    BY <1>4, <2>1, <2>2, <2>3 DEF IInv, Typed
<1>6. At(r)' /\ Steered(r)'
  BY <1>1, <1>2, <1>3 DEF At, Steered, Holds, Asks, ReqStages, IInv, Typed
<1>7. Placed'
  BY <1>2, <1>3, <1>6, SameStays DEF Placed
<1>8. Apart'
  <2> SUFFICES ASSUME NEW s \in Reqs, pc'[s] = "writing",
                      NEW q \in Projects \ {project'[s]}, index'[q] = target'[s]
               PROVE  q \in adopted'
    BY DEF Apart
  <2>1. s # r /\ pc[s] = "writing" /\ target'[s] = target[s] /\ project'[s] = project[s]
    BY <1>2, Sets DEF Same
  <2>2. target[s] # target[r]
    BY <2>1, WritersApart DEF Register
  <2>3. q # project[r] /\ index[q] = target[s]
    BY <1>1, <1>2, <2>1, <2>2 DEF IInv, Typed
  <2> QED
    BY <1>2, <2>1, <2>3 DEF IInv, Apart
<1>9. NoSharedDirectory'
  <2>1. \A q \in Projects \ {project[r]} : index[q] = target[r] => q \in adopted
    BY DEF IInv, Apart, Register
  <2>2. /\ index'[project[r]] = target[r]
        /\ \A q \in Projects \ {project[r]} : index'[q] = index[q]
    BY <1>1, <1>2 DEF IInv, Typed
  <2> QED
    BY <1>2, <2>1, <2>2 DEF IInv, NoSharedDirectory
<1> QED
  BY <1>4, <1>5, <1>7, <1>8, <1>9 DEF IInv

LEMMA RequestStepKeeps ==
  ASSUME IInv, NEW r \in Reqs, RequestStep(r)
  PROVE  IInv'
<1>1. CASE Busy(r) \/ Refuse(r)
  BY <1>1, LeaveKeeps, Sets DEF Busy, Refuse, Holds
<1> QED
  BY <1>1, LockSourceKeeps, ReadSourceKeeps, AdmitKeeps, FailKeeps, RegisterKeeps
     DEF RequestStep

(* A request hands its project to the job it starts.                       *)
LEMMA DeployKeeps ==
  ASSUME IInv, NEW r \in Reqs, NEW j \in Jobs, Deploy(r, j)
  PROVE  IInv'
<1>1. project[r] \in Projects /\ r \in Actors /\ j \in Actors /\ r # j /\ r \notin Jobs
  BY Sets DEF IInv, Placed, At, Deploy
<1>2. Typed'
  BY <1>1 DEF IInv, Typed, Deploy, bootVars, JobStages
<1>3. /\ pc'[j] = "ready" /\ project'[j] = project[r] /\ Idle(j) /\ j \notin Reqs
      /\ pc'[r] = "ended" /\ Idle(r)
      /\ UNCHANGED <<dir, stable, live, owner, index, adopted>>
      /\ \A b \in Actors \ {r, j} : Same(b)
  BY <1>1, Sets DEF IInv, Typed, Deploy, MayStart, Same, Idle, Holds, bootVars
<1>4. dir[j] = None /\ j \notin stable /\ dir[r] = None /\ r \notin stable
  BY <1>1, <1>3, Sets DEF IInv, Typed, Placed, At, Deploy, MayStart, Idle
<1>5. At(j)' /\ Steered(j)'
  BY <1>1, <1>3, <1>4 DEF At, Steered, Holds, Asks, JobStages
<1>6. At(r)' /\ Steered(r)'
  BY <1>1, <1>3, <1>4 DEF At, Steered, Holds, Asks, ReqStages
<1>7. \A b \in Actors : Resolve(project[b])' = Resolve(project'[b])
  BY <1>3 DEF Resolve
<1>8. Placed'
  BY <1>3, <1>5, <1>6, <1>7, SameStays DEF Placed, Same
<1>9. Locked'
  BY <1>3, LockFrame
<1>10. Apart' /\ NoSharedDirectory'
  BY <1>1, <1>3, IndexFrame, Sets
<1> QED
  BY <1>2, <1>8, <1>9, <1>10 DEF IInv

-----------------------------------------------------------------------------
(* The steps that take no lock.                                            *)

(* Nobody moves, and the jobs whose project is re-pointed are stable no    *)
(* more.                                                                   *)
LEMMA BystandersKeep ==
  ASSUME IInv, UNCHANGED <<live, owner, actorVars>>,
         UNCHANGED <<index, stable>> \/ stable' = Unmoved(index')
  PROVE  Placed' /\ Locked' /\ \A b \in Actors : Same(b)
<1>1. \A b \in Actors : Same(b)
  BY DEF actorVars, Same
<1>2. stable' \subseteq stable
  BY DEF Unmoved
<1>3. \A b \in Actors : b \in stable' => Resolve(project[b])' = Resolve(project[b])
  <2>1. CASE stable' = Unmoved(index')
    BY <1>1, <2>1, UnmovedStay
  <2>2. CASE UNCHANGED <<index, stable>>
    BY <2>2 DEF Resolve, actorVars
  <2> QED
    BY <2>1, <2>2
<1> QED
  BY <1>1, <1>2, <1>3, SameStays, LockFrame DEF Placed

LEMMA DeregisterKeeps ==
  ASSUME IInv, NEW p \in Projects, Deregister(p)
  PROVE  IInv'
<1>1. stable' \subseteq stable
  BY DEF Deregister, Unmoved
<1>2. Typed'
  BY <1>1 DEF IInv, Typed, Deregister, actorVars
<1>3. Placed' /\ Locked' /\ \A b \in Actors : Same(b)
  BY BystandersKeep DEF Deregister
<1>4. /\ index'[p] = None /\ p \notin adopted'
      /\ \A q \in Projects \ {p} : index'[q] = index[q] /\ (q \in adopted' <=> q \in adopted)
  BY DEF IInv, Typed, Deregister
<1>5. Apart'
  <2> SUFFICES ASSUME NEW s \in Reqs, pc'[s] = "writing",
                      NEW q \in Projects \ {project'[s]}, index'[q] = target'[s]
               PROVE  q \in adopted'
    BY DEF Apart
  <2>1. pc[s] = "writing" /\ target'[s] = target[s] /\ project'[s] = project[s]
    BY DEF Deregister, actorVars
  <2>2. target[s] # None
    BY <2>1, Sets DEF IInv, Placed, Steered, Holds
  <2> QED
    BY <1>4, <2>1, <2>2 DEF IInv, Apart
<1>6. NoSharedDirectory'
  BY <1>4 DEF IInv, NoSharedDirectory
<1> QED
  BY <1>2, <1>3, <1>5, <1>6 DEF IInv

LEMMA AdoptKeeps ==
  ASSUME IInv, AdoptList \/ AdoptChoose \/ AdoptInsert
  PROVE  IInv'
<1>1. Placed' /\ Locked' /\ \A b \in Actors : Same(b)
  BY BystandersKeep DEF AdoptList, AdoptChoose, AdoptInsert
<1>2. CASE AdoptList \/ AdoptChoose
  <2>1. Typed'
    BY <1>2 DEF IInv, Typed, AdoptList, AdoptChoose, actorVars
  <2>2. Apart' /\ NoSharedDirectory'
    BY <1>1, <1>2, IndexFrame, Sets DEF AdoptList, AdoptChoose
  <2> QED
    BY <1>1, <2>1, <2>2 DEF IInv
<1>3. CASE AdoptInsert
  <2>1. PICK new \in SUBSET Projects :
          /\ index' = [p \in Projects |-> IF p \in new THEN found[p] ELSE index[p]]
          /\ adopted' = adopted \cup new
    BY <1>3 DEF AdoptInsert
  <2>2. stable' \subseteq stable
    BY <1>3 DEF AdoptInsert, Unmoved
  <2>3. Typed'
    BY <1>3, <2>1, <2>2 DEF IInv, Typed, AdoptInsert, actorVars
  <2>4. Apart'
    BY <1>3, <2>1 DEF IInv, Apart, AdoptInsert, actorVars
  <2>5. NoSharedDirectory'
    BY <2>1 DEF IInv, NoSharedDirectory
  <2> QED
    BY <1>1, <2>3, <2>4, <2>5 DEF IInv
<1> QED
  BY <1>2, <1>3

(* A stuttering step.                                                      *)
LEMMA StutterKeeps ==
  ASSUME IInv, UNCHANGED vars
  PROVE  IInv'
<1>1. UNCHANGED <<index, live, owner, pc, project, key, dir, target, deploy, adopt, found,
                  adopted, stable>>
  BY DEF vars, actorVars, bootVars
<1>2. \A a \in Actors : At(a)' /\ Steered(a)'
  BY <1>1 DEF IInv, Placed, At, Steered, Holds, Asks, Resolve, KeyOf
<1> QED
  BY <1>1, <1>2 DEF IInv, Typed, Placed, Locked, Apart, NoSharedDirectory, Holds

LEMMA NextIInv == IInv /\ [Next]_vars => IInv'
  BY StutterKeeps, StartOpKeeps, JobStepKeeps, ArriveRegisterKeeps, ArriveCopyKeeps,
     RequestStepKeeps, DeployKeeps, DeregisterKeeps, AdoptKeeps DEF Next

(* The invariant of the projects and their lock: keys, places and entries. *)
THEOREM SpecIInv == Spec => []IInv
  BY InitIInv, NextIInv, PTL DEF Spec

(* No two entries have one directory, but for those the boot adopted.      *)
THEOREM DirectoriesApart == Spec => []NoSharedDirectory
<1>1. IInv => NoSharedDirectory
  BY DEF IInv
<1> QED
  BY <1>1, SpecIInv, PTL

(* One change per directory, but for jobs whose project was re-pointed.    *)
THEOREM OneChangeHolds == Spec => []OneChangePerDirectory
<1>1. ASSUME IInv PROVE OneChangePerDirectory
  <2> SUFFICES ASSUME NEW a \in Actors, NEW b \in Actors, a # b,
                      dir[a] # None, dir[a] = dir[b], {a, b} \cap Jobs \subseteq stable
               PROVE  FALSE
    BY DEF OneChangePerDirectory
  <2>1. Holds(a) /\ Holds(b)
    BY <1>1 DEF IInv, Placed, At
  <2>2. dir[a] = key[a]
    <3>1. CASE a \in Reqs
      BY <1>1, <2>1, <3>1 DEF IInv, Placed, Steered
    <3>2. CASE a \in Jobs
      BY <1>1, <2>1, <3>2 DEF IInv, Placed, At, Steered, Holds, JobStages
    <3> QED
      BY <3>1, <3>2 DEF Actors
  <2>3. dir[b] = key[b]
    <3>1. CASE b \in Reqs
      BY <1>1, <2>1, <3>1 DEF IInv, Placed, Steered
    <3>2. CASE b \in Jobs
      BY <1>1, <2>1, <3>2 DEF IInv, Placed, At, Steered, Holds, JobStages
    <3> QED
      BY <3>1, <3>2 DEF Actors
  <2> QED
    BY <1>1, <2>1, <2>2, <2>3 DEF IInv, Locked
<1> QED
  BY <1>1, SpecIInv, PTL

(* Every step of a job or a request takes one key it may take, frees the   *)
(* one it has, or leaves the lock alone.                                   *)
THEOREM MutexIsUsed == Spec => UsesTheMutex
<1>1. Init => Lock!Init
  BY DEF Init, Lock!Init
<1>2. ASSUME IInv, NEW a \in Actors, key[a] \in Keys, ~Holds(a), Acquire(a)
      PROVE  Lock!Next
  <2>1. \A x \in Keys : owner[x] # a
    BY <1>2, Sets DEF IInv, Locked
  <2> QED
    BY <1>2, <2>1 DEF Acquire, Lock!Next, Lock!Acquire
<1>3. ASSUME IInv, NEW a \in Actors, Holds(a), Release(a)
      PROVE  Lock!Next
  <2>1. key[a] \in Keys /\ owner[key[a]] = a
    BY <1>3 DEF IInv, Placed, At, Locked
  <2> QED
    BY <1>3, <2>1 DEF Release, Lock!Next, Lock!Release
<1>4. ASSUME IInv, NEW a \in Actors,
             Begin(a) \/ Finish(a) \/ LockSource(a) \/ ReadSource(a) \/ Admit(a) \/ Fail(a) \/ Register(a)
      PROVE  Lock!Next
  <2>1. CASE Begin(a) \/ LockSource(a) \/ Admit(a)
    <3>1. key[a] \in Keys /\ ~Holds(a) /\ Acquire(a)
      BY <1>4, <2>1 DEF IInv, Placed, At, Asks, Holds, Begin, LockSource, Admit
    <3> QED
      BY <1>2, <1>4, <3>1
  <2>2. CASE Finish(a) \/ ReadSource(a) \/ Fail(a) \/ Register(a)
    <3>1. Holds(a) /\ Release(a)
      BY <2>2 DEF Holds, Finish, ReadSource, FreeSource, Fail, Register, Release
    <3> QED
      BY <1>3, <1>4, <3>1
  <2> QED
    BY <1>4, <2>1, <2>2
<1>5. ASSUME IInv, Next PROVE Lock!Next \/ UNCHANGED owner
  <2>1. ASSUME NEW j \in Jobs, JobStep(j) PROVE Lock!Next \/ UNCHANGED owner
    BY <1>4, <1>5, <2>1, Sets DEF JobStep, ChooseKey, GiveUp, BeginNothing
  <2>2. ASSUME NEW r \in Reqs, RequestStep(r) PROVE Lock!Next \/ UNCHANGED owner
    BY <1>4, <1>5, <2>2, Sets DEF RequestStep, Busy, Refuse
  <2> QED
    BY <1>5, <2>1, <2>2 DEF Next, StartOp, ArriveRegister, ArriveCopy, Deploy, Deregister,
       AdoptList, AdoptChoose, AdoptInsert
<1>6. IInv /\ [Next]_vars => [Lock!Next]_owner
  BY <1>5 DEF vars
<1> QED
  BY <1>1, <1>6, SpecIInv, PTL DEF Spec, UsesTheMutex, Lock!Spec

(* Every variable holds a value of its Go type.                            *)
THEOREM TypesHold == Spec => []TypeOK
<1>1. Typed => TypeOK
  BY DEF Typed, TypeOK, JobStages, ReqStages
<1> QED
  BY <1>1, SpecIInv, PTL DEF IInv

=============================================================================
