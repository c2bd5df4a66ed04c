---------------------------- MODULE OwnerRegistry ----------------------------
(***************************************************************************)
(* Who renders the files of a stack: the owner marks in the directories    *)
(* (ownermark.go), the index of projects and its file projects.json        *)
(* (projects.go), and the register, copy and deregister requests of        *)
(* compose_handlers.go that read and change both.                          *)
(*                                                                         *)
(* An owner is kept three times: in the directory it governs, in the index *)
(* and in the file the index is loaded from.  The three writes are         *)
(* separate steps, any of which may fail or be the last before a crash,    *)
(* and only the first is made under the directory's lock for everyone.     *)
(***************************************************************************)
EXTENDS Naturals, FiniteSets

CONSTANTS
  Names,      \* project names
  Dirs,       \* canonical working directories
  Root,       \* those under ComposeRoot, the only ones with marks
  Homes,      \* where a project's inline files go: [Names -> Root]
  Known,      \* the projects that projects.json may hold at first
  Reqs,       \* requests under way at one time
  Adopter,    \* the boot's adoption of running projects
  Tools,      \* the tools that render files ("ansible")
  Unknown,    \* unknownOwner: what a mark that cannot be read says
  Keep,       \* a register that does not name an owner
  None,       \* no owner, no entry, nobody
  Labels,     \* the working_dir label of a running project, or None
  MaxFaults,  \* bound: failed writes, unreadable marks and lost files
  MaxBoots,   \* bound: restarts
  MaxReqs,    \* bound: requests in all
  MaxEvents   \* bound: faults, restarts and requests together

ASSUME RootAssumption == Root \subseteq Dirs /\ Homes \in [Names -> Root]
ASSUME ActorAssumption == Adopter \notin Reqs /\ None \notin Reqs \cup {Adopter}
ASSUME OwnerAssumption ==
  /\ Unknown \notin Tools /\ Keep \notin Tools /\ None \notin Tools
  /\ Unknown # Keep /\ Unknown # None /\ Keep # None
  /\ None \notin Dirs /\ None \notin Names
  /\ None \notin [dir : Dirs, owner : Tools \cup {None, Unknown}]
ASSUME KnownAssumption == Known \subseteq Names
ASSUME LabelAssumption == Labels \in [Names -> Dirs \cup {None}]
ASSUME BoundAssumption == {MaxFaults, MaxBoots, MaxReqs, MaxEvents} \subseteq Nat

VARIABLES
  index,     \* composeRegistry.byName: name -> entry, or None
  saved,     \* projects.json: name -> entry, or None
  mark,      \* the owner mark in a directory, or None
  garbled,   \* the directories whose mark cannot be read just now
  lock,      \* the project lock: directory -> request
  pc,        \* how far each request, or the adoption, is
  name,      \* the project a request registers or drops
  dir,       \* the directory it registers
  decl,      \* the owner it declares, None for "", or Keep
  files,     \* the requests that bring files
  own,       \* ProjectEntry.Owner of the entry it is about to register
  old,       \* the directory whose mark it is about to clear
  found,     \* the entries the adoption is about to insert
  saver,     \* who has persistMu
  image,     \* what each has collected to write
  claim,     \* history: the owner acknowledged for a directory's files
  unbacked,  \* history: directories whose mark a fault or a race took away
  lapsed,    \* history: the last write of projects.json failed
  faults, boots, arrived

requestVars == <<pc, name, dir, decl, files, own, old>>
diskVars == <<mark, garbled>>
saveVars == <<saver, image, saved, lapsed>>
historyVars == <<claim, unbacked>>
bounds == <<faults, boots, arrived>>
vars == <<index, diskVars, lock, requestVars, found, saveVars, historyVars, bounds>>

Owners == Tools \cup {None}
Entries == [dir : Dirs, owner : Tools \cup {None, Unknown}]
Actors == Reqs \cup {Adopter}
NoEntries == [p \in Names |-> None]
NoImages == [a \in Actors |-> NoEntries]

Room == faults + boots + arrived < MaxEvents
Fault == Room /\ faults < MaxFaults /\ faults' = faults + 1

-----------------------------------------------------------------------------
(* readOwnerMark: nothing outside the root, and a mark that is there but   *)
(* cannot be read is somebody's.                                           *)
ReadMark(d) == IF d \notin Root THEN None
               ELSE IF d \in garbled THEN Unknown ELSE mark[d]

(* ownerOfFiles: the directory answers first, the index only where the     *)
(* directory says nothing.                                                 *)
IndexOwner(p) == IF index[p] = None THEN None ELSE index[p].owner
OwnerByName(p, d) == IndexOwner(p)                      \* seeded fault
OwnerOfFiles(p, d) == IF ReadMark(d) # None THEN ReadMark(d) ELSE IndexOwner(p)

(* workingDirOwner: another entry has the directory. *)
Taken(d, p) == \E q \in Names \ {p} : index[q] # None /\ index[q].dir = d

(* An absent owner keeps what is recorded. *)
Declared(o, prev) == IF o = Keep THEN prev ELSE o

(* refuseOwnedWrite: files only from the owner who says so. *)
Overwrites(r, prev) == r \in files /\ prev # None /\ decl[r] # prev

(* A mark can be written when it names a tool or nobody: validOwner        *)
(* refuses the sentinel.                                                   *)
Recordable(d, o) == d \notin Root \/ o # Unknown

WriteMark(d, o) ==
  /\ mark' = [x \in Root |-> IF x = d THEN o ELSE mark[x]]
  /\ garbled' = garbled \ {d}

(* Such a write fails by a fault of its own or where the read fails too. *)
MarkWriteFails(d) == \/ d \in Root /\ Fault
                     \/ d \in garbled /\ UNCHANGED faults

-----------------------------------------------------------------------------
(* An agent that has started, settled its marks and serves: directories    *)
(* and entries agree, and a directory no entry names may have a mark left  *)
(* from before.  An owner is acknowledged for a directory once the         *)
(* directory records it.                                                   *)
Init ==
  /\ saved \in [Names -> [dir : Dirs, owner : Owners] \cup {None}]
  /\ \A p \in Names \ Known : saved[p] = None
  /\ \A p, q \in Names : saved[p] # None /\ saved[q] # None /\ p # q =>
                           saved[p].dir # saved[q].dir
  /\ index = saved
  /\ mark \in [Root -> Owners]
  /\ \A p \in Names : saved[p] # None /\ saved[p].dir \in Root =>
                        mark[saved[p].dir] = saved[p].owner
  /\ claim = mark
  /\ garbled = {} /\ unbacked = {}
  /\ lock = [d \in Dirs |-> None]
  /\ pc = [a \in Actors |-> "idle"]
  /\ name = [r \in Reqs |-> None] /\ dir = [r \in Reqs |-> None]
  /\ decl = [r \in Reqs |-> None] /\ files = {}
  /\ own = [r \in Reqs |-> None] /\ old = [r \in Reqs |-> None]
  /\ found = NoEntries
  /\ saver = None /\ image = NoImages /\ lapsed = FALSE
  /\ faults = 0 /\ boots = 0 /\ arrived = 0

Goto(a, label) == pc' = [pc EXCEPT ![a] = label]

(* The request is answered: everything it kept is gone, its lock is freed. *)
Leave(r) ==
  /\ Goto(r, "idle")
  /\ name' = [name EXCEPT ![r] = None] /\ dir' = [dir EXCEPT ![r] = None]
  /\ decl' = [decl EXCEPT ![r] = None] /\ files' = files \ {r}
  /\ own' = [own EXCEPT ![r] = None] /\ old' = [old EXCEPT ![r] = None]
  /\ lock' = [d \in Dirs |-> IF lock[d] = r THEN None ELSE lock[d]]

-----------------------------------------------------------------------------
Arrives(r) == pc[r] = "idle" /\ Room /\ arrived < MaxReqs /\ arrived' = arrived + 1

(* A register request past its early answers; that a project exists and    *)
(* needs "replace", and the self view, are left out.  The owner read here  *)
(* is stale by the time the request has the lock.                          *)
ArriveRegister(r, p, d, o, f) ==
  /\ Arrives(r)
  /\ f => d = Homes[p]
  /\ LET prev == OwnerOfFiles(p, d)
     IN /\ f => prev = None \/ o = prev
        /\ own' = [own EXCEPT ![r] = Declared(o, prev)]
  /\ name' = [name EXCEPT ![r] = p] /\ dir' = [dir EXCEPT ![r] = d]
  /\ decl' = [decl EXCEPT ![r] = o]
  /\ files' = IF f THEN files \cup {r} ELSE files
  /\ Goto(r, "queued")
  /\ UNCHANGED <<index, diskVars, lock, old, found, saveVars, historyVars, faults, boots>>

(* A copy to a new name, once its source has been read: files for the      *)
(* project's own directory and no owner.                                   *)
ArriveCopy(r, p) ==
  /\ Arrives(r)
  /\ index[p] = None
  /\ name' = [name EXCEPT ![r] = p] /\ dir' = [dir EXCEPT ![r] = Homes[p]]
  /\ decl' = [decl EXCEPT ![r] = None] /\ own' = [own EXCEPT ![r] = None]
  /\ files' = files \cup {r}
  /\ Goto(r, "queued")
  /\ UNCHANGED <<index, diskVars, lock, old, found, saveVars, historyVars, faults, boots>>

(* requestLockWait runs out: 409 project_busy. *)
Busy(r) ==
  /\ pc[r] = "queued"
  /\ lock[dir[r]] # None
  /\ Leave(r)
  /\ UNCHANGED <<index, diskVars, found, saveVars, historyVars, bounds>>

(* The owner the decision is made on: read again, under the lock. *)
SeenEarlier(r) == own[r]                                \* seeded fault
Rereads(r) == OwnerOfFiles(name[r], dir[r])

Admissible(r) == /\ ~Taken(dir[r], name[r])
                 /\ ~Overwrites(r, Rereads(r))

Admit(r) ==
  /\ pc[r] = "queued"
  /\ lock[dir[r]] = None
  /\ Admissible(r)
  /\ lock' = [lock EXCEPT ![dir[r]] = r]
  /\ own' = [own EXCEPT ![r] = Declared(decl[r], Rereads(r))]
  /\ Goto(r, "admitted")
  /\ UNCHANGED <<index, diskVars, name, dir, decl, files, old, found, saveVars,
                 historyVars, bounds>>

(* working_dir_in_use or project_owned. *)
Refuse(r) ==
  /\ pc[r] = "queued"
  /\ lock[dir[r]] = None
  /\ ~Admissible(r)
  /\ Leave(r)
  /\ UNCHANGED <<index, diskVars, found, saveVars, historyVars, bounds>>

-----------------------------------------------------------------------------
(* composeRegistry.register, in its steps.  A project that moves leaves a  *)
(* mark behind in the directory its entry names, unless another entry      *)
(* names it too.                                                           *)
LeftBehind(p, d) ==
  IF /\ index[p] # None
     /\ index[p].dir # d
     /\ index[p].owner # None
     /\ ~Taken(index[p].dir, p)
  THEN index[p].dir ELSE None

(* What a directory promises while its mark changes: nothing. *)
Unsettled(d, o) ==
  [x \in Root |-> IF x = d /\ claim[x] # o THEN None ELSE claim[x]]

(* The files are written, and the directory records the owner before the   *)
(* index does.                                                             *)
Record(r) ==
  /\ pc[r] = "admitted"
  /\ Recordable(dir[r], own[r])
  /\ WriteMark(dir[r], own[r])
  /\ claim' = Unsettled(dir[r], own[r])
  /\ unbacked' = IF Taken(dir[r], name[r]) THEN unbacked \cup ({dir[r]} \cap Root)
                 ELSE unbacked \ {dir[r]}
  /\ old' = [old EXCEPT ![r] = LeftBehind(name[r], dir[r])]
  /\ Goto(r, IF old'[r] = None THEN "recorded" ELSE "clearing")
  /\ UNCHANGED <<index, lock, name, dir, decl, files, own, found, saveVars, bounds>>

(* writeProjectFiles fails, with some of the files written perhaps, or the *)
(* owner is not one to record, or the mark's write fails: the request does *)
(* too.                                                                    *)
RecordFails(r) ==
  /\ pc[r] = "admitted"
  /\ \/ /\ r \in files \/ ~Recordable(dir[r], own[r])
        /\ UNCHANGED faults
     \/ MarkWriteFails(dir[r])
  /\ Leave(r)
  /\ UNCHANGED <<index, diskVars, found, saveVars, historyVars, boots, arrived>>

(* The old directory's mark is removed without that directory's lock: it   *)
(* may have got another registration meanwhile.                            *)
TakenOver(d, p) == \/ lock[d] # None
                   \/ Taken(d, p)
                   \/ index[p] = None
                   \/ index[p] # None /\ index[p].dir # d

ClearOld(r) ==
  /\ pc[r] = "clearing"
  /\ \/ /\ WriteMark(old[r], None)
        /\ claim' = [x \in Root |-> IF x = old[r] THEN None ELSE claim[x]]
        /\ unbacked' = IF TakenOver(old[r], name[r]) THEN unbacked \cup ({old[r]} \cap Root)
                       ELSE unbacked
        /\ UNCHANGED faults
     \/ MarkWriteFails(old[r]) /\ UNCHANGED <<diskVars, historyVars>>
  /\ old' = [old EXCEPT ![r] = None]
  /\ Goto(r, "recorded")
  /\ UNCHANGED <<index, lock, name, dir, decl, files, own, found, saveVars, boots,
                 arrived>>

Enter(r) ==
  /\ pc[r] = "recorded"
  /\ index' = [index EXCEPT ![name[r]] = [dir |-> dir[r], owner |-> own[r]]]
  /\ claim' = [x \in Root |->
                 IF x # dir[r] THEN claim[x]
                 ELSE IF mark[x] = own[r] THEN own[r] ELSE None]
  /\ Goto(r, "entered")
  /\ UNCHANGED <<diskVars, lock, name, dir, decl, files, own, old, found, saveVars,
                 unbacked, bounds>>

(* deregister: no lock and no owner check.  A name that is not in the      *)
(* index is answered with success and nothing is written.                  *)
Deregister(r, p) ==
  /\ Arrives(r)
  /\ index[p] # None
  /\ index' = [index EXCEPT ![p] = None]
  /\ name' = [name EXCEPT ![r] = p]
  /\ Goto(r, "entered")
  /\ UNCHANGED <<diskVars, lock, dir, decl, files, own, old, found, saveVars,
                 historyVars, faults, boots>>

-----------------------------------------------------------------------------
(* persist: the entries are collected and written under persistMu, so a    *)
(* later writer never writes an older index.                               *)
NoMutex == TRUE                                         \* seeded fault
MayPersist == saver = None

Collect(a) ==
  /\ pc[a] = "entered"
  /\ MayPersist
  /\ saver' = a
  /\ image' = [image EXCEPT ![a] = index]
  /\ Goto(a, "collected")
  /\ UNCHANGED <<index, diskVars, lock, name, dir, decl, files, own, old, found,
                 saved, lapsed, historyVars, bounds>>

(* The request is answered, and frees its lock; the adoption only ends. *)
Answer(a) ==
  IF a \in Reqs THEN Leave(a)
  ELSE Goto(a, "ended") /\ UNCHANGED <<name, dir, decl, files, own, old, lock>>

Save(a) ==
  /\ pc[a] = "collected"
  /\ saver' = None /\ image' = [image EXCEPT ![a] = NoEntries]
  /\ \/ saved' = image[a] /\ lapsed' = FALSE /\ UNCHANGED faults
     \/ Fault /\ lapsed' = TRUE /\ UNCHANGED saved
  /\ Answer(a)
  /\ UNCHANGED <<index, diskVars, found, historyVars, boots, arrived>>

-----------------------------------------------------------------------------
(* enrichFromLive: running projects whose directory no other entry has,    *)
(* one for a directory, with the owner their directory names; one whose    *)
(* mark cannot be read is left alone.                                      *)
EntryFromLive(p) == [dir |-> Labels[p], owner |-> ReadMark(Labels[p])]
AnyMark(d) == TRUE                                      \* seeded fault
Readable(d) == ReadMark(d) # Unknown

AdoptRead ==
  /\ pc[Adopter] = "idle"
  /\ \E chosen \in SUBSET {p \in Names : /\ Labels[p] # None
                                        /\ ~Taken(Labels[p], p)
                                        /\ Readable(Labels[p])} :
       /\ \A p, q \in chosen : Labels[p] = Labels[q] => p = q
       /\ found' = [p \in Names |->
                      IF p \in chosen THEN EntryFromLive(p) ELSE None]
  /\ Goto(Adopter, "found")
  /\ UNCHANGED <<index, diskVars, lock, name, dir, decl, files, own, old, saveVars,
                 historyVars, bounds>>

(* What it read may have changed by the time it inserts it. *)
AdoptInsert ==
  /\ pc[Adopter] = "found"
  /\ LET new == {p \in Names : found[p] # None /\ index[p] = None}
     IN /\ index' = [p \in Names |-> IF p \in new THEN found[p] ELSE index[p]]
        /\ unbacked' = unbacked \cup
             {d \in Root : \E p \in new : found[p].dir = d /\ found[p].owner # mark[d]}
        /\ Goto(Adopter, IF new = {} THEN "ended" ELSE "entered")
  /\ found' = NoEntries
  /\ UNCHANGED <<diskVars, lock, name, dir, decl, files, own, old, saveVars, claim, bounds>>

-----------------------------------------------------------------------------
(* reconcileOwnerMarks: a directory that says nothing gets the owner its   *)
(* entry names; one that names an owner outranks the entry; one that       *)
(* cannot be read changes nothing.                                         *)
ToMigrate(p) == /\ saved[p] # None /\ saved[p].dir \in Root \ garbled
                /\ mark[saved[p].dir] = None /\ saved[p].owner # None

(* The entry's owner after the boot, where m are the marks after it.  Of   *)
(* two entries for one directory the first in order gives the mark.        *)
IndexKept(p, m) == {saved[p]}                           \* seeded fault
Settled(p, m) ==
  IF saved[p] = None \/ saved[p].dir \notin Root \ garbled THEN {saved[p]}
  ELSE LET d == saved[p].dir
       IN {[saved[p] EXCEPT !.owner = o] :
             o \in IF mark[d] # None THEN {mark[d]}
                   ELSE {saved[p].owner, m[d]}
                          \ (IF saved[p].owner # None THEN {None} ELSE {})}

(* Directories that two entries name. *)
Shared == {d \in Root : \E p, q \in Names : /\ p # q
                                           /\ saved[p] # None /\ saved[p].dir = d
                                           /\ saved[q] # None /\ saved[q].dir = d}

(* The agent stops and starts again: memory is what projects.json says,    *)
(* and the marks and the index are made to agree before the listener       *)
(* binds.  A migration or the write of the file may fail, which is logged. *)
Restart ==
  /\ Room /\ boots < MaxBoots /\ boots' = boots + 1
  /\ \E failed \in SUBSET {saved[p].dir : p \in {q \in Names : ToMigrate(q)}} :
       \E m \in [Root -> Tools \cup {None, Unknown}] :
         /\ \A d \in Root :
              IF \E p \in Names : ToMigrate(p) /\ saved[p].dir = d /\ d \notin failed
              THEN \E p \in Names : ToMigrate(p) /\ saved[p].dir = d /\ m[d] = saved[p].owner
              ELSE m[d] = mark[d]
         /\ mark' = m
         /\ claim' = [d \in Root |-> IF mark[d] = None THEN m[d] ELSE claim[d]]
         /\ index' \in {f \in [Names -> Entries \cup {None}] :
                          \A p \in Names : f[p] \in Settled(p, m)}
         /\ unbacked' = failed \cup garbled \cup Shared
         /\ \/ saved' = index' /\ lapsed' = FALSE
            \/ index' # saved /\ saved' = saved /\ lapsed' = TRUE
         /\ IF failed = {} /\ ~lapsed' THEN UNCHANGED faults ELSE Fault
  /\ lock' = [d \in Dirs |-> None]
  /\ pc' = [a \in Actors |-> "idle"]
  /\ name' = [r \in Reqs |-> None] /\ dir' = [r \in Reqs |-> None]
  /\ decl' = [r \in Reqs |-> None] /\ files' = {}
  /\ own' = [r \in Reqs |-> None] /\ old' = [r \in Reqs |-> None]
  /\ found' = NoEntries
  /\ saver' = None /\ image' = NoImages
  /\ UNCHANGED <<garbled, arrived>>

(* projects.json is lost or put back empty. *)
LoseFile ==
  /\ Fault
  /\ saved' = NoEntries /\ lapsed' = TRUE
  /\ UNCHANGED <<index, diskVars, lock, requestVars, found, saver, image, historyVars, boots,
                 arrived>>

(* A mark cannot be read for a while: a mount that is not up, a file       *)
(* somebody has broken and then repairs.                                   *)
Garble(d) ==
  /\ Fault
  /\ garbled' = garbled \cup {d}
  /\ UNCHANGED <<index, mark, lock, requestVars, found, saveVars, historyVars, boots,
                 arrived>>

Mend(d) ==
  /\ d \in garbled
  /\ garbled' = garbled \ {d}
  /\ UNCHANGED <<index, mark, lock, requestVars, found, saveVars, historyVars, bounds>>

RequestStep(r) == \/ Busy(r) \/ Admit(r) \/ Refuse(r)
                  \/ Record(r) \/ RecordFails(r) \/ ClearOld(r) \/ Enter(r)

Next == \/ \E r \in Reqs, p \in Names, d \in Dirs, o \in Owners \cup {Keep}, f \in BOOLEAN :
             ArriveRegister(r, p, d, o, f)
        \/ \E r \in Reqs, p \in Names : ArriveCopy(r, p) \/ Deregister(r, p)
        \/ \E r \in Reqs : RequestStep(r)
        \/ \E a \in Actors : Collect(a) \/ Save(a)
        \/ AdoptRead \/ AdoptInsert
        \/ Restart \/ LoseFile
        \/ \E d \in Root : Garble(d) \/ Mend(d)

Spec == Init /\ [][Next]_vars

-----------------------------------------------------------------------------
(* Every variable holds a value of its Go type. *)
TypeOK ==
  /\ index \in [Names -> Entries \cup {None}]
  /\ saved \in [Names -> Entries \cup {None}]
  /\ mark \in [Root -> Tools \cup {None, Unknown}] /\ garbled \subseteq Root
  /\ lock \in [Dirs -> Reqs \cup {None}]
  /\ pc \in [Actors -> {"idle", "queued", "admitted", "clearing",
                        "recorded", "entered", "collected", "found", "ended"}]
  /\ name \in [Reqs -> Names \cup {None}] /\ dir \in [Reqs -> Dirs \cup {None}]
  /\ decl \in [Reqs -> Owners \cup {Keep}] /\ files \subseteq Reqs
  /\ own \in [Reqs -> Owners \cup {Unknown}] /\ old \in [Reqs -> Dirs \cup {None}]
  /\ found \in [Names -> Entries \cup {None}]
  /\ saver \in Actors \cup {None}
  /\ image \in [Actors -> [Names -> Entries \cup {None}]]
  /\ claim \in [Root -> Tools \cup {None, Unknown}] /\ unbacked \subseteq Root
  /\ lapsed \in BOOLEAN /\ faults \in Nat /\ boots \in Nat /\ arrived \in Nat

(* Files whose owner was acknowledged are written only by a request that   *)
(* names that owner, whatever was deregistered, lost, restarted, re-read   *)
(* or registered under another name since: a request admitted to write     *)
(* says who it is, or nobody owns the directory.                           *)
OwnedFilesAreKept ==
  \A r \in Reqs :
    /\ pc[r] = "admitted" /\ r \in files
    /\ claim[dir[r]] # None
    => decl[r] = claim[dir[r]]

(* "The index never holds an owner its directory does not", nor the other  *)
(* way round: when nothing is under way an entry's owner is what its       *)
(* directory says, through failed writes, crashes between them and stale   *)
(* files, unless the mark could not be read or written at the last boot,   *)
(* or settled two entries of one directory one after the other, or a       *)
(* request that moved a project away, or the adoption, neither of which    *)
(* has the directory's lock, met another registration there.               *)
OwnersAreRecorded ==
  (\A a \in Actors : pc[a] \in {"idle", "ended"}) =>
    \A p \in Names :
      index[p] # None /\ index[p].dir \in Root \ unbacked =>
        mark[index[p].dir] = index[p].owner

(* "The read-time sentinel must never be persisted": a failed read of a    *)
(* mark never becomes the owner in the index, in projects.json or in a     *)
(* directory, however reads fail and recover around boots and adoptions.   *)
SentinelIsNeverStored ==
  /\ \A p \in Names : /\ index[p] # None => index[p].owner # Unknown
                      /\ saved[p] # None => saved[p].owner # Unknown
  /\ \A d \in Root : mark[d] # Unknown

(* projects.json never goes back to an older index: when nothing is under  *)
(* way, it is the index, unless the last write of it failed or it was      *)
(* lost.                                                                   *)
SavedIsNewest ==
  (\A a \in Actors : pc[a] \notin {"entered", "collected"}) /\ ~lapsed =>
    saved = index
=============================================================================
