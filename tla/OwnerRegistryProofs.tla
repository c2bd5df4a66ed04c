------------------------- MODULE OwnerRegistryProofs -------------------------
(***************************************************************************)
(* The four invariants of OwnerRegistry, for any names, directories,       *)
(* requests, tools and any number of faults and restarts.  The inductive   *)
(* invariant comes in layers, each proved with the help of those below it: *)
(*                                                                         *)
(*   Located   types, and a request under way has a project and a place    *)
(*   Locked    from its admission to its entry it has the directory's lock *)
(*   Named     no owner that is stored, or about to be, is the sentinel    *)
(*   Claimed   what was acknowledged for a directory is what its mark says *)
(*   Backed    an entry's owner is its directory's, but for a request that *)
(*             has written the one and not yet the other                   *)
(*   Saved     the one who writes projects.json has the newest index, or   *)
(*             somebody who has changed it since will write it again       *)
(***************************************************************************)
EXTENDS OwnerRegistry, TLAPS

Placed == {"queued", "admitted", "clearing", "recorded"}
Holding == {"admitted", "clearing", "recorded"}
Recorded == {"clearing", "recorded"}

Located ==
  /\ TypeOK
  /\ \A r \in Reqs : pc[r] \in Placed => name[r] \in Names /\ dir[r] \in Dirs
  /\ \A r \in Reqs : r \in files => dir[r] \in Root /\ pc[r] # "idle"

Locked == \A r \in Reqs : pc[r] \in Holding => lock[dir[r]] = r

NoSentinel(f) == \A p \in Names : f[p] # None => f[p].owner # Unknown
Named ==
  /\ NoSentinel(index) /\ NoSentinel(saved) /\ NoSentinel(found)
  /\ \A a \in Actors : NoSentinel(image[a])
  /\ \A d \in Root : mark[d] # Unknown
  /\ \A r \in Reqs : /\ pc[r] = "admitted" /\ dir[r] \notin Root => own[r] # Unknown
                     /\ pc[r] \in Recorded => own[r] # Unknown

Acknowledged == \A d \in Root : claim[d] # None => mark[d] = claim[d]
Claimed == Acknowledged /\ OwnedFilesAreKept

Written == \A r \in Reqs : pc[r] \in Recorded /\ dir[r] \in Root \ unbacked =>
                             mark[dir[r]] = own[r]
Agreed(p) == index[p] # None /\ index[p].dir \in Root \ unbacked =>
               \/ mark[index[p].dir] = index[p].owner
               \/ \E r \in Reqs : pc[r] \in Recorded /\ name[r] = p
Backed == Written /\ \A p \in Names : Agreed(p)

NobodyWillSave == \A a \in Actors : pc[a] # "entered"
Saved ==
  /\ \A a \in Actors : pc[a] = "collected" => saver = a
  /\ NobodyWillSave => \A a \in Actors : pc[a] = "collected" => image[a] = index
  /\ SavedIsNewest


-----------------------------------------------------------------------------
(* The actions of one actor and those of nobody.                           *)
Arriving == \/ \E r \in Reqs, p \in Names, d \in Dirs, o \in Owners \cup {Keep},
                  f \in BOOLEAN : ArriveRegister(r, p, d, o, f)
            \/ \E r \in Reqs, p \in Names : ArriveCopy(r, p)
Leaving == \E r \in Reqs : Busy(r) \/ Refuse(r) \/ RecordFails(r)
Hosting == \E d \in Root : Garble(d) \/ Mend(d)

(* Every step is one of these. *)
LEMMA Steps ==
  [Next]_vars =>
    \/ Arriving \/ Leaving \/ Hosting
    \/ \E r \in Reqs : Admit(r) \/ Record(r) \/ ClearOld(r) \/ Enter(r)
    \/ \E r \in Reqs, p \in Names : Deregister(r, p)
    \/ \E a \in Actors : Collect(a) \/ Save(a)
    \/ AdoptRead \/ AdoptInsert \/ Restart \/ LoseFile
    \/ UNCHANGED vars
  BY DEF Next, RequestStep, Arriving, Leaving, Hosting

-----------------------------------------------------------------------------
(* Types, and where a request is.                                          *)

LEMMA ReadMarkType ==
  ASSUME Located, NEW d
  PROVE  /\ ReadMark(d) \in Owners \cup {Unknown}
         /\ d \notin Root => ReadMark(d) = None
         /\ d \in Root => ReadMark(d) \in {mark[d], Unknown}
  BY DEF ReadMark, Located, TypeOK, Owners

LEMMA OwnerOfFilesType ==
  ASSUME Located, NEW p \in Names, NEW d
  PROVE  OwnerOfFiles(p, d) \in Owners \cup {Unknown}
  BY ReadMarkType DEF OwnerOfFiles, IndexOwner, Located, TypeOK, Owners, Entries

LEMMA LocatedInit == Init => Located
<1> SUFFICES ASSUME Init PROVE Located
  OBVIOUS
<1> USE RootAssumption, ActorAssumption, OwnerAssumption, BoundAssumption
<1>1. /\ saved \in [Names -> Entries \cup {None}] /\ index \in [Names -> Entries \cup {None}]
      /\ found \in [Names -> Entries \cup {None}]
  BY DEF Init, Entries, Owners, NoEntries
<1>2. image \in [Actors -> [Names -> Entries \cup {None}]]
  BY DEF Init, NoImages, NoEntries
<1>3. /\ mark \in [Root -> Tools \cup {None, Unknown}] /\ claim \in [Root -> Tools \cup {None, Unknown}]
      /\ garbled \subseteq Root /\ unbacked \subseteq Root
  BY DEF Init, Owners
<1>4. /\ lock \in [Dirs -> Reqs \cup {None}] /\ pc \in [Actors -> {"idle"}]
      /\ name \in [Reqs -> Names \cup {None}] /\ dir \in [Reqs -> Dirs \cup {None}]
      /\ decl \in [Reqs -> Owners \cup {Keep}] /\ files = {}
      /\ own \in [Reqs -> Owners \cup {Unknown}] /\ old \in [Reqs -> Dirs \cup {None}]
  BY DEF Init, Owners
<1>5. saver \in Actors \cup {None} /\ lapsed \in BOOLEAN /\ faults \in Nat /\ boots \in Nat /\ arrived \in Nat
  BY DEF Init
<1> QED
  BY <1>1, <1>2, <1>3, <1>4, <1>5 DEF Located, TypeOK, Placed, Actors

(* An answered request has no project, no directory and no files.          *)
LEMMA LeaveLocated ==
  ASSUME Located, NEW r \in Reqs, Leave(r)
  PROVE  /\ pc' = [pc EXCEPT ![r] = "idle"]
         /\ lock' \in [Dirs -> Reqs \cup {None}]
         /\ name' \in [Reqs -> Names \cup {None}] /\ dir' \in [Reqs -> Dirs \cup {None}]
         /\ decl' \in [Reqs -> Owners \cup {Keep}] /\ files' \subseteq Reqs
         /\ own' \in [Reqs -> Owners \cup {Unknown}] /\ old' \in [Reqs -> Dirs \cup {None}]
         /\ pc' \in [Actors -> {"idle", "queued", "admitted", "clearing",
                        "recorded", "entered", "collected", "found", "ended"}]
         /\ \A s \in Reqs \ {r} : /\ pc'[s] = pc[s] /\ name'[s] = name[s] /\ dir'[s] = dir[s]
                                  /\ own'[s] = own[s] /\ decl'[s] = decl[s]
         /\ \A s \in Reqs : s \in files' => s \in files /\ s # r
         /\ pc'[r] = "idle"
  BY DEF Leave, Goto, Located, TypeOK, Owners, Actors

(* Located needs no more of an answer.                                     *)
LEMMA LeavingLocated ==
  ASSUME Located, NEW r \in Reqs, Leave(r),
         index' \in [Names -> Entries \cup {None}], saved' \in [Names -> Entries \cup {None}],
         UNCHANGED <<diskVars, found, historyVars, boots, arrived>>,
         saver' \in Actors \cup {None}, image' \in [Actors -> [Names -> Entries \cup {None}]],
         lapsed' \in BOOLEAN, faults' \in Nat
  PROVE  Located'
<1>1. TypeOK'
  BY LeaveLocated DEF Located, TypeOK, diskVars, historyVars
<1>2. \A s \in Reqs : pc'[s] \in Placed => name'[s] \in Names /\ dir'[s] \in Dirs
  BY LeaveLocated DEF Located, Placed
<1>3. \A s \in Reqs : s \in files' => dir'[s] \in Root /\ pc'[s] # "idle"
  BY LeaveLocated DEF Located
<1> QED
  BY <1>1, <1>2, <1>3 DEF Located

(* Every step keeps the types and the places.                              *)
LEMMA LocatedNext == Located /\ [Next]_vars => Located'
<1> SUFFICES ASSUME Located, [Next]_vars PROVE Located'
  OBVIOUS
<1> USE RootAssumption, ActorAssumption, BoundAssumption
<1>1. CASE Arriving
  <2>1. ASSUME NEW r \in Reqs, NEW p \in Names, NEW d \in Dirs, NEW o \in Owners \cup {Keep},
               NEW f \in BOOLEAN, ArriveRegister(r, p, d, o, f)
        PROVE Located'
    <3>1. Declared(o, OwnerOfFiles(p, d)) \in Owners \cup {Unknown}
      BY OwnerOfFilesType DEF Declared
    <3>2. own' \in [Reqs -> Owners \cup {Unknown}]
      BY <2>1, <3>1 DEF ArriveRegister, Located, TypeOK
    <3>3. TypeOK'
      BY <2>1, <3>2 DEF ArriveRegister, Arrives, Goto, Located, TypeOK, diskVars, saveVars,
            historyVars, Actors
    <3>4. \A s \in Reqs : pc'[s] \in Placed => name'[s] \in Names /\ dir'[s] \in Dirs
      BY <2>1 DEF ArriveRegister, Arrives, Goto, Located, TypeOK, Placed, Actors
    <3>5. \A s \in Reqs : s \in files' => dir'[s] \in Root /\ pc'[s] # "idle"
      BY <2>1 DEF ArriveRegister, Arrives, Goto, Located, TypeOK, Actors
    <3> QED
      BY <3>3, <3>4, <3>5 DEF Located
  <2>2. ASSUME NEW r \in Reqs, NEW p \in Names, ArriveCopy(r, p)
        PROVE Located'
    <3>1. TypeOK'
      BY <2>2 DEF ArriveCopy, Arrives, Goto, Located, TypeOK, diskVars, saveVars,
            historyVars, Owners, Actors
    <3>2. \A s \in Reqs : pc'[s] \in Placed => name'[s] \in Names /\ dir'[s] \in Dirs
      BY <2>2 DEF ArriveCopy, Arrives, Goto, Located, TypeOK, Placed, Actors
    <3>3. \A s \in Reqs : s \in files' => dir'[s] \in Root /\ pc'[s] # "idle"
      BY <2>2 DEF ArriveCopy, Arrives, Goto, Located, TypeOK, Actors
    <3> QED
      BY <3>1, <3>2, <3>3 DEF Located
  <2> QED
    BY <1>1, <2>1, <2>2 DEF Arriving
<1>2. CASE Leaving
  <2>1. PICK r \in Reqs : Busy(r) \/ Refuse(r) \/ RecordFails(r)
    BY <1>2 DEF Leaving
  <2>2. /\ Leave(r)
        /\ UNCHANGED <<index, diskVars, found, saveVars, historyVars, boots, arrived>>
    BY <2>1 DEF Busy, Refuse, RecordFails, bounds
  <2>3. faults' \in Nat
    BY <2>1 DEF Busy, Refuse, RecordFails, bounds, MarkWriteFails, Fault, Located, TypeOK
  <2> QED
    BY <2>2, <2>3, LeavingLocated DEF saveVars, Located, TypeOK
<1>3. CASE Hosting
  BY <1>3 DEF Hosting, Garble, Mend, Fault, Located, TypeOK, requestVars, saveVars, historyVars,
        bounds, diskVars
<1>4. ASSUME NEW r \in Reqs, Admit(r) PROVE Located'
  <2>1. dir[r] \in Dirs /\ name[r] \in Names
    BY <1>4 DEF Admit, Located, Placed
  <2>2. own'[r] \in Owners \cup {Unknown}
    BY <1>4, <2>1, OwnerOfFilesType DEF Admit, Declared, Rereads, Located, TypeOK
  <2>3. own' \in [Reqs -> Owners \cup {Unknown}]
    BY <1>4, <2>2 DEF Admit, Located, TypeOK
  <2>4. TypeOK'
    BY <1>4, <2>1, <2>3 DEF Admit, Goto, Located, TypeOK, diskVars, saveVars, historyVars, bounds, Actors
  <2> QED
    BY <1>4, <2>1, <2>4 DEF Admit, Goto, Located, TypeOK, Placed, Actors
<1>5. ASSUME NEW r \in Reqs, Record(r) PROVE Located'
  <2>1. dir[r] \in Dirs /\ name[r] \in Names /\ own[r] \in Tools \cup {None, Unknown}
    BY <1>5 DEF Record, Located, TypeOK, Placed, Owners
  <2>2. /\ mark' \in [Root -> Tools \cup {None, Unknown}] /\ garbled' \subseteq Root
        /\ claim' \in [Root -> Tools \cup {None, Unknown}] /\ unbacked' \subseteq Root
    BY <1>5, <2>1 DEF Record, WriteMark, Unsettled, Located, TypeOK
  <2>3. LeftBehind(name[r], dir[r]) \in Dirs \cup {None}
    BY <2>1 DEF LeftBehind, Located, TypeOK, Entries
  <2>4. TypeOK'
    BY <1>5, <2>2, <2>3 DEF Record, Goto, Located, TypeOK, saveVars, bounds, Actors
  <2> QED
    BY <1>5, <2>1, <2>4 DEF Record, Goto, Located, TypeOK, Placed, Actors
<1>6. ASSUME NEW r \in Reqs, ClearOld(r) PROVE Located'
  <2>1. /\ mark' \in [Root -> Tools \cup {None, Unknown}] /\ garbled' \subseteq Root
        /\ claim' \in [Root -> Tools \cup {None, Unknown}] /\ unbacked' \subseteq Root
        /\ faults' \in Nat
    BY <1>6 DEF ClearOld, WriteMark, MarkWriteFails, Fault, diskVars, historyVars, Located, TypeOK
  <2>2. TypeOK'
    BY <1>6, <2>1 DEF ClearOld, Goto, Located, TypeOK, saveVars, bounds, Actors
  <2> QED
    BY <1>6, <2>2 DEF ClearOld, Goto, Located, TypeOK, Placed, Actors
<1>7. ASSUME NEW r \in Reqs, Enter(r) PROVE Located'
  <2>1. dir[r] \in Dirs /\ name[r] \in Names /\ own[r] \in Tools \cup {None, Unknown}
    BY <1>7 DEF Enter, Located, TypeOK, Placed, Owners
  <2>2. /\ index' \in [Names -> Entries \cup {None}]
        /\ claim' \in [Root -> Tools \cup {None, Unknown}]
    BY <1>7, <2>1 DEF Enter, Entries, Located, TypeOK
  <2>3. TypeOK'
    BY <1>7, <2>2 DEF Enter, Goto, Located, TypeOK, diskVars, saveVars, bounds, Actors
  <2> QED
    BY <1>7, <2>3 DEF Enter, Goto, Located, TypeOK, Placed, Actors
<1>8. ASSUME NEW r \in Reqs, NEW p \in Names, Deregister(r, p) PROVE Located'
  <2>1. TypeOK'
    BY <1>8 DEF Deregister, Arrives, Goto, Located, TypeOK, diskVars, saveVars, historyVars, Actors
  <2> QED
    BY <1>8, <2>1 DEF Deregister, Arrives, Goto, Located, TypeOK, Placed, Actors
<1>9. ASSUME NEW a \in Actors, Collect(a) PROVE Located'
  <2>1. TypeOK'
    BY <1>9 DEF Collect, Goto, Located, TypeOK, diskVars, historyVars, bounds, Actors
  <2> QED
    BY <1>9, <2>1 DEF Collect, Goto, Located, TypeOK, Placed, Actors
<1>10. ASSUME NEW a \in Actors, Save(a) PROVE Located'
  <2>0. /\ index' \in [Names -> Entries \cup {None}]
        /\ saver' \in Actors \cup {None} /\ image' \in [Actors -> [Names -> Entries \cup {None}]]
        /\ UNCHANGED <<index, diskVars, found, historyVars, boots, arrived>>
    BY <1>10 DEF Save, NoEntries, Located, TypeOK
  <2>1. /\ saved' \in [Names -> Entries \cup {None}]
        /\ lapsed' \in BOOLEAN /\ faults' \in Nat
    <3>1. image[a] \in [Names -> Entries \cup {None}] /\ faults \in Nat
      BY DEF Located, TypeOK
    <3>2. CASE saved' = image[a] /\ lapsed' = FALSE /\ UNCHANGED faults
      BY <3>1, <3>2
    <3>3. CASE Fault /\ lapsed' = TRUE /\ UNCHANGED saved
      BY <3>1, <3>3 DEF Fault, Located, TypeOK
    <3> QED
      BY <1>10, <3>2, <3>3 DEF Save
  <2>2. CASE a \in Reqs
    BY <1>10, <2>0, <2>1, <2>2, LeavingLocated DEF Save, Answer
  <2>3. CASE a \notin Reqs
    <3>1. Goto(a, "ended") /\ UNCHANGED <<name, dir, decl, files, own, old, lock>>
      BY <1>10, <2>3 DEF Save, Answer
    <3>2. TypeOK'
      BY <2>0, <2>1, <3>1 DEF Goto, Located, TypeOK, diskVars, historyVars, Actors
    <3> QED
      BY <2>3, <3>1, <3>2 DEF Goto, Located, TypeOK, Placed, Actors
  <2> QED
    BY <2>2, <2>3
<1>11. CASE AdoptRead
  <2>1. \A p \in Names : Labels[p] # None /\ Readable(Labels[p]) => EntryFromLive(p) \in Entries
    BY LabelAssumption, ReadMarkType DEF EntryFromLive, Readable, Entries, Owners
  <2>2. found' \in [Names -> Entries \cup {None}]
    BY <1>11, <2>1 DEF AdoptRead
  <2>3. TypeOK'
    BY <1>11, <2>2 DEF AdoptRead, Goto, Located, TypeOK, diskVars, saveVars, historyVars, bounds, Actors
  <2> QED
    BY <1>11, <2>3 DEF AdoptRead, Goto, Located, TypeOK, Placed, Actors
<1>12. CASE AdoptInsert
  <2>1. /\ index' \in [Names -> Entries \cup {None}] /\ found' \in [Names -> Entries \cup {None}]
        /\ unbacked' \subseteq Root
    BY <1>12 DEF AdoptInsert, NoEntries, Located, TypeOK
  <2>2. TypeOK'
    BY <1>12, <2>1 DEF AdoptInsert, Goto, Located, TypeOK, diskVars, saveVars, bounds, Actors
  <2> QED
    BY <1>12, <2>2 DEF AdoptInsert, Goto, Located, TypeOK, Placed, Actors
<1>13. CASE Restart
  <2>1. /\ index' \in [Names -> Entries \cup {None}] /\ saved' \in [Names -> Entries \cup {None}]
        /\ mark' \in [Root -> Tools \cup {None, Unknown}]
        /\ lapsed' \in BOOLEAN
    BY <1>13 DEF Restart, Located, TypeOK
  <2>6. faults' \in Nat /\ boots' \in Nat
    BY <1>13 DEF Restart, Fault, Located, TypeOK
  <2>2. claim' \in [Root -> Tools \cup {None, Unknown}]
    BY <1>13 DEF Restart, Located, TypeOK
  <2>3. unbacked' \subseteq Root
    <3>1. PICK failed \in SUBSET {saved[p].dir : p \in {q \in Names : ToMigrate(q)}} :
            unbacked' = failed \cup garbled \cup Shared
      BY <1>13 DEF Restart
    <3>2. failed \subseteq Root
      BY <3>1 DEF ToMigrate
    <3>3. garbled \subseteq Root /\ Shared \subseteq Root
      BY DEF Shared, Located, TypeOK
    <3> QED
      BY <3>1, <3>2, <3>3
  <2>4. /\ lock' \in [Dirs -> Reqs \cup {None}] /\ pc' \in [Actors -> {"idle"}]
        /\ name' \in [Reqs -> Names \cup {None}] /\ dir' \in [Reqs -> Dirs \cup {None}]
        /\ decl' \in [Reqs -> Owners \cup {Keep}] /\ files' = {}
        /\ own' \in [Reqs -> Owners \cup {Unknown}] /\ old' \in [Reqs -> Dirs \cup {None}]
        /\ found' \in [Names -> Entries \cup {None}]
        /\ saver' = None /\ image' \in [Actors -> [Names -> Entries \cup {None}]]
        /\ UNCHANGED <<garbled, arrived>>
    BY <1>13 DEF Restart, NoEntries, NoImages, Owners
  <2>5. TypeOK'
    BY <2>1, <2>2, <2>3, <2>4, <2>6 DEF Located, TypeOK
  <2> QED
    BY <2>4, <2>5 DEF Located, Placed, Actors
<1>14. CASE LoseFile
  BY <1>14 DEF LoseFile, Fault, NoEntries, Located, TypeOK, diskVars, requestVars, historyVars
<1>15. CASE UNCHANGED vars
  BY <1>15 DEF vars, diskVars, requestVars, saveVars, historyVars, bounds, Located, TypeOK
<1> QED
  BY <1>1, <1>2, <1>3, <1>4, <1>5, <1>6, <1>7, <1>8, <1>9, <1>10, <1>11, <1>12, <1>13, <1>14,
     <1>15, Steps

(* A request under way has its project and its place.                      *)
THEOREM LocatedHolds == Spec => []Located
  BY LocatedInit, LocatedNext, PTL DEF Spec

(* Every variable holds a value of its Go type.                            *)
THEOREM TypeCorrect == Spec => []TypeOK
<1>1. Located => TypeOK
  BY DEF Located
<1> QED
  BY <1>1, LocatedHolds, PTL

-----------------------------------------------------------------------------
(* The directory's lock.                                                   *)

(* An answered request frees its own locks and nobody else's.              *)
LEMMA LeaveLocked ==
  ASSUME Located, Locked, NEW r \in Reqs, Leave(r)
  PROVE  Locked'
<1> SUFFICES ASSUME NEW s \in Reqs, pc'[s] \in Holding PROVE lock'[dir'[s]] = s
  BY DEF Locked
<1>1. s # r /\ pc[s] \in Holding /\ dir'[s] = dir[s] /\ dir[s] \in Dirs
  BY LeaveLocated DEF Holding, Located, Placed
<1>2. lock[dir[s]] = s
  BY <1>1 DEF Locked
<1> QED
  BY <1>1, <1>2 DEF Leave

(* Every step keeps the lock with the request that was admitted.           *)
LEMMA LockedNext == Located /\ Locked /\ [Next]_vars => Locked'
<1> SUFFICES ASSUME Located, Locked, [Next]_vars PROVE Locked'
  OBVIOUS
<1>1. CASE Arriving
  BY <1>1 DEF Arriving, ArriveRegister, ArriveCopy, Arrives, Goto, Located, TypeOK, Locked, Holding,
        Actors
<1>2. CASE Leaving
  BY <1>2, LeaveLocked DEF Leaving, Busy, Refuse, RecordFails
<1>3. CASE Hosting
  BY <1>3 DEF Hosting, Garble, Mend, requestVars, Locked
<1>4. ASSUME NEW r \in Reqs, Admit(r) PROVE Locked'
  BY <1>4, ActorAssumption DEF Admit, Goto, Located, TypeOK, Locked, Holding, Placed, Actors
<1>5. ASSUME NEW r \in Reqs, Record(r) \/ ClearOld(r) \/ Enter(r) PROVE Locked'
  BY <1>5 DEF Record, ClearOld, Enter, Goto, Located, TypeOK, Locked, Holding, Actors
<1>6. ASSUME NEW r \in Reqs, NEW p \in Names, Deregister(r, p) PROVE Locked'
  BY <1>6 DEF Deregister, Arrives, Goto, Located, TypeOK, Locked, Holding, Actors
<1>7. ASSUME NEW a \in Actors, Collect(a) PROVE Locked'
  BY <1>7 DEF Collect, Goto, Located, TypeOK, Locked, Holding, Actors
<1>8. ASSUME NEW a \in Actors, Save(a) PROVE Locked'
  <2>1. CASE a \in Reqs
    BY <1>8, <2>1, LeaveLocked DEF Save, Answer
  <2>2. CASE a \notin Reqs
    BY <1>8, <2>2 DEF Save, Answer, Goto, Located, TypeOK, Locked, Holding, Actors
  <2> QED
    BY <2>1, <2>2
<1>9. CASE AdoptRead \/ AdoptInsert
  BY <1>9, ActorAssumption DEF AdoptRead, AdoptInsert, Goto, Located, TypeOK, Locked, Holding, Actors
<1>10. CASE Restart
  BY <1>10 DEF Restart, Locked, Holding, Actors
<1>11. CASE LoseFile \/ UNCHANGED vars
  BY <1>11 DEF LoseFile, vars, requestVars, Locked
<1> QED
  BY <1>1, <1>2, <1>3, <1>4, <1>5, <1>6, <1>7, <1>8, <1>9, <1>10, <1>11, Steps

(* From its admission until the index has its entry, a request has the     *)
(* lock of the directory it writes: no other request is admitted there.    *)
THEOREM LockedHolds == Spec => []Locked
<1>1. Init => Locked
  BY DEF Init, Locked, Holding, Actors
<1> QED
  BY <1>1, LocatedHolds, LockedNext, PTL DEF Spec

-----------------------------------------------------------------------------
(* The sentinel.                                                           *)

(* Initially every stored owner is a tool or nobody.                       *)
LEMMA NamedInit == Init => Named
<1> SUFFICES ASSUME Init PROVE Named
  OBVIOUS
<1> USE OwnerAssumption
<1>1. NoSentinel(index) /\ NoSentinel(saved)
  BY DEF Init, NoSentinel, Owners
<1>2. NoSentinel(found) /\ \A a \in Actors : NoSentinel(image[a])
  BY DEF Init, NoSentinel, NoEntries, NoImages
<1> QED
  BY <1>1, <1>2 DEF Init, Named, Owners, Recorded, Actors

(* What a request keeps is all an answer takes away.                       *)
LEMMA LeaveNamed ==
  ASSUME Located, Named, NEW r \in Reqs, Leave(r)
  PROVE  \A s \in Reqs : /\ pc'[s] = "admitted" /\ dir'[s] \notin Root => own'[s] # Unknown
                         /\ pc'[s] \in Recorded => own'[s] # Unknown
<1> TAKE s \in Reqs
<1>1. CASE s = r
  BY <1>1, LeaveLocated DEF Recorded
<1>2. CASE s # r
  BY <1>2, LeaveLocated DEF Named
<1> QED
  BY <1>1, <1>2

(* No step stores the sentinel.                                            *)
LEMMA NamedNext == Located /\ Named /\ [Next]_vars => Named'
<1> SUFFICES ASSUME Located, Named, [Next]_vars PROVE Named'
  OBVIOUS
<1> USE OwnerAssumption
<1>1. CASE Arriving
  <2>1. UNCHANGED <<index, saved, found, image, mark>>
    BY <1>1 DEF Arriving, ArriveRegister, ArriveCopy, diskVars, saveVars
  <2>2. \A s \in Reqs : /\ pc'[s] = "admitted" /\ dir'[s] \notin Root => own'[s] # Unknown
                        /\ pc'[s] \in Recorded => own'[s] # Unknown
    <3>1. PICK r \in Reqs : /\ pc' = [pc EXCEPT ![r] = "queued"]
                            /\ \A q \in Reqs \ {r} : own'[q] = own[q] /\ dir'[q] = dir[q]
      BY <1>1 DEF Arriving, ArriveRegister, ArriveCopy, Goto, Located, TypeOK
    <3>2. \A q \in Reqs : pc'[q] = IF q = r THEN "queued" ELSE pc[q]
      BY <3>1 DEF Located, TypeOK, Actors
    <3> QED
      BY <3>1, <3>2 DEF Named, Recorded
  <2> QED
    BY <2>1, <2>2 DEF Named, NoSentinel
<1>2. CASE Leaving
  <2>1. UNCHANGED <<index, saved, found, image, mark>>
    BY <1>2 DEF Leaving, Busy, Refuse, RecordFails, diskVars, saveVars
  <2>2. \E r \in Reqs : Leave(r)
    BY <1>2 DEF Leaving, Busy, Refuse, RecordFails
  <2> QED
    BY <2>1, <2>2, LeaveNamed DEF Named, NoSentinel
<1>3. CASE Hosting
  BY <1>3 DEF Hosting, Garble, Mend, requestVars, saveVars, Named, NoSentinel
<1>4. ASSUME NEW r \in Reqs, Admit(r) PROVE Named'
  <2>1. UNCHANGED <<index, saved, found, image, mark, dir>>
    BY <1>4 DEF Admit, diskVars, saveVars
  <2>2. name[r] \in Names /\ decl[r] # Unknown
    BY <1>4 DEF Admit, Located, TypeOK, Placed, Owners
  <2>3. dir[r] \notin Root => own'[r] # Unknown
    BY <1>4, <2>2 DEF Admit, Declared, Rereads, OwnerOfFiles, ReadMark, IndexOwner, Located, TypeOK,
          Named, NoSentinel
  <2>4. \A s \in Reqs \ {r} : pc'[s] = pc[s] /\ own'[s] = own[s]
    BY <1>4 DEF Admit, Goto, Located, TypeOK, Actors
  <2>5. pc'[r] = "admitted"
    BY <1>4 DEF Admit, Goto, Located, TypeOK, Actors
  <2> QED
    BY <2>1, <2>3, <2>4, <2>5 DEF Named, NoSentinel, Recorded
<1>5. ASSUME NEW r \in Reqs, Record(r) PROVE Named'
  <2>1. UNCHANGED <<index, saved, found, image, dir, own>>
    BY <1>5 DEF Record, saveVars
  <2>2. own[r] # Unknown
    BY <1>5 DEF Record, Recordable, Named
  <2>3. \A d \in Root : mark'[d] # Unknown
    BY <1>5, <2>2 DEF Record, WriteMark, Named
  <2>4. \A s \in Reqs \ {r} : pc'[s] = pc[s]
    BY <1>5 DEF Record, Goto, Located, TypeOK, Actors
  <2> QED
    BY <2>1, <2>2, <2>3, <2>4 DEF Named, NoSentinel
<1>6. ASSUME NEW r \in Reqs, ClearOld(r) PROVE Named'
  <2>1. UNCHANGED <<index, saved, found, image, dir, own>>
    BY <1>6 DEF ClearOld, saveVars
  <2>2. \A d \in Root : mark'[d] # Unknown
    BY <1>6 DEF ClearOld, WriteMark, diskVars, Named
  <2>3. /\ \A s \in Reqs \ {r} : pc'[s] = pc[s]
        /\ pc[r] \in Recorded
    BY <1>6 DEF ClearOld, Goto, Located, TypeOK, Recorded, Actors
  <2> QED
    BY <2>1, <2>2, <2>3 DEF Named, NoSentinel
<1>7. ASSUME NEW r \in Reqs, Enter(r) PROVE Named'
  <2>1. UNCHANGED <<saved, found, image, mark, dir, own>>
    BY <1>7 DEF Enter, saveVars, diskVars
  <2>2. NoSentinel(index')
    BY <1>7 DEF Enter, Located, TypeOK, Named, NoSentinel, Recorded
  <2>3. /\ \A s \in Reqs \ {r} : pc'[s] = pc[s]
        /\ pc'[r] = "entered"
    BY <1>7 DEF Enter, Goto, Located, TypeOK, Actors
  <2> QED
    BY <2>1, <2>2, <2>3 DEF Named, NoSentinel, Recorded
<1>8. ASSUME NEW r \in Reqs, NEW p \in Names, Deregister(r, p) PROVE Named'
  <2>1. UNCHANGED <<saved, found, image, mark, dir, own>>
    BY <1>8 DEF Deregister, saveVars, diskVars
  <2>2. NoSentinel(index')
    BY <1>8 DEF Deregister, Located, TypeOK, Named, NoSentinel
  <2>3. /\ \A s \in Reqs \ {r} : pc'[s] = pc[s]
        /\ pc'[r] = "entered"
    BY <1>8 DEF Deregister, Goto, Located, TypeOK, Actors
  <2> QED
    BY <2>1, <2>2, <2>3 DEF Named, NoSentinel, Recorded
<1>9. ASSUME NEW a \in Actors, Collect(a) PROVE Named'
  <2>1. UNCHANGED <<index, saved, found, mark, dir, own>>
    BY <1>9 DEF Collect, diskVars
  <2>2. \A b \in Actors : NoSentinel(image'[b])
    BY <1>9 DEF Collect, Located, TypeOK, Named, NoSentinel
  <2>3. \A s \in Reqs : pc'[s] = pc[s] \/ pc'[s] = "collected"
    BY <1>9 DEF Collect, Goto, Located, TypeOK, Actors
  <2> QED
    BY <2>1, <2>2, <2>3 DEF Named, NoSentinel, Recorded
<1>10. ASSUME NEW a \in Actors, Save(a) PROVE Named'
  <2>1. UNCHANGED <<index, found, mark>>
    BY <1>10 DEF Save, diskVars
  <2>2. NoSentinel(saved')
    BY <1>10 DEF Save, Named, NoSentinel
  <2>3. \A b \in Actors : NoSentinel(image'[b])
    BY <1>10 DEF Save, Located, TypeOK, Named, NoSentinel, NoEntries
  <2>4. \A s \in Reqs : /\ pc'[s] = "admitted" /\ dir'[s] \notin Root => own'[s] # Unknown
                        /\ pc'[s] \in Recorded => own'[s] # Unknown
    <3>1. CASE a \in Reqs
      BY <1>10, <3>1, LeaveNamed DEF Save, Answer
    <3>2. CASE a \notin Reqs
      BY <1>10, <3>2 DEF Save, Answer, Goto, Located, TypeOK, Named, Recorded, Actors
    <3> QED
      BY <3>1, <3>2
  <2> QED
    BY <2>1, <2>2, <2>3, <2>4 DEF Named, NoSentinel
<1>11. CASE AdoptRead
  <2>1. UNCHANGED <<index, saved, image, mark, dir, own>>
    BY <1>11 DEF AdoptRead, diskVars, saveVars
  <2>2. NoSentinel(found')
    BY <1>11 DEF AdoptRead, EntryFromLive, Readable, NoSentinel
  <2>3. \A s \in Reqs : pc'[s] = pc[s]
    BY <1>11, ActorAssumption DEF AdoptRead, Goto, Located, TypeOK, Actors
  <2> QED
    BY <2>1, <2>2, <2>3 DEF Named, NoSentinel
<1>12. CASE AdoptInsert
  <2>1. UNCHANGED <<saved, image, mark, dir, own>>
    BY <1>12 DEF AdoptInsert, diskVars, saveVars
  <2>2. NoSentinel(index') /\ NoSentinel(found')
    BY <1>12 DEF AdoptInsert, NoEntries, Named, NoSentinel
  <2>3. \A s \in Reqs : pc'[s] = pc[s]
    BY <1>12, ActorAssumption DEF AdoptInsert, Goto, Located, TypeOK, Actors
  <2> QED
    BY <2>1, <2>2, <2>3 DEF Named, NoSentinel
<1>13. CASE Restart
  <2>1. /\ \A d \in Root : mark'[d] # Unknown
        /\ \A p \in Names : index'[p] \in Settled(p, mark')
        /\ \A p \in Names : saved'[p] = index'[p] \/ saved'[p] = saved[p]
    <3>1. PICK failed \in SUBSET {saved[p].dir : p \in {q \in Names : ToMigrate(q)}},
               m \in [Root -> Tools \cup {None, Unknown}] :
            /\ \A d \in Root :
                 IF \E p \in Names : ToMigrate(p) /\ saved[p].dir = d /\ d \notin failed
                 THEN \E p \in Names : ToMigrate(p) /\ saved[p].dir = d /\ m[d] = saved[p].owner
                 ELSE m[d] = mark[d]
            /\ mark' = m
            /\ index' \in {f \in [Names -> Entries \cup {None}] :
                             \A p \in Names : f[p] \in Settled(p, m)}
            /\ saved' = index' \/ saved' = saved
      BY <1>13 DEF Restart
    <3>2. \A d \in Root : mark'[d] # Unknown
      BY <3>1 DEF ToMigrate, Named, NoSentinel
    <3> QED
      BY <3>1, <3>2
  <2>2. ASSUME NEW p \in Names, index'[p] # None PROVE index'[p].owner # Unknown
    <3>1. CASE saved[p] = None \/ saved[p].dir \notin Root \ garbled
      BY <2>1, <2>2, <3>1 DEF Settled, Named, NoSentinel
    <3>2. CASE ~(saved[p] = None \/ saved[p].dir \notin Root \ garbled)
      <4>1. PICK o \in {mark[saved[p].dir], saved[p].owner, mark'[saved[p].dir]} :
              index'[p] = [saved[p] EXCEPT !.owner = o]
        <5> DEFINE d == saved[p].dir
                   os == IF mark[d] # None THEN {mark[d]}
                         ELSE {saved[p].owner, mark'[d]}
                                \ (IF saved[p].owner # None THEN {None} ELSE {})
        <5>1. index'[p] \in {[saved[p] EXCEPT !.owner = o] : o \in os}
          BY <2>1, <3>2, Zenon DEF Settled
        <5>2. os \subseteq {mark[d], saved[p].owner, mark'[d]}
          OBVIOUS
        <5> HIDE DEF os
        <5> QED
          BY <5>1, <5>2
      <4>2. o # Unknown
        BY <2>1, <3>2, <4>1 DEF Named, NoSentinel
      <4> QED
        BY <3>2, <4>1, <4>2 DEF Located, TypeOK, Entries
    <3> QED
      BY <3>1, <3>2
  <2>3. NoSentinel(index') /\ NoSentinel(saved')
    BY <2>1, <2>2 DEF Named, NoSentinel
  <2>4. NoSentinel(found') /\ \A a \in Actors : NoSentinel(image'[a])
    BY <1>13 DEF Restart, NoEntries, NoImages, NoSentinel
  <2>5. \A s \in Reqs : pc'[s] = "idle"
    BY <1>13 DEF Restart, Actors
  <2> QED
    BY <2>1, <2>3, <2>4, <2>5 DEF Named, Recorded
<1>14. CASE LoseFile
  BY <1>14 DEF LoseFile, NoEntries, diskVars, requestVars, Named, NoSentinel
<1>15. CASE UNCHANGED vars
  BY <1>15 DEF vars, diskVars, requestVars, saveVars, Named, NoSentinel
<1> QED
  BY <1>1, <1>2, <1>3, <1>4, <1>5, <1>6, <1>7, <1>8, <1>9, <1>10, <1>11, <1>12, <1>13, <1>14,
     <1>15, Steps

(* A failed read of a mark never becomes an owner in the index, in         *)
(* projects.json or in a directory.                                        *)
THEOREM SentinelNeverStored == Spec => []SentinelIsNeverStored
<1>1. Named => SentinelIsNeverStored
  BY DEF Named, NoSentinel, SentinelIsNeverStored
<1> QED
  BY <1>1, NamedInit, NamedNext, LocatedHolds, PTL DEF Spec

-----------------------------------------------------------------------------
(* What was acknowledged.                                                  *)

(* A request that nothing admits, and promises that are only withdrawn,    *)
(* put nobody's files at risk.                                             *)
LEMMA KeptIfQuiet ==
  ASSUME Located, OwnedFilesAreKept,
         \A r \in Reqs : pc'[r] = "admitted" =>
            pc[r] = "admitted" /\ dir'[r] = dir[r] /\ decl'[r] = decl[r] /\ (r \in files' => r \in files),
         \A r \in Reqs : pc'[r] = "admitted" /\ dir[r] \in Root => claim'[dir[r]] \in {None, claim[dir[r]]}
  PROVE  OwnedFilesAreKept'
<1> SUFFICES ASSUME NEW r \in Reqs, pc'[r] = "admitted", r \in files', claim'[dir'[r]] # None
             PROVE  decl'[r] = claim'[dir'[r]]
  BY DEF OwnedFilesAreKept
<1>1. dir[r] \in Root
  BY DEF Located
<1> QED
  BY <1>1 DEF OwnedFilesAreKept

(* Every step keeps what was acknowledged: the directory keeps saying it,  *)
(* and no request is admitted to files it does not own.                    *)
LEMMA ClaimedNext == Located /\ Locked /\ Claimed /\ [Next]_vars => Claimed'
<1> SUFFICES ASSUME Located, Locked, Acknowledged, OwnedFilesAreKept, [Next]_vars
             PROVE  Acknowledged' /\ OwnedFilesAreKept'
  BY DEF Claimed
<1> USE OwnerAssumption
<1>1. CASE Arriving
  <2>1. UNCHANGED <<mark, claim>>
    BY <1>1 DEF Arriving, ArriveRegister, ArriveCopy, diskVars, historyVars
  <2>2. \A s \in Reqs : pc'[s] = "admitted" =>
          pc[s] = "admitted" /\ dir'[s] = dir[s] /\ decl'[s] = decl[s] /\ (s \in files' => s \in files)
    BY <1>1 DEF Arriving, ArriveRegister, ArriveCopy, Arrives, Goto, Located, TypeOK, Actors
  <2> QED
    BY <2>1, <2>2, KeptIfQuiet DEF Acknowledged
<1>2. CASE Leaving
  <2>1. UNCHANGED <<mark, claim>>
    BY <1>2 DEF Leaving, Busy, Refuse, RecordFails, diskVars, historyVars
  <2>2. \E r \in Reqs : Leave(r)
    BY <1>2 DEF Leaving, Busy, Refuse, RecordFails
  <2>3. \A s \in Reqs : pc'[s] = "admitted" =>
          pc[s] = "admitted" /\ dir'[s] = dir[s] /\ decl'[s] = decl[s] /\ (s \in files' => s \in files)
    BY <2>2, LeaveLocated
  <2> QED
    BY <2>1, <2>3, KeptIfQuiet DEF Acknowledged
<1>3. CASE Hosting
  BY <1>3 DEF Hosting, Garble, Mend, requestVars, historyVars, Acknowledged, OwnedFilesAreKept
<1>4. ASSUME NEW r \in Reqs, Admit(r) PROVE Acknowledged' /\ OwnedFilesAreKept'
  <2>1. UNCHANGED <<mark, claim, dir, decl, files>>
    BY <1>4 DEF Admit, diskVars, historyVars
  <2>2. \A s \in Reqs \ {r} : pc'[s] = pc[s]
    BY <1>4 DEF Admit, Goto, Located, TypeOK, Actors
  <2>3. ASSUME r \in files, claim[dir[r]] # None PROVE decl[r] = claim[dir[r]]
    <3>1. dir[r] \in Root /\ mark[dir[r]] = claim[dir[r]] /\ decl[r] # Unknown
      BY <2>3 DEF Located, TypeOK, Acknowledged, Owners
    <3>2. ~Overwrites(r, OwnerOfFiles(name[r], dir[r]))
      BY <1>4 DEF Admit, Admissible, Rereads
    <3>3. OwnerOfFiles(name[r], dir[r]) \in {mark[dir[r]], Unknown} \ {None}
      BY <2>3, <3>1 DEF OwnerOfFiles, ReadMark
    <3> QED
      BY <2>3, <3>1, <3>2, <3>3 DEF Overwrites
  <2> QED
    BY <2>1, <2>2, <2>3 DEF Acknowledged, OwnedFilesAreKept
<1>5. ASSUME NEW r \in Reqs, Record(r) PROVE Acknowledged' /\ OwnedFilesAreKept'
  <2>1. Acknowledged'
    BY <1>5 DEF Record, WriteMark, Unsettled, Acknowledged
  <2>2. \A s \in Reqs : pc'[s] = "admitted" =>
          pc[s] = "admitted" /\ dir'[s] = dir[s] /\ decl'[s] = decl[s] /\ (s \in files' => s \in files)
    BY <1>5 DEF Record, Goto, Located, TypeOK, Actors
  <2>3. \A d \in Root : claim'[d] \in {None, claim[d]}
    BY <1>5 DEF Record, Unsettled
  <2> QED
    BY <2>1, <2>2, <2>3, KeptIfQuiet
<1>6. ASSUME NEW r \in Reqs, ClearOld(r) PROVE Acknowledged' /\ OwnedFilesAreKept'
  <2>1. Acknowledged' /\ \A d \in Root : claim'[d] \in {None, claim[d]}
    BY <1>6 DEF ClearOld, WriteMark, diskVars, historyVars, Acknowledged
  <2>2. \A s \in Reqs : pc'[s] = "admitted" =>
          pc[s] = "admitted" /\ dir'[s] = dir[s] /\ decl'[s] = decl[s] /\ (s \in files' => s \in files)
    BY <1>6 DEF ClearOld, Goto, Located, TypeOK, Actors
  <2> QED
    BY <2>1, <2>2, KeptIfQuiet
<1>7. ASSUME NEW r \in Reqs, Enter(r) PROVE Acknowledged' /\ OwnedFilesAreKept'
  <2>1. Acknowledged'
    BY <1>7 DEF Enter, diskVars, Acknowledged
  <2>2. \A s \in Reqs : pc'[s] = "admitted" =>
          pc[s] = "admitted" /\ dir'[s] = dir[s] /\ decl'[s] = decl[s] /\ (s \in files' => s \in files)
    BY <1>7 DEF Enter, Goto, Located, TypeOK, Actors
  <2>3. \A s \in Reqs : pc[s] = "admitted" => dir[s] # dir[r]
    BY <1>7 DEF Enter, Locked, Holding
  <2>4. \A s \in Reqs : pc'[s] = "admitted" /\ dir[s] \in Root => claim'[dir[s]] \in {None, claim[dir[s]]}
    BY <1>7, <2>2, <2>3 DEF Enter
  <2> QED
    BY <2>1, <2>2, <2>4, KeptIfQuiet
<1>8. ASSUME NEW r \in Reqs, NEW p \in Names, Deregister(r, p)
      PROVE Acknowledged' /\ OwnedFilesAreKept'
  BY <1>8 DEF Deregister, Goto, Located, TypeOK, Actors, diskVars, historyVars, Acknowledged,
        OwnedFilesAreKept
<1>9. ASSUME NEW a \in Actors, Collect(a) PROVE Acknowledged' /\ OwnedFilesAreKept'
  BY <1>9 DEF Collect, Goto, Located, TypeOK, Actors, diskVars, historyVars, Acknowledged,
        OwnedFilesAreKept
<1>10. ASSUME NEW a \in Actors, Save(a) PROVE Acknowledged' /\ OwnedFilesAreKept'
  <2>1. UNCHANGED <<mark, claim>>
    BY <1>10 DEF Save, diskVars, historyVars
  <2>2. \A s \in Reqs : pc'[s] = "admitted" =>
          pc[s] = "admitted" /\ dir'[s] = dir[s] /\ decl'[s] = decl[s] /\ (s \in files' => s \in files)
    <3>1. CASE a \in Reqs
      BY <1>10, <3>1, LeaveLocated DEF Save, Answer
    <3>2. CASE a \notin Reqs
      BY <1>10, <3>2 DEF Save, Answer, Goto, Located, TypeOK, Actors
    <3> QED
      BY <3>1, <3>2
  <2> QED
    BY <2>1, <2>2, KeptIfQuiet DEF Acknowledged
<1>11. CASE AdoptRead \/ AdoptInsert
  BY <1>11, ActorAssumption DEF AdoptRead, AdoptInsert, Goto, Located, TypeOK, Actors, diskVars,
        historyVars, Acknowledged, OwnedFilesAreKept
<1>12. CASE Restart
  <2>1. Acknowledged'
    <3>1. PICK failed \in SUBSET {saved[p].dir : p \in {q \in Names : ToMigrate(q)}},
               m \in [Root -> Tools \cup {None, Unknown}] :
            /\ \A d \in Root :
                 IF \E p \in Names : ToMigrate(p) /\ saved[p].dir = d /\ d \notin failed
                 THEN \E p \in Names : ToMigrate(p) /\ saved[p].dir = d /\ m[d] = saved[p].owner
                 ELSE m[d] = mark[d]
            /\ mark' = m
            /\ claim' = [d \in Root |-> IF mark[d] = None THEN m[d] ELSE claim[d]]
      BY <1>12 DEF Restart
    <3> QED
      BY <3>1 DEF ToMigrate, Acknowledged
  <2>2. OwnedFilesAreKept'
    BY <1>12 DEF Restart, OwnedFilesAreKept, Actors
  <2> QED
    BY <2>1, <2>2
<1>13. CASE LoseFile \/ UNCHANGED vars
  BY <1>13 DEF LoseFile, vars, diskVars, requestVars, historyVars, Acknowledged, OwnedFilesAreKept
<1> QED
  BY <1>1, <1>2, <1>3, <1>4, <1>5, <1>6, <1>7, <1>8, <1>9, <1>10, <1>11, <1>12, <1>13, Steps

(* Files whose owner was acknowledged are written only by a request that   *)
(* names that owner.                                                       *)
THEOREM OwnedFilesKept == Spec => []OwnedFilesAreKept
<1>1. Init => Claimed
  BY OwnerAssumption DEF Init, Claimed, Acknowledged, OwnedFilesAreKept
<1>2. Claimed => OwnedFilesAreKept
  BY DEF Claimed
<1> QED
  BY <1>1, <1>2, ClaimedNext, LocatedHolds, LockedHolds, PTL DEF Spec

-----------------------------------------------------------------------------
(* Entries and directories.                                                *)

(* A step that changes no entry and no mark and takes no request from      *)
(* between its two writes leaves the entries backed.                       *)
LEMMA BackedIfQuiet ==
  ASSUME Backed, UNCHANGED <<index, mark, unbacked>>,
         \A r \in Reqs : /\ pc'[r] \in Recorded <=> pc[r] \in Recorded
                         /\ pc[r] \in Recorded => /\ name'[r] = name[r] /\ dir'[r] = dir[r]
                                                  /\ own'[r] = own[r]
  PROVE  Backed'
<1>1. Written'
  BY DEF Backed, Written
<1>2. \A p \in Names : Agreed(p)'
  BY DEF Backed, Agreed
<1> QED
  BY <1>1, <1>2 DEF Backed

(* The same for an answer to a request that has not begun to write.        *)
LEMMA LeaveBacked ==
  ASSUME Located, Backed, UNCHANGED <<index, mark, unbacked>>,
         NEW r \in Reqs, Leave(r), pc[r] \notin Recorded
  PROVE  Backed'
<1>1. \A s \in Reqs : /\ pc'[s] \in Recorded <=> pc[s] \in Recorded
                      /\ pc[s] \in Recorded => /\ name'[s] = name[s] /\ dir'[s] = dir[s]
                                               /\ own'[s] = own[s]
  BY LeaveLocated DEF Recorded
<1> QED
  BY <1>1, BackedIfQuiet

(* Every step keeps the entries and the marks together, but for a request  *)
(* between its two writes and the directories set aside.                   *)
LEMMA BackedNext == Located /\ Locked /\ Backed /\ [Next]_vars => Backed'
<1> SUFFICES ASSUME Located, Locked, Backed, [Next]_vars PROVE Backed'
  OBVIOUS
<1> USE ActorAssumption
<1>1. CASE Arriving
  BY <1>1, BackedIfQuiet DEF Arriving, ArriveRegister, ArriveCopy, Arrives, Goto, Located, TypeOK,
        Actors, Recorded, diskVars, historyVars
<1>2. CASE Leaving
  <2>1. \E r \in Reqs : Leave(r) /\ pc[r] \notin Recorded
    BY <1>2 DEF Leaving, Busy, Refuse, RecordFails, Recorded
  <2>2. UNCHANGED <<index, mark, unbacked>>
    BY <1>2 DEF Leaving, Busy, Refuse, RecordFails, diskVars, historyVars
  <2> QED
    BY <2>1, <2>2, LeaveBacked
<1>3. CASE Hosting
  BY <1>3, BackedIfQuiet DEF Hosting, Garble, Mend, requestVars, historyVars
<1>4. ASSUME NEW r \in Reqs, Admit(r) PROVE Backed'
  BY <1>4, BackedIfQuiet DEF Admit, Goto, Located, TypeOK, Actors, Recorded, diskVars, historyVars
<1>5. ASSUME NEW r \in Reqs, Record(r) PROVE Backed'
  <2>1. /\ \A s \in Reqs \ {r} : pc'[s] = pc[s]
        /\ pc'[r] \in Recorded
        /\ UNCHANGED <<index, name, dir, own>>
    BY <1>5 DEF Record, Goto, Located, TypeOK, Actors, Recorded
  <2>2. \A s \in Reqs \ {r} : pc[s] \in Recorded => dir[s] # dir[r]
    BY <1>5 DEF Record, Locked, Holding, Recorded
  <2>3. /\ \A d \in Root \ {dir[r]} : mark'[d] = mark[d] /\ (d \in unbacked' <=> d \in unbacked)
        /\ dir[r] \in Root => mark'[dir[r]] = own[r]
        /\ Taken(dir[r], name[r]) /\ dir[r] \in Root => dir[r] \in unbacked'
    BY <1>5 DEF Record, WriteMark
  <2>4. Written'
    BY <2>1, <2>2, <2>3 DEF Backed, Written
  <2>5. ASSUME NEW p \in Names PROVE Agreed(p)'
    <3>1. CASE p = name[r]
      BY <2>1, <3>1 DEF Agreed
    <3>2. CASE p # name[r] /\ index[p] # None /\ index[p].dir = dir[r]
      BY <2>1, <2>3, <3>2 DEF Agreed, Taken
    <3>3. CASE p # name[r] /\ index[p] # None /\ index[p].dir # dir[r]
      BY <2>1, <2>3, <3>3 DEF Agreed, Backed
    <3> QED
      BY <2>1, <3>1, <3>2, <3>3 DEF Agreed
  <2> QED
    BY <2>4, <2>5 DEF Backed
<1>6. ASSUME NEW r \in Reqs, ClearOld(r) PROVE Backed'
  <2>1. /\ \A s \in Reqs : pc'[s] \in Recorded <=> pc[s] \in Recorded
        /\ UNCHANGED <<index, name, dir, own>>
        /\ pc[r] \in Recorded
    BY <1>6 DEF ClearOld, Goto, Located, TypeOK, Actors, Recorded
  <2>2. CASE UNCHANGED <<mark, unbacked>>
    BY <2>1, <2>2, BackedIfQuiet
  <2>3. CASE /\ WriteMark(old[r], None)
             /\ unbacked' = IF TakenOver(old[r], name[r]) THEN unbacked \cup ({old[r]} \cap Root)
                            ELSE unbacked
    <3>1. /\ \A d \in Root \ {old[r]} : mark'[d] = mark[d] /\ (d \in unbacked' <=> d \in unbacked)
          /\ TakenOver(old[r], name[r]) /\ old[r] \in Root => old[r] \in unbacked'
      BY <2>3 DEF WriteMark
    <3>2. \A s \in Reqs : pc[s] \in Recorded /\ dir[s] = old[r] => TakenOver(old[r], name[r])
      BY DEF TakenOver, Locked, Holding, Recorded
    <3>3. Written'
      BY <2>1, <3>1, <3>2 DEF Backed, Written
    <3>4. ASSUME NEW p \in Names PROVE Agreed(p)'
      <4>1. CASE p = name[r]
        BY <2>1, <4>1 DEF Agreed
      <4>2. CASE p # name[r] /\ index[p] # None /\ index[p].dir = old[r]
        BY <2>1, <3>1, <4>2 DEF Agreed, TakenOver, Taken
      <4>3. CASE p # name[r] /\ index[p] # None /\ index[p].dir # old[r]
        BY <2>1, <3>1, <4>3 DEF Agreed, Backed
      <4> QED
        BY <2>1, <4>1, <4>2, <4>3 DEF Agreed
    <3> QED
      BY <3>3, <3>4 DEF Backed
  <2> QED
    BY <1>6, <2>2, <2>3 DEF ClearOld, diskVars, historyVars
<1>7. ASSUME NEW r \in Reqs, Enter(r) PROVE Backed'
  <2>1. /\ \A s \in Reqs \ {r} : pc'[s] = pc[s]
        /\ pc[r] \in Recorded /\ pc'[r] \notin Recorded
        /\ UNCHANGED <<mark, unbacked, name, dir, own>>
    BY <1>7 DEF Enter, Goto, Located, TypeOK, Actors, Recorded, diskVars
  <2>2. Written'
    BY <2>1 DEF Backed, Written
  <2>3. ASSUME NEW p \in Names PROVE Agreed(p)'
    <3>1. CASE p = name[r]
      <4>1. index'[p] = [dir |-> dir[r], owner |-> own[r]]
        BY <1>7, <3>1 DEF Enter, Located, TypeOK
      <4> QED
        BY <2>1, <4>1 DEF Agreed, Backed, Written
    <3>2. CASE p # name[r]
      <4>1. index'[p] = index[p]
        BY <1>7, <3>2 DEF Enter, Located, TypeOK
      <4> QED
        BY <2>1, <3>2, <4>1 DEF Agreed, Backed
    <3> QED
      BY <3>1, <3>2
  <2> QED
    BY <2>2, <2>3 DEF Backed
<1>8. ASSUME NEW r \in Reqs, NEW p \in Names, Deregister(r, p) PROVE Backed'
  <2>1. /\ \A s \in Reqs : pc'[s] \in Recorded <=> pc[s] \in Recorded
        /\ \A s \in Reqs : pc[s] \in Recorded => name'[s] = name[s]
        /\ UNCHANGED <<mark, unbacked, dir, own>>
        /\ \A q \in Names : index'[q] \in {index[q], None}
    BY <1>8 DEF Deregister, Arrives, Goto, Located, TypeOK, Actors, Recorded, diskVars, historyVars
  <2>2. Written'
    BY <2>1 DEF Backed, Written
  <2>3. \A q \in Names : Agreed(q)'
    BY <2>1 DEF Backed, Agreed
  <2> QED
    BY <2>2, <2>3 DEF Backed
<1>9. ASSUME NEW a \in Actors, Collect(a) PROVE Backed'
  BY <1>9, BackedIfQuiet DEF Collect, Goto, Located, TypeOK, Actors, Recorded, diskVars, historyVars
<1>10. ASSUME NEW a \in Actors, Save(a) PROVE Backed'
  <2>1. UNCHANGED <<index, mark, unbacked>> /\ pc[a] \notin Recorded
    BY <1>10 DEF Save, diskVars, historyVars, Recorded
  <2>2. CASE a \in Reqs
    BY <1>10, <2>1, <2>2, LeaveBacked DEF Save, Answer
  <2>3. CASE a \notin Reqs
    BY <1>10, <2>1, <2>3, BackedIfQuiet DEF Save, Answer, Goto, Located, TypeOK, Actors
  <2> QED
    BY <2>2, <2>3
<1>11. CASE AdoptRead
  BY <1>11, BackedIfQuiet DEF AdoptRead, Goto, Located, TypeOK, Actors, Recorded, diskVars, historyVars
<1>12. CASE AdoptInsert
  <2>1. /\ \A s \in Reqs : pc'[s] = pc[s]
        /\ UNCHANGED <<mark, name, dir, own>>
        /\ unbacked \subseteq unbacked'
    BY <1>12 DEF AdoptInsert, Goto, Located, TypeOK, Actors, diskVars
  <2>2. Written'
    BY <2>1 DEF Backed, Written
  <2>3. ASSUME NEW p \in Names PROVE Agreed(p)'
    <3>1. CASE found[p] # None /\ index[p] = None
      BY <1>12, <2>1, <3>1 DEF AdoptInsert, Agreed
    <3>2. CASE index'[p] = index[p]
      BY <2>1, <3>2 DEF Agreed, Backed
    <3> QED
      BY <1>12, <3>1, <3>2 DEF AdoptInsert
  <2> QED
    BY <2>2, <2>3 DEF Backed
<1>13. CASE Restart
  <2>1. Written'
    BY <1>13 DEF Restart, Written, Recorded, Actors
  <2>2. PICK failed \in SUBSET {saved[p].dir : p \in {q \in Names : ToMigrate(q)}},
             m \in [Root -> Tools \cup {None, Unknown}] :
          /\ \A d \in Root :
               IF \E p \in Names : ToMigrate(p) /\ saved[p].dir = d /\ d \notin failed
               THEN \E p \in Names : ToMigrate(p) /\ saved[p].dir = d /\ m[d] = saved[p].owner
               ELSE m[d] = mark[d]
          /\ mark' = m
          /\ index' \in {f \in [Names -> Entries \cup {None}] : \A p \in Names : f[p] \in Settled(p, m)}
          /\ unbacked' = failed \cup garbled \cup Shared
    BY <1>13 DEF Restart
  <2>3. ASSUME NEW p \in Names, index'[p] # None, index'[p].dir \in Root \ unbacked'
        PROVE  mark'[index'[p].dir] = index'[p].owner
    <3> DEFINE d == saved[p].dir
               os == IF mark[d] # None THEN {mark[d]}
                     ELSE {saved[p].owner, m[d]} \ (IF saved[p].owner # None THEN {None} ELSE {})
    <3>1. index'[p] \in Settled(p, m)
      BY <2>2
    <3>2. saved[p] # None /\ d \in Root \ garbled
      BY <2>2, <2>3, <3>1 DEF Settled
    <3>3. index'[p] \in {[saved[p] EXCEPT !.owner = o] : o \in os}
      BY <3>1, <3>2, Zenon DEF Settled
    <3>4. PICK o \in os : index'[p] = [saved[p] EXCEPT !.owner = o]
      BY <3>3, Zenon
    <3>5. index'[p].owner = o /\ index'[p].dir = d
      <4>1. saved[p] \in [dir : Dirs, owner : Tools \cup {None, Unknown}]
        BY <3>2 DEF Located, TypeOK, Entries
      <4> HIDE DEF os
      <4> QED
        BY <3>4, <4>1
    <3>6. d \in Root /\ d \notin failed /\ d \notin garbled /\ d \notin Shared
      BY <2>2, <2>3, <3>5
    <3>7. \A q \in Names : saved[q] # None /\ saved[q].dir = d => q = p
      BY <3>2, <3>6 DEF Shared
    <3>8. o = m[d]
      <4>1. CASE mark[d] # None
        BY <2>2, <3>6, <4>1 DEF ToMigrate
      <4>2. CASE mark[d] = None /\ saved[p].owner # None
        <5>1. ToMigrate(p)
          BY <3>2, <4>2 DEF ToMigrate
        <5>2. m[d] = saved[p].owner
          BY <2>2, <3>6, <3>7, <5>1 DEF ToMigrate
        <5> QED
          BY <4>2, <5>2
      <4>3. CASE mark[d] = None /\ saved[p].owner = None
        <5>1. m[d] = mark[d]
          BY <2>2, <3>6, <3>7, <4>3 DEF ToMigrate
        <5> QED
          BY <4>3, <5>1
      <4> QED
        BY <4>1, <4>2, <4>3
    <3> QED
      BY <2>2, <3>5, <3>8
  <2>4. \A p \in Names : Agreed(p)'
    BY <2>3 DEF Agreed
  <2> QED
    BY <2>1, <2>4 DEF Backed
<1>14. CASE LoseFile \/ UNCHANGED vars
  BY <1>14, BackedIfQuiet DEF LoseFile, vars, diskVars, requestVars, historyVars
<1> QED
  BY <1>1, <1>2, <1>3, <1>4, <1>5, <1>6, <1>7, <1>8, <1>9, <1>10, <1>11, <1>12, <1>13, <1>14, Steps

(* When nothing is under way an entry's owner is its directory's, but for  *)
(* the directories a fault or a race has set aside.                        *)
THEOREM OwnersRecorded == Spec => []OwnersAreRecorded
<1>1. Init => Backed
  BY DEF Init, Backed, Written, Agreed, Recorded, Actors
<1>2. Backed => OwnersAreRecorded
  BY DEF Backed, Agreed, OwnersAreRecorded, Recorded, Actors
<1> QED
  BY <1>1, <1>2, BackedNext, LocatedHolds, LockedHolds, PTL DEF Spec

-----------------------------------------------------------------------------
(* projects.json.                                                          *)

(* A step that changes neither the index nor the file, and moves nobody    *)
(* into or out of a change that is to be saved.                            *)
LEMMA SavedIfQuiet ==
  ASSUME Saved, UNCHANGED <<index, saved, lapsed, saver, image>>,
         \A a \in Actors : /\ pc'[a] = "collected" <=> pc[a] = "collected"
                           /\ pc'[a] = "entered" <=> pc[a] = "entered"
  PROVE  Saved'
  BY DEF Saved, NobodyWillSave, SavedIsNewest

(* A change of the index that its maker is about to save.                  *)
LEMMA SavedIfEntered ==
  ASSUME Saved, UNCHANGED <<saver, image>>, NEW b \in Actors, pc'[b] = "entered",
         \A a \in Actors : pc'[a] = "collected" => pc[a] = "collected"
  PROVE  Saved'
  BY DEF Saved, NobodyWillSave, SavedIsNewest

(* Whoever writes projects.json writes the newest index, or somebody who   *)
(* has changed it since is going to write it again.                        *)
LEMMA SavedNext == Located /\ Saved /\ [Next]_vars => Saved'
<1> SUFFICES ASSUME Located, Saved, [Next]_vars PROVE Saved'
  OBVIOUS
<1> USE ActorAssumption
<1>1. CASE Arriving
  BY <1>1, SavedIfQuiet DEF Arriving, ArriveRegister, ArriveCopy, Arrives, Goto, Located, TypeOK,
        Actors, saveVars
<1>2. CASE Leaving
  BY <1>2, SavedIfQuiet DEF Leaving, Busy, Refuse, RecordFails, Leave, Goto, Located, TypeOK, Actors,
        saveVars
<1>3. CASE Hosting
  BY <1>3, SavedIfQuiet DEF Hosting, Garble, Mend, requestVars, saveVars
<1>4. ASSUME NEW r \in Reqs, Admit(r) \/ Record(r) \/ ClearOld(r) PROVE Saved'
  BY <1>4, SavedIfQuiet DEF Admit, Record, ClearOld, Goto, Located, TypeOK, Actors, saveVars
<1>5. ASSUME NEW r \in Reqs, Enter(r) PROVE Saved'
  BY <1>5, SavedIfEntered DEF Enter, Goto, Located, TypeOK, Actors, saveVars
<1>6. ASSUME NEW r \in Reqs, NEW p \in Names, Deregister(r, p) PROVE Saved'
  BY <1>6, SavedIfEntered DEF Deregister, Arrives, Goto, Located, TypeOK, Actors, saveVars
<1>7. ASSUME NEW a \in Actors, Collect(a) PROVE Saved'
  <2>1. /\ pc'[a] = "collected" /\ \A b \in Actors \ {a} : pc'[b] = pc[b]
        /\ image'[a] = index /\ UNCHANGED index
        /\ saver = None /\ saver' = a
    BY <1>7 DEF Collect, MayPersist, Goto, Located, TypeOK
  <2>2. \A b \in Actors : pc[b] # "collected"
    BY <2>1 DEF Saved, Actors
  <2> QED
    BY <2>1, <2>2 DEF Saved, NobodyWillSave, SavedIsNewest
<1>8. ASSUME NEW a \in Actors, Save(a) PROVE Saved'
  <2>1. /\ pc[a] = "collected" /\ pc'[a] \in {"idle", "ended"}
        /\ \A b \in Actors \ {a} : pc'[b] = pc[b]
        /\ UNCHANGED index
        /\ saved' = image[a] \/ lapsed'
    BY <1>8 DEF Save, Answer, Leave, Goto, Located, TypeOK
  <2>2. \A b \in Actors : pc'[b] # "collected"
    BY <2>1 DEF Saved
  <2>3. NobodyWillSave' => NobodyWillSave
    BY <2>1 DEF NobodyWillSave
  <2> QED
    BY <2>1, <2>2, <2>3 DEF Saved, NobodyWillSave, SavedIsNewest
<1>9. CASE AdoptRead
  BY <1>9, SavedIfQuiet DEF AdoptRead, Goto, Located, TypeOK, Actors, saveVars
<1>10. CASE AdoptInsert
  <2> DEFINE new == {p \in Names : found[p] # None /\ index[p] = None}
  <2>1. CASE new = {}
    <3>1. UNCHANGED index
      BY <1>10, <2>1 DEF AdoptInsert, Located, TypeOK
    <3> QED
      BY <1>10, <2>1, <3>1, SavedIfQuiet DEF AdoptInsert, Goto, Located, TypeOK, Actors, saveVars
  <2>2. CASE new # {}
    BY <1>10, <2>2, SavedIfEntered DEF AdoptInsert, Goto, Located, TypeOK, Actors, saveVars
  <2> QED
    BY <2>1, <2>2
<1>11. CASE Restart
  <2>1. saved' = index' \/ lapsed'
    BY <1>11 DEF Restart
  <2>2. \A a \in Actors : pc'[a] = "idle"
    BY <1>11 DEF Restart
  <2> QED
    BY <2>1, <2>2 DEF Saved, SavedIsNewest
<1>12. CASE LoseFile
  BY <1>12 DEF LoseFile, requestVars, Saved, NobodyWillSave, SavedIsNewest
<1>13. CASE UNCHANGED vars
  BY <1>13, SavedIfQuiet DEF vars, requestVars, saveVars
<1> QED
  BY <1>1, <1>2, <1>3, <1>4, <1>5, <1>6, <1>7, <1>8, <1>9, <1>10, <1>11, <1>12, <1>13, Steps

(* projects.json never goes back to an older index.                        *)
THEOREM NewestSaved == Spec => []SavedIsNewest
<1>1. Init => Saved
  BY DEF Init, Saved, SavedIsNewest
<1>2. Saved => SavedIsNewest
  BY DEF Saved
<1> QED
  BY <1>1, <1>2, SavedNext, LocatedHolds, PTL DEF Spec

=============================================================================
