------------------------- MODULE ProjectLockProofs -------------------------
(***************************************************************************)
(* ProjectLock is correct for any finite set of processes and any sets of  *)
(* keys and lock objects.  Mutual exclusion rests on the exactness of the  *)
(* reference counts: drop may forget a key's lock object only when no      *)
(* process uses it, and that is what "refs = 0" must mean.  IInv says so,  *)
(* adds that all users of a key use the map's object, and that the object  *)
(* is used for one key only and has at most one token.                     *)
(***************************************************************************)
EXTENDS ProjectLock, FiniteSetTheorems, TLAPS

(* A process points to a lock object from GetOrCreate until it is idle, to *)
(* the map's object for its key while its reference counts.                *)
PointersOK ==
  /\ \A p \in Procs : /\ pc[p] = "idle" => pl[p] = NoLock
                      /\ pc[p] # "idle" => pl[p] \in Locks /\ key[p] \in Keys
                      /\ pc[p] \notin {"idle", "done"} => locks[key[p]] = pl[p]
                      /\ pc[p] \in {"cleared", "drained", "done"} => released[p]
  /\ \A j, k \in Keys : locks[j] # NoLock /\ locks[j] = locks[k] => j = k

CountsOK ==
  /\ \A l \in Locks : refs[l] = Cardinality(Users(l))
  /\ \A k \in Keys, l \in Locks : locks[k] = l => Users(l) # {}

SlotOK ==
  \A l \in Locks :
    /\ slot[l] <=> Occupants(l) # {}
    /\ \A p, q \in Occupants(l) : p = q

IInv == TypeOK /\ PointersOK /\ CountsOK /\ SlotOK /\ HolderIsTrue

USE ProcsAssumption, KeysAssumption, LocksAssumption

-----------------------------------------------------------------------------
(* A set of processes is finite, so its cardinality is a natural number    *)
(* and counts one more or one less when a process joins or leaves.         *)
LEMMA ProcSets ==
  ASSUME NEW S \in SUBSET Procs, NEW p \in Procs
  PROVE  /\ Cardinality(S) \in Nat
         /\ Cardinality(S) = 0 <=> S = {}
         /\ p \notin S => Cardinality(S \cup {p}) = Cardinality(S) + 1
         /\ p \in S => Cardinality(S \ {p}) = Cardinality(S) - 1
<1>1. IsFiniteSet(S)
  BY FS_Subset
<1>2. QED
  BY <1>1, FS_CardinalityType, FS_EmptySet, FS_AddElement, FS_RemoveElement

(* With no process in acquire the lock map is empty, so IInv holds.        *)
LEMMA InitIInv == Init => IInv
<1> SUFFICES ASSUME Init PROVE IInv
  OBVIOUS
<1> USE DEF Init
<1>1. TypeOK
  BY DEF TypeOK, Stages
<1>2. PointersOK
  BY DEF PointersOK
<1>3. \A l \in Locks : Users(l) = {} /\ Occupants(l) = {}
  BY DEF Users, Occupants
<1>4. CountsOK
  BY <1>3, FS_EmptySet DEF CountsOK
<1>5. SlotOK
  BY <1>3 DEF SlotOK
<1>6. HolderIsTrue
  BY DEF HolderIsTrue
<1>7. QED
  BY <1>1, <1>2, <1>4, <1>5, <1>6 DEF IInv

(* Every step keeps every variable in its type. *)
LEMMA TypeStep ==
  ASSUME IInv, [Next]_vars
  PROVE  TypeOK'
<1> USE DEF IInv, TypeOK, Stages
<1>1. ASSUME NEW p \in Procs, NEW k \in Keys, GetOrCreate(p, k)
      PROVE  TypeOK'
  <2>1. PICK l \in Locks : GetOrCreate(p, k)!2!(l)
    BY <1>1 DEF GetOrCreate
  <2>2. locks' \in [Keys -> Locks \cup {NoLock}] /\ refs' \in [Locks -> Nat]
    BY <2>1 DEF Counted
  <2>3. slot' \in [Locks -> BOOLEAN] /\ holder' \in [Locks -> Procs \cup {NoOne}]
    BY <2>1
  <2>4. pl' \in [Procs -> Locks \cup {NoLock}]
    BY <2>1
  <2>5. QED
    BY <1>1, <2>2, <2>3, <2>4 DEF GetOrCreate
<1>2. ASSUME NEW p \in Procs, GiveUp(p)
      PROVE  TypeOK'
  BY <1>2 DEF GiveUp
<1>3. ASSUME NEW p \in Procs, TrySlot(p) \/ TakeFreed(p)
      PROVE  TypeOK'
  BY <1>3 DEF TrySlot, TakeFreed, Send
<1>4. ASSUME NEW p \in Procs, SlotFull(p) \/ Enqueue(p)
      PROVE  TypeOK'
  BY <1>4 DEF SlotFull, Enqueue, Queue
<1>5. ASSUME NEW p \in Procs, SetHolder(p) \/ ClearHolder(p)
      PROVE  TypeOK'
  <2>1. holder' \in [Locks -> Procs \cup {NoOne}]
    BY <1>5 DEF SetHolder, ClearHolder, Unsigned
  <2>2. QED
    BY <1>5, <2>1 DEF SetHolder, ClearHolder
<1>6. ASSUME NEW p \in Procs, Drain(p)
      PROVE  TypeOK'
  <2>1. pc' \in [Procs -> Stages]
    BY <1>6 DEF Drain, Queue
  <2>2. slot' \in [Locks -> BOOLEAN]
    BY <1>6 DEF Drain
  <2>3. ahead' \in [Procs -> SUBSET Procs]
    <3>1. CASE UNCHANGED ahead
      BY <3>1
    <3>2. CASE \E q \in Procs : ahead' = [r \in Procs |-> ahead[r] \ {q}]
      BY <3>2
    <3>3. QED
      BY <1>6, <3>1, <3>2 DEF Drain, Queue
  <2>4. QED
    BY <1>6, <2>1, <2>2, <2>3 DEF Drain
<1>7. ASSUME NEW p \in Procs, Drop(p)
      PROVE  TypeOK'
  <2>1. pl[p] \in Locks /\ p \in Users(pl[p])
    BY <1>7 DEF Drop, PointersOK, Users
  <2>2. refs[pl[p]] \in Nat /\ refs[pl[p]] # 0
    BY <2>1, ProcSets DEF CountsOK, Users
  <2>3. refs' \in [Locks -> Nat]
    BY <1>7, <2>1, <2>2 DEF Drop
  <2>4. QED
    BY <1>7, <2>3 DEF Drop
<1>8. ASSUME NEW p \in Procs, ReleaseAgain(p)
      PROVE  TypeOK'
  BY <1>8 DEF ReleaseAgain
<1>9. CASE UNCHANGED vars
  BY <1>9 DEF vars
<1>10. QED
  BY <1>1, <1>2, <1>3, <1>4, <1>5, <1>6, <1>7, <1>8, <1>9 DEF Next, Step

-----------------------------------------------------------------------------
(* How the steps change the sets of users and occupants: GetOrCreate adds  *)
(* the caller to the users of one object, Drop takes it away, sending adds *)
(* a token, and every other step leaves all of these sets as they are.     *)
LEMMA GetOrCreateEffect ==
  ASSUME IInv, NEW p \in Procs, NEW k \in Keys, NEW l \in Locks,
         GetOrCreate(p, k)!2!(l), GetOrCreate(p, k)
  PROVE  /\ p \notin Users(l)
         /\ Users(l)' = Users(l) \cup {p}
         /\ \A m \in Locks \ {l} : Users(m)' = Users(m)
         /\ \A m \in Locks : Occupants(m)' = Occupants(m)
<1> USE DEF IInv, TypeOK, PointersOK, GetOrCreate
<1>1. pc[p] = "idle" /\ pl[p] = NoLock
  OBVIOUS
<1>2. pl'[p] = l /\ pc'[p] = "counted"
  OBVIOUS
<1>3. \A q \in Procs \ {p} : pl'[q] = pl[q] /\ pc'[q] = pc[q]
  OBVIOUS
<1>4. QED
  BY <1>1, <1>2, <1>3 DEF Users, Occupants

(* Sending puts the sender among the occupants of its slot.                *)
LEMMA SendEffect ==
  ASSUME IInv, NEW p \in Procs, Send(p), pc[p] \in {"counted", "blocked"}
  PROVE  /\ pl[p] \in Locks
         /\ Occupants(pl[p]) = {} /\ Occupants(pl[p])' = {p}
         /\ \A m \in Locks : Users(m)' = Users(m)
         /\ \A m \in Locks \ {pl[p]} : Occupants(m)' = Occupants(m)
<1> USE DEF IInv, TypeOK, Send
<1>1. pl[p] \in Locks /\ pl' = pl
  BY DEF PointersOK
<1>2. Occupants(pl[p]) = {}
  BY <1>1 DEF SlotOK
<1>3. pc'[p] = "token" /\ \A q \in Procs \ {p} : pc'[q] = pc[q]
  OBVIOUS
<1>4. QED
  BY <1>1, <1>2, <1>3 DEF Users, Occupants

(* The receive takes the releaser out of the slot; the token of a queued   *)
(* sender, if there is one, takes its place.                               *)
LEMMA DrainEffect ==
  ASSUME IInv, NEW p \in Procs, Drain(p)
  PROVE  /\ pl[p] \in Locks
         /\ Occupants(pl[p]) = {p}
         /\ \/ Occupants(pl[p])' = {} /\ ~slot'[pl[p]]
            \/ \E q \in Procs : Occupants(pl[p])' = {q} /\ slot'[pl[p]]
         /\ \A m \in Locks : Users(m)' = Users(m)
         /\ \A m \in Locks \ {pl[p]} : /\ Occupants(m)' = Occupants(m)
                                       /\ slot'[m] = slot[m]
<1> USE DEF IInv, TypeOK, Drain
<1>1. pl[p] \in Locks /\ pl' = pl /\ pc[p] = "cleared"
  BY DEF PointersOK
<1>2. Occupants(pl[p]) = {p}
  BY <1>1 DEF SlotOK, Occupants
<1>3. CASE /\ slot' = [slot EXCEPT ![pl[p]] = FALSE]
           /\ pc' = [pc EXCEPT ![p] = "drained"]
  <2>1. pc'[p] = "drained" /\ \A q \in Procs \ {p} : pc'[q] = pc[q]
    BY <1>3
  <2>2. Occupants(pl[p])' = {}
    BY <1>1, <1>2, <2>1 DEF Occupants
  <2>3. QED
    BY <1>1, <1>2, <1>3, <2>1, <2>2 DEF Users, Occupants
<1>4. ASSUME NEW q \in Queue(pl[p]),
             pc' = [pc EXCEPT ![p] = "drained", ![q] = "token"],
             slot' = slot
      PROVE  /\ Occupants(pl[p])' = {q} /\ slot'[pl[p]]
             /\ \A m \in Locks : Users(m)' = Users(m)
             /\ \A m \in Locks \ {pl[p]} : Occupants(m)' = Occupants(m)
  <2>1. q \in Procs /\ pl[q] = pl[p] /\ pc[q] = "queued" /\ q # p
    BY <1>1, <1>4 DEF Queue
  <2>2. /\ pc'[p] = "drained" /\ pc'[q] = "token"
        /\ \A r \in Procs \ {p, q} : pc'[r] = pc[r]
    BY <1>4, <2>1
  <2>3. QED
    BY <1>1, <1>2, <1>4, <2>1, <2>2 DEF Users, Occupants
<1>5. QED
  BY <1>1, <1>2, <1>3, <1>4 DEF Queue

(* drop takes the caller out of the users of its object, and only of its.  *)
LEMMA DropEffect ==
  ASSUME IInv, NEW p \in Procs, Drop(p), NEW l \in Locks, l = pl[p]
  PROVE  /\ key[p] \in Keys /\ locks[key[p]] = l
         /\ p \in Users(l)
         /\ Users(l)' = Users(l) \ {p}
         /\ \A m \in Locks \ {l} : Users(m)' = Users(m)
         /\ \A m \in Locks : Occupants(m)' = Occupants(m)
<1> USE DEF IInv, TypeOK, Drop
<1>1. key[p] \in Keys /\ locks[key[p]] = l
  BY DEF PointersOK
<1>2. p \in Users(l)
  BY DEF Users
<1>3. pc'[p] = "done" \/ pl'[p] = NoLock
  OBVIOUS
<1>4. pc'[p] \in {"done", "idle"}
  OBVIOUS
<1>5. \A q \in Procs \ {p} : pl'[q] = pl[q] /\ pc'[q] = pc[q]
  OBVIOUS
<1>6. Users(l)' = Users(l) \ {p}
  BY <1>3, <1>4, <1>5 DEF Users
<1>7. ASSUME NEW m \in Locks \ {l}
      PROVE  Users(m)' = Users(m)
  BY <1>3, <1>5 DEF Users
<1>8. ASSUME NEW m \in Locks
      PROVE  Occupants(m)' = Occupants(m)
  BY <1>4, <1>5 DEF Occupants
<1>9. QED
  BY <1>1, <1>2, <1>6, <1>7, <1>8

(* The steps that neither count nor touch a slot change no users and no    *)
(* occupants.                                                              *)
LEMMA QuietEffect ==
  ASSUME IInv, NEW p \in Procs,
         \/ GiveUp(p) \/ SlotFull(p) \/ Enqueue(p)
         \/ SetHolder(p) \/ ClearHolder(p) \/ ReleaseAgain(p)
  PROVE  /\ locks' = locks /\ refs' = refs /\ slot' = slot
         /\ \A m \in Locks : Users(m)' = Users(m)
         /\ \A m \in Locks : Occupants(m)' = Occupants(m)
<1> USE DEF IInv, TypeOK
<1>1. CASE GiveUp(p) \/ SlotFull(p) \/ Enqueue(p)
  <2>1. pc'[p] \in {"gaveup", "blocked", "queued"} /\ pl' = pl
    BY <1>1 DEF GiveUp, SlotFull, Enqueue
  <2>2. pc[p] \in {"blocked", "queued", "counted"}
    BY <1>1 DEF GiveUp, SlotFull, Enqueue
  <2>3. \A q \in Procs \ {p} : pc'[q] = pc[q]
    BY <1>1 DEF GiveUp, SlotFull, Enqueue
  <2>4. QED
    BY <1>1, <2>1, <2>2, <2>3
       DEF GiveUp, SlotFull, Enqueue, Users, Occupants
<1>2. CASE SetHolder(p) \/ ClearHolder(p)
  <2>1. /\ pc[p] \in {"token", "held"} /\ pc'[p] \in {"held", "cleared"}
        /\ pl' = pl
    BY <1>2 DEF SetHolder, ClearHolder, MayRelease, PointersOK
  <2>2. \A q \in Procs \ {p} : pc'[q] = pc[q]
    BY <1>2 DEF SetHolder, ClearHolder
  <2>3. QED
    BY <1>2, <2>1, <2>2 DEF SetHolder, ClearHolder, Users, Occupants
<1>3. CASE ReleaseAgain(p)
  <2>1. pc[p] = "done" /\ pl'[p] = NoLock /\ pc'[p] = "idle"
    BY <1>3 DEF ReleaseAgain
  <2>2. \A q \in Procs \ {p} : pl'[q] = pl[q] /\ pc'[q] = pc[q]
    BY <1>3 DEF ReleaseAgain
  <2>3. QED
    BY <1>3, <2>1, <2>2 DEF ReleaseAgain, Users, Occupants
<1>4. QED
  BY <1>1, <1>2, <1>3

-----------------------------------------------------------------------------
(* Each conjunct of IInv is kept by every step. *)
LEMMA GetOrCreateKeeps ==
  ASSUME IInv, NEW p \in Procs, NEW k \in Keys, GetOrCreate(p, k), TypeOK'
  PROVE  IInv'
<1>1. PICK l \in Locks : GetOrCreate(p, k)!2!(l)
  BY DEF GetOrCreate
<1>2. /\ p \notin Users(l)
      /\ Users(l)' = Users(l) \cup {p}
      /\ \A m \in Locks \ {l} : Users(m)' = Users(m)
      /\ \A m \in Locks : Occupants(m)' = Occupants(m)
  BY <1>1, GetOrCreateEffect
<1>3. /\ locks'[k] = l /\ (locks[k] = l \/ (locks[k] = NoLock /\ Fresh(l)))
      /\ \A j \in Keys \ {k} : locks'[j] = locks[j]
      /\ \A m \in Locks \ {l} : /\ refs'[m] = refs[m] /\ slot'[m] = slot[m]
                               /\ holder'[m] = holder[m]
  BY <1>1 DEF IInv, TypeOK, Counted
<1>4. /\ pc[p] = "idle" /\ pc'[p] = "counted" /\ pl'[p] = l /\ key'[p] = k
      /\ \A q \in Procs \ {p} : /\ pc'[q] = pc[q] /\ pl'[q] = pl[q]
                               /\ key'[q] = key[q]
      /\ released' = released
  BY <1>1 DEF GetOrCreate, IInv, TypeOK
<1>5. PointersOK'
  <2>1. \A q \in Procs : PointersOK!1!(q)'
    <3>1. PointersOK!1!(p)'
      BY <1>3, <1>4
    <3>2. ASSUME NEW q \in Procs \ {p} PROVE PointersOK!1!(q)'
      <4>1. PointersOK!1!(q)
        BY DEF IInv, PointersOK
      <4>2. pc[q] \notin {"idle", "done"} => locks'[key[q]] = pl[q]
        BY <1>3, <4>1 DEF Fresh, IInv, TypeOK
      <4>3. QED
        BY <1>4, <4>1, <4>2
    <3>3. QED
      BY <3>1, <3>2
  <2>2. \A i, j \in Keys : locks'[i] # NoLock /\ locks'[i] = locks'[j] => i = j
    BY <1>3 DEF Fresh, IInv, PointersOK
  <2>3. QED
    BY <2>1, <2>2 DEF PointersOK
<1>6. CountsOK'
  <2>1. refs'[l] = Cardinality(Users(l))+1
    <3>1. CASE locks[k] = l
      <4>1. refs'[l] = refs[l] + 1
        BY <1>1, <3>1, LocksAssumption DEF IInv, TypeOK, Counted
      <4>2. QED
        BY <4>1 DEF IInv, CountsOK
    <3>2. CASE locks[k] = NoLock /\ Fresh(l)
      <4>1. refs'[l] = 1
        BY <1>1, <3>2, LocksAssumption DEF IInv, TypeOK
      <4>2. Users(l) = {}
        BY <3>2 DEF Fresh, Users
      <4>3. QED
        BY <4>1, <4>2, FS_EmptySet
    <3>3. QED
      BY <1>3, <3>1, <3>2
  <2>2. Cardinality(Users(l)') = Cardinality(Users(l)) + 1
    BY <1>2, ProcSets DEF Users
  <2>3. \A m \in Locks : refs'[m] = Cardinality(Users(m)')
    BY <1>2, <1>3, <2>1, <2>2 DEF IInv, CountsOK
  <2>4. \A j \in Keys, m \in Locks : locks'[j] = m => Users(m)' # {}
    <3>1. Users(l)' # {}
      BY <1>2
    <3>2. ASSUME NEW j \in Keys \ {k}, NEW m \in Locks \ {l}, locks'[j] = m
          PROVE  Users(m)' # {}
      BY <1>2, <1>3, <3>2 DEF IInv, CountsOK
    <3>3. QED
      BY <1>3, <3>1, <3>2
  <2>5. QED
    BY <2>3, <2>4 DEF CountsOK
<1>7. SlotOK'
  <2>1. slot'[l] <=> Occupants(l) # {}
    <3>1. CASE locks[k] = l
      BY <1>1, <3>1, LocksAssumption DEF IInv, TypeOK, SlotOK
    <3>2. CASE locks[k] = NoLock /\ Fresh(l)
      BY <1>1, <3>2, LocksAssumption DEF IInv, TypeOK, Fresh, Occupants
    <3>3. QED
      BY <1>3, <3>1, <3>2
  <2>2. QED
    BY <1>2, <1>3, <2>1 DEF IInv, SlotOK
<1>8. HolderIsTrue'
  <2>1. holder'[l] = holder[l] \/ holder'[l] = NoOne
    BY <1>1 DEF IInv, TypeOK
  <2>2. QED
    BY <1>3, <1>4, <2>1 DEF IInv, TypeOK, HolderIsTrue
<1>9. QED
  BY <1>5, <1>6, <1>7, <1>8 DEF IInv

(* The sender finds the slot empty, so it is the only occupant.            *)
LEMMA SendKeeps ==
  ASSUME IInv, NEW p \in Procs, TrySlot(p) \/ TakeFreed(p), TypeOK'
  PROVE  IInv'
<1>1. Send(p) /\ pc[p] \in {"counted", "blocked"}
  BY DEF TrySlot, TakeFreed
<1>2. /\ pl[p] \in Locks
      /\ Occupants(pl[p]) = {} /\ Occupants(pl[p])' = {p}
      /\ \A m \in Locks : Users(m)' = Users(m)
      /\ \A m \in Locks \ {pl[p]} : Occupants(m)' = Occupants(m)
  BY <1>1, SendEffect
<1>3. /\ UNCHANGED <<locks, refs, holder, key, pl, released>>
      /\ slot'[pl[p]] /\ \A m \in Locks \ {pl[p]} : slot'[m] = slot[m]
      /\ pc'[p] = "token" /\ \A q \in Procs \ {p} : pc'[q] = pc[q]
  BY <1>1, <1>2 DEF Send, IInv, TypeOK
<1>4. PointersOK'
  BY <1>1, <1>3 DEF IInv, PointersOK
<1>5. CountsOK'
  BY <1>2, <1>3 DEF IInv, CountsOK
<1>6. SlotOK'
  BY <1>2, <1>3 DEF IInv, SlotOK
<1>7. HolderIsTrue'
  BY <1>1, <1>3 DEF IInv, TypeOK, HolderIsTrue
<1>8. QED
  BY <1>4, <1>5, <1>6, <1>7 DEF IInv

(* The slot passes from one occupant to at most one other.                 *)
LEMMA DrainKeeps ==
  ASSUME IInv, NEW p \in Procs, Drain(p), TypeOK'
  PROVE  IInv'
<1>1. /\ pl[p] \in Locks
      /\ \/ Occupants(pl[p])' = {} /\ ~slot'[pl[p]]
         \/ \E q \in Procs : Occupants(pl[p])' = {q} /\ slot'[pl[p]]
      /\ \A m \in Locks : Users(m)' = Users(m)
      /\ \A m \in Locks \ {pl[p]} : /\ Occupants(m)' = Occupants(m)
                                    /\ slot'[m] = slot[m]
  BY DrainEffect
<1>2. /\ UNCHANGED <<locks, refs, holder, key, pl, released>>
      /\ pc[p] = "cleared" /\ pc'[p] \in {"drained", "token"}
      /\ \A q \in Procs \ {p} :
           pc'[q] = pc[q] \/ (pc[q] = "queued" /\ pc'[q] = "token")
  BY DEF Drain, Queue, IInv, TypeOK
<1>3. PointersOK'
  BY <1>2 DEF IInv, PointersOK
<1>4. CountsOK'
  BY <1>1, <1>2 DEF IInv, CountsOK
<1>5. SlotOK'
  <2>1. pl' = pl
    BY <1>2
  <2>2. ASSUME NEW m \in Locks PROVE SlotOK!(m)'
    BY <1>1, <2>1 DEF IInv, SlotOK
  <2>3. QED
    BY <2>2 DEF SlotOK
<1>6. HolderIsTrue'
  BY <1>2 DEF IInv, TypeOK, HolderIsTrue
<1>7. QED
  BY <1>3, <1>4, <1>5, <1>6 DEF IInv

(* The last user's drop removes the entry, an earlier one keeps it: by the *)
(* exact count nobody else uses the object that the map forgets.           *)
LEMMA DropKeeps ==
  ASSUME IInv, NEW p \in Procs, Drop(p), TypeOK'
  PROVE  IInv'
<1>1. PICK l \in Locks : l = pl[p]
  BY DEF Drop, IInv, PointersOK
<1>2. /\ key[p] \in Keys /\ locks[key[p]] = l
      /\ p \in Users(l)
      /\ Users(l)' = Users(l) \ {p}
      /\ \A m \in Locks \ {l} : Users(m)' = Users(m)
      /\ \A m \in Locks : Occupants(m)' = Occupants(m)
  BY <1>1, DropEffect
<1>3. /\ slot' = slot /\ holder' = holder /\ released' = released
      /\ refs'[l] = refs[l] - 1 /\ \A m \in Locks \ {l} : refs'[m] = refs[m]
      /\ \A q \in Procs \ {p} : /\ pc'[q] = pc[q] /\ pl'[q] = pl[q]
                               /\ key'[q] = key[q]
  BY <1>1 DEF Drop, IInv, TypeOK
<1>4. /\ refs[l] = Cardinality(Users(l)) /\ refs[l] \in Nat
      /\ Cardinality(Users(l)') = refs[l] - 1
  <2>1. Users(l) \in SUBSET Procs
    BY DEF Users
  <2>2. Cardinality(Users(l) \ {p}) = Cardinality(Users(l)) - 1
    BY <1>2, <2>1, ProcSets
  <2>3. refs[l] = Cardinality(Users(l)) /\ refs[l] \in Nat
    BY DEF IInv, TypeOK, CountsOK
  <2>4. QED
    BY <1>2, <2>2, <2>3
<1>5. /\ refs[l] = 1 => locks'[key[p]] = NoLock
      /\ refs[l] # 1 => locks'[key[p]] = l
      /\ \A j \in Keys \ {key[p]} : locks'[j] = locks[j] /\ locks[j] # l
  BY <1>1, <1>2, LocksAssumption DEF Drop, IsLastUser, IInv, TypeOK, PointersOK
<1>6. CountsOK'
  <2>1. \A m \in Locks : refs'[m] = Cardinality(Users(m)')
    BY <1>2, <1>3, <1>4 DEF IInv, CountsOK
  <2>2. refs[l] # 1 => Users(l)' # {}
    BY <1>4, FS_EmptySet
  <2>3. \A j \in Keys, m \in Locks : locks'[j] = m => Users(m)' # {}
    <3>1. ASSUME NEW m \in Locks, locks'[key[p]] = m
          PROVE  Users(m)' # {}
      BY <1>5, <2>2, <3>1, LocksAssumption
    <3>2. ASSUME NEW j \in Keys \ {key[p]}, NEW m \in Locks, locks'[j] = m
          PROVE  Users(m)' # {}
      BY <1>2, <1>5, <3>2 DEF IInv, CountsOK
    <3>3. QED
      BY <3>1, <3>2
  <2>4. QED
    BY <2>1, <2>3 DEF CountsOK
<1>7. PointersOK'
  <2>1. ASSUME NEW q \in Procs, pc'[q] \notin {"idle", "done"}
        PROVE  locks'[key'[q]] = pl'[q]
    <3>1. q # p
      BY <2>1 DEF Drop, IInv, TypeOK
    <3>2. pc[q] \notin {"idle", "done"} /\ key[q] \in Keys /\ locks[key[q]] = pl[q]
      BY <1>3, <2>1, <3>1 DEF IInv, PointersOK
    <3>3. CASE pl[q] = l
      <4>1. key[q] = key[p]
        BY <1>2, <3>2, <3>3, LocksAssumption DEF IInv, PointersOK
      <4>2. q \in Users(l) /\ q \in Users(l)'
        BY <1>2, <3>1, <3>2, <3>3 DEF Users
      <4>3. refs[l] # 1
        BY <1>4, <4>2, FS_EmptySet, FS_Subset DEF Users
      <4>4. QED
        BY <1>3, <1>5, <3>1, <3>3, <4>1, <4>3
    <3>4. CASE pl[q] # l
      BY <1>2, <1>3, <1>5, <3>1, <3>2, <3>4
    <3>5. QED
      BY <3>3, <3>4
  <2>2. \A q \in Procs : /\ pc'[q] = "idle" => pl'[q] = NoLock
                         /\ pc'[q] # "idle" => pl'[q] \in Locks /\ key'[q] \in Keys
                         /\ pc'[q] \in {"cleared", "drained", "done"} => released'[q]
    <3>1. /\ pc'[p] = "idle" => pl'[p] = NoLock
          /\ pc'[p] # "idle" => pl'[p] \in Locks /\ key'[p] \in Keys
          /\ pc'[p] \in {"cleared", "drained", "done"} => released'[p]
      BY <1>1, <1>2 DEF Drop, IInv, TypeOK, PointersOK
    <3>2. QED
      BY <1>3, <3>1 DEF IInv, PointersOK
  <2>3. \A i, j \in Keys : locks'[i] # NoLock /\ locks'[i] = locks'[j] => i = j
    BY <1>2, <1>5, LocksAssumption DEF IInv, PointersOK
  <2>4. QED
    BY <2>1, <2>2, <2>3 DEF PointersOK
<1>8. SlotOK'
  BY <1>2, <1>3 DEF IInv, SlotOK
<1>9. HolderIsTrue'
  BY <1>3 DEF Drop, IInv, TypeOK, HolderIsTrue
<1>10. QED
  BY <1>6, <1>7, <1>8, <1>9 DEF IInv

(* Steps that change no users and no occupants keep IInv; the holder is    *)
(* only signed by a process whose token is in the slot.                    *)
LEMMA QuietKeeps ==
  ASSUME IInv, NEW p \in Procs, TypeOK',
         \/ GiveUp(p) \/ SlotFull(p) \/ Enqueue(p)
         \/ SetHolder(p) \/ ClearHolder(p) \/ ReleaseAgain(p)
  PROVE  IInv'
<1>1. /\ locks' = locks /\ refs' = refs /\ slot' = slot
      /\ \A m \in Locks : Users(m)' = Users(m)
      /\ \A m \in Locks : Occupants(m)' = Occupants(m)
  BY QuietEffect
<1>2. CountsOK' /\ SlotOK'
  BY <1>1 DEF IInv, CountsOK, SlotOK
<1>3. CASE GiveUp(p) \/ SlotFull(p) \/ Enqueue(p)
  <2>1. /\ pc'[p] \in {"gaveup", "blocked", "queued"}
        /\ pc[p] \in {"blocked", "queued", "counted"}
        /\ UNCHANGED <<holder, key, pl, released>>
        /\ \A q \in Procs \ {p} : pc'[q] = pc[q]
    BY <1>3 DEF GiveUp, SlotFull, Enqueue, IInv, TypeOK
  <2>2. PointersOK' /\ HolderIsTrue'
    BY <1>1, <2>1 DEF IInv, TypeOK, PointersOK, HolderIsTrue
  <2>3. QED
    BY <1>2, <2>2 DEF IInv
<1>4. CASE SetHolder(p)
  <2>1. /\ pc[p] = "token" /\ pc'[p] = "held" /\ pl[p] \in Locks
        /\ holder'[pl[p]] = p
        /\ \A m \in Locks \ {pl[p]} : holder'[m] = holder[m]
        /\ UNCHANGED <<key, pl, released>>
        /\ \A q \in Procs \ {p} : pc'[q] = pc[q]
    BY <1>4 DEF SetHolder, IInv, TypeOK, PointersOK
  <2>2. PointersOK' /\ HolderIsTrue'
    BY <1>1, <2>1 DEF IInv, TypeOK, PointersOK, HolderIsTrue
  <2>3. QED
    BY <1>2, <2>2 DEF IInv
<1>5. CASE ClearHolder(p)
  <2>1. /\ pc[p] = "held" /\ pc'[p] = "cleared" /\ pl[p] \in Locks
        /\ holder'[pl[p]] = NoOne
        /\ \A m \in Locks \ {pl[p]} : holder'[m] = holder[m]
        /\ UNCHANGED <<key, pl>>
        /\ released'[p] /\ \A q \in Procs \ {p} : released'[q] = released[q]
        /\ \A q \in Procs \ {p} : pc'[q] = pc[q]
    BY <1>5 DEF ClearHolder, MayRelease, Unsigned, IInv, TypeOK, PointersOK
  <2>2. PointersOK'
    BY <1>1, <2>1 DEF IInv, PointersOK
  <2>3. HolderIsTrue'
    BY <2>1 DEF IInv, TypeOK, HolderIsTrue
  <2>4. QED
    BY <1>2, <2>2, <2>3 DEF IInv
<1>6. CASE ReleaseAgain(p)
  <2>1. /\ pc[p] = "done" /\ pc'[p] = "idle" /\ pl'[p] = NoLock
        /\ holder' = holder
        /\ \A q \in Procs \ {p} : /\ pc'[q] = pc[q] /\ pl'[q] = pl[q]
                                 /\ key'[q] = key[q]
                                 /\ released'[q] = released[q]
    BY <1>6 DEF ReleaseAgain, IInv, TypeOK
  <2>2. PointersOK' /\ HolderIsTrue'
    BY <1>1, <2>1 DEF IInv, TypeOK, PointersOK, HolderIsTrue
  <2>3. QED
    BY <1>2, <2>2 DEF IInv
<1>7. QED
  BY <1>3, <1>4, <1>5, <1>6

(* A step of the environment that changes no variable keeps IInv.          *)
LEMMA StutterKeeps == ASSUME IInv, UNCHANGED vars PROVE IInv'
BY DEF vars, IInv, TypeOK, PointersOK, CountsOK, SlotOK, HolderIsTrue,
       Users, Occupants

(* IInv is inductive: one case for each action.                            *)
LEMMA NextIInv == IInv /\ [Next]_vars => IInv'
<1> SUFFICES ASSUME IInv, [Next]_vars PROVE IInv'
  OBVIOUS
<1>1. TypeOK'
  BY TypeStep
<1>2. QED
  BY <1>1, GetOrCreateKeeps, SendKeeps, DrainKeeps, DropKeeps, QuietKeeps,
     StutterKeeps DEF Next, Step

(* The inductive invariant holds throughout. *)
THEOREM SpecIInv == Spec => []IInv
BY InitIInv, NextIInv, PTL DEF Spec

-----------------------------------------------------------------------------
(* Two processes in the critical section of one key point to the same lock *)
(* object, the map's, and each has its token in that object's only slot.   *)
LEMMA HeldIsExclusive == IInv => MutualExclusion
<1> SUFFICES ASSUME IInv, NEW p \in Procs, NEW q \in Procs,
                    pc[p] = "held", pc[q] = "held", key[p] = key[q]
             PROVE  p = q
  BY DEF MutualExclusion
<1>1. pl[p] = pl[q] /\ pl[p] \in Locks
  BY DEF IInv, PointersOK
<1>2. QED
  BY <1>1 DEF IInv, SlotOK, Occupants

(* The type invariant of the lock, for all constants. *)
THEOREM TypeCorrect == Spec => []TypeOK
<1>1. IInv => TypeOK
  BY DEF IInv
<1>2. QED
  BY <1>1, SpecIInv, PTL

(* At most one process is between acquire's return and its release on any  *)
(* one key, however many jobs and requests compete for it.                 *)
THEOREM MutualExclusionHolds == Spec => []MutualExclusion
BY HeldIsExclusive, SpecIInv, PTL

(* The reference counts that decide when drop forgets a lock are exact.    *)
THEOREM CountsAreExactHolds == Spec => []CountsAreExact
<1>1. IInv => CountsAreExact
  BY LocksAssumption
     DEF IInv, TypeOK, PointersOK, CountsOK, CountsAreExact
<1>2. QED
  BY <1>1, SpecIInv, PTL

(* The name a waiter reports is the name of the lock's present holder.     *)
THEOREM HolderIsTrueHolds == Spec => []HolderIsTrue
<1>1. IInv => HolderIsTrue
  BY DEF IInv
<1>2. QED
  BY <1>1, SpecIInv, PTL

-----------------------------------------------------------------------------
(* Refinement: signing the lock is the abstract Acquire, clearing the      *)
(* holder is the abstract Release, and all other steps stutter.  The       *)
(* abstract owner of a key is the one process in its critical section.     *)
LEMMA OwnerIs ==
  ASSUME MutualExclusion, NEW k \in Keys
  PROVE  /\ \A p \in Procs : pc[p] = "held" /\ key[p] = k => Owner[k] = p
         /\ (\A p \in Procs : ~(pc[p] = "held" /\ key[p] = k)) => Owner[k] = NoOne
BY DEF Owner, MutualExclusion

(* Nobody owns a key initially.                                            *)
LEMMA InitRefines == Init => Mutex!Init
BY DEF Init, Mutex!Init, Owner

(* SetHolder is the abstract Acquire: the key is free, because its other   *)
(* users are queued or on their way out, and the caller owns nothing else. *)
LEMMA AcquireRefines ==
  ASSUME IInv, IInv', NEW p \in Procs, SetHolder(p)
  PROVE  Mutex!Acquire(p, key[p])
<1>1. MutualExclusion /\ MutualExclusion'
  BY HeldIsExclusive, PTL
<1>2. /\ pc[p] = "token" /\ pc'[p] = "held" /\ key' = key /\ pl' = pl
      /\ key[p] \in Keys /\ pl[p] \in Locks
      /\ \A q \in Procs \ {p} : pc'[q] = pc[q]
  BY DEF SetHolder, IInv, TypeOK, PointersOK
<1>3. \A q \in Procs : ~(pc[q] = "held" /\ key[q] = key[p])
  BY <1>2 DEF IInv, PointersOK, SlotOK, Occupants
<1>4. Owner[key[p]] = NoOne
  BY <1>1, <1>2, <1>3, OwnerIs
<1>5. \A k \in Keys : Owner[k] # p
  BY <1>2, ProcsAssumption DEF Owner
<1>6. Owner' = [Owner EXCEPT ![key[p]] = p]
  BY <1>1, <1>2, <1>3 DEF Owner, MutualExclusion
<1>7. QED
  BY <1>4, <1>5, <1>6 DEF Mutex!Acquire

(* ClearHolder is the abstract Release.                                    *)
LEMMA ReleaseRefines ==
  ASSUME IInv, IInv', NEW p \in Procs, ClearHolder(p)
  PROVE  Mutex!Release(p, key[p]) /\ key[p] \in Keys
<1>1. MutualExclusion /\ MutualExclusion'
  BY HeldIsExclusive, PTL
<1>2. /\ pc[p] = "held" /\ pc'[p] = "cleared" /\ key' = key
      /\ key[p] \in Keys
      /\ \A q \in Procs \ {p} : pc'[q] = pc[q]
  BY DEF ClearHolder, MayRelease, IInv, TypeOK, PointersOK
<1>3. Owner[key[p]] = p
  BY <1>1, <1>2, OwnerIs
<1>4. Owner' = [Owner EXCEPT ![key[p]] = NoOne]
  BY <1>1, <1>2 DEF Owner, MutualExclusion
<1>5. QED
  BY <1>2, <1>3, <1>4 DEF Mutex!Release

(* No other step changes who is in a critical section. *)
LEMMA OthersStutter ==
  ASSUME IInv, NEW p \in Procs,
         \/ \E k \in Keys : GetOrCreate(p, k)
         \/ GiveUp(p) \/ TrySlot(p) \/ SlotFull(p) \/ TakeFreed(p)
         \/ Enqueue(p) \/ Drain(p) \/ Drop(p) \/ ReleaseAgain(p)
  PROVE  Owner' = Owner
<1>1. \A q \in Procs : (pc[q] = "held") <=> (pc'[q] = "held")
  BY DEF GetOrCreate, GiveUp, TrySlot, SlotFull, TakeFreed, Enqueue, Drain,
         Drop, ReleaseAgain, Send, Queue, IInv, TypeOK
<1>2. \A q \in Procs : pc[q] = "held" => key'[q] = key[q]
  BY DEF GetOrCreate, GiveUp, TrySlot, SlotFull, TakeFreed, Enqueue, Drain,
         Drop, ReleaseAgain, Send, IInv, TypeOK
<1>3. QED
  BY <1>1, <1>2 DEF Owner

(* The lock implements the abstract keyed mutex. *)
THEOREM LockImplementsMutex == Spec => ImplementsMutex
<1>1. Init => Mutex!Init
  BY InitRefines
<1>2. IInv /\ IInv' /\ [Next]_vars => [Mutex!Next]_Owner
  <2> SUFFICES ASSUME IInv, IInv', [Next]_vars
               PROVE  [Mutex!Next]_Owner
    OBVIOUS
  <2>1. ASSUME NEW p \in Procs, SetHolder(p)
        PROVE  Mutex!Next
    <3>1. key[p] \in Keys
      BY <2>1 DEF SetHolder, IInv, PointersOK
    <3>2. QED
      BY <2>1, <3>1, AcquireRefines DEF Mutex!Next
  <2>2. ASSUME NEW p \in Procs, ClearHolder(p)
        PROVE  Mutex!Next
    BY <2>2, ReleaseRefines DEF Mutex!Next
  <2>3. CASE UNCHANGED vars
    BY <2>3 DEF vars, Owner
  <2>4. QED
    BY <2>1, <2>2, <2>3, OthersStutter DEF Next, Step
<1>3. QED
  BY <1>1, <1>2, SpecIInv, PTL DEF Spec, ImplementsMutex, Mutex!Spec

=============================================================================
