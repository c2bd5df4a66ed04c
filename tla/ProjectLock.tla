---------------------------- MODULE ProjectLock ----------------------------
(***************************************************************************)
(* The per-project lock of projectlock.go: a map from a project key to a   *)
(* reference-counted lock object whose slot is a channel of capacity one.  *)
(* A process is a project-scoped job (engine.go, lockProject) or a         *)
(* register or copy request (compose_handlers.go, lockForRequest).         *)
(*                                                                         *)
(* The atomic steps are the critical sections of projectLocks.mu and the   *)
(* single channel operations, so everything between two of them can        *)
(* interleave.  The channel is modelled as the Go runtime implements it:   *)
(* blocked senders queue, and a receive hands the slot to the sender that  *)
(* has waited longest, so nobody overtakes a queued sender.                *)
(***************************************************************************)
EXTENDS Naturals, FiniteSets

CONSTANTS
  Procs,   \* jobs and requests that change projects
  Keys,    \* the values projectLockKey returns
  Locks,   \* identities of projectLock objects
  NoKey,   \* the key of a process outside acquire and release
  NoOne,   \* an empty projectLock.holder
  NoLock   \* a key absent from projectLocks.locks

ASSUME ProcsAssumption == IsFiniteSet(Procs) /\ NoOne \notin Procs
ASSUME KeysAssumption == NoKey \notin Keys
ASSUME LocksAssumption == NoLock \notin Locks

VARIABLES
  locks,     \* projectLocks.locks: key -> lock object or NoLock
  refs,      \* projectLock.refs of each object
  slot,      \* TRUE iff the object's slot channel holds its token
  holder,    \* projectLock.holder of each object
  pc,        \* where each process is in acquire or release
  key,       \* the key each process passed to acquire, or NoKey
  pl,        \* the lock object each process works with, or NoLock
  ahead,     \* the senders queued before a queued sender
  released   \* the sync.Once of the release function has fired

vars == <<locks, refs, slot, holder, pc, key, pl, ahead, released>>

Stages == {"idle",      \* not in acquire, holds nothing
           "counted",   \* counted in refs, about to try the slot
           "blocked",   \* found the slot full, about to wait
           "queued",    \* waiting on the slot channel
           "gaveup",    \* its context ended while it waited
           "token",     \* its token is in the slot, holder not yet set
           "held",      \* acquire has returned: the critical section
           "cleared",   \* released: holder cleared, token still in the slot
           "drained",   \* token taken out, reference not yet dropped
           "done"}      \* released; the deferred second release may still run

(* The processes whose reference is counted in lock object l. *)
Users(l) == {p \in Procs : pc[p] # "done" /\ pl[p] = l}

(* The processes whose token is in the slot of lock object l. *)
Occupants(l) == {p \in Procs : pc[p] \in {"token", "held", "cleared"} /\ pl[p] = l}

(* The senders queued on the slot of lock object l. *)
Queue(l) == {p \in Procs : pc[p] = "queued" /\ pl[p] = l}

(* A lock object nobody points to: what a new allocation returns. *)
Fresh(l) == /\ \A k \in Keys : locks[k] # l
            /\ \A p \in Procs : pl[p] # l

Init ==
  /\ locks = [k \in Keys |-> NoLock]
  /\ refs = [l \in Locks |-> 0]
  /\ slot = [l \in Locks |-> FALSE]
  /\ holder = [l \in Locks |-> NoOne]
  /\ pc = [p \in Procs |-> "idle"]
  /\ key = [p \in Procs |-> NoKey]
  /\ pl = [p \in Procs |-> NoLock]
  /\ ahead = [p \in Procs |-> {}]
  /\ released = [p \in Procs |-> FALSE]

-----------------------------------------------------------------------------
(* acquire's first critical section: find or create the key's lock object  *)
(* and count the caller in.                                                *)

Counted(l) == [refs EXCEPT ![l] = @ + 1]

GetOrCreate(p, k) ==
  /\ pc[p] = "idle"
  /\ \E l \in Locks :
       /\ \/ /\ locks[k] = l
             /\ refs' = Counted(l)
             /\ UNCHANGED <<locks, slot, holder>>
          \/ /\ locks[k] = NoLock /\ Fresh(l)
             /\ locks' = [locks EXCEPT ![k] = l]
             /\ refs' = [refs EXCEPT ![l] = 1]
             /\ slot' = [slot EXCEPT ![l] = FALSE]
             /\ holder' = [holder EXCEPT ![l] = NoOne]
       /\ pl' = [pl EXCEPT ![p] = l]
  /\ key' = [key EXCEPT ![p] = k]
  /\ pc' = [pc EXCEPT ![p] = "counted"]
  /\ UNCHANGED <<ahead, released>>

(* The send on a slot that is free. *)
Send(p) ==
  /\ ~slot[pl[p]]
  /\ slot' = [slot EXCEPT ![pl[p]] = TRUE]
  /\ pc' = [pc EXCEPT ![p] = "token"]
  /\ UNCHANGED <<locks, refs, holder, key, pl, ahead, released>>

(* The non-blocking select: take a free slot, otherwise go and wait. *)
TrySlot(p) == pc[p] = "counted" /\ Send(p)

SlotFull(p) ==
  /\ pc[p] = "counted"
  /\ slot[pl[p]]
  /\ pc' = [pc EXCEPT ![p] = "blocked"]
  /\ UNCHANGED <<locks, refs, slot, holder, key, pl, ahead, released>>

(* The blocking select: the slot may have been freed since, otherwise the  *)
(* sender joins the channel's queue behind those already in it.            *)
TakeFreed(p) == pc[p] = "blocked" /\ Send(p)

Enqueue(p) ==
  /\ pc[p] = "blocked"
  /\ slot[pl[p]]
  /\ pc' = [pc EXCEPT ![p] = "queued"]
  /\ ahead' = [ahead EXCEPT ![p] = Queue(pl[p])]
  /\ UNCHANGED <<locks, refs, slot, holder, key, pl, released>>

(* The waiter's context ends: a job's cancellation or composeOpTimeout, a  *)
(* request's requestLockWait or its caller going away.                     *)
GiveUp(p) ==
  /\ pc[p] \in {"blocked", "queued"}
  /\ pc' = [pc EXCEPT ![p] = "gaveup"]
  /\ ahead' = [q \in Procs |-> IF q = p THEN {} ELSE ahead[q] \ {p}]
  /\ UNCHANGED <<locks, refs, slot, holder, key, pl, released>>

(* acquire's last critical section: the new holder signs the lock. *)
SetHolder(p) ==
  /\ pc[p] = "token"
  /\ holder' = [holder EXCEPT ![pl[p]] = p]
  /\ pc' = [pc EXCEPT ![p] = "held"]
  /\ UNCHANGED <<locks, refs, slot, key, pl, ahead, released>>

-----------------------------------------------------------------------------
(* The release function.  Its sync.Once makes every call after the first   *)
(* a no-op: the register and copy requests release explicitly before they  *)
(* answer and once more in their defer.                                    *)

ReleaseWithoutOnce(p) == pc[p] \in {"held", "done"}   \* seeded fault
MayRelease(p) == pc[p] \in {"held", "done"} /\ ~released[p]

Unsigned(l) == [holder EXCEPT ![l] = NoOne]

ClearHolder(p) ==
  /\ MayRelease(p)
  /\ holder' = Unsigned(pl[p])
  /\ released' = [released EXCEPT ![p] = TRUE]
  /\ pc' = [pc EXCEPT ![p] = "cleared"]
  /\ UNCHANGED <<locks, refs, slot, key, pl, ahead>>

AnySender(q) == pc[q] = "queued"                      \* seeded fault
FirstSender(q) == pc[q] = "queued" /\ ahead[q] = {}

(* The receive on the slot: with no sender queued the slot is free again,  *)
(* otherwise the first queued sender's token takes the place of the old.   *)
Drain(p) ==
  /\ pc[p] = "cleared"
  /\ slot[pl[p]]
  /\ \/ /\ Queue(pl[p]) = {}
        /\ slot' = [slot EXCEPT ![pl[p]] = FALSE]
        /\ pc' = [pc EXCEPT ![p] = "drained"]
        /\ UNCHANGED ahead
     \/ \E q \in Queue(pl[p]) :
          /\ FirstSender(q)
          /\ pc' = [pc EXCEPT ![p] = "drained", ![q] = "token"]
          /\ ahead' = [r \in Procs |-> ahead[r] \ {q}]
          /\ UNCHANGED slot
  /\ UNCHANGED <<locks, refs, holder, key, pl, released>>

IsAnyUser(p) == locks[key[p]] = pl[p]                 \* seeded fault
IsLastUser(p) == refs[pl[p]] = 1 /\ locks[key[p]] = pl[p]

(* drop: give the reference back; the last one removes the map's entry.  A *)
(* process that gave up is out, one that released keeps its closure.       *)
Drop(p) ==
  /\ pc[p] \in {"drained", "gaveup"}
  /\ refs' = [refs EXCEPT ![pl[p]] = @ - 1]
  /\ locks' = IF IsLastUser(p)
              THEN [locks EXCEPT ![key[p]] = NoLock]
              ELSE locks
  /\ IF pc[p] = "drained"
     THEN /\ pc' = [pc EXCEPT ![p] = "done"]
          /\ UNCHANGED <<key, pl>>
     ELSE /\ pc' = [pc EXCEPT ![p] = "idle"]
          /\ key' = [key EXCEPT ![p] = NoKey]
          /\ pl' = [pl EXCEPT ![p] = NoLock]
  /\ UNCHANGED <<slot, holder, ahead, released>>

(* The deferred second release finds the Once fired; the closure is gone. *)
ReleaseAgain(p) ==
  /\ pc[p] = "done"
  /\ released[p]
  /\ pc' = [pc EXCEPT ![p] = "idle"]
  /\ key' = [key EXCEPT ![p] = NoKey]
  /\ pl' = [pl EXCEPT ![p] = NoLock]
  /\ released' = [released EXCEPT ![p] = FALSE]
  /\ UNCHANGED <<locks, refs, slot, holder, ahead>>

(* The steps of a process once it has called acquire. *)
Step(p) == \/ TrySlot(p) \/ SlotFull(p) \/ TakeFreed(p) \/ Enqueue(p)
           \/ SetHolder(p) \/ ClearHolder(p) \/ Drain(p) \/ Drop(p)
           \/ ReleaseAgain(p)

Next == \E p \in Procs : \/ \E k \in Keys : GetOrCreate(p, k)
                         \/ GiveUp(p)
                         \/ Step(p)

(* Every call proceeds and every holder finishes: a job's operation runs   *)
(* under composeOpTimeout and a request under its own work.  Giving up     *)
(* (GiveUp) and asking for a lock (GetOrCreate) are never forced.          *)
Fairness == \A p \in Procs : WF_vars(Step(p))

Spec == Init /\ [][Next]_vars
FairSpec == Spec /\ Fairness

-----------------------------------------------------------------------------
(* Every variable holds a value of its Go type. *)
TypeOK ==
  /\ locks \in [Keys -> Locks \cup {NoLock}]
  /\ refs \in [Locks -> Nat]
  /\ slot \in [Locks -> BOOLEAN]
  /\ holder \in [Locks -> Procs \cup {NoOne}]
  /\ pc \in [Procs -> Stages]
  /\ key \in [Procs -> Keys \cup {NoKey}]
  /\ pl \in [Procs -> Locks \cup {NoLock}]
  /\ ahead \in [Procs -> SUBSET Procs]
  /\ released \in [Procs -> BOOLEAN]

(* One change per project at a time: two processes that acquired the same  *)
(* key never both stand between acquire's return and their release.        *)
MutualExclusion ==
  \A p, q \in Procs :
    pc[p] = "held" /\ pc[q] = "held" /\ key[p] = key[q] => p = q

(* The reference counts are exact: drop removes the entry of a key exactly *)
(* when its last user leaves, so a newcomer finds the very object that the *)
(* key's holder and waiters use and the map keeps nothing for idle keys.   *)
CountsAreExact ==
  /\ \A l \in Locks : refs[l] = Cardinality(Users(l))
  /\ \A p \in Procs : pc[p] \notin {"idle", "done"} => locks[key[p]] = pl[p]
  /\ \A k \in Keys : locks[k] # NoLock => Users(locks[k]) # {}

(* The name a waiter logs ("queued: waiting for ...") is that of the       *)
(* process that has the lock: holder is set after the token goes in and    *)
(* cleared before it comes out.                                            *)
HolderIsTrue ==
  \A l \in Locks : holder[l] # NoOne =>
    pc[holder[l]] = "held" /\ pl[holder[l]] = l

(* Every call of acquire returns, with the lock or with the context's      *)
(* error: releases pass the slot on in arrival order, so later arrivals    *)
(* never starve a waiter that does not give up.                            *)
AcquireReturns ==
  \A p \in Procs :
    pc[p] = "counted" ~> pc[p] \in {"held", "gaveup"}

-----------------------------------------------------------------------------
(* The process in the critical section of each key, if any. *)
Owner == [k \in Keys |->
           IF \E p \in Procs : pc[p] = "held" /\ key[p] = k
           THEN CHOOSE p \in Procs : pc[p] = "held" /\ key[p] = k
           ELSE NoOne]

Mutex == INSTANCE KeyedMutex WITH owner <- Owner

(* acquire and release implement the abstract keyed mutex: in particular   *)
(* nobody enters a key's critical section while another is in it.          *)
ImplementsMutex == Mutex!Spec

=============================================================================
