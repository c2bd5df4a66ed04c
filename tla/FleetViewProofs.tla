--------------------------- MODULE FleetViewProofs ---------------------------
(***************************************************************************)
(* Safety of FleetView, for any listers, lists, services and budgets.  The *)
(* self view: of the lists in flight each has an instant of its own, and a *)
(* view or a recorded failure is that of a list which is settled, or about *)
(* to be, so when all are settled the one that started last has decided    *)
(* (SelfInv).  The checker: a force stays with somebody who will take it.  *)
(* The feed and the requests: what they hold is what their list showed.    *)
(***************************************************************************)
EXTENDS FleetView, FiniteSetTheorems, TLAPS

ListStages == {"idle", "listing", "answered", "published", "failing", "checked", "seen", "blind"}

SelfTyped ==
  /\ now \in DOMAIN Lists
  /\ stage \in [Listers -> ListStages] /\ startedAt \in [Listers -> Nat]
  /\ got \in [Listers -> DOMAIN Lists \cup {None}]
  /\ view = None \/ view \in [observedAt : Nat, list : DOMAIN Lists]
  /\ lastListErr \in Nat
  /\ newest \in [startedAt : Nat, list : DOMAIN Lists \cup {None}]

(* When the published view's list started, and a list under way. *)
V == IF view = None THEN 0 ELSE view.observedAt
Busy(l) == stage[l] # "idle"

(* Lists under way have instants of their own, later than none settled.    *)
Instant(l) == Busy(l) => /\ startedAt[l] > 0 /\ startedAt[l] # newest.startedAt
                         /\ \A k \in Listers : Busy(k) /\ startedAt[k] = startedAt[l] => k = l
Answer(l) == stage[l] \in {"answered", "published", "seen"} => got[l] \in DOMAIN Lists

(* Whose the view and the failure are: of a list under way, or settled.    *)
ViewIs(l) == Busy(l) /\ startedAt[l] = V =>
               stage[l] \in {"published", "seen"} /\ got[l] = view.list
ErrorIs(l) == Busy(l) /\ startedAt[l] = lastListErr => stage[l] = "blind"
Owned(t) == \E l \in Listers : Busy(l) /\ startedAt[l] = t
ViewOwned == V > 0 /\ ~Owned(V) =>
               V <= newest.startedAt /\ (V = newest.startedAt => newest.list = view.list)
ErrorOwned == lastListErr > 0 /\ ~Owned(lastListErr) =>
                /\ lastListErr <= newest.startedAt
                /\ lastListErr = newest.startedAt => newest.list = None

(* What a list that went well, or failed, has brought about. *)
Good(l) == stage[l] \in {"published", "seen"} => V >= startedAt[l]
Bad(l) == stage[l] = "blind" => lastListErr >= startedAt[l] \/ V > startedAt[l]
Decided == newest.startedAt > 0 =>
             IF newest.list = None
             THEN lastListErr >= newest.startedAt \/ V > newest.startedAt
             ELSE V >= newest.startedAt

Lister(l) == Instant(l) /\ Answer(l) /\ ViewIs(l) /\ ErrorIs(l) /\ Good(l) /\ Bad(l)
SelfInv == /\ SelfTyped /\ ViewOwned /\ ErrorOwned /\ Decided
           /\ \A l \in Listers : Lister(l)

-----------------------------------------------------------------------------
(* A view is not the value for no view, nor a list that for no list.       *)
LEMMA NoView ==
  /\ None \notin DOMAIN Lists
  /\ \A t \in Nat, k \in DOMAIN Lists : [observedAt |-> t, list |-> k] # None
  BY ViewAssumption

LEMMA VIsNat == SelfTyped => V \in Nat
  BY DEF SelfTyped, V

LEMMA SelfInitInv == SelfInit => SelfInv
<1> SUFFICES ASSUME SelfInit PROVE SelfInv
  OBVIOUS
<1>1. SelfTyped
  BY ListsAssumption DEF SelfInit, SelfTyped, ListStages
<1>2. ViewOwned /\ ErrorOwned /\ Decided
  BY DEF SelfInit, ViewOwned, ErrorOwned, Decided, V
<1>3. \A l \in Listers : Lister(l)
  BY DEF SelfInit, Lister, Instant, Answer, ViewIs, ErrorIs, Good, Bad, Busy
<1> QED
  BY <1>1, <1>2, <1>3 DEF SelfInv

-----------------------------------------------------------------------------
(* The steps of a lister other than its start.                             *)

(* The daemon answers, or the call fails.                                  *)
LEMMA AnswerListKeeps ==
  ASSUME SelfInv, NEW l \in Listers, AnswerList(l) \/ FailList(l)
  PROVE  SelfInv'
<1>1. SelfTyped'
  BY DEF SelfInv, SelfTyped, AnswerList, FailList, Goto, ListStages
<1>2. /\ UNCHANGED <<startedAt, view, lastListErr, newest>> /\ V' = V
      /\ stage[l] = "listing" /\ stage'[l] \in {"answered", "failing"}
      /\ stage'[l] = "answered" => got'[l] \in DOMAIN Lists
      /\ \A k \in Listers \ {l} : stage'[k] = stage[k] /\ got'[k] = got[k]
  BY DEF SelfInv, SelfTyped, AnswerList, FailList, Goto, At, V
<1>3. \A k \in Listers : Busy(k)' <=> Busy(k)
  BY <1>2 DEF Busy
<1>4. \A t \in Nat : Owned(t)' <=> Owned(t)
  BY <1>2, <1>3 DEF Owned
<1>5. ViewOwned' /\ ErrorOwned' /\ Decided'
  BY <1>2, <1>4, VIsNat DEF SelfInv, SelfTyped, ViewOwned, ErrorOwned, Decided
<1>6. \A k \in Listers : Lister(k)'
  BY <1>2, <1>3 DEF SelfInv, Lister, Instant, Answer, ViewIs, ErrorIs, Good, Bad
<1> QED
  BY <1>1, <1>5, <1>6 DEF SelfInv

(* observe: the view becomes that of this list, or is of a later one.      *)
LEMMA PublishKeeps ==
  ASSUME SelfInv, NEW l \in Listers, Publish(l)
  PROVE  SelfInv'
<1>1. /\ stage[l] = "answered" /\ got[l] \in DOMAIN Lists /\ startedAt[l] \in Nat
      /\ V \in Nat /\ startedAt[l] > 0
  BY VIsNat DEF SelfInv, SelfTyped, Lister, Instant, Answer, Busy, Publish, At
<1>2. /\ UNCHANGED <<startedAt, lastListErr, newest, got>>
      /\ stage'[l] \in {"published", "seen"}
      /\ \A k \in Listers \ {l} : stage'[k] = stage[k]
      /\ \A k \in Listers : Busy(k)' <=> Busy(k)
  BY <1>1 DEF SelfInv, SelfTyped, Publish, Goto, At, Busy
<1>3. SelfTyped'
  BY <1>1 DEF SelfInv, SelfTyped, Publish, Goto, ListStages
<1>4. \/ UNCHANGED view /\ V' = V /\ V > startedAt[l]
      \/ V' = startedAt[l] /\ V <= startedAt[l] /\ view'.list = got[l]
  BY <1>1, NoView DEF SelfInv, SelfTyped, Publish, Superseded, Later, V
<1>5. \A t \in Nat : Owned(t)' <=> Owned(t)
  BY <1>2 DEF Owned
<1>6. ViewOwned'
  BY <1>1, <1>2, <1>4, <1>5 DEF SelfInv, ViewOwned, Owned, Busy
<1>7. ErrorOwned' /\ Decided'
  BY <1>1, <1>2, <1>4, <1>5 DEF SelfInv, SelfTyped, ErrorOwned, Decided
<1>8. \A k \in Listers : Lister(k)'
  <2> SUFFICES ASSUME NEW k \in Listers PROVE Lister(k)'
    OBVIOUS
  <2>1. startedAt[k] \in Nat /\ lastListErr \in Nat /\ Lister(k)
    BY DEF SelfInv, SelfTyped
  <2>2. Instant(k)' /\ Answer(k)' /\ ErrorIs(k)' /\ Bad(k)'
    BY <1>1, <1>2, <1>4, <2>1 DEF SelfInv, Lister, Instant, Answer, ErrorIs, Bad, Busy
  <2>3. ViewIs(k)'
    BY <1>1, <1>2, <1>4, <2>1 DEF Lister, ViewIs, Instant, Busy
  <2>4. Good(k)'
    BY <1>1, <1>2, <1>4, <2>1 DEF Lister, Good
  <2> QED
    BY <2>2, <2>3, <2>4 DEF Lister
<1> QED
  BY <1>3, <1>6, <1>7, <1>8 DEF SelfInv

(* A success clears what failed no later than it started.                  *)
LEMMA ClearFailureKeeps ==
  ASSUME SelfInv, NEW l \in Listers, ClearFailure(l)
  PROVE  SelfInv'
<1>1. /\ stage[l] = "published" /\ startedAt[l] \in Nat /\ V \in Nat /\ lastListErr \in Nat
      /\ newest.startedAt \in Nat /\ startedAt[l] # newest.startedAt /\ V >= startedAt[l]
      /\ Lister(l)
  BY VIsNat DEF SelfInv, SelfTyped, Lister, Instant, Good, Busy, ClearFailure, At
<1>2. /\ UNCHANGED <<startedAt, view, newest, got>> /\ V' = V
      /\ stage'[l] = "seen"
      /\ \A k \in Listers \ {l} : stage'[k] = stage[k]
      /\ \A k \in Listers : Busy(k)' <=> Busy(k)
  BY <1>1 DEF SelfInv, SelfTyped, ClearFailure, Goto, At, Busy, V
<1>3. SelfTyped'
  BY DEF SelfInv, SelfTyped, ClearFailure, Goto, ListStages
<1>4. \/ lastListErr' = lastListErr
      \/ lastListErr' = 0 /\ lastListErr <= startedAt[l]
  BY <1>1 DEF ClearFailure, Later
<1>5. \A t \in Nat : Owned(t)' <=> Owned(t)
  BY <1>2 DEF Owned
<1>6. ViewOwned' /\ ErrorOwned'
  BY <1>1, <1>2, <1>4, <1>5 DEF SelfInv, ViewOwned, ErrorOwned
<1>7. Decided'
  BY <1>1, <1>2, <1>4 DEF SelfInv, Decided
<1>8. \A k \in Listers : Lister(k)'
  <2> SUFFICES ASSUME NEW k \in Listers PROVE Lister(k)'
    OBVIOUS
  <2>1. startedAt[k] \in Nat /\ Lister(k)
    BY DEF SelfInv, SelfTyped
  <2>2. Instant(k)' /\ Answer(k)' /\ ViewIs(k)' /\ Good(k)'
    BY <1>1, <1>2, <2>1 DEF Lister, Instant, Answer, ViewIs, Good, Busy
  <2>3. ErrorIs(k)'
    BY <1>1, <1>2, <1>4, <2>1 DEF Lister, ErrorIs, Instant, Busy
  <2>4. Bad(k)'
    BY <1>1, <1>2, <1>4, <2>1 DEF Lister, Bad, Instant, Busy
  <2> QED
    BY <2>2, <2>3, <2>4 DEF Lister
<1> QED
  BY <1>3, <1>6, <1>7, <1>8 DEF SelfInv

(* observeFailed looks at the view.                                        *)
LEMMA CheckViewKeeps ==
  ASSUME SelfInv, NEW l \in Listers, CheckView(l)
  PROVE  SelfInv'
<1>1. /\ UNCHANGED <<startedAt, view, lastListErr, newest, got>> /\ V' = V
      /\ stage[l] = "failing" /\ stage'[l] \in {"blind", "checked"}
      /\ stage'[l] = "blind" => V > startedAt[l]
      /\ \A k \in Listers \ {l} : stage'[k] = stage[k]
      /\ \A k \in Listers : Busy(k)' <=> Busy(k)
  BY DEF SelfInv, SelfTyped, CheckView, Goto, At, V, Superseded, Later, Busy
<1>2. SelfTyped'
  BY DEF SelfInv, SelfTyped, CheckView, Goto, ListStages
<1>3. \A t \in Nat : Owned(t)' <=> Owned(t)
  BY <1>1 DEF Owned
<1>4. ViewOwned' /\ ErrorOwned' /\ Decided'
  BY <1>1, <1>3, VIsNat DEF SelfInv, SelfTyped, ViewOwned, ErrorOwned, Decided
<1>5. \A k \in Listers : Lister(k)'
  BY <1>1 DEF SelfInv, Lister, Instant, Answer, ViewIs, ErrorIs, Good, Bad, Busy
<1> QED
  BY <1>2, <1>4, <1>5 DEF SelfInv

(* ... and records its failure unless a later one is recorded.             *)
LEMMA RecordFailureKeeps ==
  ASSUME SelfInv, NEW l \in Listers, RecordFailure(l)
  PROVE  SelfInv'
<1>1. /\ stage[l] = "checked" /\ startedAt[l] \in Nat /\ V \in Nat /\ lastListErr \in Nat
      /\ newest.startedAt \in Nat /\ Lister(l)
  BY VIsNat DEF SelfInv, SelfTyped, RecordFailure, At
<1>2. /\ UNCHANGED <<startedAt, view, newest, got>> /\ V' = V
      /\ stage'[l] = "blind"
      /\ \A k \in Listers \ {l} : stage'[k] = stage[k]
      /\ \A k \in Listers : Busy(k)' <=> Busy(k)
  BY <1>1 DEF SelfInv, SelfTyped, RecordFailure, Goto, At, Busy, V
<1>3. SelfTyped'
  BY DEF SelfInv, SelfTyped, RecordFailure, Goto, ListStages
<1>4. \/ lastListErr' = lastListErr /\ lastListErr > startedAt[l]
      \/ lastListErr' = startedAt[l] /\ lastListErr <= startedAt[l]
  BY <1>1 DEF RecordFailure, Later
<1>5. \A t \in Nat : Owned(t)' <=> Owned(t)
  BY <1>2 DEF Owned
<1>6. ViewOwned'
  BY <1>1, <1>2, <1>5 DEF SelfInv, ViewOwned
<1>7. ErrorOwned'
  BY <1>1, <1>2, <1>4, <1>5 DEF SelfInv, ErrorOwned, Owned, Busy
<1>8. Decided'
  BY <1>1, <1>2, <1>4 DEF SelfInv, Decided
<1>9. \A k \in Listers : Lister(k)'
  <2> SUFFICES ASSUME NEW k \in Listers PROVE Lister(k)'
    OBVIOUS
  <2>1. startedAt[k] \in Nat /\ Lister(k)
    BY DEF SelfInv, SelfTyped
  <2>2. Instant(k)' /\ Answer(k)' /\ ViewIs(k)' /\ Good(k)'
    BY <1>1, <1>2, <2>1 DEF Lister, Instant, Answer, ViewIs, Good, Busy
  <2>3. ErrorIs(k)'
    BY <1>1, <1>2, <1>4, <2>1 DEF Lister, ErrorIs, Instant, Busy
  <2>4. Bad(k)'
    BY <1>1, <1>2, <1>4, <2>1 DEF Lister, Bad
  <2> QED
    BY <2>2, <2>3, <2>4 DEF Lister
<1> QED
  BY <1>3, <1>6, <1>7, <1>8, <1>9 DEF SelfInv

(* A list is settled: it is the newest, or a newer one has been.           *)
LEMMA SettleKeeps ==
  ASSUME SelfInv, NEW l \in Listers, Settle(l)
  PROVE  SelfInv'
<1> DEFINE r == IF At(l, "seen") THEN got[l] ELSE None
<1>1. /\ stage[l] \in {"seen", "blind"} /\ Busy(l) /\ startedAt[l] \in Nat /\ startedAt[l] > 0
      /\ V \in Nat /\ lastListErr \in Nat
      /\ newest.startedAt \in Nat /\ newest.startedAt # startedAt[l]
      /\ Lister(l)
  BY VIsNat DEF SelfInv, SelfTyped, Lister, Instant, Settle, Busy
<1>2. /\ UNCHANGED <<view, lastListErr, now>> /\ V' = V
      /\ stage'[l] = "idle" /\ ~Busy(l)'
      /\ \A k \in Listers \ {l} : /\ stage'[k] = stage[k] /\ startedAt'[k] = startedAt[k]
                                  /\ got'[k] = got[k] /\ (Busy(k)' <=> Busy(k))
  BY DEF SelfInv, SelfTyped, Settle, Goto, Busy, V
<1>3. /\ r \in DOMAIN Lists \cup {None}
      /\ stage[l] = "seen" => r = got[l] /\ r # None
      /\ stage[l] = "blind" => r = None
  BY <1>1, NoView DEF At, Lister, Answer
<1>4. \/ newest' = newest /\ newest.startedAt > startedAt[l]
      \/ /\ newest'.startedAt = startedAt[l] /\ newest'.list = r
         /\ newest.startedAt < startedAt[l]
  BY <1>1 DEF Settle
<1>5. SelfTyped'
  <2>1. newest' \in [startedAt : Nat, list : DOMAIN Lists \cup {None}]
    BY <1>1, <1>3 DEF Settle, SelfInv, SelfTyped
  <2> QED
    BY <1>2, <2>1 DEF SelfInv, SelfTyped, Settle, Goto, ListStages
<1>6. \A t \in Nat : Owned(t) <=> Owned(t)' \/ t = startedAt[l]
  <2>1. \A k \in Listers \ {l} : startedAt[k] = startedAt[l] => ~Busy(k)
    BY <1>1 DEF Lister, Instant
  <2> QED
    BY <1>1, <1>2, <2>1 DEF Owned
<1> HIDE DEF r
<1>7. ViewOwned'
  <2> SUFFICES ASSUME NEW t \in Nat, t = V, t > 0, ~Owned(t)'
               PROVE  t <= newest'.startedAt /\ (t = newest'.startedAt => newest'.list = view.list)
    BY <1>1, <1>2 DEF ViewOwned, Owned
  <2>1. CASE t = startedAt[l]
    BY <1>1, <1>3, <1>4, <2>1 DEF Lister, ViewIs
  <2>2. CASE t # startedAt[l]
    BY <1>1, <1>4, <1>6, <2>2 DEF SelfInv, ViewOwned
  <2> QED
    BY <2>1, <2>2
<1>8. ErrorOwned'
  <2> SUFFICES ASSUME NEW t \in Nat, t = lastListErr, t > 0, ~Owned(t)'
               PROVE  t <= newest'.startedAt /\ (t = newest'.startedAt => newest'.list = None)
    BY <1>1, <1>2 DEF ErrorOwned, Owned
  <2>1. CASE t = startedAt[l]
    BY <1>1, <1>3, <1>4, <2>1 DEF Lister, ErrorIs
  <2>2. CASE t # startedAt[l]
    BY <1>1, <1>4, <1>6, <2>2 DEF SelfInv, ErrorOwned
  <2> QED
    BY <2>1, <2>2
<1>9. Decided'
  BY <1>1, <1>2, <1>3, <1>4 DEF SelfInv, Decided, Lister, Good, Bad
<1>10. \A k \in Listers : Lister(k)'
  <2> SUFFICES ASSUME NEW k \in Listers PROVE Lister(k)'
    OBVIOUS
  <2>1. Lister(k) /\ startedAt[k] \in Nat
    BY DEF SelfInv, SelfTyped
  <2>2. CASE k = l
    BY <1>2, <2>2 DEF Lister, Instant, Answer, ViewIs, ErrorIs, Good, Bad
  <2>3. CASE k # l
    <3>1. Busy(k) => startedAt[k] # startedAt[l]
      BY <1>1, <2>3 DEF Lister, Instant
    <3>2. Instant(k)'
      BY <1>2, <1>4, <2>1, <2>3, <3>1 DEF Lister, Instant
    <3> QED
      BY <1>2, <2>1, <2>3, <3>2 DEF Lister, Answer, ViewIs, ErrorIs, Good, Bad
  <2> QED
    BY <2>2, <2>3
<1> QED
  BY <1>5, <1>7, <1>8, <1>9, <1>10 DEF SelfInv

-----------------------------------------------------------------------------
(* A list starts: the instants in use are packed.                          *)

(* Finitely many instants are in use, those the invariant compares.        *)
LEMMA InUseFinite ==
  ASSUME SelfInv
  PROVE  /\ IsFiniteSet(InUse) /\ InUse \subseteq Nat \ {0}
         /\ {V, lastListErr, newest.startedAt} \subseteq InUse \cup {0}
         /\ \A l \in Listers : Busy(l) => startedAt[l] \in InUse
<1> DEFINE starts == {startedAt[l] : l \in Started}
           f == [l \in Started |-> startedAt[l]]
           rest == {lastListErr, newest.startedAt, V}
<1>1. IsFiniteSet(Started)
  <2>1. Started \in SUBSET Listers
    BY DEF Started
  <2> QED
    BY <2>1, ListersAssumption, FS_Subset
<1>2. IsFiniteSet(starts)
  <2>1. f \in Surjection(Started, starts)
    BY DEF Surjection
  <2> HIDE DEF f, starts
  <2> QED
    BY <1>1, <2>1, FS_Surjection
<1>3. IsFiniteSet(rest)
  <2>1. IsFiniteSet({lastListErr})
    BY FS_Singleton
  <2>2. IsFiniteSet({lastListErr} \cup {newest.startedAt})
    BY <2>1, FS_AddElement
  <2>3. IsFiniteSet(({lastListErr} \cup {newest.startedAt}) \cup {V})
    BY <2>2, FS_AddElement
  <2>4. rest = ({lastListErr} \cup {newest.startedAt}) \cup {V}
    OBVIOUS
  <2> QED
    BY <2>3, <2>4
<1>4. IsFiniteSet(starts \cup rest)
  BY <1>2, <1>3, FS_Union
<1>5. InUse = (starts \cup rest) \ {0}
  BY DEF InUse, V
<1>6. IsFiniteSet(InUse)
  <2>1. InUse \in SUBSET (starts \cup rest)
    BY <1>5
  <2> HIDE DEF starts, rest
  <2> QED
    BY <1>4, <2>1, FS_Subset
<1>7. starts \subseteq Nat /\ rest \subseteq Nat
  BY VIsNat DEF SelfInv, SelfTyped, Started
<1>8. \A l \in Listers : Busy(l) => startedAt[l] \in starts /\ startedAt[l] > 0
  BY DEF Started, Busy, SelfInv, Lister, Instant
<1> QED
  BY <1>5, <1>6, <1>7, <1>8

(* Packing keeps their order, and leaves room for one more.                *)
LEMMA PackedOrder ==
  ASSUME SelfInv, NEW u \in InUse \cup {0}, NEW w \in InUse \cup {0}
  PROVE  /\ Packed(u) \in Nat /\ Packed(u) <= Cardinality(InUse)
         /\ Cardinality(InUse) \in Nat
         /\ u < w <=> Packed(u) < Packed(w)
         /\ u = w <=> Packed(u) = Packed(w)
         /\ Packed(0) = 0
<1> DEFINE Below(t) == {x \in InUse : x <= t}
<1>1. IsFiniteSet(InUse) /\ \A x \in InUse : x \in Nat /\ x > 0
  BY InUseFinite
<1>2. \A t : Below(t) \in SUBSET InUse
  OBVIOUS
<1>3. \A t : IsFiniteSet(Below(t)) /\ Cardinality(Below(t)) \in Nat
                /\ Cardinality(Below(t)) <= Cardinality(InUse)
  <2> SUFFICES ASSUME NEW t
               PROVE  IsFiniteSet(Below(t)) /\ Cardinality(Below(t)) \in Nat
                        /\ Cardinality(Below(t)) <= Cardinality(InUse)
    OBVIOUS
  <2> HIDE DEF Below
  <2>1. IsFiniteSet(Below(t)) /\ Cardinality(Below(t)) <= Cardinality(InUse)
    BY <1>1, <1>2, FS_Subset
  <2> QED
    BY <2>1, FS_CardinalityType
<1>4. ASSUME NEW s \in InUse \cup {0}, NEW t \in InUse \cup {0}, s < t
      PROVE  Cardinality(Below(s)) < Cardinality(Below(t))
  <2>0. s \in Nat /\ t \in Nat /\ t \in InUse
    BY <1>1, <1>4
  <2>1. Below(s) \in SUBSET Below(t) /\ t \in Below(t) /\ t \notin Below(s)
    <3>1. \A x \in InUse : x <= s => x <= t
      BY <1>1, <1>4, <2>0
    <3>2. t <= t /\ ~(t <= s)
      BY <1>4, <2>0
    <3> QED
      BY <2>0, <3>1, <3>2
  <2> HIDE DEF Below
  <2>2. Cardinality(Below(s)) <= Cardinality(Below(t)) /\ Cardinality(Below(t)) # Cardinality(Below(s))
    BY <1>3, <2>1, FS_Subset
  <2> QED
    BY <1>3, <2>2
<1>5. Below(0) = {}
  BY <1>1
<1>6. \A t : Packed(t) = Cardinality(Below(t))
  BY DEF Packed
<1>7. Cardinality(InUse) \in Nat
  BY <1>1, FS_CardinalityType
<1>8. Packed(0) = 0
  BY <1>5, <1>6, FS_EmptySet
<1> HIDE DEF Below
<1>9. /\ Packed(u) \in Nat /\ Packed(w) \in Nat /\ Packed(u) <= Cardinality(InUse)
      /\ u < w => Packed(u) < Packed(w)
      /\ w < u => Packed(w) < Packed(u)
  BY <1>3, <1>4, <1>6
<1>10. u < w \/ u = w \/ w < u
  BY <1>1
<1> QED
  BY <1>1, <1>7, <1>8, <1>9, <1>10

LEMMA StartListKeeps ==
  ASSUME SelfInv, NEW l \in Listers, StartList(l)
  PROVE  SelfInv'
<1> DEFINE n == Cardinality(InUse)
           U == InUse \cup {0}
           E == lastListErr
           N == newest.startedAt
<1>1. /\ 0 \in U /\ \A u \in U : u \in Nat
      /\ V \in U /\ E \in U /\ N \in U
      /\ \A k \in Listers : Busy(k) => startedAt[k] \in U /\ startedAt[k] > 0
  BY InUseFinite DEF SelfInv, Lister, Instant
<1>2. /\ n \in Nat
      /\ \A u \in U : Packed(u) \in Nat /\ Packed(u) <= n /\ (u > 0 <=> Packed(u) > 0)
      /\ \A u, w \in U : /\ u < w <=> Packed(u) < Packed(w)
                         /\ u <= w <=> Packed(u) <= Packed(w)
                         /\ u = w <=> Packed(u) = Packed(w)
      /\ Packed(0) = 0
  <2>1. /\ n \in Nat /\ Packed(0) = 0
        /\ \A u \in U : Packed(u) \in Nat /\ Packed(u) <= n
        /\ \A u, w \in U : /\ u < w <=> Packed(u) < Packed(w)
                           /\ u = w <=> Packed(u) = Packed(w)
    BY PackedOrder
  <2> HIDE DEF U, n
  <2>2. \A u, w \in U : u <= w <=> Packed(u) <= Packed(w)
    BY <1>1, <2>1
  <2>3. \A u \in U : u > 0 <=> Packed(u) > 0
    BY <1>1, <2>1
  <2> QED
    BY <2>1, <2>2, <2>3
<1>3. /\ stage[l] = "idle" /\ stage'[l] = "listing" /\ startedAt'[l] = n + 1
      /\ \A k \in Listers \ {l} : stage'[k] = stage[k]
      /\ \A k \in Listers \ {l} : Busy(k) => startedAt'[k] = Packed(startedAt[k])
      /\ lastListErr' = Packed(lastListErr)
      /\ UNCHANGED <<got, now>>
  BY DEF SelfInv, SelfTyped, StartList, Goto, At, Started, Busy
<1>4. /\ newest'.startedAt = Packed(newest.startedAt) /\ newest'.list = newest.list
      /\ newest' \in [startedAt : Nat, list : DOMAIN Lists \cup {None}]
  BY <1>1, <1>2 DEF SelfInv, SelfTyped, StartList
<1>5. /\ V' = Packed(V) /\ (view # None => view'.list = view.list)
      /\ view' = None \/ view' \in [observedAt : Nat, list : DOMAIN Lists]
  <2>1. CASE view = None
    BY <1>2, <2>1 DEF V, StartList
  <2>2. CASE view # None
    <3>1. view \in [observedAt : Nat, list : DOMAIN Lists] /\ V = view.observedAt
      BY <2>2 DEF SelfInv, SelfTyped, V
    <3>2. Packed(view.observedAt) \in Nat
      BY <1>1, <1>2, <3>1
    <3>3. /\ view' = [view EXCEPT !.observedAt = Packed(view.observedAt)]
          /\ view' \in [observedAt : Nat, list : DOMAIN Lists]
      BY <2>2, <3>1, <3>2 DEF StartList
    <3>4. view' # None
      BY <3>3, ViewAssumption
    <3> QED
      BY <2>2, <3>1, <3>3, <3>4 DEF V
  <2> QED
    BY <2>1, <2>2
<1>6. SelfTyped'
  <2>1. startedAt' \in [Listers -> Nat]
    <3>1. \A k \in Started : Packed(startedAt[k]) \in Nat
      BY <1>1, <1>2 DEF Started, Busy
    <3> QED
      BY <1>2, <3>1 DEF StartList
  <2>2. stage' \in [Listers -> ListStages]
    BY DEF SelfInv, SelfTyped, StartList, Goto, ListStages
  <2>3. lastListErr' \in Nat
    BY <1>1, <1>2, <1>3
  <2> QED
    BY <1>3, <1>4, <1>5, <2>1, <2>2, <2>3 DEF SelfInv, SelfTyped
<1>7. \A k \in Listers \ {l} : Busy(k)' <=> Busy(k)
  BY <1>3 DEF Busy
<1>8. ~Busy(l) /\ Busy(l)'
  BY <1>3 DEF Busy
<1> HIDE DEF n, U
<1>9. \A u \in U : Owned(u) => \E k \in Listers : Busy(k)' /\ startedAt'[k] = Packed(u)
  <2> SUFFICES ASSUME NEW u \in U, NEW k \in Listers, Busy(k), startedAt[k] = u
               PROVE  Busy(k)' /\ startedAt'[k] = Packed(u)
    BY DEF Owned
  <2> QED
    BY <1>3, <1>7, <1>8
<1>10. ViewOwned'
  <2> SUFFICES ASSUME V' > 0, \A k \in Listers : ~(Busy(k)' /\ startedAt'[k] = V')
               PROVE  /\ V' <= newest'.startedAt
                      /\ V' = newest'.startedAt => newest'.list = view'.list
    BY DEF ViewOwned, Owned
  <2>1. V > 0 /\ ~Owned(V)
    BY <1>1, <1>2, <1>5, <1>9
  <2>2. V <= newest.startedAt /\ (V = newest.startedAt => newest.list = view.list)
    BY <2>1 DEF SelfInv, ViewOwned
  <2>3. view # None
    BY <2>1 DEF V
  <2> QED
    BY <1>1, <1>2, <1>4, <1>5, <2>2, <2>3
<1>11. ErrorOwned'
  <2> SUFFICES ASSUME lastListErr' > 0, \A k \in Listers : ~(Busy(k)' /\ startedAt'[k] = lastListErr')
               PROVE  /\ lastListErr' <= newest'.startedAt
                      /\ lastListErr' = newest'.startedAt => newest'.list = None
    BY DEF ErrorOwned, Owned
  <2>1. lastListErr > 0 /\ ~Owned(lastListErr)
    BY <1>1, <1>2, <1>3, <1>9
  <2>2. lastListErr <= newest.startedAt /\ (lastListErr = newest.startedAt => newest.list = None)
    BY <2>1 DEF SelfInv, ErrorOwned
  <2> QED
    BY <1>1, <1>2, <1>3, <1>4, <2>2
<1>12. Decided'
  <2>1. newest'.startedAt > 0 => newest.startedAt > 0
    BY <1>1, <1>2, <1>4
  <2> QED
    BY <1>1, <1>2, <1>3, <1>4, <1>5, <2>1 DEF SelfInv, Decided
<1>13. Lister(l)'
  <2>1. V' <= n /\ lastListErr' <= n /\ newest'.startedAt <= n /\ V' \in Nat /\ newest'.startedAt \in Nat
        /\ lastListErr' \in Nat
    BY <1>1, <1>2, <1>3, <1>4, <1>5
  <2>2. \A k \in Listers \ {l} : Busy(k)' => startedAt'[k] <= n /\ startedAt'[k] \in Nat
    BY <1>1, <1>2, <1>3, <1>7
  <2>3. Instant(l)'
    BY <1>2, <1>3, <2>1, <2>2 DEF Instant
  <2> QED
    BY <1>2, <1>3, <2>1, <2>3 DEF Lister, Answer, ViewIs, ErrorIs, Good, Bad
<1>14. ASSUME NEW k \in Listers \ {l} PROVE Lister(k)'
  <2>1. Lister(k)
    BY DEF SelfInv
  <2>2. CASE ~Busy(k)
    BY <1>3, <1>7, <2>2 DEF Lister, Instant, Answer, ViewIs, ErrorIs, Good, Bad, Busy
  <2>3. CASE Busy(k)
    <3>1. startedAt[k] \in U /\ startedAt[k] > 0 /\ startedAt'[k] = Packed(startedAt[k])
          /\ stage'[k] = stage[k] /\ got'[k] = got[k] /\ Busy(k)'
      BY <1>1, <1>3, <1>7, <2>3
    <3>2. startedAt'[k] \in Nat /\ startedAt'[k] <= n /\ startedAt'[k] > 0
      BY <1>1, <1>2, <3>1, 0 \in U DEF U
    <3>3. \A i \in Listers : Busy(i)' /\ startedAt'[i] = startedAt'[k] => i = k
      <4> SUFFICES ASSUME NEW i \in Listers, Busy(i)', startedAt'[i] = startedAt'[k] PROVE i = k
        OBVIOUS
      <4>1. i # l
        BY <1>2, <1>3, <3>2
      <4>2. Busy(i) /\ startedAt[i] \in U /\ startedAt[i] = startedAt[k]
        BY <1>1, <1>2, <1>3, <1>7, <3>1, <4>1
      <4> QED
        BY <2>1, <2>3, <4>2 DEF Lister, Instant
    <3>4. Instant(k)'
      BY <1>1, <1>2, <1>4, <2>1, <2>3, <3>1, <3>2, <3>3 DEF Lister, Instant
    <3>5. ViewIs(k)'
      <4> SUFFICES ASSUME startedAt'[k] = V'
                   PROVE  stage[k] \in {"published", "seen"} /\ got[k] = view'.list
        BY <3>1 DEF ViewIs
      <4>1. startedAt[k] = V
        BY <1>1, <1>2, <1>5, <3>1
      <4>2. view # None
        BY <3>1, <4>1 DEF V
      <4> QED
        BY <1>5, <2>1, <2>3, <4>1, <4>2 DEF Lister, ViewIs
    <3>6. ErrorIs(k)'
      BY <1>1, <1>2, <1>3, <2>1, <2>3, <3>1 DEF Lister, ErrorIs
    <3>7. Answer(k)'
      BY <2>1, <3>1 DEF Lister, Answer
    <3>8. Good(k)' /\ Bad(k)'
      <4>1. /\ V >= startedAt[k] => V' >= startedAt'[k]
            /\ V > startedAt[k] => V' > startedAt'[k]
            /\ lastListErr >= startedAt[k] => lastListErr' >= startedAt'[k]
        BY <1>1, <1>2, <1>3, <1>5, <3>1
      <4> QED
        BY <2>1, <3>1, <4>1 DEF Lister, Good, Bad
    <3> QED
      BY <3>4, <3>5, <3>6, <3>7, <3>8 DEF Lister
  <2> QED
    BY <2>2, <2>3
<1> QED
  BY <1>6, <1>10, <1>11, <1>12, <1>13, <1>14 DEF SelfInv

(* The host changes behind the agent's back.                               *)
LEMMA HostChangesKeeps ==
  ASSUME SelfInv, NEW k \in DOMAIN Lists, HostChanges(k)
  PROVE  SelfInv'
<1>1. now' \in DOMAIN Lists /\ UNCHANGED <<stage, startedAt, got, view, lastListErr, newest>>
  BY DEF HostChanges
<1>2. SelfTyped' /\ \A l \in Listers : Lister(l)'
  BY <1>1 DEF SelfInv, SelfTyped, Lister, Instant, Answer, ViewIs, ErrorIs, Good, Bad, Busy, V
<1>3. ViewOwned' /\ ErrorOwned' /\ Decided'
  BY <1>1 DEF SelfInv, ViewOwned, ErrorOwned, Decided, Owned, Busy, V
<1> QED
  BY <1>2, <1>3 DEF SelfInv

-----------------------------------------------------------------------------
(* The feed, the requests and the checker.                                 *)

Answered(l) == stage[l] \in {"answered", "published", "seen"}

(* The feed has a list under way while it is listing; a fresh payload says *)
(* nothing of images, a stamped one what its list showed.                  *)
FeedIs ==
  /\ feed = "listing" <=> Busy(Feed)
  /\ feed = "stamping" =>
       \E k \in DOMAIN Lists : payload = [list |-> k, status |-> "blank", revision |-> None]
  /\ payload # None /\ payload.revision # None =>
       feed = "posting" /\ \A s \in Services : shown[s] = payload.revision

(* A request has a list under way until it is decided, and what it was     *)
(* answered the daemon could have answered since it arrived.               *)
RequestIs(r) ==
  /\ Busy(r) => now \in since[r]
  /\ Answered(r) => got[r] \in since[r]

FleetInv ==
  /\ SelfInv /\ containerID \in AgentIDs
  /\ since \in [Requests -> SUBSET DOMAIN Lists]
  /\ FeedIs /\ (\A r \in Requests : RequestIs(r)) /\ ForcedRecheckIsKept

LEMMA FleetInit == Init => FleetInv
<1> SUFFICES ASSUME Init PROVE FleetInv
  OBVIOUS
<1>1. SelfInv
  BY SelfInitInv DEF Init
<1>2. FeedIs
  BY FeedAssumption DEF Init, SelfInit, FeedIs, Busy
<1>3. \A r \in Requests : RequestIs(r)
  BY DEF Init, SelfInit, Requests, RequestIs, Busy, Answered
<1> QED
  BY <1>1, <1>2, <1>3 DEF Init, SelfInit, ImageInit, FleetInv, ForcedRecheckIsKept

(* What a step of one lister does to the listers.                          *)
Others(l) == \A k \in Listers \ {l} : stage'[k] = stage[k] /\ got'[k] = got[k]
LEMMA ListerSteps ==
  ASSUME SelfInv, NEW l \in Listers
  PROVE  /\ StartList(l) => SelfInv' /\ Others(l) /\ Busy(l)' /\ ~Busy(l) /\ ~Answered(l)'
         /\ AnswerList(l) => SelfInv' /\ Others(l) /\ Busy(l)' /\ Busy(l) /\ got'[l] = now
         /\ Publish(l) \/ ClearFailure(l) =>
              SelfInv' /\ Others(l) /\ Busy(l)' /\ Busy(l) /\ Answered(l) /\ got'[l] = got[l]
         /\ FailList(l) \/ CheckView(l) \/ RecordFailure(l) =>
              SelfInv' /\ Others(l) /\ Busy(l)' /\ Busy(l) /\ ~Answered(l)'
         /\ Settle(l) => SelfInv' /\ Others(l) /\ ~Busy(l)' /\ Busy(l)
<1>1. ASSUME StartList(l) PROVE SelfInv' /\ Others(l) /\ Busy(l)' /\ ~Busy(l) /\ ~Answered(l)'
  <2>1. SelfInv'
    BY <1>1, StartListKeeps
  <2> QED
    BY <1>1, <2>1 DEF SelfInv, SelfTyped, StartList, Goto, At, Others, Busy, Answered
<1>2. ASSUME AnswerList(l) PROVE SelfInv' /\ Others(l) /\ Busy(l)' /\ Busy(l) /\ got'[l] = now
  <2>1. SelfInv'
    BY <1>2, AnswerListKeeps
  <2> QED
    BY <1>2, <2>1 DEF SelfInv, SelfTyped, AnswerList, Goto, At, Others, Busy
<1>3. ASSUME Publish(l) \/ ClearFailure(l)
      PROVE  SelfInv' /\ Others(l) /\ Busy(l)' /\ Busy(l) /\ Answered(l) /\ got'[l] = got[l]
  <2>1. SelfInv'
    BY <1>3, PublishKeeps, ClearFailureKeeps
  <2> QED
    BY <1>3, <2>1 DEF SelfInv, SelfTyped, Publish, ClearFailure, Goto, At, Others, Busy, Answered
<1>4. ASSUME FailList(l) \/ CheckView(l) \/ RecordFailure(l)
      PROVE  SelfInv' /\ Others(l) /\ Busy(l)' /\ Busy(l) /\ ~Answered(l)'
  <2>1. SelfInv'
    BY <1>4, AnswerListKeeps, CheckViewKeeps, RecordFailureKeeps
  <2>2. /\ stage[l] \in {"listing", "failing", "checked"}
        /\ stage'[l] \in {"failing", "blind", "checked"}
        /\ Others(l)
    BY <1>4 DEF SelfInv, SelfTyped, FailList, CheckView, RecordFailure, Goto, At, Others
  <2> QED
    BY <2>1, <2>2 DEF Busy, Answered
<1>5. ASSUME Settle(l) PROVE SelfInv' /\ Others(l) /\ ~Busy(l)' /\ Busy(l)
  <2>1. SelfInv'
    BY <1>5, SettleKeeps
  <2> QED
    BY <1>5, <2>1 DEF SelfInv, SelfTyped, Settle, Goto, Others, Busy
<1> QED
  BY <1>1, <1>2, <1>3, <1>4, <1>5

(* A lister that is left alone keeps what it has.                          *)
LEMMA ListerFrame ==
  ASSUME NEW l \in Listers, stage'[l] = stage[l], got'[l] = got[l]
  PROVE  (Busy(l)' <=> Busy(l)) /\ (Answered(l)' <=> Answered(l))
  BY DEF Busy, Answered

(* A revision is voted for by every service.                               *)
LEMMA RevisionIsShown ==
  ASSUME NEW s \in Services, NEW f, RevisionBy(f, shown) # None
  PROVE  /\ f[s] # None /\ f[s].ImageID = RevisionBy(f, shown)
         /\ shown[s] = RevisionBy(f, shown)
<1> DEFINE read == Read(f)
           g == [t \in read |-> provenanceOf(f[t], shown[t])]
           votes == {provenanceOf(f[t], shown[t]) : t \in read}
<1>1. /\ read = Services
      /\ Cardinality(votes) = 1
      /\ RevisionBy(f, shown) = CHOOSE v \in votes : TRUE
  BY DEF RevisionBy
<1>2. IsFiniteSet(votes)
  <2>1. IsFiniteSet(read)
    BY <1>1, ImageAssumption
  <2>2. g \in Surjection(read, votes)
    BY DEF Surjection
  <2> HIDE DEF read, g, votes
  <2> QED
    BY <2>1, <2>2, FS_Surjection
<1>3. provenanceOf(f[s], shown[s]) \in votes
  BY <1>1
<1>4. f[s] # None
  BY <1>1 DEF Read
<1> HIDE DEF votes
<1>5. PICK v : votes = {v}
  BY <1>1, <1>2, FS_Singleton
<1>6. provenanceOf(f[s], shown[s]) = RevisionBy(f, shown)
  BY <1>1, <1>3, <1>5
<1> QED
  BY <1>4, <1>6 DEF provenanceOf

(* Steps of the feed.                                                      *)
LEMMA FeedKeeps ==
  ASSUME FleetInv, FeedSteps \/ Post(TRUE)
  PROVE  FleetInv'
<1> USE FeedAssumption
<1>1. \A r \in Requests : r \in Listers /\ r # Feed
  BY DEF Requests
<1>2. UNCHANGED selfVars => SelfInv' /\ containerID' = containerID /\ now' = now
  BY DEF FleetInv, selfVars, SelfInv, SelfTyped, ViewOwned, ErrorOwned, Decided, Lister, Instant,
     Answer, ViewIs, ErrorIs, Good, Bad, Owned, Busy, V
<1>3. ASSUME Others(Feed) \/ UNCHANGED selfVars, UNCHANGED <<since, now>>
      PROVE  \A r \in Requests : RequestIs(r)'
  <2> SUFFICES ASSUME NEW r \in Requests PROVE RequestIs(r)'
    OBVIOUS
  <2>1. stage'[r] = stage[r] /\ got'[r] = got[r]
    BY <1>1, <1>3 DEF Others, selfVars
  <2>2. (Busy(r)' <=> Busy(r)) /\ (Answered(r)' <=> Answered(r))
    BY <1>1, <2>1, ListerFrame
  <2> QED
    BY <1>3, <2>1, <2>2 DEF FleetInv, RequestIs
<1>4. UNCHANGED imageVars => ForcedRecheckIsKept'
  BY DEF FleetInv, ForcedRecheckIsKept, imageVars
<1>5. CASE FeedWakes
  <2>1. SelfInv' /\ Others(Feed) /\ Busy(Feed)'
    BY <1>5, ListerSteps DEF FleetInv, FeedWakes
  <2>2. UNCHANGED <<containerID, now>> /\ feed' = "listing" /\ UNCHANGED <<payload, imageVars, since>>
        /\ feed = "idle"
    BY <1>5 DEF FeedWakes, StartList
  <2>3. FeedIs'
    BY <2>1, <2>2 DEF FleetInv, FeedIs
  <2> QED
    BY <1>3, <1>4, <2>1, <2>2, <2>3 DEF FleetInv
<1>6. CASE FeedAnswered
  <2>1. SelfInv' /\ Others(Feed) /\ Busy(Feed)' /\ Busy(Feed)
    BY <1>6, ListerSteps DEF FleetInv, FeedAnswered
  <2>2. UNCHANGED <<containerID, now, feed, payload, imageVars, since>>
    BY <1>6 DEF FeedAnswered, AnswerList
  <2>3. FeedIs'
    BY <2>1, <2>2 DEF FleetInv, FeedIs
  <2> QED
    BY <1>3, <1>4, <2>1, <2>2, <2>3 DEF FleetInv
<1>7. CASE FeedObserves
  <2>1. SelfInv' /\ Others(Feed) /\ Busy(Feed)' /\ Busy(Feed)
    BY <1>7, ListerSteps DEF FleetInv, FeedObserves
  <2>2. UNCHANGED <<containerID, now, feed, payload, shown, imageVars, since>>
    BY <1>7 DEF FeedObserves, Publish, ClearFailure, CheckView, RecordFailure, feedVars
  <2>3. FeedIs'
    BY <2>1, <2>2 DEF FleetInv, FeedIs
  <2> QED
    BY <1>3, <1>4, <2>1, <2>2, <2>3 DEF FleetInv
<1>8. CASE FeedListed
  <2>1. SelfInv' /\ Others(Feed) /\ ~Busy(Feed)'
    BY <1>8, ListerSteps DEF FleetInv, FeedListed
  <2>2. /\ UNCHANGED <<containerID, now, imageVars, since>>
        /\ \/ feed' = "stamping" /\ payload' = [list |-> got[Feed], status |-> "blank", revision |-> None]
           \/ feed' = "idle" /\ (payload' = None \/ payload'.revision = None)
    BY <1>8 DEF FeedListed, Settle, At
  <2>3. feed' = "stamping" => got[Feed] \in DOMAIN Lists
    BY <1>8 DEF FleetInv, SelfInv, Lister, Answer, FeedListed, At
  <2>4. FeedIs'
    BY <2>1, <2>2, <2>3 DEF FeedIs
  <2> QED
    BY <1>3, <1>4, <2>1, <2>2, <2>4 DEF FleetInv
<1>9. ASSUME NEW s \in Services, StampContainer(s) PROVE FleetInv'
  <2>1. UNCHANGED <<selfVars, imageVars, feed, shown, payload, since>>
    BY <1>9 DEF StampContainer
  <2>2. FeedIs'
    BY <2>1 DEF FleetInv, FeedIs, Busy, selfVars
  <2> QED
    BY <1>2, <1>3, <1>4, <2>1, <2>2 DEF FleetInv
<1>10. CASE StampProject
  <2>1. UNCHANGED <<selfVars, imageVars, shown, since>> /\ feed = "stamping" /\ feed' = "posting"
    BY <1>10 DEF StampProject
  <2>2. payload'.revision = RevisionBy(found, shown)
    BY <1>10, <2>1 DEF StampProject, FleetInv, FeedIs
  <2>3. ~Busy(Feed)'
    BY <2>1 DEF FleetInv, FeedIs, Busy, selfVars
  <2>4. FeedIs'
    BY <2>1, <2>2, <2>3, RevisionIsShown DEF FeedIs
  <2> QED
    BY <1>2, <1>3, <1>4, <2>1, <2>4 DEF FleetInv
<1>11. CASE \E fails \in BOOLEAN : Post(fails)
  <2>1. UNCHANGED <<selfVars, imageVars, since>> /\ feed = "posting" /\ feed' = "idle" /\ payload' = None
    BY <1>11 DEF Post
  <2>2. FeedIs'
    BY <2>1 DEF FleetInv, FeedIs, Busy, selfVars
  <2> QED
    BY <1>2, <1>3, <1>4, <2>1, <2>2 DEF FleetInv
<1> QED
  BY <1>5, <1>6, <1>7, <1>8, <1>9, <1>10, <1>11 DEF FeedSteps

(* Steps of a request.                                                     *)
LEMMA RequestKeeps ==
  ASSUME FleetInv, NEW r \in Requests,
         RequestArrives(r) \/ RequestLists(r) \/ Decide(r)
  PROVE  FleetInv'
<1>1. r \in Listers /\ r # Feed /\ Feed \in Listers
  BY FeedAssumption DEF Requests
<1>2. ASSUME Others(r), UNCHANGED <<feedVars, now>>,
             \A q \in Requests \ {r} : since'[q] = since[q]
      PROVE  FeedIs' /\ \A q \in Requests \ {r} : RequestIs(q)'
  <2>1. \A l \in Listers \ {r} : /\ Busy(l)' <=> Busy(l)
                                 /\ Answered(l)' <=> Answered(l)
                                 /\ got'[l] = got[l]
    BY <1>2, ListerFrame DEF Others
  <2>2. FeedIs'
    BY <1>1, <1>2, <2>1 DEF FleetInv, FeedIs, feedVars
  <2>3. \A q \in Requests \ {r} : RequestIs(q)'
    BY <1>2, <2>1 DEF FleetInv, RequestIs, Requests
  <2> QED
    BY <2>2, <2>3
<1>3. UNCHANGED imageVars => ForcedRecheckIsKept'
  BY DEF FleetInv, ForcedRecheckIsKept, imageVars
<1>4. CASE RequestArrives(r)
  <2>1. SelfInv' /\ Others(r) /\ Busy(r)' /\ ~Answered(r)'
    BY <1>1, <1>4, ListerSteps DEF FleetInv, RequestArrives
  <2>2. /\ UNCHANGED <<containerID, now, imageVars, feedVars>>
        /\ since' \in [Requests -> SUBSET DOMAIN Lists]
        /\ since'[r] = {now}
        /\ \A q \in Requests \ {r} : since'[q] = since[q]
    BY <1>4 DEF FleetInv, SelfInv, SelfTyped, RequestArrives, StartList
  <2>3. RequestIs(r)'
    BY <2>1, <2>2 DEF RequestIs
  <2> QED
    BY <1>2, <1>3, <2>1, <2>2, <2>3 DEF FleetInv
<1>5. CASE RequestLists(r)
  <2>1. /\ SelfInv' /\ Others(r) /\ Busy(r)' /\ Busy(r)
        /\ Answered(r)' => got'[r] = now \/ (Answered(r) /\ got'[r] = got[r])
    BY <1>1, <1>5, ListerSteps DEF FleetInv, RequestLists
  <2>2. UNCHANGED <<containerID, now, imageVars, feedVars, since>>
    BY <1>5 DEF RequestLists, AnswerList, Publish, ClearFailure, CheckView, RecordFailure
  <2>3. RequestIs(r)'
    BY <2>1, <2>2 DEF FleetInv, RequestIs
  <2> QED
    BY <1>2, <1>3, <2>1, <2>2, <2>3 DEF FleetInv
<1>6. CASE Decide(r)
  <2>1. SelfInv' /\ Others(r) /\ ~Busy(r)'
    BY <1>1, <1>6, ListerSteps DEF FleetInv, Decide
  <2>2. /\ UNCHANGED <<containerID, now, imageVars, feedVars>>
        /\ since' \in [Requests -> SUBSET DOMAIN Lists]
        /\ \A q \in Requests \ {r} : since'[q] = since[q]
    BY <1>6 DEF FleetInv, Decide, Settle
  <2>3. RequestIs(r)'
    BY <2>1, <2>2 DEF RequestIs, Answered, Busy
  <2> QED
    BY <1>2, <1>3, <2>1, <2>2, <2>3 DEF FleetInv
<1> QED
  BY <1>4, <1>5, <1>6

(* Steps of the checker, of updates and of the host.                       *)

(* The force: taken by a pass that has not looked at the images yet.       *)
LEMMA ForceKeeps ==
  ASSUME ForcedRecheckIsKept, CheckerSteps \/ UpdateSteps \/ Happens
  PROVE  ForcedRecheckIsKept'
<1>1. CASE AfterPass
  BY <1>1 DEF AfterPass, ForcedRecheckIsKept, world, wake, work
<1>2. CASE \E byTrigger \in BOOLEAN : Wake(byTrigger)
  BY <1>2 DEF Wake, ForcedRecheckIsKept, world, work
<1>3. CASE \E within \in BOOLEAN : BeginPass(within)
  <2>1. pass = "woken" /\ owed' = owed /\ (forceNext => pass' = "listing")
    BY <1>3 DEF BeginPass, Coalesced
  <2>2. owed => forceNext
    BY <2>1 DEF ForcedRecheckIsKept
  <2> QED
    BY <2>1, <2>2 DEF ForcedRecheckIsKept
<1>4. CASE SnapshotUnits \/ SnapshotFails
  BY <1>4 DEF SnapshotUnits, SnapshotFails, ForcedRecheckIsKept, world, wake, work
<1>5. CASE \E fails \in BOOLEAN : CheckerTries(fails)
  <2>1. /\ pass \in {"listed", "fetched", "checked"} /\ pass' \in {"fetched", "checked", "planned"}
        /\ UNCHANGED <<running, forceNext, trigger, update, units, owed>>
    BY <1>5 DEF CheckerTries, FetchOverrides, CheckImages, PlanProject, world, wake, work
  <2> QED
    BY <2>1 DEF ForcedRecheckIsKept
<1>6. CASE \E young \in BOOLEAN : StoreResults(young)
  <2>1. /\ pass = "planned" /\ owed' = (owed /\ units # running)
        /\ UNCHANGED <<running, forceNext, trigger, update, units>>
    BY <1>6 DEF StoreResults, world, wake
  <2> QED
    BY <2>1 DEF ForcedRecheckIsKept
<1>7. CASE ForceRecheck
  BY <1>7 DEF ForceRecheck, ForcedRecheckIsKept, world, work
<1>8. CASE Deploy \/ SetStrategy \/ \E s \in Services : Release(s)
  BY <1>8 DEF Deploy, SetStrategy, Release, ForcedRecheckIsKept, wake, work
<1>9. CASE \E admitted \in BOOLEAN : Refresh(admitted)
  <2>1. /\ (forceNext => forceNext') /\ trigger' = TRUE
        /\ UNCHANGED <<running, pass, units, owed>>
    BY <1>9 DEF Refresh, world, work
  <2> QED
    BY <2>1 DEF ForcedRecheckIsKept
<1>10. CheckerSteps => \/ AfterPass \/ CheckerGoesOn \/ SnapshotFails
                      \/ \E fails \in BOOLEAN : CheckerTries(fails)
  BY DEF CheckerSteps
<1>11. CASE CheckerSteps
  BY <1>1, <1>2, <1>3, <1>4, <1>5, <1>6, <1>10, <1>11 DEF CheckerGoesOn
<1>12. CASE UpdateSteps
  BY <1>7, <1>12 DEF UpdateSteps
<1>13. CASE Happens
  BY <1>8, <1>9, <1>13 DEF Happens
<1> QED
  BY <1>11, <1>12, <1>13

(* Nothing of the rest of the invariant moves.                             *)
LEMMA RestKeeps ==
  ASSUME FleetInv, UNCHANGED <<selfVars, feed, payload, shown, since>>,
         ForcedRecheckIsKept'
  PROVE  FleetInv'
<1>1. SelfInv'
  BY DEF FleetInv, selfVars, SelfInv, SelfTyped, ViewOwned, ErrorOwned, Decided, Lister, Instant,
     Answer, ViewIs, ErrorIs, Good, Bad, Owned, Busy, V
<1>2. FeedIs' /\ \A r \in Requests : RequestIs(r)'
  BY DEF FleetInv, selfVars, FeedIs, RequestIs, Busy, Answered
<1>3. containerID' = containerID
  BY DEF selfVars
<1> QED
  BY <1>1, <1>2, <1>3 DEF FleetInv

LEMMA CheckerKeeps ==
  ASSUME FleetInv, CheckerSteps \/ UpdateSteps \/ Happens
  PROVE  FleetInv'
<1>1. UNCHANGED <<selfVars, feed, payload, shown, since>>
  BY DEF CheckerSteps, AfterPass, UpdateSteps, Happens, feedVars
<1>2. ForcedRecheckIsKept'
  BY ForceKeeps DEF FleetInv
<1> QED
  BY <1>1, <1>2, RestKeeps

(* The host moves while requests wait for it.                              *)
LEMMA HostKeeps ==
  ASSUME FleetInv, NEW k \in DOMAIN Lists, HostMoves(k)
  PROVE  FleetInv'
<1>1. SelfInv'
  BY HostChangesKeeps DEF FleetInv, HostMoves
<1>2. /\ now' = k
      /\ UNCHANGED <<containerID, stage, got, imageVars, feedVars>>
      /\ \A r \in Requests : since'[r] = IF At(r, "idle") THEN since[r]
                                         ELSE since[r] \cup {k}
      /\ since' \in [Requests -> SUBSET DOMAIN Lists]
  BY DEF FleetInv, HostMoves, HostChanges
<1>3. FeedIs'
  BY <1>2 DEF FleetInv, FeedIs, Busy, feedVars
<1>4. \A r \in Requests : RequestIs(r)'
  BY <1>2 DEF FleetInv, RequestIs, Busy, Answered, At
<1>5. ForcedRecheckIsKept'
  BY <1>2 DEF FleetInv, ForcedRecheckIsKept, imageVars
<1> QED
  BY <1>1, <1>2, <1>3, <1>4, <1>5 DEF FleetInv

(* A list of anybody's fails.                                              *)
LEMMA FailureKeeps ==
  ASSUME FleetInv, NEW l \in Listers, ListFails(l)
  PROVE  FleetInv'
<1>1. SelfInv' /\ Others(l) /\ Busy(l)' /\ Busy(l) /\ ~Answered(l)'
  BY ListerSteps DEF FleetInv, ListFails
<1>2. UNCHANGED <<containerID, now, imageVars, feedVars, since>>
  BY DEF ListFails, FailList
<1>3. \A k \in Listers : /\ Busy(k)' <=> Busy(k)
                         /\ Answered(k)' => Answered(k) /\ got'[k] = got[k]
  BY <1>1, ListerFrame DEF Others
<1>4. FeedIs'
  BY <1>2, <1>3, FeedAssumption DEF FleetInv, FeedIs, feedVars
<1>5. \A r \in Requests : RequestIs(r)'
  BY <1>2, <1>3 DEF FleetInv, RequestIs, Requests
<1>6. ForcedRecheckIsKept'
  BY <1>2 DEF FleetInv, ForcedRecheckIsKept, imageVars
<1> QED
  BY <1>1, <1>2, <1>4, <1>5, <1>6 DEF FleetInv

LEMMA FleetNext == FleetInv /\ [Next]_vars => FleetInv'
<1> SUFFICES ASSUME FleetInv, [Next]_vars PROVE FleetInv'
  OBVIOUS
<1>1. CASE Next
  BY <1>1, FeedKeeps, RequestKeeps, CheckerKeeps, HostKeeps, FailureKeeps DEF Next
<1>2. CASE UNCHANGED vars
  <2>1. UNCHANGED <<selfVars, imageVars, feed, payload, shown, since>>
    BY <1>2 DEF vars, fleetVars
  <2>2. ForcedRecheckIsKept'
    BY <2>1 DEF FleetInv, ForcedRecheckIsKept, imageVars
  <2> QED
    BY <2>1, <2>2, RestKeeps
<1> QED
  BY <1>1, <1>2

-----------------------------------------------------------------------------
(* The types of the checker and of the messages, and what was stamped.     *)

(* What the feed has looked up stays what the cache holds, unless a nudge  *)
(* waits or is about to.                                                   *)
Stamped ==
  feed = "stamping" /\ ~nudge /\ pass # "stored" =>
    \A s \in Services \ unread : found[s] = lookup(s, shown)

StatusInv ==
  /\ ImageTypeOK /\ found \in [Services -> Checks \cup {None}]
  /\ Stamped /\ StatusIsOnItsWay

LEMMA StatusInit == Init => StatusInv
<1> SUFFICES ASSUME Init PROVE StatusInv
  OBVIOUS
<1>1. [s \in Services |-> 0] \in [Services -> Contents]
  BY ImageAssumption DEF Contents
<1>2. ImageTypeOK
  BY <1>1 DEF Init, ImageInit, ImageTypeOK
<1>3. StatusIsOnItsWay /\ Stamped
  BY DEF Init, ImageInit, StatusIsOnItsWay, Stamped
<1>4. found \in [Services -> Checks \cup {None}]
  BY DEF Init
<1> QED
  BY <1>2, <1>3, <1>4 DEF StatusInv

(* Steps of the checker, of updates and of the host keep the types.        *)
LEMMA ImageTypes ==
  ASSUME ImageTypeOK, CheckerSteps \/ UpdateSteps \/ Happens
  PROVE  ImageTypeOK'
<1>1. CASE AfterPass
  BY <1>1 DEF AfterPass, ImageTypeOK, world, wake, stored, work
<1>2. CASE \E byTrigger \in BOOLEAN : Wake(byTrigger)
  BY <1>2 DEF Wake, ImageTypeOK, world, stored, work
<1>3. CASE \E within \in BOOLEAN : BeginPass(within)
  BY <1>3 DEF BeginPass, ImageTypeOK, world, stored, work
<1>4. CASE SnapshotUnits \/ SnapshotFails
  BY <1>4 DEF SnapshotUnits, SnapshotFails, ImageTypeOK, world, wake, stored, work
<1>5. CASE \E fails \in BOOLEAN : FetchOverrides(fails)
  BY <1>5 DEF FetchOverrides, ImageTypeOK, world, wake, work
<1>6. ASSUME NEW failed \in SUBSET Services, CheckImages(failed) PROVE ImageTypeOK'
  <2>1. /\ pass' = "checked" /\ results' = [s \in Services |-> Checked(s, failed)]
        /\ UNCHANGED <<world, stored, wake, asked, units, plan, update, owed>>
    BY <1>6 DEF CheckImages
  <2>2. \A s \in Services : Checked(s, failed) \in Checks
    BY DEF Checked, Checks, ImageTypeOK, Statuses
  <2> QED
    BY <2>1, <2>2 DEF ImageTypeOK, world, stored, wake
<1>7. ASSUME NEW fails \in BOOLEAN, PlanProject(fails) PROVE ImageTypeOK'
  <2>1. /\ pass' = "planned" /\ plan' \in Plans \cup {None}
        /\ UNCHANGED <<world, stored, wake, asked, units, results, update, owed>>
    BY <1>7 DEF PlanProject, Plans
  <2> QED
    BY <2>1 DEF ImageTypeOK, world, stored, wake
<1>8. ASSUME NEW young \in BOOLEAN, StoreResults(young) PROVE ImageTypeOK'
  <2>1. /\ pass' = "stored" /\ owed' \in BOOLEAN /\ cache' = results
        /\ results' \in [Services -> Checks \cup {None}] /\ plan' = None
        /\ UNCHANGED <<world, overrides, wake, asked, units, update>>
    BY <1>8 DEF StoreResults
  <2>2. projPlans' \in Plans \cup {None}
    BY <1>8 DEF StoreResults, mergeProjPlans, ImageTypeOK
  <2> QED
    BY <2>1, <2>2 DEF ImageTypeOK, world, wake
<1>9. CASE ForceRecheck
  BY <1>9 DEF ForceRecheck, ImageTypeOK, world, stored, work
<1>10. CASE Deploy \/ SetStrategy
  BY <1>10 DEF Deploy, SetStrategy, ImageTypeOK, wake, stored, work
<1>11. ASSUME NEW s \in Services, Release(s) PROVE ImageTypeOK'
  <2>1. upstream' \in [Services -> Contents]
    BY <1>11, ImageAssumption DEF Release, ImageTypeOK, Contents
  <2> QED
    BY <1>11, <2>1 DEF Release, ImageTypeOK, wake, stored, work
<1>12. CASE \E admitted \in BOOLEAN : Refresh(admitted)
  BY <1>12 DEF Refresh, ImageTypeOK, world, stored, work
<1>13. CASE CheckerSteps
  <2>1. AfterPass \/ CheckerGoesOn \/ SnapshotFails \/ \E fails \in BOOLEAN : CheckerTries(fails)
    BY <1>13 DEF CheckerSteps
  <2> QED
    BY <1>1, <1>2, <1>3, <1>4, <1>5, <1>6, <1>7, <1>8, <2>1 DEF CheckerGoesOn, CheckerTries
<1>14. CASE UpdateSteps
  BY <1>9, <1>14 DEF UpdateSteps
<1>15. CASE Happens
  BY <1>10, <1>11, <1>12, <1>15 DEF Happens
<1> QED
  BY <1>13, <1>14, <1>15

(* What is stamped is a message.                                           *)
LEMMA StampIsMessage ==
  ASSUME ImageTypeOK, found \in [Services -> Checks \cup {None}], NEW k \in DOMAIN Lists
  PROVE  [list |-> k, status |-> StatusBy(projPlans, found), revision |-> RevisionBy(found, shown)]
           \in Message
<1>1. StatusBy(projPlans, found) \in Statuses \cup {"blank"}
  BY DEF StatusBy, PlanStatus, Rollup, Statuses
<1>2. ASSUME NEW s \in Services, RevisionBy(found, shown) # None
      PROVE  RevisionBy(found, shown) \in Contents
  <2>1. found[s] # None /\ found[s].ImageID = RevisionBy(found, shown)
    BY <1>2, RevisionIsShown
  <2>2. found[s] \in Checks
    BY <2>1
  <2> QED
    BY <2>1, <2>2 DEF Checks
<1>3. Services = {} => RevisionBy(found, shown) = None
  <2> SUFFICES ASSUME Services = {} PROVE RevisionBy(found, shown) = None
    OBVIOUS
  <2>1. {provenanceOf(found[s], shown[s]) : s \in Read(found)} = {}
    BY DEF Read
  <2> QED
    BY <2>1, FS_EmptySet DEF RevisionBy
<1> QED
  BY <1>1, <1>2, <1>3 DEF Message

(* The look-ups read the cache and what the list showed.                   *)
LEMMA LookupFrame ==
  ASSUME UNCHANGED <<cache, projPlans, shown>>
  PROVE  /\ \A s \in Services : lookup(s, shown)' = lookup(s, shown)
         /\ ProjectStatus(shown)' = ProjectStatus(shown)
<1>1. \A s \in Services : lookup(s, shown)' = lookup(s, shown)
  BY DEF lookup
<1>2. ProjectStatus(shown)' = ProjectStatus(shown)
  BY DEF ProjectStatus, StatusBy, PlanStatus, Rollup, Read, lookup
<1> QED
  BY <1>1, <1>2

(* The token of a nudge and the payload: one of them has what was stored.  *)
LEMMA StatusNext == FleetInv /\ StatusInv /\ [Next]_vars => StatusInv'
<1> SUFFICES ASSUME FleetInv, StatusInv, [Next]_vars PROVE StatusInv'
  OBVIOUS
<1> USE DEF StatusInv
<1> DEFINE K == \E s \in Services : cache[s] # None
           P == ProjectStatus(shown)
           FoundOK == found \in [Services -> Checks \cup {None}]
<1>1. UNCHANGED imageVars => ImageTypeOK' /\ UNCHANGED <<cache, projPlans, pass>>
  BY DEF ImageTypeOK, imageVars
<1>2. UNCHANGED <<cache, projPlans, shown>> =>
        K' = K /\ P' = P /\ \A s \in Services : lookup(s, shown)' = lookup(s, shown)
  BY LookupFrame
<1>3. CASE UNCHANGED <<imageVars, feed, nudge, shown, stampVars, payload, told, unsent>>
  BY <1>1, <1>2, <1>3 DEF StatusIsOnItsWay, Stamped, stampVars
<1>4. CASE FeedWakes \/ FeedAnswered \/ FeedObserves
  <2>1. UNCHANGED imageVars /\ FoundOK'
    BY <1>4 DEF FeedWakes, FeedAnswered, FeedObserves, feedVars, stampVars
  <2>2. feed' = "listing"
    BY <1>4, ListerSteps, FeedAssumption
       DEF FeedWakes, FeedAnswered, FeedObserves, FleetInv, FeedIs, feedVars
  <2> QED
    BY <1>1, <2>1, <2>2 DEF StatusIsOnItsWay, Stamped
<1>5. CASE FeedListed
  <2>1. UNCHANGED imageVars /\ FoundOK'
    BY <1>5 DEF FeedListed
  <2>2. (feed' = "stamping" /\ unread' = Services) \/ (feed' = "idle" /\ unsent')
    BY <1>5 DEF FeedListed, Settle, At
  <2> QED
    BY <1>1, <2>1, <2>2 DEF StatusIsOnItsWay, Stamped
<1>6. ASSUME NEW s \in Services, StampContainer(s) PROVE StatusInv'
  <2>1. UNCHANGED <<imageVars, shown, feed, nudge>> /\ feed = "stamping"
        /\ unread' = unread \ {s} /\ found' = [found EXCEPT ![s] = lookup(s, shown)]
    BY <1>6 DEF StampContainer
  <2>2. lookup(s, shown) \in Checks \cup {None}
    BY DEF lookup, ImageTypeOK
  <2>3. FoundOK'
    BY <2>1, <2>2
  <2>4. \A t \in Services : found'[t] = IF t = s THEN lookup(s, shown) ELSE found[t]
    BY <2>1
  <2>5. Stamped'
    BY <1>1, <1>2, <2>1, <2>4 DEF Stamped
  <2> QED
    BY <1>1, <2>1, <2>3, <2>5 DEF StatusIsOnItsWay
<1>7. CASE StampProject
  <2>1. /\ UNCHANGED <<imageVars, shown, nudge>> /\ feed' = "posting" /\ feed = "stamping"
        /\ unread = {} /\ found' = [s \in Services |-> None]
    BY <1>7 DEF StampProject
  <2>2. PICK k \in DOMAIN Lists : payload = [list |-> k, status |-> "blank", revision |-> None]
    BY <2>1 DEF FleetInv, FeedIs
  <2>3. payload' = [list |-> k, status |-> StatusBy(projPlans, found),
                    revision |-> RevisionBy(found, shown)]
    BY <1>7, <2>2 DEF StampProject
  <2>4. payload' # None /\ payload'.status = StatusBy(projPlans, found)
    BY <2>3, StampIsMessage, FeedAssumption
  <2>5. ~nudge /\ pass # "stored" => payload'.status = P
    <3> SUFFICES ASSUME ~nudge, pass # "stored" PROVE payload'.status = P
      OBVIOUS
    <3>1. \A s \in Services : found[s] = lookup(s, shown)
      BY <2>1 DEF Stamped
    <3>2. found = [s \in Services |-> lookup(s, shown)]
      BY <3>1
    <3> QED
      BY <2>4, <3>2 DEF ProjectStatus
  <2>6. FoundOK'
    BY <2>1
  <2> QED
    BY <1>1, <1>2, <2>1, <2>4, <2>5, <2>6 DEF StatusIsOnItsWay, Stamped
<1>8. CASE Post(FALSE) \/ Post(TRUE)
  <2>1. UNCHANGED <<imageVars, shown, nudge, found>> /\ feed' = "idle" /\ feed = "posting"
        /\ (unsent' \/ told' = payload)
    BY <1>8 DEF Post, stampVars
  <2> QED
    BY <1>1, <1>2, <2>1 DEF StatusIsOnItsWay, Stamped
<1>9. CASE AfterPass
  <2>1. nudge' /\ found' = found
    BY <1>9 DEF AfterPass, NudgeKept, stampVars
  <2> QED
    BY <1>9, <2>1, ImageTypes DEF StatusIsOnItsWay, Stamped, CheckerSteps
<1>10. CASE (\E young \in BOOLEAN : StoreResults(young)) /\ CheckerSteps
  <2>1. pass' = "stored"
    BY <1>10 DEF StoreResults
  <2>2. found' = found
    BY <1>10 DEF CheckerSteps, AfterPass, feedVars, stampVars
  <2> QED
    BY <1>10, <2>1, <2>2, ImageTypes DEF StatusIsOnItsWay, Stamped
<1>11. CASE (CheckerSteps \/ UpdateSteps \/ Happens) /\ UNCHANGED <<cache, projPlans, feedVars>>
            /\ (pass = "stored" => pass' = "stored")
  <2>1. UNCHANGED <<feed, nudge, shown, unread, found, payload, told, unsent>>
    BY <1>11 DEF feedVars, stampVars
  <2> QED
    BY <1>2, <1>11, <2>1, ImageTypes DEF StatusIsOnItsWay, Stamped
<1>12. CASE CheckerSteps \/ UpdateSteps \/ Happens
  <2>1. CheckerSteps =>
          \/ AfterPass \/ (\E young \in BOOLEAN : StoreResults(young))
          \/ /\ \/ (\E byTrigger \in BOOLEAN : Wake(byTrigger)) \/ (\E within \in BOOLEAN : BeginPass(within))
                \/ SnapshotUnits \/ SnapshotFails \/ \E fails \in BOOLEAN : CheckerTries(fails)
             /\ UNCHANGED feedVars
    BY DEF CheckerSteps, CheckerGoesOn
  <2>2. \/ (\E byTrigger \in BOOLEAN : Wake(byTrigger)) \/ (\E within \in BOOLEAN : BeginPass(within))
        \/ SnapshotUnits \/ SnapshotFails
        => UNCHANGED <<cache, projPlans>> /\ pass # "stored"
    BY DEF Wake, BeginPass, SnapshotUnits, SnapshotFails, stored
  <2>3. (\E fails \in BOOLEAN : CheckerTries(fails)) => UNCHANGED <<cache, projPlans>> /\ pass # "stored"
    BY DEF CheckerTries, FetchOverrides, CheckImages, PlanProject, stored
  <2>4. UpdateSteps \/ Happens => UNCHANGED <<cache, projPlans, feedVars, pass>>
    BY DEF UpdateSteps, ForceRecheck, Happens, Deploy, SetStrategy, Refresh, Release, stored
  <2> QED
    BY <1>9, <1>10, <1>11, <1>12, <2>1, <2>2, <2>3, <2>4
<1>13. ASSUME NEW r \in Requests, RequestArrives(r) \/ RequestLists(r) \/ Decide(r)
       PROVE  UNCHANGED <<imageVars, feedVars>>
  BY <1>13 DEF RequestArrives, RequestLists, Decide
<1>14. ASSUME \/ \E k \in DOMAIN Lists : HostMoves(k)
              \/ \E l \in Listers : ListFails(l)
       PROVE  UNCHANGED <<imageVars, feedVars>>
  BY <1>14 DEF HostMoves, ListFails
<1>15. UNCHANGED <<imageVars, feedVars>> \/ UNCHANGED vars =>
         UNCHANGED <<imageVars, feed, nudge, shown, stampVars, payload, told, unsent>>
  BY DEF feedVars, stampVars, vars, fleetVars
<1> QED
  BY <1>3, <1>4, <1>5, <1>6, <1>7, <1>8, <1>12, <1>13, <1>14, <1>15 DEF Next, FeedSteps
-----------------------------------------------------------------------------

(* What follows.                                                           *)

(* A step that ends a request decides it.                                  *)
LEMMA OnlyDecideEnds ==
  ASSUME FleetInv, [Next]_vars, NEW r \in Requests, ~At(r, "idle"), At(r, "idle")'
  PROVE  Decide(r)
<1>1. r \in Listers /\ r # Feed /\ Feed \in Listers
  BY FeedAssumption DEF Requests
<1>2. Busy(r) /\ ~Busy(r)'
  BY DEF Busy, At
<1>3. stage'[r] # stage[r]
  BY DEF At
<1>4. ASSUME NEW l \in Listers,
             \/ StartList(l) \/ AnswerList(l) \/ Publish(l) \/ ClearFailure(l)
             \/ FailList(l) \/ CheckView(l) \/ RecordFailure(l)
      PROVE  FALSE
  <2>1. Others(l) /\ Busy(l)'
    BY <1>4, ListerSteps DEF FleetInv
  <2> QED
    BY <1>1, <1>2, <1>3, <2>1 DEF Others
<1>5. ASSUME NEW q \in Listers \ {r}, Settle(q) PROVE FALSE
  <2>1. Others(q)
    BY <1>5, ListerSteps DEF FleetInv
  <2> QED
    BY <1>1, <1>3, <2>1 DEF Others
<1>6. ~(FeedWakes \/ FeedAnswered \/ FeedObserves \/ FeedListed)
  BY <1>1, <1>4, <1>5 DEF FeedWakes, FeedAnswered, FeedObserves, FeedListed
<1>7. ~UNCHANGED stage
  BY <1>3
<1>8. ~(\/ StampProject \/ (\E s \in Services : StampContainer(s)) \/ Post(FALSE) \/ Post(TRUE)
        \/ UpdateSteps \/ Happens \/ UNCHANGED vars)
  BY <1>7 DEF StampProject, StampContainer, Post, UpdateSteps, Happens, selfVars, vars
<1>9. ~CheckerSteps
  BY <1>7 DEF CheckerSteps, AfterPass, selfVars
<1>10. ~(\E k \in DOMAIN Lists : HostMoves(k))
  BY <1>7 DEF HostMoves, HostChanges
<1>11. ~(\E l \in Listers : ListFails(l))
  BY <1>4 DEF ListFails
<1>12. PICK q \in Requests : RequestArrives(q) \/ RequestLists(q) \/ Decide(q)
  BY <1>6, <1>8, <1>9, <1>10, <1>11 DEF Next, FeedSteps
<1>13. Decide(q)
  BY <1>4, <1>12 DEF RequestArrives, RequestLists, Requests
<1>14. q = r
  BY <1>5, <1>13 DEF Decide, Requests
<1> QED
  BY <1>13, <1>14

(* A view that may stand in for a failed list shows the agent's projects.  *)
LEMMA FallbackProtects ==
  ASSUME FleetInv, NEW r \in Requests, At(r, "blind"), ~TooStale, NEW p \in AgentProjects
  PROVE  isSelfProject(DecidedBy(r), p)
<1>1. PICK j \in DOMAIN Lists : \E c \in Lists[j] : c.id = containerID /\ c.project = p
  BY DEF AgentProjects
<1>2. PICK c \in Lists[j] : c.id = containerID /\ c.project = p
  BY <1>1
<1>3. p # None
  BY DEF AgentProjects
<1>4. known
  BY <1>2, LabelsAssumption DEF known
<1>5. view # None /\ ViewOf(view.list).found /\ DecidedBy(r) = ViewOf(view.list)
  BY <1>4 DEF TooStale, protects, DecidedBy, At
<1>6. PICK k \in DOMAIN Lists : k = view.list
  BY <1>5 DEF FleetInv, SelfInv, SelfTyped
<1> DEFINE w == deriveSelfView(containerID, Lists[k])
<1>7. ViewOf(view.list) = w
  BY <1>6 DEF FleetInv, ViewOf, Views
<1>8. PICK d \in Lists[k] : d.id = containerID
  <2>1. w.found
    BY <1>5, <1>7
  <2>2. w.found = ({o \in Lists[k] : containerID # None /\ o.id = containerID} # {})
    BY DEF deriveSelfView
  <2> QED
    BY <2>1, <2>2
<1>9. d.project = p
  BY <1>2, <1>8, LabelsAssumption
<1>10. p \in w.self
  BY <1>3, <1>4, <1>8, <1>9 DEF deriveSelfView, known
<1>11. w # None
  BY DerivedAssumption DEF FleetInv, Views
<1> QED
  BY <1>5, <1>7, <1>10, <1>11 DEF isSelfProject

LEMMA StepFounded ==
  ASSUME FleetInv, [Next]_vars, NEW r \in Requests, NEW kind \in Kinds,
         ~At(r, "idle"), At(r, "idle")', ~Refused(r, kind)
  PROVE  Founded(r, kind)
<1>1. Decide(r)
  BY OnlyDecideEnds
<1>2. stage[r] \in {"seen", "blind"}
  BY <1>1 DEF Decide, Settle
<1>3. CASE kind = "mutation"
  <2>1. At(r, "seen")
    BY <1>2, <1>3 DEF Refused, FallsBack, At
  <2>2. got[r] \in since[r]
    BY <2>1 DEF FleetInv, RequestIs, Answered, At
  <2>3. DecidedBy(r) = ViewOf(got[r])
    BY <2>1 DEF DecidedBy
  <2> QED
    BY <1>3, <2>2, <2>3 DEF Founded
<1>4. CASE kind # "mutation"
  <2> SUFFICES ASSUME At(r, "blind"), NEW p \in AgentProjects
               PROVE  isSelfProject(DecidedBy(r), p)
    BY <1>4 DEF Founded
  <2>1. ~TooStale
    BY DEF Refused, FallsBack
  <2> QED
    BY <2>1, FallbackProtects
<1> QED
  BY <1>3, <1>4

(* The inductive invariant, of which the safety properties are parts.      *)
THEOREM SpecFleetInv == Spec => []FleetInv
  BY FleetInit, FleetNext, PTL DEF Spec

(* Lists that finish in any order leave what the one that started last     *)
(* found (selfid.go's observe and observeFailed).                          *)
THEOREM ListsDecide == Spec => []NewestListDecides
<1>1. SelfInv => NewestListDecides
  <2> SUFFICES ASSUME SelfInv, \A l \in Listers : At(l, "idle"), newest.startedAt > 0
               PROVE  IF newest.list = None THEN lastListErr > V
                      ELSE ~(lastListErr > V) /\ view # None /\ view.list = newest.list
    BY DEF NewestListDecides, V
  <2>1. V \in Nat /\ lastListErr \in Nat /\ newest.startedAt \in Nat
    BY VIsNat DEF SelfInv, SelfTyped
  <2>2. \A t \in Nat : ~Owned(t)
    BY DEF Owned, Busy, At
  <2>3. V > 0 => /\ V <= newest.startedAt
                 /\ V = newest.startedAt => newest.list = view.list
    BY <2>1, <2>2 DEF SelfInv, ViewOwned
  <2>4. lastListErr > 0 => lastListErr <= newest.startedAt
                           /\ (lastListErr = newest.startedAt => newest.list = None)
    BY <2>1, <2>2 DEF SelfInv, ErrorOwned
  <2>5. V > 0 => view # None /\ view.list # None
    BY NoView DEF SelfInv, SelfTyped, V
  <2>6. CASE newest.list = None
    BY <2>1, <2>3, <2>5, <2>6 DEF SelfInv, Decided
  <2>7. CASE newest.list # None
    <3>1. V = newest.startedAt
      BY <2>1, <2>3, <2>7 DEF SelfInv, Decided
    <3> QED
      BY <2>1, <2>3, <2>4, <2>5, <2>7, <3>1
  <2> QED
    BY <2>6, <2>7
<1> QED
  BY <1>1, SpecFleetInv, PTL DEF FleetInv

(* A recheck that an update forced stays with somebody who will take it    *)
(* (imagecheck.go's forceNext and its trigger).                            *)
THEOREM RecheckIsKept == Spec => []ForcedRecheckIsKept
  BY SpecFleetInv, PTL DEF FleetInv

(* What a pass stores reaches the controller by the push that is under way *)
(* or by the nudge that waits (afterPass and the feed's trigger).          *)
THEOREM StatusOnItsWay == Spec => []StatusIsOnItsWay
<1>1. Spec => []StatusInv
  BY StatusInit, StatusNext, SpecFleetInv, PTL DEF Spec
<1> QED
  BY <1>1, PTL DEF StatusInv

(* The revision a project is posted with is the one its containers run     *)
(* (stampImageStatus and provenanceOf).                                    *)
THEOREM ProvenanceHolds == Spec => []ProvenanceIsTrue
<1>1. FleetInv => ProvenanceIsTrue
  BY DEF FleetInv, FeedIs, ProvenanceIsTrue
<1> QED
  BY <1>1, SpecFleetInv, PTL

(* A mutation is decided by the host of a moment since it arrived, and a   *)
(* read that falls back still protects the agent (selfForMutation and      *)
(* viewForRead).                                                           *)
THEOREM DecisionsFounded == Spec => DecisionsAreFounded
<1>1. FleetInv /\ [Next]_vars =>
        [\A r \in Requests, kind \in Kinds :
           ~At(r, "idle") /\ At(r, "idle")' /\ ~Refused(r, kind) => Founded(r, kind)]_vars
  BY StepFounded
<1> QED
  BY <1>1, SpecFleetInv, PTL DEF Spec, DecisionsAreFounded

=============================================================================
