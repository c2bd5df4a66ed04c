-------------------------- MODULE ImageWriteProofs --------------------------
(***************************************************************************)
(* Theorems about ImageWrite, for any number of files, any services, any   *)
(* plan and any number of reverts and edits by hand: a write that fails    *)
(* leaves nothing, a revert that reports nothing is exact, one that nobody *)
(* disturbs succeeds, and none takes away what a hand has put into a file. *)
(***************************************************************************)
EXTENDS ImageWrite, TLAPS

(* The part of the type invariant that the arguments need. *)
Shape ==
  /\ edits \in Plans
  /\ disk \in [Files -> Contents] /\ current \in [Files -> Contents]
  /\ at \in Files /\ last \in Files
  /\ pc \in {"write", "verify", "restore", "rest", "failed", "look", "replace", "reload"}
  /\ reverted \subseteq Targets /\ problem \in BOOLEAN

(* Nothing of the agent's is in the file. *)
Unwritten(f) == disk[f] \in {Original(f), Hand}

(* While a write goes on, nothing of it is in the files from the current   *)
(* one on; while it is undone, nothing is in those after the last to       *)
(* restore and those before the current one.                               *)
Undone ==
  /\ pc = "write" => \A f \in Files : f >= at => Unwritten(f)
  /\ pc = "restore" /\ faults = {} => \A f \in Files : f > last \/ f < at => Unwritten(f)
  /\ pc = "restore" => at <= last
  /\ pc = "failed" /\ faults = {} => \A f \in Files : Unwritten(f)

(* A file as the current revert leaves it, and no service the revert names *)
(* keeps its image through a shared edit.                                  *)
Settled(f) == disk[f] \in {ContentWith(f, Kept(f)), Hand} /\ ~Shared(f)

(* While a revert has nothing to report, the files it has passed are       *)
(* settled.                                                                *)
Passed ==
  /\ pc \in {"look", "replace"} /\ ~problem => \A f \in Files : f < at => Settled(f)
  /\ pc = "replace" /\ ~problem => ~Shared(at)
  /\ pc = "reload" /\ ~problem => \A f \in Files : Settled(f)
  /\ result = "reverted" => pc = "rest" /\ RevertTellsTruth

IInv == Shape /\ Undone /\ Passed

-----------------------------------------------------------------------------

LEMMA ContentsAreTyped ==
  ASSUME Shape, NEW f \in Files
  PROVE  /\ Original(f) \in Contents
         /\ Text(edits[f]) \in Contents
         /\ \A B \in SUBSET Services : ContentWith(f, KeptIf(f, B)) \in Contents
         /\ edits[f] \subseteq Edits
<1>1. edits[f] \subseteq Edits
  BY PlansAssumption DEF Shape
<1>2. \A B : KeptIf(f, B) \subseteq Edits
  BY <1>1 DEF KeptIf
<1>3. \A E \in SUBSET Edits : Text(E) \in Contents
  BY DEF Contents
<1> QED
  BY <1>1, <1>2, <1>3 DEF Original, ContentWith, Contents

LEMMA InitIInv == Init => IInv
<1>. SUFFICES ASSUME Init PROVE IInv
  OBVIOUS
<1>1. \A f \in Files : Original(f) \in Contents
  BY DEF Original, Contents, Edits
<1>2. 1 \in Files /\ N \in Files
  BY NAssumption DEF Files
<1>3. Shape
  BY <1>1, <1>2 DEF Init, Shape
<1>4. Undone /\ Passed
  BY DEF Init, Undone, Unwritten, Passed
<1> QED
  BY <1>3, <1>4 DEF IInv

(* The services, the plan and the earlier reverts decide what a revert     *)
(* makes of a file; the disk does not.                                     *)
LEMMA SameRevert ==
  ASSUME edits' = edits, existed' = existed, named' = named, reverted' = reverted,
         NEW f \in Files
  PROVE  /\ Reverting' = Reverting
         /\ Kept(f)' = Kept(f)
         /\ Shared(f)' = Shared(f)
         /\ ContentWith(f, Kept(f))' = ContentWith(f, Kept(f))
BY DEF Reverting, Targets, Kept, KeptIf, Shared, ContentWith, Absent, Text

(* A file whose content does not change stays unwritten.                   *)
LEMMA SameUnwritten ==
  ASSUME UNCHANGED planVars, NEW f \in Files, disk'[f] = disk[f], Unwritten(f)
  PROVE  Unwritten(f)'
BY DEF planVars, Unwritten, Original, Absent, Text, Hand

(* Every step of the write.  Nothing that a revert does happens beside it. *)
LEMMA WriteKeeps == IInv /\ WriteStep => IInv'
<1>. SUFFICES ASSUME IInv, WriteStep PROVE IInv'
  OBVIOUS
<1>. USE DEF IInv
<1>0. /\ N \in Files /\ N \in Nat /\ at \in Files /\ at \in Nat /\ at >= 1 /\ at <= N
      /\ \A f \in Files : f \in Nat /\ f <= N /\ f >= 1
  BY NAssumption DEF Shape, Files
<1>00. UNCHANGED planVars => \A f \in Files : Original(f)' = Original(f)
  BY DEF planVars, Original, Absent, Text
<1>01. UNCHANGED planVars /\ disk' = disk => \A f \in Files : Unwritten(f) => Unwritten(f)'
  BY SameUnwritten
<1>1. CASE PlanFails
  <2>1. Shape'
    BY <1>1, <1>0 DEF PlanFails, planVars, Shape, Targets
  <2>2. Undone'
    <3>1. \A f \in Files : f >= at => Unwritten(f)
      BY <1>1 DEF PlanFails, Undone
    <3>2. \A f \in Files : Unwritten(f)'
      BY <1>1, <1>0, <1>01, <3>1 DEF PlanFails
    <3> QED
      BY <1>1, <3>2 DEF PlanFails, Undone
  <2>3. Passed'
    BY <1>1 DEF PlanFails, Passed
  <2> QED
    BY <2>1, <2>2, <2>3
<1>2. CASE WriteFile
  <2>1. Text(edits[at]) \in Contents
    BY <1>0, ContentsAreTyped
  <2>2. Shape'
    BY <1>2, <1>0, <2>1, NAssumption DEF WriteFile, Replaced, planVars, Shape, Targets, Files
  <2>3. Undone'
    <3>1. UNCHANGED planVars
      BY <1>2 DEF WriteFile
    <3>2. \A f \in Files : f > at => disk'[f] = disk[f]
      BY <1>2, <1>0 DEF WriteFile, Replaced, Shape
    <3>3. CASE at = N
      BY <1>2, <3>3 DEF WriteFile, Undone
    <3>4. CASE at # N
      <4>1. pc' = "write" /\ at' = at + 1
        BY <1>2, <3>4 DEF WriteFile
      <4>2. \A f \in Files : f >= at' => Unwritten(f)'
        <5>. HIDE DEF IInv
        <5>1. \A f \in Files : f >= at => Unwritten(f)
          BY <1>2 DEF WriteFile, Undone, IInv
        <5>2. \A f \in Files : f >= at' => f > at
          BY <4>1, <1>0
        <5>3. \A f \in Files : f > at => f >= at
          BY <1>0
        <5> QED
          BY <5>1, <5>2, <5>3, <3>1, <3>2, SameUnwritten
      <4> QED
        BY <4>1, <4>2 DEF Undone
    <3> QED
      BY <3>3, <3>4
  <2>4. Passed'
    BY <1>2 DEF WriteFile, Passed
  <2> QED
    BY <2>2, <2>3, <2>4
<1>3. CASE WriteFails
  <2>1. Text(edits[at]) \in Contents
    BY <1>0, ContentsAreTyped
  <2>2. at - 1 # 0 => at - 1 \in Files /\ 1 \in Files
    BY <1>0, NAssumption DEF Files
  <2>3. Shape'
    BY <1>3, <1>0, <2>1, <2>2
    DEF WriteFails, RestoreUpTo, Replaced, Untouched, planVars, Shape, Targets
  <2>4. Undone'
    <3>1. \A f \in Files : f >= at => Unwritten(f)
      BY <1>3 DEF WriteFails, Undone
    <3>2. CASE Untouched(at, Text(edits[at])) /\ UNCHANGED faults
      <4>1. \A f \in Files : f >= at => Unwritten(f)'
        BY <3>1, <3>2, <1>3, <1>01 DEF WriteFails, Untouched
      <4>2. CASE at - 1 = 0
        <5>1. \A f \in Files : f >= at
          BY <4>2, <1>0
        <5> QED
          BY <5>1, <4>1, <4>2, <1>3 DEF WriteFails, RestoreUpTo, Undone
      <4>3. CASE at - 1 # 0
        <5>1. pc' = "restore" /\ at' = 1 /\ last' = at - 1
          BY <4>3, <1>3 DEF WriteFails, RestoreUpTo
        <5>2. \A f \in Files : f > last' \/ f < at' => f >= at
          BY <5>1, <1>0
        <5>3. at' <= last'
          BY <5>1, <4>3, <1>0
        <5> QED
          BY <5>1, <5>2, <5>3, <4>1 DEF Undone
      <4> QED
        BY <4>2, <4>3
    <3>3. CASE faults' = faults \cup {"sync"}
      <4>1. pc' = "failed" \/ (pc' = "restore" /\ at' <= last')
        BY <1>3, <1>0 DEF WriteFails, RestoreUpTo
      <4> QED
        BY <3>3, <4>1 DEF Undone
    <3> QED
      BY <3>2, <3>3, <1>3 DEF WriteFails
  <2>5. Passed'
    BY <1>3 DEF WriteFails, RestoreUpTo, Passed
  <2> QED
    BY <2>3, <2>4, <2>5
<1>4. CASE Verified
  <2>1. Shape'
    BY <1>4, <1>0 DEF Verified, planVars, Shape, Targets
  <2>2. Undone' /\ Passed'
    BY <1>4 DEF Verified, Undone, Passed
  <2> QED
    BY <2>1, <2>2
<1>5. CASE NotVerified
  <2>1. pc' = "restore" /\ at' = 1 /\ last' = N /\ UNCHANGED result
    BY <1>5, NAssumption DEF NotVerified, RestoreUpTo
  <2>2. Shape'
    BY <1>5, <1>0, <2>1, NAssumption DEF NotVerified, planVars, Shape, Targets, Files
  <2>3. Undone'
    <3>1. \A f \in Files : ~(f > last' \/ f < at') /\ at' <= last'
      BY <1>0, <2>1
    <3> QED
      BY <2>1, <3>1, <1>0 DEF Undone
  <2>4. Passed'
    BY <1>5, <2>1 DEF NotVerified, Passed
  <2> QED
    BY <2>2, <2>3, <2>4
<1>6. CASE RestoreFile
  <2>1. Original(at) \in Contents
    BY <1>0, ContentsAreTyped
  <2>2. at <= last /\ last \in Files
    BY <1>6 DEF RestoreFile, Undone, Shape
  <2>3. Shape'
    <3>1. at' \in Files
      BY <1>6, <1>0, <2>2 DEF RestoreFile, Files
    <3> QED
      BY <1>6, <1>0, <2>1, <3>1 DEF RestoreFile, Replaced, Untouched, planVars, Shape, Targets
  <2>4. Undone'
    <3>1. UNCHANGED planVars /\ last' = last
      BY <1>6 DEF RestoreFile
    <3>2. CASE faults' # {}
      BY <3>2, <1>6, <1>0, <2>2 DEF RestoreFile, Undone, Files
    <3>3. CASE faults' = {}
      <4>1. faults = {} /\ Replaced(at, Original(at))
        BY <3>3, <1>6 DEF RestoreFile
      <4>2. \A f \in Files : f > last \/ f < at \/ f = at => Unwritten(f)'
        <5>1. \A f \in Files : f > last \/ f < at => Unwritten(f)
          BY <4>1, <1>6 DEF RestoreFile, Undone
        <5>2. disk'[at] = Original(at) /\ \A f \in Files : f # at => disk'[f] = disk[f]
          BY <4>1, <1>0 DEF Replaced, Shape
        <5>3. \A f \in Files : f = at => Unwritten(f)'
          BY <5>2, <3>1, <1>00 DEF Unwritten
        <5>4. \A f \in Files : f # at /\ Unwritten(f) => Unwritten(f)'
          BY <5>2, <3>1, SameUnwritten
        <5> QED
          <6> HIDE DEF IInv
          <6> QED
            BY <5>1, <5>3, <5>4
      <4>3. CASE at = last
        <5>1. \A f \in Files : f > last \/ f < at \/ f = at
          BY <4>3, <1>0
        <5> QED
          BY <5>1, <4>2, <4>3, <3>1, <1>6 DEF RestoreFile, Undone
      <4>4. CASE at # last
        <5>1. pc' = "restore" /\ at' = at + 1
          BY <4>4, <1>6 DEF RestoreFile
        <5>2. \A f \in Files : f < at' => f < at \/ f = at
          BY <5>1, <1>0
        <5>3. at' <= last'
          BY <5>1, <2>2, <3>1, <4>4, <1>0
        <5> QED
          BY <5>1, <5>2, <5>3, <4>2, <3>1 DEF Undone
      <4> QED
        BY <4>3, <4>4
    <3> QED
      BY <3>2, <3>3
  <2>5. Passed'
    BY <1>6 DEF RestoreFile, Passed
  <2> QED
    BY <2>3, <2>4, <2>5
<1> QED
  BY <1>1, <1>2, <1>3, <1>4, <1>5, <1>6 DEF WriteStep

(* Every step of a revert.  A file is settled when it has been looked at,  *)
(* found as it was left, and rebuilt; the others set problem.              *)
LEMMA RevertKeeps == IInv /\ RevertStep => IInv'
<1>. SUFFICES ASSUME IInv, RevertStep PROVE IInv'
  OBVIOUS
<1>. USE DEF IInv
<1>0. /\ N \in Files /\ N \in Nat /\ at \in Files /\ at \in Nat /\ at >= 1 /\ at <= N
      /\ \A f \in Files : f \in Nat /\ f <= N /\ f >= 1
  BY NAssumption DEF Shape, Files
<1>1. NextFile => \/ at = N /\ pc' = "reload" /\ at' = at
                  \/ at # N /\ pc' = "look" /\ at' = at + 1 /\ at' \in Files
  BY <1>0 DEF NextFile, Files
<1>2. UNCHANGED <<edits, existed, named, reverted>>
        => \A f \in Files : disk'[f] = disk[f] => (Settled(f)' <=> Settled(f))
  BY SameRevert DEF Settled, Hand
<1>3. ContentWith(at, Kept(at)) \in Contents
  <2>1. Reverting \subseteq Services
    BY PlansAssumption DEF Shape, Reverting, Targets, Edits
  <2> QED
    BY <1>0, <2>1, ContentsAreTyped DEF Kept
<1>4. CASE LeaveFile
  <2>1. Shape'
    BY <1>4, <1>0, <1>1 DEF LeaveFile, planVars, Shape, Targets
  <2>2. Undone' /\ Passed'
    BY <1>4, <1>1 DEF LeaveFile, Undone, Passed
  <2> QED
    BY <2>1, <2>2
<1>5. CASE LookAtFile
  <2>1. Shape'
    BY <1>5, <1>0 DEF LookAtFile, planVars, Shape, Targets
  <2>2. UNCHANGED <<edits, existed, named, reverted>>
    BY <1>5 DEF LookAtFile, planVars
  <2>3. \A f \in Files : Shared(f)' <=> Shared(f)
    BY <2>2, SameRevert
  <2>4. Passed'
    BY <1>5, <1>0, <1>2, <2>2, <2>3 DEF LookAtFile, Passed
  <2>5. Undone'
    BY <1>5 DEF LookAtFile, Undone
  <2> QED
    BY <2>1, <2>4, <2>5
<1>6. CASE RebuildFile
  <2>1. Shape'
    BY <1>6, <1>0, <1>1, <1>3 DEF RebuildFile, Replaced, planVars, Shape, Targets
  <2>2. UNCHANGED <<edits, existed, named, reverted>>
    BY <1>6 DEF RebuildFile, planVars
  <2>3. \A f \in Files : f # at => disk'[f] = disk[f]
    BY <1>6 DEF RebuildFile, Replaced, Shape
  <2>4. ~problem => \A f \in Files : f = at => Settled(f)'
    <3>1. \A f \in Files : f = at => disk'[f] = ContentWith(f, Kept(f))
      BY <1>6, <1>0 DEF RebuildFile, Replaced, Shape
    <3>2. ~problem => \A f \in Files : f = at => ~Shared(f)
      BY <1>6 DEF RebuildFile, Passed
    <3> QED
      BY <3>1, <3>2, <2>2, SameRevert DEF Settled
  <2>5. ~problem => \A f \in Files : f < at \/ f = at => Settled(f)'
    <3>1. ~problem => \A f \in Files : f < at => Settled(f)
      BY <1>6 DEF RebuildFile, Passed
    <3>2. \A f \in Files : f < at => f # at
      BY <1>0
    <3>3. \A f \in Files : f # at => (Settled(f)' <=> Settled(f))
      BY <1>2, <2>2, <2>3
    <3> QED
      BY <3>1, <3>2, <3>3, <2>4
  <2>6. problem' = problem /\ result' = result /\ NextFile
    BY <1>6 DEF RebuildFile
  <2>7. Passed'
    <3>1. CASE at = N /\ pc' = "reload" /\ at' = at
      <4>1. \A f \in Files : f < at \/ f = at
        BY <3>1, <1>0
      <4> QED
        BY <1>6, <3>1, <4>1, <2>5, <2>6 DEF RebuildFile, Passed
    <3>2. CASE at # N /\ pc' = "look" /\ at' = at + 1
      <4>1. \A f \in Files : f < at' => f < at \/ f = at
        BY <3>2, <1>0
      <4> QED
        BY <1>6, <3>2, <4>1, <2>5, <2>6 DEF RebuildFile, Passed
    <3> QED
      BY <3>1, <3>2, <2>6, <1>1
  <2>8. Undone'
    BY <1>1, <2>6 DEF Undone
  <2> QED
    BY <2>1, <2>7, <2>8
<1>7. CASE RebuildFails
  <2>1. Shape'
    BY <1>7, <1>0, <1>1, <1>3 DEF RebuildFails, Replaced, Untouched, planVars, Shape, Targets
  <2>2. Undone' /\ Passed'
    BY <1>7, <1>1 DEF RebuildFails, Undone, Passed
  <2> QED
    BY <2>1, <2>2
<1>8. CASE Reload
  <2>1. Shape'
    BY <1>8, <1>0 DEF Reload, planVars, Shape, Targets, Reverting
  <2>2. reverted' = Reverting
    BY <1>8 DEF Reload, Reverting, Shape
  <2>3. result' = "reverted" => RevertTellsTruth'
    <3>1. SUFFICES ASSUME result' = "reverted", NEW f \in Files
          PROVE  /\ disk'[f] \in {ContentWith(f, KeptIf(f, reverted))', Hand'}
                 /\ \A e \in KeptIf(f, reverted)' : e \cap named' = {}
      BY DEF RevertTellsTruth
    <3>2. Settled(f)
      BY <3>1, <1>8 DEF Reload, Passed, Shape
    <3>3. KeptIf(f, reverted)' = Kept(f)
      BY <2>2, <1>8 DEF Reload, planVars, Kept, KeptIf
    <3>4. ContentWith(f, KeptIf(f, reverted))' = ContentWith(f, Kept(f))
      BY <3>3, <1>8 DEF Reload, planVars, ContentWith, Absent, Text
    <3>5. \A e \in Kept(f) : e \cap named = {}
      <4>1. \A e \in Kept(f) : e \subseteq Targets
        BY DEF Kept, KeptIf, Targets
      <4>2. \A e \in Kept(f) : e \cap named \subseteq Reverting
        BY <4>1 DEF Reverting
      <4> QED
        BY <4>2, <3>2 DEF Settled, Shared
    <3> QED
      BY <3>2, <3>3, <3>4, <3>5, <1>8 DEF Reload, Settled, Hand
  <2>4. Undone' /\ Passed'
    BY <1>8, <2>3 DEF Reload, Undone, Passed
  <2> QED
    BY <2>1, <2>4
<1> QED
  BY <1>4, <1>5, <1>6, <1>7, <1>8 DEF RevertStep

(* A new revert has passed no file yet, and a hand leaves a file settled   *)
(* where it was.                                                           *)
LEMMA StartKeeps ==
  ASSUME IInv, NEW services \in SUBSET Services, Revert(services)
  PROVE  IInv'
<1>1. Shape'
  <2>1. 1 \in Files
    BY NAssumption DEF Files
  <2>2. at' = 1 /\ pc' = "look" /\ problem' = FALSE
    BY DEF Revert
  <2>3. UNCHANGED <<edits, disk, current, last, reverted>>
    BY DEF Revert, planVars
  <2>4. Targets' = Targets
    BY <2>3 DEF Targets
  <2> QED
    BY <2>1, <2>2, <2>3, <2>4 DEF IInv, Shape
<1>2. Undone'
  BY DEF IInv, Revert, Undone
<1>3. \A f \in Files : ~(f < at')
  BY DEF Revert, Files
<1>4. Passed'
  BY <1>3 DEF IInv, Revert, Passed
<1> QED
  BY <1>1, <1>2, <1>4 DEF IInv

LEMMA HandKeeps ==
  ASSUME IInv, NEW h \in Files, EditByHand(h)
  PROVE  IInv'
<1>1. disk' = [disk EXCEPT ![h] = Hand] /\ disk \in [Files -> Contents]
  BY DEF IInv, Shape, EditByHand
<1>2. \A f \in Files : disk'[f] = disk[f] \/ disk'[f] = Hand
  BY <1>1
<1>3. UNCHANGED <<edits, existed, named, reverted, pc, at, problem, result>>
  BY DEF EditByHand, planVars
<1>4. \A f \in Files : Settled(f) => Settled(f)'
  BY <1>2, <1>3, SameRevert DEF Settled, Hand
<1>5. \A f \in Files : Shared(f)' <=> Shared(f)
  BY <1>3, SameRevert
<1>6. RevertTellsTruth /\ result = "reverted" => RevertTellsTruth'
  BY <1>2, <1>3 DEF RevertTellsTruth, ContentWith, KeptIf, Absent, Text, Hand
<1>7. Shape'
  BY <1>1 DEF IInv, Shape, EditByHand, planVars, Targets, Contents
<1>8. Undone'
  <2>1. \A f \in Files : Unwritten(f) => Unwritten(f)'
    BY <1>2, <1>3 DEF Unwritten, Original, Absent, Text, Hand
  <2>2. UNCHANGED <<pc, at, last, faults>>
    BY DEF EditByHand
  <2> QED
    BY <2>1, <2>2 DEF IInv, Undone
<1>9. Passed'
  BY <1>3, <1>4, <1>5, <1>6 DEF IInv, Passed, Shape
<1> QED
  BY <1>7, <1>8, <1>9 DEF IInv

LEMMA StutterKeeps == IInv /\ UNCHANGED vars => IInv'
<1>. SUFFICES ASSUME IInv, UNCHANGED vars PROVE IInv'
  OBVIOUS
<1>1. UNCHANGED <<edits, existed, named, reverted, pc, at, last, problem, result, disk,
                  current, faults>>
  BY DEF vars, planVars
<1>2. \A f \in Files : Settled(f)' <=> Settled(f)
  BY <1>1, SameRevert DEF Settled, Hand
<1>3. \A f \in Files : (Shared(f)' <=> Shared(f)) /\ (Unwritten(f) => Unwritten(f)')
  BY <1>1, SameRevert DEF Unwritten, Original, Absent, Text, Hand
<1>4. RevertTellsTruth <=> RevertTellsTruth'
  BY <1>1 DEF RevertTellsTruth, ContentWith, KeptIf, Absent, Text, Hand
<1>5. Shape'
  BY <1>1 DEF IInv, Shape, Targets
<1>6. Undone'
  BY <1>1, <1>3 DEF IInv, Undone
<1>7. Passed'
  BY <1>1, <1>2, <1>3, <1>4 DEF IInv, Passed, Shape
<1> QED
  BY <1>5, <1>6, <1>7 DEF IInv

(* The inductive invariant holds in every state of every write.            *)
THEOREM WriteIInv == Spec => []IInv
<1>1. IInv /\ [Next]_vars => IInv'
  BY WriteKeeps, RevertKeeps, StartKeeps, HandKeeps, StutterKeeps DEF Next
<1> QED
  BY InitIInv, <1>1, PTL DEF Spec

(* A write that fails without a fault of its restore leaves nothing of its *)
(* own in any file, whatever file it failed at, however many there are and *)
(* whatever somebody edits meanwhile (writeServiceImages, writeAll).       *)
THEOREM FailedWritesLeaveNothing == Spec => []FailedWriteLeavesNothing
<1>1. IInv => FailedWriteLeavesNothing
  BY DEF IInv, Undone, Unwritten, FailedWriteLeavesNothing
<1> QED
  BY WriteIInv, <1>1, PTL

(* A revert that reports nothing has put back exactly what it and the      *)
(* reverts before it named, for any services, edits and order (revert).    *)
THEOREM RevertsTellTheTruth == Spec => []RevertTellsTruth
<1>1. IInv => RevertTellsTruth
  BY DEF IInv, Passed, RevertTellsTruth
<1> QED
  BY WriteIInv, <1>1, PTL

-----------------------------------------------------------------------------
(* What the agent knows of the disk: nothing it takes for its own is a     *)
(* hand's, what a revert is about to replace was as the agent left it a    *)
(* moment ago, and as long as nothing has failed and nobody has edited,    *)
(* the disk is as the agent left it.                                       *)
Quiet == faults = {} /\ hands = 0
Trusted ==
  /\ hands \in Nat
  /\ \A f \in Files : current[f] # Hand
  /\ pc = "replace" /\ disk[at] = Hand => at \in raced
  /\ pc \in {"write", "verify", "rest", "look", "replace", "reload"} /\ Quiet => disk = current
  /\ pc \in {"look", "replace", "reload"} /\ Quiet /\ problem => \E f \in Files : Shared(f)

LEMMA NotHand ==
  /\ \A f : Original(f) # Hand
  /\ \A f, keep : ContentWith(f, keep) # Hand
  /\ \A E : Text(E) # Hand
  BY DEF Original, ContentWith, Text, Absent, Hand

LEMMA InitTrusted == Init => Trusted
  BY NotHand DEF Init, Trusted

LEMMA TrustedKept == IInv /\ Trusted /\ [Next]_vars => Trusted'
<1> SUFFICES ASSUME IInv, Trusted, [Next]_vars PROVE Trusted'
  OBVIOUS
<1>1. /\ at \in Files /\ disk \in [Files -> Contents] /\ current \in [Files -> Contents]
      /\ Hand' = Hand
  BY DEF IInv, Shape, Hand
<1>2. UNCHANGED <<edits, existed, named, reverted>> =>
        \A f \in Files : Shared(f)' <=> Shared(f)
  BY SameRevert
<1>3. CASE WriteStep
  <2>1. UNCHANGED hands
    BY <1>3 DEF WriteStep, PlanFails, WriteFile, WriteFails, Verified, NotVerified, RestoreFile,
       boundVars
  <2>2. CASE WriteFile
    <3>1. /\ disk' = [disk EXCEPT ![at] = Text(edits[at])]
          /\ current' = [current EXCEPT ![at] = Text(edits[at])]
          /\ pc = "write" /\ pc' \in {"write", "verify"} /\ UNCHANGED faults
      BY <2>2 DEF WriteFile, Replaced
    <3>2. Quiet' => disk' = current'
      BY <2>1, <3>1 DEF Trusted, Quiet
    <3> QED
      BY <1>1, <2>1, <3>1, <3>2, NotHand DEF Trusted
  <2>3. CASE WriteFails \/ RestoreFile
    <3>1. current' = current /\ pc' \in {"restore", "failed"} /\ pc \in {"write", "restore"}
      BY <2>3 DEF WriteFails, RestoreFile, RestoreUpTo
    <3> QED
      BY <1>1, <2>1, <3>1 DEF Trusted
  <2>4. CASE PlanFails \/ Verified \/ NotVerified
    <3>1. /\ UNCHANGED <<disk, current, faults>> /\ pc' \in {"failed", "rest", "restore"}
          /\ pc' = "rest" => pc = "verify"
          /\ pc' = "restore" => pc = "verify"
      BY <2>4 DEF PlanFails, Verified, NotVerified, RestoreUpTo
    <3> QED
      BY <1>1, <2>1, <3>1 DEF Trusted, Quiet
  <2> QED
    BY <1>3, <2>2, <2>3, <2>4 DEF WriteStep
<1>4. CASE RevertStep
  <2>1. UNCHANGED hands
    BY <1>4 DEF RevertStep, LeaveFile, LookAtFile, RebuildFile, RebuildFails, Reload, boundVars
  <2>2. NextFile => pc' \in {"look", "reload"}
    BY DEF NextFile
  <2>3. CASE LeaveFile
    <3>1. UNCHANGED <<disk, current, faults, edits, existed, named, reverted>> /\ pc = "look"
          /\ disk[at] # current[at]
      BY <2>3 DEF LeaveFile, planVars, AsLeft
    <3>2. ~Quiet /\ ~Quiet'
      BY <2>1, <3>1 DEF Trusted, Quiet
    <3> QED
      BY <1>1, <2>1, <2>2, <2>3, <3>1, <3>2 DEF LeaveFile, Trusted
  <2>4. CASE LookAtFile
    <3>1. /\ UNCHANGED <<disk, current, faults, at, raced, edits, existed, named, reverted>>
          /\ pc = "look" /\ pc' = "replace" /\ disk[at] = current[at]
          /\ problem' = (problem \/ Shared(at))
      BY <2>4 DEF LookAtFile, planVars, AsLeft
    <3> QED
      BY <1>1, <1>2, <2>1, <3>1 DEF Trusted, Quiet
  <2>5. CASE RebuildFile
    <3>1. /\ UNCHANGED <<faults, problem, edits, existed, named, reverted>> /\ pc = "replace"
          /\ disk' = [disk EXCEPT ![at] = ContentWith(at, Kept(at))]
          /\ current' = [current EXCEPT ![at] = ContentWith(at, Kept(at))]
      BY <2>5 DEF RebuildFile, Replaced, planVars
    <3>2. NextFile
      BY <2>5 DEF RebuildFile
    <3> QED
      BY <1>1, <1>2, <2>1, <2>2, <3>1, <3>2, NotHand DEF Trusted, Quiet
  <2>6. CASE RebuildFails
    <3>1. faults' # {} /\ UNCHANGED current /\ NextFile
      BY <2>6 DEF RebuildFails
    <3> QED
      BY <1>1, <2>1, <2>2, <3>1 DEF Trusted, Quiet
  <2>7. CASE Reload
    BY <1>1, <2>1, <2>7 DEF Reload, Trusted, Quiet
  <2> QED
    BY <1>4, <2>3, <2>4, <2>5, <2>6, <2>7 DEF RevertStep
<1>5. CASE \E services \in SUBSET Services : Revert(services)
  BY <1>1, <1>5 DEF Revert, Trusted, Quiet
<1>6. CASE \E f \in Files : EditByHand(f)
  <2>1. PICK f \in Files : EditByHand(f)
    BY <1>6
  <2>2. /\ hands' = hands + 1 /\ UNCHANGED <<current, at, pc>>
        /\ \A g \in Files \ {f} : disk'[g] = disk[g]
        /\ IF pc = "replace" /\ f = at THEN raced' = raced \cup {f} ELSE raced' = raced
    BY <1>1, <2>1 DEF EditByHand
  <2>3. hands' \in Nat /\ ~Quiet'
    BY <2>2 DEF Trusted, Quiet
  <2>4. pc = "replace" /\ disk'[at] = Hand => at \in raced'
    BY <1>1, <2>2 DEF Trusted
  <2> QED
    BY <1>1, <2>2, <2>3, <2>4 DEF Trusted
<1>7. CASE UNCHANGED vars
  <2>1. UNCHANGED <<disk, current, faults, hands, pc, at, raced, problem,
                    edits, existed, named, reverted>>
    BY <1>7 DEF vars, planVars, boundVars
  <2> QED
    BY <1>1, <1>2, <2>1 DEF Trusted, Quiet
<1> QED
  BY <1>3, <1>4, <1>5, <1>6, <1>7 DEF Next

(* The agent never takes what a hand wrote for its own.                   *)
THEOREM WriteTrusted == Spec => []Trusted
  BY InitTrusted, TrustedKept, WriteIInv, PTL DEF Spec

(* A revert of what nobody has touched reports at most a shared edit, also *)
(* after other reverts, for any files, services and plans (revert).        *)
THEOREM UndisturbedRevertsWork == Spec => []UndisturbedRevertWorks
<1>1. Trusted => UndisturbedRevertWorks
  BY DEF Trusted, Quiet, UndisturbedRevertWorks
<1> QED
  BY <1>1, WriteTrusted, PTL

(* No step of a revert takes away what a hand has put into a file, before  *)
(* the revert or during it, unless the hand came between that revert's     *)
(* look at the file and its replacement; what the write or its restore     *)
(* come to they replace (revert, restoreFiles).                            *)
THEOREM RevertsSpareHands == Spec => RevertsSpareHandEdits
<1>1. ASSUME IInv, Trusted, [Next]_vars, NEW f \in Files, disk[f] = Hand, disk'[f] # Hand
      PROVE  f \in raced \/ Blind(f)
  <2>1. disk' # disk /\ disk \in [Files -> Contents] /\ Hand' = Hand
    BY <1>1 DEF IInv, Shape, Hand
  <2>2. CASE RebuildFile \/ RebuildFails
    <3>1. pc = "replace" /\ \A g \in Files \ {at} : disk'[g] = disk[g]
      BY <2>1, <2>2 DEF RebuildFile, RebuildFails, Replaced, Untouched
    <3>2. f = at
      BY <1>1, <3>1
    <3> QED
      BY <1>1, <3>1, <3>2 DEF Trusted
  <2>3. CASE WriteFile \/ WriteFails \/ RestoreFile
    <3>1. pc \in {"write", "restore"} /\ \A g \in Files \ {at} : disk'[g] = disk[g]
      BY <2>1, <2>3 DEF WriteFile, WriteFails, RestoreFile, Replaced, Untouched
    <3> QED
      BY <1>1, <3>1 DEF Blind
  <2>4. CASE \E g \in Files : EditByHand(g)
    BY <1>1, <2>1, <2>4 DEF EditByHand
  <2>5. \/ RebuildFile \/ RebuildFails \/ WriteFile \/ WriteFails \/ RestoreFile
        \/ \E g \in Files : EditByHand(g)
    BY <1>1, <2>1 DEF Next, WriteStep, PlanFails, Verified, NotVerified, RevertStep, LeaveFile,
       LookAtFile, Reload, Revert, vars
  <2> QED
    BY <2>2, <2>3, <2>4, <2>5
<1>2. IInv /\ Trusted /\ [Next]_vars =>
        [\A f \in Files : disk[f] = Hand /\ disk'[f] # Hand => f \in raced \/ Blind(f)]_vars
  BY <1>1 DEF Hand
<1> QED
  BY <1>2, WriteIInv, WriteTrusted, PTL DEF Spec, RevertsSpareHandEdits

=============================================================================
