----------------------------- MODULE ImageWrite -----------------------------
(***************************************************************************)
(* The write of new images into a project's files, and its revert          *)
(* (tagwrite.go: writeServiceImages, writeAll, restoreAll, revert).        *)
(*                                                                         *)
(* What is planned is data: a file gets a set of edits, and an edit is the *)
(* set of the services that need it (its owners).  A file's content is the *)
(* set of edits in it, or what somebody else has put there by hand.  One   *)
(* file is replaced atomically; the files together are not.  The caller    *)
(* holds the project's lock, so the agent itself writes once at a time;    *)
(* somebody with an editor asks for no lock and may come at any time.      *)
(***************************************************************************)
EXTENDS Naturals, FiniteSets

CONSTANTS
  Services,   \* services of the project
  N,          \* the files written are 1 .. N, in write order
  Plans,      \* what may be planned: sets of edits per file
  MaxReverts, \* bound: reverts of one write
  MaxHands    \* bound: edits by hand

ASSUME NAssumption == N \in Nat \ {0}
ASSUME BoundsAssumption == MaxReverts \in Nat /\ MaxHands \in Nat

Files == 1 .. N
Edits == SUBSET Services \ {{}}
ASSUME PlansAssumption == Plans \subseteq [Files -> SUBSET Edits \ {{}}]

VARIABLES
  edits,    \* fileState.edits: the edits of each file
  existed,  \* the files that were there before the write
  disk,     \* the content of each file
  current,  \* fileState.present and current: what the agent last left there
  pc,       \* the next step
  at,       \* the file it is about
  last,     \* the last file to restore
  named,    \* the services the current revert names
  reverted, \* the services some revert has named
  problem,  \* the current revert has something to report
  result,   \* of the last finished call: "none", "written", "failed", "reverted", "incomplete"
  faults,   \* history: "restore" a file was not put back, "sync" an error after the replace
  raced,    \* history: edited by hand between the look at the file and its replacement
  reverts, hands  \* how often, against the bounds

planVars == <<edits, existed>>
boundVars == <<reverts, hands>>
vars == <<planVars, disk, current, pc, at, last, named, reverted, problem, result, faults,
          raced, boundVars>>

Absent == [kind |-> "absent", edits |-> {}]
Hand == [kind |-> "hand", edits |-> {}]
Text(E) == [kind |-> "text", edits |-> E]

Targets == UNION {UNION edits[f] : f \in Files}
Original(f) == IF f \in existed THEN Text({}) ELSE Absent

Init ==
  /\ edits \in Plans
  /\ existed \in SUBSET Files
  /\ disk = [f \in Files |-> Original(f)]
  /\ current = disk
  /\ pc = "write" /\ at = 1 /\ last = N
  /\ named = {} /\ reverted = {} /\ problem = FALSE /\ result = "none"
  /\ faults = {} /\ raced = {}
  /\ reverts = 0 /\ hands = 0

(* writeFileAtomic, and the removal of a file that should not be there: it *)
(* is replaced, or it is not, or it is and the directory's sync fails.     *)
Replaced(f, content) == disk' = [disk EXCEPT ![f] = content]
Untouched(f, content) == UNCHANGED disk

-----------------------------------------------------------------------------
(* writeServiceImages.                                                     *)

(* A plan that cannot be made or rendered: nothing has been written.       *)
PlanFails ==
  /\ pc = "write" /\ at = 1
  /\ pc' = "failed" /\ result' = "failed"
  /\ UNCHANGED <<planVars, disk, current, at, last, named, reverted, problem, faults, raced,
                 boundVars>>

WriteFile ==
  /\ pc = "write"
  /\ Replaced(at, Text(edits[at]))
  /\ current' = [current EXCEPT ![at] = Text(edits[at])]
  /\ IF at = N THEN pc' = "verify" /\ UNCHANGED at ELSE at' = at + 1 /\ UNCHANGED pc
  /\ UNCHANGED <<planVars, last, named, reverted, problem, result, faults, raced, boundVars>>

\* Files are restored in write order: those before the one that failed, or all.
StopThere(f) == pc' = "failed" /\ result' = "failed" /\ UNCHANGED <<at, last>>  \* seeded fault
RestoreUpTo(f) ==
  IF f = 0
  THEN pc' = "failed" /\ result' = "failed" /\ UNCHANGED <<at, last>>
  ELSE pc' = "restore" /\ at' = 1 /\ last' = f /\ UNCHANGED result

WriteFails ==
  /\ pc = "write"
  /\ \/ Untouched(at, Text(edits[at])) /\ UNCHANGED faults
     \/ Replaced(at, Text(edits[at])) /\ faults' = faults \cup {"sync"}
  /\ RestoreUpTo(at - 1)
  /\ UNCHANGED <<planVars, current, named, reverted, problem, raced, boundVars>>

\* The project is loaded again: the targets have their images and nothing else differs.
Verified ==
  /\ pc = "verify"
  /\ pc' = "rest" /\ result' = "written"
  /\ UNCHANGED <<planVars, disk, current, at, last, named, reverted, problem, faults, raced,
                 boundVars>>

NotVerified ==
  /\ pc = "verify"
  /\ RestoreUpTo(N)
  /\ UNCHANGED <<planVars, disk, current, named, reverted, problem, faults, raced, boundVars>>

\* restoreFiles goes on after a file it could not restore.
RestoreFile ==
  /\ pc = "restore"
  /\ \/ Replaced(at, Original(at)) /\ UNCHANGED faults
     \/ Untouched(at, Original(at)) /\ faults' = faults \cup {"restore"}
  /\ IF at = last
     THEN pc' = "failed" /\ result' = "failed" /\ UNCHANGED at
     ELSE at' = at + 1 /\ UNCHANGED <<pc, result>>
  /\ UNCHANGED <<planVars, current, last, named, reverted, problem, raced, boundVars>>

-----------------------------------------------------------------------------
(* revert.                                                                 *)

(* The services that have their old image again after this revert.         *)
NamedOnly == named \cap Targets                            \* seeded fault
Reverting == (reverted \cup named) \cap Targets

\* An edit stays as long as one of its owners keeps its new image.
KeptIf(f, back) == {e \in edits[f] : ~(e \subseteq back)}
Kept(f) == KeptIf(f, Reverting)

ContentWith(f, keep) == IF f \in existed \/ keep # {} THEN Text(keep) ELSE Absent

\* A service named by this revert shares an edit with one that keeps its image.
Shared(f) == \E e \in Kept(f) : e \cap Reverting \cap named # {}

Revert(services) ==
  /\ pc = "rest" /\ reverts < MaxReverts
  /\ named' = services
  /\ pc' = "look" /\ at' = 1 /\ problem' = FALSE /\ result' = "none"
  /\ reverts' = reverts + 1 /\ raced' = {}
  /\ UNCHANGED <<planVars, disk, current, last, reverted, faults, hands>>

NextFile == IF at = N THEN pc' = "reload" /\ UNCHANGED at ELSE pc' = "look" /\ at' = at + 1

AsWritten(f) == disk[f] = Text(edits[f])                   \* seeded fault
NeverChanged(f) == TRUE                                    \* seeded fault
AsLeft(f) == disk[f] = current[f]

(* A file that is not as the agent left it is reported and left alone.     *)
LeaveFile ==
  /\ pc = "look" /\ ~AsLeft(at)
  /\ problem' = TRUE
  /\ NextFile
  /\ UNCHANGED <<planVars, disk, current, last, named, reverted, result, faults, raced, boundVars>>

LookAtFile ==
  /\ pc = "look" /\ AsLeft(at)
  /\ problem' = (problem \/ Shared(at))
  /\ pc' = "replace"
  /\ UNCHANGED <<planVars, disk, current, at, last, named, reverted, result, faults, raced,
                 boundVars>>

RebuildFile ==
  /\ pc = "replace"
  /\ Replaced(at, ContentWith(at, Kept(at)))
  /\ current' = [current EXCEPT ![at] = ContentWith(at, Kept(at))]
  /\ NextFile
  /\ UNCHANGED <<planVars, last, named, reverted, problem, result, faults, raced, boundVars>>

RebuildFails ==
  /\ pc = "replace"
  /\ \/ Untouched(at, ContentWith(at, Kept(at))) /\ faults' = faults \cup {"restore"}
     \/ Replaced(at, ContentWith(at, Kept(at))) /\ faults' = faults \cup {"sync"}
  /\ problem' = TRUE
  /\ NextFile
  /\ UNCHANGED <<planVars, current, last, named, reverted, result, raced, boundVars>>

(* The project is loaded once more.  Its load may fail; that it does not   *)
(* resolve as it should can only be seen of what the agent has not left.   *)
Reload ==
  /\ pc = "reload"
  /\ reverted' = reverted \cup Reverting
  /\ pc' = "rest"
  /\ result' \in IF problem THEN {"incomplete"}
                 ELSE {"reverted", "incomplete"}
  /\ UNCHANGED <<planVars, disk, current, at, last, named, problem, faults, raced, boundVars>>

(* Somebody edits a file, in the middle of a write, of its restore or of a *)
(* revert as well; the agent neither sees nor prevents it.                 *)
EditByHand(f) ==
  /\ hands < MaxHands
  /\ disk' = [disk EXCEPT ![f] = Hand]
  /\ hands' = hands + 1
  /\ raced' = IF pc = "replace" /\ f = at THEN raced \cup {f} ELSE raced
  /\ UNCHANGED <<planVars, current, pc, at, last, named, reverted, problem, result, faults,
                 reverts>>

(* writeAll and restoreFiles replace the file they have come to whatever   *)
(* is in it; only a revert looks first.                                    *)
Blind(f) == pc \in {"write", "restore"} /\ f = at

WriteStep == PlanFails \/ WriteFile \/ WriteFails \/ Verified \/ NotVerified \/ RestoreFile
RevertStep == LeaveFile \/ LookAtFile \/ RebuildFile \/ RebuildFails \/ Reload

Next ==
  \/ WriteStep
  \/ RevertStep
  \/ \E services \in SUBSET Services : Revert(services)
  \/ \E f \in Files : EditByHand(f)

Spec == Init /\ [][Next]_vars

-----------------------------------------------------------------------------
(* Properties.                                                             *)

Contents == {Absent, Hand} \cup {Text(E) : E \in SUBSET Edits}

TypeOK ==
  /\ edits \in Plans /\ existed \subseteq Files
  /\ disk \in [Files -> Contents] /\ current \in [Files -> Contents \ {Hand}]
  /\ pc \in {"write", "verify", "restore", "rest", "failed", "look", "replace", "reload"}
  /\ at \in Files /\ last \in Files
  /\ named \subseteq Services /\ reverted \subseteq Targets /\ problem \in BOOLEAN
  /\ result \in {"none", "written", "failed", "reverted", "incomplete"}
  /\ faults \subseteq {"restore", "sync"} /\ raced \subseteq Files
  /\ reverts \in 0 .. MaxReverts /\ hands \in 0 .. MaxHands

(* A write that fails at any file, or at its verification, leaves nothing  *)
(* of its own in any file: each is as it was, or absent if it was, or as   *)
(* a hand has edited it since (writeServiceImages), unless a file could    *)
(* not be restored, which the error says, or the directory's sync failed   *)
(* after a replace: then writeAll restores the files before it and not the *)
(* one it has replaced.                                                    *)
FailedWriteLeavesNothing ==
  pc = "failed" /\ faults = {} => \A f \in Files : disk[f] \in {Original(f), Hand}

(* A revert that reports nothing has put every file where all the reverts  *)
(* so far, taken together, put it: the original bytes and the edits of the *)
(* services no revert has named; and every service it named has its old    *)
(* image.  The order of the reverts makes no difference.                   *)
RevertTellsTruth ==
  result = "reverted"
    => \A f \in Files :
         /\ disk[f] \in {ContentWith(f, KeptIf(f, reverted)), Hand}
         /\ \A e \in KeptIf(f, reverted) : e \cap named = {}

(* A revert that nobody disturbs has nothing to report but a service that  *)
(* shares an edit with one that keeps its image: the agent's own earlier   *)
(* revert is not taken for an edit by hand.                                *)
UndisturbedRevertWorks ==
  pc = "reload" /\ faults = {} /\ hands = 0 /\ problem => \E f \in Files : Shared(f)

(* What somebody has put into a file by hand, during the write, during its *)
(* verification or later, no revert takes away, unless it came between     *)
(* that revert's look at the file and its replacement (revert).  The write *)
(* itself and its restore do not look: an edit they come to is lost.       *)
RevertsSpareHandEdits ==
  [][\A f \in Files : disk[f] = Hand /\ disk'[f] # Hand => f \in raced \/ Blind(f)]_vars
=============================================================================
