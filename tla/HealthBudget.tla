---------------------------- MODULE HealthBudget ----------------------------
(***************************************************************************)
(* The arithmetic of the health-wait budgets of a stack update             *)
(* (stackengine.go): where a budget comes from, what an override may be,   *)
(* and how the pair (swap, health) is fitted into the time the whole       *)
(* operation has.  All durations are integers in one unit.                 *)
(***************************************************************************)
EXTENDS Integers

CONSTANTS
    Second,     \* one second, in units
    HalfWord,   \* 2^63: a time.Duration is an integer in -HalfWord .. HalfWord-1
    MaxBudget,  \* maxBudget
    MinHealth,  \* minHealthBudget
    Reserve,    \* healthBudgetReserve, and rollbackSlack
    MinRollback \* minRollbackDeadline

ASSUME BudgetAssumption ==
    /\ {Second, HalfWord, MaxBudget, MinHealth, Reserve, MinRollback} \subseteq Nat \ {0}
    /\ MaxBudget < HalfWord

NotSet == 0

\* The product of two durations as the machine computes it.
Wrap(x) == ((x + HalfWord) % (2 * HalfWord)) - HalfWord

\* The duration of a number of seconds of a row or a request, or NotSet.
BudgetOf(seconds) ==
    LET d == Wrap(seconds * Second)
    IN  IF seconds > 0 /\ d > 0 /\ d <= MaxBudget THEN d ELSE NotSet

AtMost(x, bound) == IF x > bound THEN bound ELSE x
AtLeast(x, bound) == IF x < bound THEN bound ELSE x

\* The part of the operation's time that the health wait may take.
WaitShare(op) == op - AtMost(Reserve, op \div 3)

\* clampBudget: health gives way first down to what leaves MinHealth for the swap, but
\* never below MinHealth itself; the swap gets what is left.
NoFloor(op, health) == AtMost(health, WaitShare(op) - MinHealth)    \* seeded fault
FitHealth(op, health) == AtLeast(AtMost(health, WaitShare(op) - MinHealth), MinHealth)
FitSwap(op, swap, health) == AtLeast(AtMost(swap, WaitShare(op) - FitHealth(op, health)), 0)

Fits(op, b) == op <= 0 \/ WaitShare(op) <= 0 \/ b.swap + b.health <= WaitShare(op)

Clamp(op, b) ==
    IF Fits(op, b)
    THEN b
    ELSE [swap |-> FitSwap(op, b.swap, b.health), health |-> FitHealth(op, b.health)]

\* A request goes before a row, a row before the default of the node's class.
Pick(request, row, node) ==
    IF BudgetOf(request) # NotSet THEN BudgetOf(request)
    ELSE IF BudgetOf(row) # NotSet THEN BudgetOf(row)
    ELSE node

\* What a budget is asked with.  The node's pair comes from its class or its environment,
\* and is taken not to be negative.
Pairs(values) == [swap : values, health : values]
AskType == [op : Int, request : Pairs(Int), row : Pairs(Int), node : Pairs(Nat)]

\* effectiveHealthTimeouts of what was asked: ask.op is the operation's time (0: no limit),
\* ask.request and ask.row are in seconds, ask.node is the pair of the node's class.
Asked(ask) ==
    [swap   |-> Pick(ask.request.swap, ask.row.swap, ask.node.swap),
     health |-> Pick(ask.request.health, ask.row.health, ask.node.health)]

Effective(ask) == Clamp(ask.op, Asked(ask))

\* rollbackDeadline.
RollbackDeadline(b) == AtLeast(b.swap + b.health + Reserve, MinRollback)
=============================================================================
