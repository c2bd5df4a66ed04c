--------------------------- MODULE MCStackUpdate ---------------------------
(* StackUpdate with two services.  A second is two units, a word has       *)
(* eleven bits.                                                            *)
EXTENDS StackUpdate

CONSTANTS s1, s2

Pair(s, h) == [swap |-> s, health |-> h]
Ask(op, request, row, node) == [op |-> op, request |-> request, row |-> row, node |-> node]
Default == Pair(24, 36)

Limited == Ask(150, Pair(0, 0), Pair(0, 0), Default)

\* No limit; a long request; a row too long for the limit; values that are no budgets
\* (negative, above the maximum, past the word).
OtherAsks == {Ask(0, Pair(0, 40), Pair(0, 0), Default),
              Ask(60, Pair(30, 40), Pair(20, 5), Default),
              Ask(6, Pair(0, 0), Pair(0, 0), Default),
              Ask(9, Pair(0, -1), Pair(0, 45), Default),
              Ask(60, Pair(600, 0), Pair(0, 100), Default)}

\* Every stack of two services up to exchanging them, and for one of them every ask.
\* A project without the registry resolver differs only in an empty plan.
Role(s, x) == (IF x \in s.services THEN 0 ELSE IF x \in s.disabled THEN 4 ELSE 8)
              + (IF x \in s.before THEN 2 ELSE 0) + (IF x \in s.excluded THEN 1 ELSE 0)
MCStacks == {s \in Stacks : Role(s, s1) <= Role(s, s2) /\ (~s.registry => s.excluded = {})}
Plain == [services |-> {s1}, disabled |-> {}, before |-> {s1, s2}, registry |-> TRUE,
          wholeStack |-> TRUE, excluded |-> {}]
MCCases == [stack : MCStacks, ask : {Limited}] \cup [stack : {Plain}, ask : OtherAsks]

=============================================================================
