---- MODULE MCTurnLedger ----
EXTENDS TurnTimeline

CONSTANTS c1, t1, t2, t3

\* t1 opens a new conversation; t2 and t3 are sent into conversation c1.
OneConversation == [t \in {t1, t2, t3} |-> IF t = t1 THEN None ELSE c1]

Symmetric == Permutations(Windows) \union Permutations(Contexts)
SymmetricTurns == Symmetric \union Permutations({t2, t3})
=============================================================================
