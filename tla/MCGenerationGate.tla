--------------------------- MODULE MCGenerationGate ---------------------------
EXTENDS GenerationGate

CONSTANTS g1, g2, g3, g4, g5, m1, m2

\* Four generations of one model, one of another.
ModelsOfFive == [g \in {g1, g2, g3, g4, g5} |-> IF g = g5 THEN m2 ELSE m1]
=============================================================================
