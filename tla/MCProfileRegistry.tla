--------------------------- MODULE MCProfileRegistry ---------------------------
EXTENDS ProfileRegistry, TLC

CONSTANTS p1, p2, default, personal, trial, own, work

Swaps == Permutations({p1, p2}) \union Permutations({personal, trial}) \union Permutations({own, work})
=============================================================================
