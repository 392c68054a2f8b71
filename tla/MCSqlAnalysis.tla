---------------------------- MODULE MCSqlAnalysis ----------------------------
EXTENDS SqlAnalysis
CONSTANTS u, v, q1, q2, x, y

Everything == [preview |-> 1, execute |-> 2, context |-> 1, save |-> 2]
Editing == [preview |-> 0, execute |-> 0, context |-> 3, save |-> 3]
=============================================================================
