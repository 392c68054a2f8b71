---------------------------- MODULE MCChatExecution ----------------------------
EXTENDS ChatExecution

CONSTANTS t1, t2, r1, r2, r3, home, away

\* The first turn is asked for twice; the turns are in two profiles.
TurnsOfThree == [r \in {r1, r2, r3} |-> IF r = r3 THEN t2 ELSE t1]
HomesOfTwo == [t \in {t1, t2} |-> IF t = t1 THEN home ELSE away]
=============================================================================
