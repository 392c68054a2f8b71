------------------------------- MODULE FifoGate -------------------------------
(***************************************************************************)
(* What the generation gate promises: for each model a bounded number      *)
(* inside and one bounded line outside, where nobody who waits is overtaken *)
(* and nobody waits while there is room.                                   *)
(***************************************************************************)
EXTENDS Naturals, Sequences, FiniteSets

CONSTANTS Generations, Models, ModelOf, MaxActive, MaxQueued

VARIABLES
  inside,  \* model -> generations that may run
  line     \* model -> generations waiting, first come first

gateVars == <<inside, line>>

Init ==
  /\ inside = [m \in Models |-> {}]
  /\ line = [m \in Models |-> <<>>]

Enter(g) ==
  LET m == ModelOf[g]
  IN  /\ Cardinality(inside[m]) < MaxActive /\ line[m] = <<>>
      /\ inside' = [inside EXCEPT ![m] = @ \union {g}]
      /\ UNCHANGED line

Join(g) ==
  LET m == ModelOf[g]
  IN  /\ Cardinality(inside[m]) = MaxActive /\ Len(line[m]) < MaxQueued
      /\ line' = [line EXCEPT ![m] = Append(@, g)]
      /\ UNCHANGED inside

GiveUp(g) ==
  LET m == ModelOf[g]
  IN  /\ \E k \in 1..Len(line[m]) :
           /\ line[m][k] = g
           /\ line' = [line EXCEPT ![m] = SubSeq(@, 1, k - 1) \o SubSeq(@, k + 1, Len(@))]
      /\ UNCHANGED inside

(* One leaves; the first in line who has not given up follows.                *)
Leave(g) ==
  LET m == ModelOf[g]
  IN  /\ g \in inside[m]
      /\ \/ \E k \in 1..Len(line[m]) :
              /\ inside' = [inside EXCEPT ![m] = (@ \ {g}) \union {line[m][k]}]
              /\ line' = [line EXCEPT ![m] = SubSeq(@, k + 1, Len(@))]
         \/ /\ inside' = [inside EXCEPT ![m] = @ \ {g}]
            /\ line' = [line EXCEPT ![m] = <<>>]

Next == \E g \in Generations : Enter(g) \/ Join(g) \/ GiveUp(g) \/ Leave(g)

Spec == Init /\ [][Next]_gateVars
=============================================================================
