---------------------------- MODULE RegistryHistory ----------------------------
(***************************************************************************)
(* What lib/profile-registry.ts promises, without files, locks or          *)
(* processes: one registry that advances a generation at a time, keeps the *)
(* snapshot before the newest, and falls back to that one at most.         *)
(***************************************************************************)
EXTENDS Naturals

CONSTANTS None, FirstSnapshots, Mutations(_)

VARIABLES
  current,  \* the registry every caller is shown
  last,     \* the newest snapshot
  prior     \* the one before it

vars == <<current, last, prior>>

Init == current = None /\ last = None /\ prior = None

Initialize ==
  /\ current = None /\ last = None
  /\ last' \in FirstSnapshots
  /\ current' = last' /\ UNCHANGED prior

Mutate ==
  /\ current = last /\ last # None
  /\ last' \in Mutations(last)
  /\ current' = last' /\ prior' = last

(* The newest snapshot cannot be read, and perhaps can be again.              *)
FallBack == prior # None /\ current' = prior /\ UNCHANGED <<last, prior>>
Reappear == current' = last /\ UNCHANGED <<last, prior>>

(* Explicit Recovery settles on what can be read.                             *)
Recover ==
  /\ current # None
  /\ last' = current /\ prior' = current
  /\ UNCHANGED current

Next == Initialize \/ Mutate \/ FallBack \/ Reappear \/ Recover

Spec == Init /\ [][Next]_vars
=============================================================================
