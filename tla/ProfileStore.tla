----------------------------- MODULE ProfileStore -----------------------------
(***************************************************************************)
(* What the profile lifecycle promises to its user: every profile is       *)
(* absent, empty or filled, and each accepted request changes one profile  *)
(* in one step.  Interrupted requests and Recovery are invisible here.     *)
(***************************************************************************)
CONSTANTS Ids, Default, Testing, NoProfile

VARIABLES
  store,    \* profile -> "absent", "empty" or "filled"
  current   \* the profile in use, NoProfile before setup

storeVars == <<store, current>>

Init ==
  /\ store = [p \in Ids |-> "absent"]
  /\ current = NoProfile

Adopt ==
  /\ current = NoProfile
  /\ store' = [store EXCEPT ![Default] = "filled"]
  /\ current' = Default

(* A new profile starts empty, a restored one with the content of its backup. *)
Add(p, content) ==
  /\ current # NoProfile /\ store[p] = "absent"
  /\ store' = [store EXCEPT ![p] = content]
  /\ UNCHANGED current

Reset(p) ==
  /\ p \in Testing /\ p # current /\ store[p] # "absent"
  /\ store' = [store EXCEPT ![p] = "empty"]
  /\ UNCHANGED current

Delete(p) ==
  /\ p # Default /\ p # current /\ store[p] # "absent"
  /\ store' = [store EXCEPT ![p] = "absent"]
  /\ UNCHANGED current

SwitchTo(p) ==
  /\ store[p] # "absent"
  /\ current' = p
  /\ UNCHANGED store

Work ==
  /\ current # NoProfile
  /\ store' = [store EXCEPT ![current] = "filled"]
  /\ UNCHANGED current

Next ==
  \/ Adopt \/ Work
  \/ \E p \in Ids : Add(p, "empty") \/ Add(p, "filled") \/ Reset(p) \/ Delete(p) \/ SwitchTo(p)

Spec == Init /\ [][Next]_storeVars
=============================================================================
