---------------------------- MODULE GenerationGate ----------------------------
(***************************************************************************)
(* lib/model-generation-gate.ts: the process-wide gate in front of the     *)
(* local model.  Per model id a queue object counts the leases in use and  *)
(* holds the waiting acquires; a lease keeps its queue object while the    *)
(* map may already have dropped it and made another for the same model.    *)
(*                                                                         *)
(* Each handler runs to its end.  What interleaves: acquires, releases     *)
(* (lib/providers/ollama.ts releases in every exit of a generation, some   *)
(* of them twice), and aborts, where a signal is flagged first and the     *)
(* listener of a waiter runs later.                                        *)
(***************************************************************************)
EXTENDS Naturals, Sequences, FiniteSets

CONSTANTS
  Generations,  \* calls of acquire; the first to find no queue names the one it makes
  Models,
  ModelOf,      \* generation -> its resolved model id
  MaxActive,    \* maxActivePerModel
  MaxQueued,    \* maxQueuedPerModel
  NoQueue

ASSUME GateAssumption ==
  /\ IsFiniteSet(Generations)
  /\ NoQueue \notin Generations
  /\ ModelOf \in [Generations -> Models]
  /\ MaxActive \in Nat \ {0}
  /\ MaxQueued \in Nat

VARIABLES
  queues,   \* model -> the queue object the map holds, or NoQueue
  active,   \* queue object -> leases in use
  pending,  \* queue object -> waiting generations
  joined,   \* generation -> the queue object its acquire worked on
  state,    \* generation -> where its acquire stands
  aborted   \* generations whose signal is aborted

queueVars == <<queues, active, pending, joined, state, aborted>>

GateTypeOK ==
  /\ queues \in [Models -> Generations \union {NoQueue}]
  /\ active \in [Generations -> 0..MaxActive]
  /\ pending \in [Generations -> Seq(Generations)]
  /\ joined \in [Generations -> Generations \union {NoQueue}]
  /\ state \in [Generations -> {"idle", "queued", "holding", "released", "refused"}]
  /\ aborted \subseteq Generations

-----------------------------------------------------------------------------
(* Mutant: the map drops the queue as soon as nobody waits.                   *)
DropIfNobodyWaits(m, o, inUse, waiting) ==
  queues' = IF waiting = <<>> /\ queues[m] = o THEN [queues EXCEPT ![m] = NoQueue] ELSE queues

(* The map forgets queue object o once it is idle.                            *)
DeleteIfIdle(m, o, inUse, waiting) ==
  queues' = IF inUse = 0 /\ waiting = <<>> /\ queues[m] = o
            THEN [queues EXCEPT ![m] = NoQueue] ELSE queues

Acquire(g) ==
  LET m == ModelOf[g]
      o == IF queues[m] = NoQueue THEN g ELSE queues[m]
  IN  /\ state[g] = "idle"
      /\ g \notin aborted
      /\ queues' = [queues EXCEPT ![m] = o]
      /\ joined' = [joined EXCEPT ![g] = o]
      /\ \/ /\ active[o] < MaxActive
            /\ active' = [active EXCEPT ![o] = @ + 1]
            /\ state' = [state EXCEPT ![g] = "holding"]
            /\ UNCHANGED pending
         \/ /\ active[o] >= MaxActive
            /\ Len(pending[o]) >= MaxQueued
            /\ state' = [state EXCEPT ![g] = "refused"]
            /\ UNCHANGED <<active, pending>>
         \/ /\ active[o] >= MaxActive
            /\ Len(pending[o]) < MaxQueued
            /\ pending' = [pending EXCEPT ![o] = Append(@, g)]
            /\ state' = [state EXCEPT ![g] = "queued"]
            /\ UNCHANGED active
      /\ UNCHANGED aborted

(* An acquire whose signal is already aborted touches no queue.               *)
AcquireAborted(g) ==
  /\ state[g] = "idle"
  /\ g \in aborted
  /\ state' = [state EXCEPT ![g] = "refused"]
  /\ UNCHANGED <<queues, active, pending, joined, aborted>>

(* The signal is flagged; its listeners have not run.                         *)
Abort(g) ==
  /\ g \notin aborted
  /\ aborted' = aborted \union {g}
  /\ UNCHANGED <<queues, active, pending, joined, state>>

(* splice at indexOf: line s without the first place of g, if it has one.     *)
Without(s, g) ==
  IF \E k \in 1..Len(s) : s[k] = g
  THEN LET k == CHOOSE k \in 1..Len(s) : s[k] = g /\ \A i \in 1..(k - 1) : s[i] # g
       IN  SubSeq(s, 1, k - 1) \o SubSeq(s, k + 1, Len(s))
  ELSE s

(* onAbort: the listener of a waiter; a granted lease has removed it.         *)
OnAbort(g) ==
  LET o == joined[g]
      left == Without(pending[o], g)
  IN  /\ state[g] = "queued"
      /\ g \in aborted
      /\ pending' = [pending EXCEPT ![o] = left]
      /\ state' = [state EXCEPT ![g] = "refused"]
      /\ DeleteIfIdle(ModelOf[g], o, active[o], left)
      /\ UNCHANGED <<active, joined, aborted>>

(* Mutant: the slot is handed on to the newest waiter.                        *)
HandOverToNewest(g, o) ==
  \E k \in 1..Len(pending[o]) :
    /\ pending[o][k] \notin aborted
    /\ \A i \in (k + 1)..Len(pending[o]) : pending[o][i] \in aborted
    /\ pending' = [pending EXCEPT ![o] = SubSeq(pending[o], 1, k - 1)]
    /\ state' = [h \in Generations |->
         IF h = g THEN "released"
         ELSE IF h = pending[o][k] THEN "holding"
         ELSE IF \E i \in (k + 1)..Len(pending[o]) : h = pending[o][i] THEN "refused"
         ELSE state[h]]
    /\ UNCHANGED <<queues, active>>

(* The slot goes straight to the first waiter whose signal is not aborted;    *)
(* those before it are refused.                                               *)
HandOver(g, o) ==
  \E k \in 1..Len(pending[o]) :
    /\ pending[o][k] \notin aborted
    /\ \A i \in 1..(k - 1) : pending[o][i] \in aborted
    /\ pending' = [pending EXCEPT ![o] = SubSeq(pending[o], k + 1, Len(pending[o]))]
    /\ state' = [h \in Generations |->
         IF h = g THEN "released"
         ELSE IF h = pending[o][k] THEN "holding"
         ELSE IF \E i \in 1..(k - 1) : h = pending[o][i] THEN "refused"
         ELSE state[h]]
    /\ UNCHANGED <<queues, active>>

(* Mutant: the slot is freed past the waiters.                                *)
FreeSlotPastWaiters(g, o) ==
  /\ state' = [state EXCEPT ![g] = "released"]
  /\ active' = [active EXCEPT ![o] = @ - 1]
  /\ UNCHANGED <<queues, pending>>

(* No waiter is left to take the slot.                                        *)
FreeSlot(g, o) ==
  /\ \A i \in 1..Len(pending[o]) : pending[o][i] \in aborted
  /\ pending' = [pending EXCEPT ![o] = <<>>]
  /\ state' = [h \in Generations |->
       IF h = g THEN "released"
       ELSE IF \E i \in 1..Len(pending[o]) : h = pending[o][i] THEN "refused"
       ELSE state[h]]
  /\ active' = [active EXCEPT ![o] = IF @ > 0 THEN @ - 1 ELSE 0]
  /\ DeleteIfIdle(ModelOf[g], o, active'[o], <<>>)

(* release of a lease; the second and later calls do nothing.                 *)
Release(g) ==
  /\ state[g] \in {"holding", "released"}
  /\ IF state[g] = "released" THEN UNCHANGED <<queues, active, pending, state>>
     ELSE HandOver(g, joined[g]) \/ FreeSlot(g, joined[g])
  /\ UNCHANGED <<joined, aborted>>

-----------------------------------------------------------------------------
GateInit ==
  /\ queues = [m \in Models |-> NoQueue]
  /\ active = [o \in Generations |-> 0]
  /\ pending = [o \in Generations |-> <<>>]
  /\ joined = [g \in Generations |-> NoQueue]
  /\ state = [g \in Generations |-> "idle"]
  /\ aborted = {}

GateNext == \E g \in Generations :
  Acquire(g) \/ AcquireAborted(g) \/ Abort(g) \/ OnAbort(g) \/ Release(g)

(* A listener of a flagged signal runs, and every generation ends: its own    *)
(* deadline aborts it (resolvedGeneration) and every exit releases.           *)
GateFairness == \A g \in Generations :
  WF_queueVars(OnAbort(g)) /\ WF_queueVars(state[g] = "holding" /\ Release(g))

GateSpec == GateInit /\ [][GateNext]_queueVars
FairGateSpec == GateSpec /\ GateFairness
-----------------------------------------------------------------------------
Holding(m) == {g \in Generations : ModelOf[g] = m /\ state[g] = "holding"}
Waiting(m) == {g \in Generations : ModelOf[g] = m /\ state[g] = "queued"}

(* However queue objects come and go, a model never has more leases or more   *)
(* waiters than the gate allows (acquire, release).                           *)
Capacity ==
  \A m \in Models : Cardinality(Holding(m)) <= MaxActive /\ Cardinality(Waiting(m)) <= MaxQueued

(* A waiter stands in the queue object the map still holds, and there only as *)
(* long as all slots are taken: some release will come to it.                 *)
WaitersAreReachable ==
  \A g \in Generations :
    state[g] = "queued" =>
      /\ joined[g] = queues[ModelOf[g]]
      /\ \E i \in 1..Len(pending[joined[g]]) : pending[joined[g]][i] = g
      /\ Cardinality({h \in Holding(ModelOf[g]) : joined[h] = joined[g]}) = MaxActive

(* The gate's state is what its callers rely on: typed, within its limits and *)
(* without a waiter that no release would come to (generation-gate.ts).       *)
GateInv == GateTypeOK /\ Capacity /\ WaitersAreReachable

(* Every waiter is granted a lease or refused in the end.                     *)
WaitersAreAnswered ==
  \A g \in Generations : state[g] = "queued" ~> state[g] \in {"holding", "released", "refused"}

(* The gate behaves like one bounded line per model.                          *)
OneLine == INSTANCE FifoGate WITH
  inside <- [m \in Models |-> Holding(m)],
  line <- [m \in Models |-> IF queues[m] = NoQueue THEN <<>> ELSE pending[queues[m]]]

ImplementsFifoGate == OneLine!Spec
=============================================================================
