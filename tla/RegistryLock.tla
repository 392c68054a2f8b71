----------------------------- MODULE RegistryLock -----------------------------
(***************************************************************************)
(* The lock of lib/profile-registry.ts: acquireLock with publishLock,      *)
(* cleanupDetachedLockClaims, normalizeStaleLockClaims and                 *)
(* unlinkMatchingLock, which the reclaiming of a stale lock and the        *)
(* release share.  ProfileRegistry takes the lock in one step.             *)
(*                                                                         *)
(* Unlike the runtime lease, one process takes the lock again and again,   *)
(* and a release that fails leaves a lock whose owner is alive: nobody may *)
(* take it over, and its owner is refused as well.                         *)
(*                                                                         *)
(* Processes interleave at the system calls on shared names.  A lock file  *)
(* never changes, it is only replaced, and the names of claims and of      *)
(* temporary files are never reused.                                       *)
(***************************************************************************)
EXTENDS Naturals, FiniteSets

CONSTANTS
  Processes,
  Rivalry,   \* how many of them may be taking or releasing at a time: one of these
  MaxTakes,  \* how often a process takes the lock
  MaxDeaths, \* how many processes die
  None

Locks == [by : Processes, n : 1..MaxTakes]
NoLock == [by |-> None, n |-> 0]

VARIABLES
  lock,    \* the lock file
  claim,   \* process -> the lock its claim file links
  temp,    \* process -> the lock its temporary file links
  at,      \* process -> where it stands
  own,     \* process -> the lock it made last
  seen,    \* process -> the lock it means to unlink
  glance,  \* process -> what cleanupDetachedLockClaims found
  alive,
  rivals,
  stolen   \* history: a lock was unlinked by a process that had inspected another

lockVars == <<lock, claim, temp, at, own, seen, glance, alive, rivals, stolen>>

Quiet == {"idle", "blocked", "held"}
Busy == {p \in alive : at[p] \notin Quiet}
Releasing(p) == seen[p] = own[p]
Goto(p, place) == at' = [at EXCEPT ![p] = place]

(* The link count of a lock's inode.                                       *)
Links(l) ==
  Cardinality({p \in Processes : claim[p] = l}) + Cardinality({p \in Processes : temp[p] = l})
  + (IF lock = l THEN 1 ELSE 0)

LockInit ==
  /\ lock = NoLock
  /\ claim = [p \in Processes |-> NoLock] /\ temp = claim /\ own = claim /\ seen = claim /\ glance = claim
  /\ at = [p \in Processes |-> "idle"]
  /\ alive = Processes /\ rivals \in Rivalry /\ stolen = FALSE

-----------------------------------------------------------------------------
(* A mutation begins; its lock will have a token of its own.               *)
Take(p) ==
  /\ at[p] \in {"idle", "blocked"} /\ own[p].n < MaxTakes /\ Cardinality(Busy) < rivals
  /\ own' = [own EXCEPT ![p] = [by |-> p, n |-> own[p].n + 1]]
  /\ seen' = [seen EXCEPT ![p] = NoLock]
  /\ Goto(p, "clean")
  /\ UNCHANGED <<lock, claim, temp, glance, alive, rivals, stolen>>

(* cleanupDetachedLockClaims looks at the lock, then removes each claim    *)
(* that links anything else.                                               *)
Clean(p) ==
  /\ at[p] = "clean"
  /\ glance' = [glance EXCEPT ![p] = lock]
  /\ Goto(p, "sweep")
  /\ UNCHANGED <<lock, claim, temp, own, seen, alive, rivals, stolen>>

Sweep(p) ==
  /\ at[p] = "sweep"
  /\ claim' = [q \in Processes |-> IF claim[q] = glance[p] THEN claim[q] ELSE NoLock]
  /\ glance' = [glance EXCEPT ![p] = NoLock]
  /\ Goto(p, "publish")
  /\ UNCHANGED <<lock, temp, own, seen, alive, rivals, stolen>>

(* publishLock: linkSync fails if the name is taken; then the temporary    *)
(* name goes, and the lock file must have one link.                        *)
Publish(p) ==
  /\ at[p] = "publish"
  /\ IF lock = NoLock
     THEN lock' = own[p] /\ temp' = [temp EXCEPT ![p] = own[p]] /\ Goto(p, "settle")
     ELSE Goto(p, "inspect") /\ UNCHANGED <<lock, temp>>
  /\ UNCHANGED <<claim, own, seen, glance, alive, rivals, stolen>>

Settle(p) ==
  /\ at[p] = "settle"
  /\ temp' = [temp EXCEPT ![p] = NoLock]
  /\ Goto(p, "confirm")
  /\ UNCHANGED <<lock, claim, own, seen, glance, alive, rivals, stolen>>

Confirm(p) ==
  /\ at[p] = "confirm"
  /\ Goto(p, IF lock # NoLock /\ Links(lock) = 1 THEN "held" ELSE "idle")
  /\ UNCHANGED <<lock, claim, temp, own, seen, glance, alive, rivals, stolen>>

(* defaultInspectOwner: a lock whose owner lives, the caller included, is  *)
(* left alone.                                                             *)
Stale(l) == l.by \notin alive

Inspect(p) ==
  /\ at[p] = "inspect"
  /\ IF lock # NoLock /\ Stale(lock)
     THEN seen' = [seen EXCEPT ![p] = lock] /\ Goto(p, "normalize")
     ELSE Goto(p, "idle") /\ UNCHANGED seen
  /\ UNCHANGED <<lock, claim, temp, own, glance, alive, rivals, stolen>>

(* normalizeStaleLockClaims: the claims on the stale lock are removed; a   *)
(* link that is no claim ends the mutation.                                *)
Normalize(p) ==
  /\ at[p] = "normalize"
  /\ Goto(p, IF lock # seen[p] THEN "clean" ELSE IF Links(lock) = 1 THEN "verify" ELSE "strip")
  /\ UNCHANGED <<lock, claim, temp, own, seen, glance, alive, rivals, stolen>>

Strip(p) ==
  /\ at[p] = "strip"
  /\ IF \E q \in Processes : claim[q] = seen[p]
     THEN /\ claim' = [q \in Processes |-> IF claim[q] = seen[p] THEN NoLock ELSE claim[q]]
          /\ Goto(p, "normalize")
     ELSE Goto(p, "blocked") /\ UNCHANGED claim
  /\ UNCHANGED <<lock, temp, own, seen, glance, alive, rivals, stolen>>

-----------------------------------------------------------------------------
(* unlinkMatchingLock, for a stale lock and for a release.  A release that *)
(* gives way counts as released.                                           *)
GiveWay(p) == Goto(p, IF Releasing(p) THEN "idle" ELSE "clean")

Release(p) ==
  /\ at[p] = "held" /\ Cardinality(Busy) < rivals
  /\ seen' = [seen EXCEPT ![p] = own[p]]
  /\ Goto(p, "verify")
  /\ UNCHANGED <<lock, claim, temp, own, glance, alive, rivals, stolen>>

(* A lock with a second link is refused with an error.                     *)
Verify(p) ==
  /\ at[p] = "verify"
  /\ IF lock # NoLock /\ Links(lock) # 1 THEN Goto(p, "idle")
     ELSE IF lock = seen[p] THEN Goto(p, "claim") ELSE GiveWay(p)
  /\ UNCHANGED <<lock, claim, temp, own, seen, glance, alive, rivals, stolen>>

LinkClaim(p) ==
  /\ at[p] = "claim"
  /\ IF lock = NoLock THEN GiveWay(p) /\ UNCHANGED claim
     ELSE claim' = [claim EXCEPT ![p] = lock] /\ Goto(p, "check")
  /\ UNCHANGED <<lock, temp, own, seen, glance, alive, rivals, stolen>>

(* The names still link what was inspected, and nobody else claims it.     *)
Matches(p) == lock = seen[p] /\ claim[p] = seen[p] /\ Links(lock) = 2

CheckClaim(p) ==
  /\ at[p] = "check"
  /\ Goto(p, IF Matches(p) THEN "unlink" ELSE "unclaim")
  /\ UNCHANGED <<lock, claim, temp, own, seen, glance, alive, rivals, stolen>>

UnlinkLock(p) ==
  /\ at[p] = "unlink"
  /\ lock' = NoLock
  /\ stolen' = (stolen \/ lock \notin {seen[p], NoLock})
  /\ Goto(p, "unclaim")
  /\ UNCHANGED <<claim, temp, own, seen, glance, alive, rivals>>

Unclaim(p) ==
  /\ at[p] = "unclaim"
  /\ claim' = [claim EXCEPT ![p] = NoLock]
  /\ GiveWay(p)
  /\ UNCHANGED <<lock, temp, own, seen, glance, alive, rivals, stolen>>

(* lockAcquisitionAttempts is used up.                                     *)
GiveUp(p) ==
  /\ at[p] = "clean" /\ seen[p] # NoLock
  /\ Goto(p, "idle")
  /\ UNCHANGED <<lock, claim, temp, own, seen, glance, alive, rivals, stolen>>

Die(p) ==
  /\ p \in alive /\ Cardinality(Processes \ alive) < MaxDeaths
  /\ alive' = alive \ {p}
  /\ UNCHANGED <<lock, claim, temp, at, own, seen, glance, rivals, stolen>>

LockNext ==
  \E p \in alive :
    \/ Take(p) \/ Clean(p) \/ Sweep(p) \/ Publish(p) \/ Settle(p) \/ Confirm(p)
    \/ Inspect(p) \/ Normalize(p) \/ Strip(p) \/ Release(p) \/ Verify(p) \/ LinkClaim(p)
    \/ CheckClaim(p) \/ UnlinkLock(p) \/ Unclaim(p) \/ GiveUp(p) \/ Die(p)

LockSpec == LockInit /\ [][LockNext]_lockVars

-----------------------------------------------------------------------------
Free(p) == at[p] \in {"idle", "blocked"}

(* A process changes the registry under its own lock, unless a reclaimer   *)
(* unlinked one it had not inspected (unlinkMatchingLock, between the last *)
(* look and unlinkSync).                                                   *)
WritersHoldTheLock == \A p \in alive : at[p] = "held" /\ ~stolen => lock = own[p]

(* Of the processes whose claims link one lock at most one unlinks it (the *)
(* comment in unlinkMatchingLock).                                         *)
OneClaimant ==
  \A p, q \in alive :
    at[p] = "unlink" /\ at[q] = "unlink" /\ claim[p] = claim[q] /\ claim[p] # NoLock => p = q

(* Where calls do not overlap, what dead processes left behind blocks      *)
(* nobody but for a publication torn between its two names, and a process  *)
(* that is done has given its lock back.                                   *)
AloneItIsGivenBack ==
  rivals = 1 =>
    /\ \A p \in alive : at[p] = "blocked" => \E q \in Processes \ alive : temp[q] # NoLock
    /\ Busy = {} => \A p \in alive : Free(p) => lock.by # p

LockInv ==
  /\ lock \in Locks \cup {NoLock} /\ rivals \in Rivalry
  /\ WritersHoldTheLock /\ OneClaimant /\ AloneItIsGivenBack

(* A process that is done has given its lock back, whoever else reclaims.  *)
GivenBack == Busy = {} => \A p \in alive : Free(p) => lock.by # p
=============================================================================
