----------------------------- MODULE RuntimeLease -----------------------------
(***************************************************************************)
(* lib/runtime-lease.ts: the file that lets one Rangabot at a time own the *)
(* managed data, and its use by scripts/start-server.ts and by the desktop *)
(* process supervisor.                                                     *)
(*                                                                         *)
(* Launchers are processes of their own, so the protocol interleaves at    *)
(* each system call that another launcher can tell apart: linking and      *)
(* unlinking the lease, a publisher's temporary name, and the private      *)
(* claims a reclaimer links to the record it inspected.  Every look at the *)
(* lease is a step apart from the link, unlink or rename that relies on it.*)
(* A record never changes, it is only replaced, and a name of a claim or   *)
(* of a temporary file is never reused; so a read of one of them and the   *)
(* comparison that follows are one step.                                   *)
(***************************************************************************)
EXTENDS Naturals, FiniteSets

CONSTANTS
  Launchers,    \* processes that acquire the lease, each of them once
  Rivalry,      \* how many of them may be inside acquireRuntimeLease at a time: one of these
  Mortal,       \* those that may die before they released it
  None

ASSUME LeaseAssumption ==
  /\ Mortal \subseteq Launchers
  /\ IsFiniteSet(Launchers)
  /\ None \notin Launchers
  /\ Rivalry \subseteq Nat \ {0}

(* A record names its launcher, and its server once that is registered; a     *)
(* "blank" one is the empty file that securing a vanished lease creates.      *)
Record(p, kind) == [by |-> p, kind |-> kind]
Records == [by : Launchers, kind : {"owner", "runtime", "blank"}]
NoRecord == [by |-> None, kind |-> "none"]

Acquiring == {"clean", "sweep", "publish", "settle", "secure", "retract", "withdraw", "inspect",
              "normalize", "strip", "recheck", "verify", "claim", "check", "unlink", "unclaim"}
Holding == {"held", "register"}
Ended == {"refused", "failed", "linked", "done"}
Places == {"off"} \union Holding \union Acquiring \union Ended

VARIABLES
  file,    \* the record at the lease path
  claim,   \* launcher -> the record its claim file links
  temp,    \* launchers whose temporary name is linked to their record
  at,      \* launcher -> where it stands
  seen,    \* launcher -> the record it inspected; a holder's own record
  glance,  \* launcher -> what cleanupDetachedClaims found at the path
  alive,   \* launchers that run
  rivals,  \* launchers that may compete in this behaviour, picked once
  server   \* launcher -> its server: "none", "running" or "gone"

leaseVars == <<file, claim, temp, at, seen, glance, alive, server, rivals>>
processes == <<alive, server, rivals>>

LeaseTypeOK ==
  /\ file \in Records \union {NoRecord}
  /\ claim \in [Launchers -> Records \union {NoRecord}]
  /\ temp \subseteq Launchers
  /\ \A p \in temp : at[p] = "settle"
  /\ at \in [Launchers -> Places]
  /\ seen \in [Launchers -> Records \union {NoRecord}]
  /\ glance \in [Launchers -> Records \union {NoRecord}]
  /\ alive \subseteq Launchers
  /\ server \in [Launchers -> {"none", "running", "gone"}]
  /\ rivals \in Rivalry

Links(r) ==
  Cardinality({p \in Launchers : claim[p] = r})
  + Cardinality({p \in temp : r = Record(p, "owner")})
  + (IF file = r THEN 1 ELSE 0)

(* recordIsActive                                                             *)
Active(r) == r.by \in alive \/ (r.kind = "runtime" /\ server[r.by] = "running")

(* A holder that releases runs removeVerifiedRecord on its own record.        *)
Releasing(p) == seen[p].by = p
Goto(p, place) == at' = [at EXCEPT ![p] = place]
Starting == {p \in alive : at[p] \in Acquiring /\ ~Releasing(p)}

-----------------------------------------------------------------------------
(* acquireRuntimeLease                                                        *)
Begin(p) ==
  /\ at[p] = "off"
  /\ Cardinality(Starting) < rivals
  /\ alive' = alive \union {p}
  /\ Goto(p, "clean")
  /\ UNCHANGED <<file, claim, temp, seen, glance, server, rivals>>

(* cleanupDetachedClaims looks at the lease, then removes one after another   *)
(* the claims that link anything else; one that a live launcher linked may    *)
(* have come after the directory was listed.                                  *)
Clean(p) ==
  /\ at[p] = "clean"
  /\ glance' = [glance EXCEPT ![p] = file]
  /\ Goto(p, "sweep")
  /\ UNCHANGED <<file, claim, temp, seen, processes>>

Detached(q, lease) == claim[q] \notin {NoRecord, lease}

Sweep(p) ==
  /\ at[p] = "sweep"
  /\ \/ /\ \E q \in Launchers :
             /\ Detached(q, glance[p])
             /\ claim' = [claim EXCEPT ![q] = NoRecord]
        /\ UNCHANGED <<at, glance>>
     \/ /\ \A q \in Launchers \ alive : ~Detached(q, glance[p])
        /\ glance' = [glance EXCEPT ![p] = NoRecord]
        /\ Goto(p, "publish")
        /\ UNCHANGED claim
  /\ UNCHANGED <<file, temp, seen, processes>>

(* Mutant: the record is renamed over whatever is there.                      *)
PublishOver(p) ==
  /\ at[p] = "publish"
  /\ file' = Record(p, "owner") /\ temp' = temp \union {p} /\ Goto(p, "settle")
  /\ UNCHANGED <<claim, seen, glance, processes>>

(* publishRecord: linkSync fails if the path is taken.                        *)
Publish(p) ==
  /\ at[p] = "publish"
  /\ IF file = NoRecord
     THEN file' = Record(p, "owner") /\ temp' = temp \union {p} /\ Goto(p, "settle")
     ELSE Goto(p, "inspect") /\ UNCHANGED <<file, temp>>
  /\ UNCHANGED <<claim, seen, glance, processes>>

Settle(p) ==
  /\ at[p] = "settle"
  /\ temp' = temp \ {p}
  /\ Goto(p, "secure")
  /\ UNCHANGED <<file, claim, seen, glance, processes>>

(* ensurePrivateFile creates the path if it is gone and insists on one link.  *)
Secure(p) ==
  /\ at[p] = "secure"
  /\ \/ /\ file = NoRecord \/ Links(file) = 1
        /\ file' = IF file = NoRecord THEN Record(p, "blank") ELSE file
        /\ seen' = [seen EXCEPT ![p] = Record(p, "owner")]
        /\ Goto(p, "held")
     \/ Goto(p, "retract") /\ UNCHANGED <<file, seen>>
  /\ UNCHANGED <<claim, temp, glance, processes>>

(* A publisher that fails looks whether the path still names its record and   *)
(* then unlinks the path.                                                     *)
Retract(p) ==
  /\ at[p] = "retract"
  /\ Goto(p, IF file = Record(p, "owner") THEN "withdraw" ELSE "failed")
  /\ UNCHANGED <<file, claim, temp, seen, glance, processes>>

Withdraw(p) ==
  /\ at[p] = "withdraw"
  /\ file' = NoRecord
  /\ Goto(p, "failed")
  /\ UNCHANGED <<claim, temp, seen, glance, processes>>

(* The record in the way is read: it vanished or is invalid, its launcher or  *)
(* server lives, or it is stale.                                              *)
Inspect(p) ==
  /\ at[p] = "inspect"
  /\ \/ file.kind \in {"none", "blank"} /\ Goto(p, "failed") /\ UNCHANGED seen
     \/ /\ file.kind \in {"owner", "runtime"}
        /\ seen' = [seen EXCEPT ![p] = file]
        /\ Goto(p, IF Active(file) THEN "refused" ELSE "normalize")
  /\ UNCHANGED <<file, claim, temp, glance, processes>>

(* normalizeStaleClaims: drop the claims that link the stale record, one      *)
(* after another.                                                             *)
Normalize(p) ==
  /\ at[p] \in {"normalize", "recheck"}
  /\ Goto(p, IF file # seen[p] THEN "clean" ELSE IF Links(file) = 1 THEN "verify" ELSE "strip")
  /\ UNCHANGED <<file, claim, temp, seen, glance, processes>>

Strip(p) ==
  /\ at[p] = "strip"
  /\ IF \E q \in Launchers : claim[q] = seen[p]
     THEN /\ \E q \in Launchers :
               claim[q] = seen[p] /\ claim' = [claim EXCEPT ![q] = NoRecord]
          /\ Goto(p, "recheck")
     ELSE Goto(p, "linked") /\ UNCHANGED claim   \* an unrecognized hard link
  /\ UNCHANGED <<file, temp, seen, glance, processes>>

-----------------------------------------------------------------------------
(* removeVerifiedRecord, for a stale record and for a release.                *)
GiveWay(p) == Goto(p, IF Releasing(p) THEN "done" ELSE "clean")

Verify(p) ==
  /\ at[p] = "verify"
  /\ IF file # NoRecord /\ (Links(file) # 1 \/ file.kind = "blank")
     THEN Goto(p, "failed")
     ELSE IF file = seen[p] THEN Goto(p, "claim") ELSE GiveWay(p)
  /\ UNCHANGED <<file, claim, temp, seen, glance, processes>>

LinkClaim(p) ==
  /\ at[p] = "claim"
  /\ IF file = NoRecord THEN GiveWay(p) /\ UNCHANGED claim
     ELSE claim' = [claim EXCEPT ![p] = file] /\ Goto(p, "check")
  /\ UNCHANGED <<file, temp, seen, glance, processes>>

(* Mutant: the link count is not looked at.                                   *)
CheckIdentityOnly(p) ==
  /\ at[p] = "check"
  /\ Goto(p, IF file = seen[p] /\ claim[p] = seen[p] THEN "unlink" ELSE "unclaim")
  /\ UNCHANGED <<file, claim, temp, seen, glance, processes>>

CheckClaim(p) ==
  /\ at[p] = "check"
  /\ Goto(p, IF file = seen[p] /\ claim[p] = seen[p] /\ Links(file) = 2 THEN "unlink" ELSE "unclaim")
  /\ UNCHANGED <<file, claim, temp, seen, glance, processes>>

UnlinkLease(p) ==
  /\ at[p] = "unlink"
  /\ file' = NoRecord
  /\ Goto(p, "unclaim")
  /\ UNCHANGED <<claim, temp, seen, glance, processes>>

Unclaim(p) ==
  /\ at[p] = "unclaim"
  /\ claim' = [claim EXCEPT ![p] = NoRecord]
  /\ GiveWay(p)
  /\ UNCHANGED <<file, temp, seen, glance, processes>>

(* The bounded number of attempts is used up.                                 *)
GiveUp(p) ==
  /\ at[p] = "clean"
  /\ seen[p] # NoRecord
  /\ Goto(p, "failed")
  /\ UNCHANGED <<file, claim, temp, seen, glance, processes>>

-----------------------------------------------------------------------------
(* The launcher spawns its server while it holds the lease, then registers it. *)
Spawn(p) ==
  /\ at[p] = "held" /\ server[p] = "none"
  /\ server' = [server EXCEPT ![p] = "running"]
  /\ UNCHANGED <<file, claim, temp, at, seen, glance, alive, rivals>>

(* registerRuntimeProcess looks whether the path still names its record and   *)
(* puts the server into its own copy ...                                      *)
Register(p) ==
  /\ at[p] = "held" /\ server[p] # "none"
  /\ seen[p] = Record(p, "owner") /\ file = seen[p] /\ Links(file) = 1
  /\ seen' = [seen EXCEPT ![p] = Record(p, "runtime")]
  /\ Goto(p, "register")
  /\ UNCHANGED <<file, claim, temp, glance, processes>>

(* ... then renames that over whatever the path names, unless the write fails.*)
RenameRecord(p) ==
  /\ at[p] = "register"
  /\ file' \in {file, seen[p]}
  /\ Goto(p, "held")
  /\ UNCHANGED <<claim, temp, seen, glance, processes>>

(* Mutant: released while the server still runs.                              *)
ReleaseEarly(p) ==
  /\ at[p] = "held"
  /\ Goto(p, "verify")
  /\ UNCHANGED <<file, claim, temp, seen, glance, processes>>

(* The launcher releases when its server is gone, or before it spawned one.   *)
Release(p) ==
  /\ at[p] = "held" /\ server[p] # "running"
  /\ Goto(p, "verify")
  /\ UNCHANGED <<file, claim, temp, seen, glance, processes>>

ServerExits(p) ==
  /\ server[p] = "running"
  /\ server' = [server EXCEPT ![p] = "gone"]
  /\ UNCHANGED <<file, claim, temp, at, seen, glance, alive, rivals>>

(* A launcher dies or exits, leaving its files; its server may live on.       *)
Exit(p) ==
  /\ p \in alive \intersect Mortal
  /\ alive' = alive \ {p}
  /\ UNCHANGED <<file, claim, temp, at, seen, glance, server, rivals>>

-----------------------------------------------------------------------------
LeaseInit ==
  /\ file = NoRecord
  /\ claim = [p \in Launchers |-> NoRecord]
  /\ temp = {}
  /\ at = [p \in Launchers |-> "off"]
  /\ seen = [p \in Launchers |-> NoRecord]
  /\ glance = [p \in Launchers |-> NoRecord]
  /\ alive = {}
  /\ rivals \in Rivalry
  /\ server = [p \in Launchers |-> "none"]

Steps(p) ==
  /\ p \in alive
  /\ \/ Clean(p) \/ Sweep(p) \/ Publish(p) \/ Settle(p) \/ Secure(p)
     \/ Retract(p) \/ Withdraw(p) \/ Inspect(p) \/ Normalize(p) \/ Strip(p)
     \/ Verify(p) \/ LinkClaim(p) \/ CheckClaim(p) \/ UnlinkLease(p) \/ Unclaim(p)
     \/ GiveUp(p) \/ Spawn(p) \/ Register(p) \/ RenameRecord(p) \/ Release(p)

LeaseNext == \E p \in Launchers : Begin(p) \/ Steps(p) \/ ServerExits(p) \/ Exit(p)

LeaseSpec == LeaseInit /\ [][LeaseNext]_leaseVars
-----------------------------------------------------------------------------
(* Launches that nobody competes with (rivals = 1).  A lease keeps its file   *)
(* for as long as its launcher holds it, whatever later launchers find and    *)
(* clean up: at most one launcher thinks it holds it.                         *)
HolderKeepsLease ==
  \A p \in alive : at[p] \in Holding => file.by = p

(* Such a launch gives up on an unrecognized hard link only where a publisher *)
(* died before it removed its temporary name.                                 *)
OnlyTornPublishBlocks ==
  \A p \in alive : at[p] = "linked" => \E q \in temp \ alive : file = Record(q, "owner")

(* Of several reclaimers whose claims link the stale record at most one goes  *)
(* on to unlink it (removeVerifiedRecord's comment on the link count).        *)
OneClaimant ==
  \A p, q \in alive :
    at[p] = "unlink" /\ at[q] = "unlink" /\ claim[p] = claim[q] /\ claim[p] # NoRecord => p = q

(* The lease is sound: a launcher alone with the files of dead ones holds     *)
(* what it took and is blocked by a torn publish only; among several, the     *)
(* link count lets one claimant through (acquireRuntimeLease,                 *)
(* removeVerifiedRecord).                                                     *)
LeaseInv ==
  /\ LeaseTypeOK
  /\ OneClaimant
  /\ rivals = 1 => HolderKeepsLease /\ OnlyTornPublishBlocks

(* While launchers compete over leases of dead ones too, a holder loses its    *)
(* lease only to another launcher that acts on a look it had before: at a      *)
(* stale record, whose links it counted (removeVerifiedRecord); at the record  *)
(* it published and failed to secure (publishRecord); or at its own lease,     *)
(* which it has lost since to one of these (registerRuntimeProcess).           *)
LostOnlyToPassedCheck ==
  [][\A p \in alive :
       at[p] \in Holding /\ at'[p] \in Holding /\ file.by = p /\ file'.by # p
       => \E q \in alive \ {p} :
            \/ at[q] = "unlink" /\ at'[q] = "unclaim" /\ seen[q] # file
            \/ at[q] = "withdraw" /\ at'[q] = "failed"
            \/ at[q] = "register" /\ at'[q] = "held" /\ file' = Record(q, "runtime")]_leaseVars

(* A registered server keeps the lease while it runs, even when its launcher  *)
(* is gone: no second writer can start (startLeasedDesktopServer).            *)
ServerKeepsLease ==
  [][rivals = 1 =>
       \A p \in Launchers :
         file = Record(p, "runtime") /\ server[p] = "running" => file' = file]_leaseVars

(* No step of removeVerifiedRecord unlinks a record it did not inspect.       *)
UnlinksOnlyInspected ==
  [][\A p \in alive : at[p] = "unlink" /\ at'[p] = "unclaim" => file \in {seen[p], NoRecord}]_leaseVars

(* A registration replaces, and a failed publish withdraws, no lease but the   *)
(* launcher's own (registerRuntimeProcess refuses one that is "no longer owned *)
(* by this process"; publishRecord: "Never remove a replacement").             *)
TouchesOnlyOwn ==
  [][\A p \in alive :
       at[p] \in {"register", "withdraw"} /\ at'[p] # at[p] /\ file # NoRecord /\ file' # file
       => file.by = p]_leaseVars
=============================================================================
