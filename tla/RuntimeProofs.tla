---------------------------- MODULE RuntimeProofs -----------------------------
(***************************************************************************)
(* Proofs about what runs: the lease of the data directory and the desktop *)
(* application, which takes it for the server it forks.                    *)
(*                                                                         *)
(* RuntimeLease, for any launchers and any mortality: LeaseInv is the      *)
(* visible part of an inductive invariant, LeaseIInv, from which the two   *)
(* action properties follow as well.                                       *)
(*                                                                         *)
(* Desktop, for any number of launches and of mishaps: DesktopInv and      *)
(* NothingLeftRunning are parts of an inductive invariant, DesktopIInv,    *)
(* from which LeaseOutlivesServer follows as well.                         *)
(***************************************************************************)
EXTENDS RuntimeLease, Desktop, FiniteSetTheorems, TLAPS

(* The launcher of a record that was found stale runs no more and will not    *)
(* run again, and a server it registered is gone for good.                    *)
Retired(r) ==
  /\ r.by \in Launchers \ alive /\ at[r.by] # "off"
  /\ r.kind = "runtime" => server[r.by] # "running"

Removing == {"verify", "claim", "check", "unlink", "unclaim"}
Cleaning == {"normalize", "strip", "recheck"} \union Removing

(* A launch is made once, and leaves no trace before it is made.              *)
OffIsBlank ==
  /\ \A p \in Launchers : at[p] = "off" => p \notin alive /\ seen[p] = NoRecord
  /\ file # NoRecord => at[file.by] # "off"

(* What a live launcher inspected is its own record, while it releases, or    *)
(* one whose launcher and server are gone.                                    *)
InspectedIsOwnOrRetired ==
  \A p \in alive :
    /\ at[p] \in Holding => seen[p].by = p
    /\ at[p] = "register" => seen[p] = Record(p, "runtime")
    /\ at[p] \in Acquiring /\ seen[p] # NoRecord =>
         \/ Retired(seen[p])
         \/ seen[p].by = p /\ at[p] \in Removing /\ server[p] # "running"
    /\ at[p] \in Cleaning => seen[p] # NoRecord

(* OneClaimant does not depend on who still runs.                             *)
ClaimantsDiffer ==
  \A p, q \in Launchers :
    at[p] = "unlink" /\ at[q] = "unlink" /\ claim[p] = claim[q] /\ claim[p] # NoRecord => p = q

(* What holds of launches that nobody competes with.                          *)
OneStarts == \A p, q \in Starting : p = q

Publishing == {"settle", "secure", "retract", "withdraw"}

PublishedStays ==
  \A p \in alive :
    /\ at[p] \in Publishing => file = Record(p, "owner")
    /\ at[p] \in Holding => file.by = p

CleanedStays ==
  \A p \in alive :
    at[p] \in Cleaning \ {"verify", "unclaim"} \/ (at[p] = "verify" /\ ~Releasing(p))
    => file = seen[p]

ReleaserClaimsOwn ==
  \A p \in alive :
    Releasing(p) /\ at[p] \in {"check", "unlink", "unclaim"} => claim[p].by \in {p, None}

(* A torn publish is never verified as a record with one link ...             *)
TornIsNotRemoved ==
  \A p \in alive, q \in temp :
    at[p] \in Removing \ {"unclaim"} /\ ~Releasing(p) => seen[p] # Record(q, "owner")

(* ... and what a reclaimer strips has a second link to account for.          *)
StrippedIsLinked ==
  \A p \in alive : at[p] = "strip" =>
    \/ \E q \in Launchers : claim[q] = seen[p]
    \/ \E q \in temp : seen[p] = Record(q, "owner")

Alone ==
  /\ OneStarts /\ PublishedStays /\ CleanedStays /\ ReleaserClaimsOwn
  /\ TornIsNotRemoved /\ StrippedIsLinked /\ OnlyTornPublishBlocks

LeaseIInv ==
  /\ LeaseTypeOK
  /\ OffIsBlank
  /\ InspectedIsOwnOrRetired
  /\ ClaimantsDiffer
  /\ rivals = 1 => Alone
-----------------------------------------------------------------------------
LEMMA RecordFacts ==
  /\ NoRecord \notin Records
  /\ \A p \in Launchers : Record(p, "owner") \in Records /\ Record(p, "runtime") \in Records
                          /\ Record(p, "blank") \in Records
  /\ \A r \in Records : r.by \in Launchers /\ r.kind \in {"owner", "runtime", "blank"}
  /\ NoRecord.by = None /\ None \notin Launchers
  /\ \A p, q \in Launchers : Record(p, "owner") = Record(q, "owner") => p = q
BY LeaseAssumption DEF Records, NoRecord, Record

(* The disjuncts of a step of launcher p.                                     *)
Moves(p) == Begin(p) \/ Steps(p) \/ ServerExits(p) \/ Exit(p)

LEMMA TypeInit == LeaseInit => LeaseTypeOK
BY DEF LeaseInit, LeaseTypeOK, Places

LEMMA PlaceStep ==
  ASSUME LeaseTypeOK, NEW p \in Launchers, Moves(p)
  PROVE  at' \in [Launchers -> Places] /\ \A q \in Launchers \ {p} : at'[q] = at[q]
<1> USE DEF LeaseTypeOK, Goto, GiveWay, Places, Holding, Acquiring, Ended
<1>1. CASE Begin(p) \/ ServerExits(p) \/ Exit(p)
  BY <1>1 DEF Begin, ServerExits, Exit
<1>2. CASE Clean(p) \/ Sweep(p) \/ GiveUp(p) \/ Publish(p) \/ Settle(p)
  BY <1>2 DEF Clean, Sweep, GiveUp, Publish, Settle
<1>3. CASE Secure(p) \/ Retract(p) \/ Withdraw(p) \/ Inspect(p)
  BY <1>3 DEF Secure, Retract, Withdraw, Inspect
<1>4. CASE Normalize(p) \/ Strip(p) \/ Verify(p)
  BY <1>4 DEF Normalize, Strip, Verify
<1>5. CASE LinkClaim(p) \/ CheckClaim(p) \/ UnlinkLease(p) \/ Unclaim(p)
  BY <1>5 DEF LinkClaim, CheckClaim, UnlinkLease, Unclaim
<1>6. CASE Spawn(p) \/ Register(p) \/ RenameRecord(p) \/ Release(p)
  BY <1>6 DEF Spawn, Register, RenameRecord, Release
<1> QED
  BY <1>1, <1>2, <1>3, <1>4, <1>5, <1>6 DEF Moves, Steps

LEMMA LeaseTypeStep == LeaseTypeOK /\ [LeaseNext]_leaseVars => LeaseTypeOK'
<1> SUFFICES ASSUME LeaseTypeOK, [LeaseNext]_leaseVars PROVE LeaseTypeOK'
  OBVIOUS
<1> USE RecordFacts
<1>1. ASSUME NEW p \in Launchers, Moves(p) PROVE LeaseTypeOK'
  <2> DEFINE Untorn == \A q \in temp' : at'[q] = "settle"
             Filed == file' \in Records \union {NoRecord}
             Named(f) == f \in [Launchers -> Records \union {NoRecord}]
             Rest == /\ Filed /\ Named(claim') /\ temp' \subseteq Launchers /\ Named(seen')
                     /\ Named(glance') /\ alive' \subseteq Launchers
                     /\ server' \in [Launchers -> {"none", "running", "gone"}]
                     /\ rivals' \in Rivalry
  <2>1. at' \in [Launchers -> Places] /\ \A q \in Launchers \ {p} : at'[q] = at[q]
    BY <1>1, PlaceStep
  <2>2. Untorn /\ Rest
    <3>1. CASE Begin(p) \/ ServerExits(p) \/ Exit(p)
      BY <2>1, <3>1 DEF LeaseTypeOK, Begin, ServerExits, Exit
    <3>2. CASE Clean(p) \/ GiveUp(p) \/ Retract(p) \/ Withdraw(p)
      BY <2>1, <3>2 DEF LeaseTypeOK, Clean, GiveUp, Retract, Withdraw, processes
    <3>3. CASE Sweep(p) \/ Strip(p)
      <4>1. Named(claim')
        BY <3>3 DEF LeaseTypeOK, Sweep, Strip
      <4>2. Named(glance')
        BY <3>3 DEF LeaseTypeOK, Sweep, Strip
      <4> QED
        BY <2>1, <3>3, <4>1, <4>2 DEF LeaseTypeOK, Sweep, Strip, processes
    <3>4. CASE Publish(p)
      BY <2>1, <3>4 DEF LeaseTypeOK, Publish, Goto, processes
    <3>5. CASE Settle(p) \/ Inspect(p)
      BY <2>1, <3>5 DEF LeaseTypeOK, Settle, Inspect, processes
    <3>6. CASE Secure(p)
      BY <2>1, <3>6 DEF LeaseTypeOK, Secure, processes
    <3>7. CASE Normalize(p) \/ Verify(p) \/ CheckClaim(p)
      BY <2>1, <3>7 DEF LeaseTypeOK, Normalize, Verify, CheckClaim, processes
    <3>8. CASE LinkClaim(p) \/ Unclaim(p)
      <4>1. Named(claim')
        BY <3>8 DEF LeaseTypeOK, LinkClaim, Unclaim
      <4> QED
        BY <2>1, <3>8, <4>1 DEF LeaseTypeOK, LinkClaim, Unclaim, processes
    <3>9. CASE UnlinkLease(p) \/ Spawn(p) \/ Release(p)
      BY <2>1, <3>9 DEF LeaseTypeOK, UnlinkLease, Spawn, Release, processes
    <3>10. CASE Register(p) \/ RenameRecord(p)
      <4>1. Filed
        BY <3>10 DEF LeaseTypeOK, Register, RenameRecord
      <4>2. Named(seen')
        BY <3>10 DEF LeaseTypeOK, Register, RenameRecord
      <4> QED
        BY <2>1, <3>10, <4>1, <4>2 DEF LeaseTypeOK, Register, RenameRecord, processes
    <3> QED
      BY <1>1, <3>1, <3>2, <3>3, <3>4, <3>5, <3>6, <3>7, <3>8, <3>9, <3>10 DEF Moves, Steps
  <2> QED
    BY <2>1, <2>2 DEF LeaseTypeOK
<1>2. CASE UNCHANGED leaseVars
  BY <1>2 DEF LeaseTypeOK, leaseVars
<1> QED
  BY <1>1, <1>2 DEF LeaseNext, Moves

-----------------------------------------------------------------------------
(* What a step of launcher p leaves alone: the places, the inspected records  *)
(* and the servers of the others, and it moves no launcher back to "off".     *)
LEMMA OthersStay ==
  ASSUME LeaseTypeOK, OffIsBlank, NEW p \in Launchers, Moves(p)
  PROVE  /\ \A q \in Launchers \ {p} :
              at'[q] = at[q] /\ seen'[q] = seen[q] /\ server'[q] = server[q]
         /\ \A q \in Launchers : at[q] # "off" => at'[q] # "off"
         /\ alive' \subseteq alive \union {p}
         /\ p \in alive' \ alive => at[p] = "off"
         /\ rivals' = rivals
<1>1. CASE Begin(p) \/ ServerExits(p) \/ Exit(p)
  BY <1>1 DEF LeaseTypeOK, OffIsBlank, Begin, ServerExits, Exit, Goto
<1>2. CASE Steps(p)
  <2> USE DEF LeaseTypeOK, Goto, GiveWay, processes, Acquiring, Ended
  <2>1. CASE Clean(p) \/ Sweep(p) \/ GiveUp(p) \/ Publish(p) \/ Settle(p)
    BY <1>2, <2>1 DEF Clean, Sweep, GiveUp, Publish, Settle
  <2>2. CASE Secure(p) \/ Retract(p) \/ Withdraw(p) \/ Inspect(p) \/ Normalize(p) \/ Strip(p)
    BY <1>2, <2>2 DEF Secure, Retract, Withdraw, Inspect, Normalize, Strip
  <2>3. CASE Verify(p) \/ LinkClaim(p) \/ CheckClaim(p) \/ UnlinkLease(p) \/ Unclaim(p)
    BY <1>2, <2>3 DEF Verify, LinkClaim, CheckClaim, UnlinkLease, Unclaim
  <2>4. CASE Spawn(p) \/ Register(p) \/ RenameRecord(p) \/ Release(p)
    BY <1>2, <2>4 DEF Spawn, Register, RenameRecord, Holding, Release
  <2> QED
    BY <1>2, <2>1, <2>2, <2>3, <2>4 DEF Steps
<1> QED
  BY <1>1, <1>2 DEF Moves

(* A server starts under a live launcher that holds the lease only.           *)
LEMMA ServersStartHeld ==
  ASSUME LeaseTypeOK, NEW p \in Launchers, Moves(p), server'[p] = "running", server[p] # "running"
  PROVE  p \in alive /\ at[p] = "held"
BY DEF LeaseTypeOK, Moves, Begin, ServerExits, Exit, Steps, Clean, Sweep, GiveUp, Publish, Settle,
       Secure, Retract, Withdraw, Inspect, Normalize, Strip, Verify, LinkClaim, CheckClaim,
       UnlinkLease, Unclaim,
       Spawn, Register, RenameRecord, Release, processes

(* A retired record stays retired: its launcher is not launched again.        *)
LEMMA RetiredStays ==
  ASSUME LeaseTypeOK, OffIsBlank, NEW p \in Launchers, Moves(p), NEW r \in Records, Retired(r)
  PROVE  Retired(r)'
<1>1. r.by \in Launchers
  BY RecordFacts
<1>2. r.by \notin alive' /\ at'[r.by] # "off"
  BY <1>1, OthersStay DEF Retired
<1>3. r.kind = "runtime" => server'[r.by] # "running"
  BY <1>1, OthersStay, ServersStartHeld DEF Retired
<1> QED
  BY <1>1, <1>2, <1>3 DEF Retired

(* The steps of p that change the lease.                                      *)
LeaseWrites(p) ==
  Publish(p) \/ Secure(p) \/ Withdraw(p) \/ RenameRecord(p) \/ UnlinkLease(p)

LEMMA LeaseMoves ==
  ASSUME LeaseTypeOK, NEW p \in Launchers, Moves(p)
  PROVE  \/ file' = file
         \/ p \in alive /\ LeaseWrites(p)
BY DEF LeaseTypeOK, Moves, Begin, ServerExits, Exit, Steps, Clean, Sweep, GiveUp, Settle,
       Retract, Inspect, Normalize, Strip, Verify, LinkClaim, CheckClaim, Unclaim, Spawn, Register,
       Release, LeaseWrites, processes

LEMMA OffStep ==
  ASSUME LeaseTypeOK, OffIsBlank, InspectedIsOwnOrRetired, NEW p \in Launchers, Moves(p)
  PROVE  OffIsBlank'
<1> USE RecordFacts
<1>1. \A q \in Launchers : at'[q] = "off" => q \notin alive' /\ seen'[q] = NoRecord
  <2>1. ASSUME at'[p] = "off" PROVE p \notin alive' /\ seen'[p] = NoRecord
    BY <2>1, OthersStay DEF OffIsBlank, LeaseTypeOK, Moves, Begin, ServerExits, Exit, Steps, Goto
  <2> QED
    BY <2>1, OthersStay DEF OffIsBlank
<1>2. ASSUME file' # NoRecord PROVE at'[file'.by] # "off"
  <2>1. CASE file' = file
    BY <1>2, <2>1, OthersStay DEF OffIsBlank, LeaseTypeOK
  <2>2. CASE p \in alive /\ LeaseWrites(p)
    <3>1. at'[p] # "off"
      BY <2>2, OthersStay DEF OffIsBlank
    <3>2. file' = file \/ file' = NoRecord \/ file'.by = p
      <4>1. CASE RenameRecord(p)
        BY <2>2, <4>1 DEF RenameRecord, InspectedIsOwnOrRetired, Holding
      <4> QED
        BY <2>2, <4>1 DEF LeaseWrites, Publish, Secure, Withdraw, UnlinkLease, Record
    <3> QED
      BY <1>2, <3>1, <3>2, OthersStay DEF OffIsBlank, LeaseTypeOK
  <2> QED
    BY <2>1, <2>2, LeaseMoves
<1> QED
  BY <1>1, <1>2 DEF OffIsBlank

LEMMA InspectedStep ==
  ASSUME LeaseTypeOK, OffIsBlank, InspectedIsOwnOrRetired, NEW p \in Launchers, Moves(p)
  PROVE  InspectedIsOwnOrRetired'
<1> USE RecordFacts
<1> DEFINE Own(q) == seen[q].by = q /\ at[q] \in Removing /\ server[q] # "running"
           Fine(q) == /\ at[q] \in Holding => seen[q].by = q
                      /\ at[q] = "register" => seen[q] = Record(q, "runtime")
                      /\ at[q] \in Acquiring /\ seen[q] # NoRecord => Retired(seen[q]) \/ Own(q)
                      /\ at[q] \in Cleaning => seen[q] # NoRecord
<1>1. \A q \in alive : Fine(q)
  BY DEF InspectedIsOwnOrRetired
<1>2. ASSUME NEW q \in alive', q # p PROVE Fine(q)'
  <2>1. q \in alive /\ q \in Launchers
    BY <1>2, OthersStay DEF LeaseTypeOK
  <2>2. at'[q] = at[q] /\ seen'[q] = seen[q] /\ server'[q] = server[q]
    BY <1>2, <2>1, OthersStay
  <2>3. seen[q] # NoRecord => seen[q] \in Records
    BY <2>1 DEF LeaseTypeOK
  <2>4. seen[q] # NoRecord /\ Retired(seen[q]) => Retired(seen[q])'
    BY <2>2, <2>3, RetiredStays
  <2>5. Fine(q)
    BY <1>1, <2>1
  <2>6. Own(q) => Own(q)'
    BY <2>2
  <2>7. (seen[q] = NoRecord) = (seen[q] = NoRecord)'
    BY <2>2
  <2> QED
    BY <2>2, <2>4, <2>5, <2>6, <2>7
<1>3. ASSUME p \in alive' PROVE Fine(p)'
  <2> USE <1>3
  <2>1. CASE Begin(p)
    <3>1. at'[p] = "clean" /\ seen'[p] = NoRecord
      BY <2>1 DEF Begin, Goto, LeaseTypeOK, OffIsBlank
    <3> QED
      BY <3>1 DEF Holding, Acquiring, Cleaning, Removing
  <2>2. CASE ServerExits(p) \/ Exit(p)
    <3>1. p \in alive /\ at' = at /\ seen' = seen /\ (server[p] # "running" => server'[p] # "running")
      BY <2>2 DEF ServerExits, Exit, LeaseTypeOK
    <3>2. seen[p] # NoRecord /\ Retired(seen[p]) => Retired(seen[p])'
      BY <3>1, RetiredStays DEF LeaseTypeOK
    <3> QED
      BY <1>1, <3>1, <3>2
  <2>3. CASE Steps(p)
    <3>1. p \in alive /\ Fine(p)
      BY <1>1, <2>3 DEF Steps
    <3>2. seen'[p] = seen[p] /\ seen[p] # NoRecord /\ Retired(seen[p]) => Retired(seen[p])'
      <4>1. seen[p] # NoRecord => seen[p] \in Records
        BY DEF LeaseTypeOK
      <4> QED
        BY <4>1, RetiredStays
    <3> USE DEF Holding, Acquiring, Removing, Cleaning, Goto, LeaseTypeOK, processes
    <3>3. CASE \/ Clean(p) \/ Sweep(p) \/ GiveUp(p) \/ Publish(p) \/ Settle(p)
               \/ Retract(p) \/ Withdraw(p)
      <4>1. /\ at[p] \in {"clean", "sweep", "publish"} \union Publishing /\ seen' = seen
            /\ at'[p] \in {"sweep", "publish", "settle", "secure", "withdraw", "inspect", "failed"}
        BY <3>3 DEF Clean, Sweep, GiveUp, Publish, Settle, Retract, Withdraw, Publishing
      <4> QED
        BY <3>1, <3>2, <4>1 DEF Publishing
    <3>4. CASE Secure(p)
      BY <3>1, <3>2, <3>4 DEF Secure, Record
    <3>5. CASE Inspect(p)
      <4>1. ASSUME at'[p] = "normalize" PROVE file \in Records /\ seen'[p] = file /\ ~Active(file)
        BY <3>5, <4>1 DEF Inspect, NoRecord
      <4>2. ASSUME at'[p] = "normalize" PROVE Retired(file)
        BY <4>1, <4>2 DEF Retired, Active, OffIsBlank
      <4>3. at'[p] \in {"failed", "refused", "normalize"}
        BY <3>5 DEF Inspect
      <4> QED
        BY <4>1, <4>2, <4>3, RetiredStays
    <3>6. CASE Normalize(p) \/ Strip(p)
      <4>1. /\ at[p] \in {"normalize", "recheck", "strip"} /\ seen' = seen
            /\ at'[p] \in {"clean", "verify", "strip", "recheck", "linked"}
        BY <3>6 DEF Normalize, Strip
      <4> QED
        BY <3>1, <3>2, <4>1
    <3>7. CASE Verify(p) \/ LinkClaim(p) \/ CheckClaim(p) \/ UnlinkLease(p) \/ Unclaim(p)
      <4>1. /\ at[p] \in Removing /\ seen' = seen /\ server' = server
            /\ \/ at'[p] \in Removing \union {"done", "failed"}
               \/ at'[p] = "clean" /\ ~Releasing(p)
        BY <3>7 DEF Verify, LinkClaim, CheckClaim, UnlinkLease, Unclaim, GiveWay
      <4> QED
        BY <3>1, <3>2, <4>1 DEF Releasing
    <3>8. CASE Spawn(p) \/ Register(p) \/ RenameRecord(p)
      BY <3>1, <3>8 DEF Spawn, Register, RenameRecord, Record
    <3>9. CASE Release(p)
      BY <3>1, <3>9 DEF Release
    <3> QED
      BY <2>3, <3>3, <3>4, <3>5, <3>6, <3>7, <3>8, <3>9 DEF Steps
  <2> QED
    BY <2>1, <2>2, <2>3 DEF Moves
<1> QED
  BY <1>2, <1>3 DEF InspectedIsOwnOrRetired

-----------------------------------------------------------------------------
(* Counting the links of the record at the path.                              *)
LEMMA AtLeastTwo ==
  ASSUME NEW S, IsFiniteSet(S), NEW x \in S, NEW y \in S, x # y
  PROVE  Cardinality(S) \in Nat /\ Cardinality(S) >= 2
<1>1. IsFiniteSet({y}) /\ Cardinality({y}) = 1
  BY FS_Singleton
<1>2. IsFiniteSet({y} \union {x}) /\ Cardinality({y} \union {x}) = 2
  BY <1>1, FS_AddElement
<1>3. {y} \union {x} \in SUBSET S
  OBVIOUS
<1>4. Cardinality(S) \in Nat
  BY FS_CardinalityType
<1>5. Cardinality({y} \union {x}) <= Cardinality(S)
  BY <1>3, FS_Subset
<1> QED
  BY <1>2, <1>4, <1>5

LEMMA LinksCounted ==
  ASSUME LeaseTypeOK
  PROVE  /\ \A p, q \in Launchers :
              claim[p] = file /\ claim[q] = file /\ Links(file) = 2 => p = q
         /\ Links(file) = 1 <=> /\ \A p \in Launchers : claim[p] # file
                                /\ \A q \in temp : file # Record(q, "owner")
<1> DEFINE C == {p \in Launchers : claim[p] = file}
           T == {p \in temp : file = Record(p, "owner")}
<1>1. IsFiniteSet(C) /\ IsFiniteSet(T)
  <2>1. C \in SUBSET Launchers /\ T \in SUBSET Launchers
    BY DEF LeaseTypeOK
  <2> QED
    BY <2>1, LeaseAssumption, FS_Subset
<1>2. /\ Cardinality(C) \in Nat /\ Cardinality(T) \in Nat
      /\ Cardinality(C) = 0 <=> C = {}
      /\ Cardinality(T) = 0 <=> T = {}
  BY <1>1, FS_CardinalityType, FS_EmptySet
<1>3. Links(file) = Cardinality(C) + Cardinality(T) + 1
  BY DEF Links
<1>4. ASSUME NEW p \in Launchers, NEW q \in Launchers, claim[p] = file, claim[q] = file,
             Links(file) = 2
      PROVE  p = q
  <2>1. p \in C /\ q \in C
    BY <1>4
  <2> HIDE DEF C, T
  <2>2. p # q => Cardinality(C) >= 2
    BY <2>1, <1>1, AtLeastTwo
  <2> QED
    BY <1>2, <1>3, <1>4, <2>2
<1>5. Links(file) = 1 <=> C = {} /\ T = {}
  <2> HIDE DEF C, T
  <2> QED
    BY <1>2, <1>3
<1>6. C = {} <=> \A p \in Launchers : claim[p] # file
  OBVIOUS
<1>7. T = {} <=> \A q \in temp : file # Record(q, "owner")
  OBVIOUS
<1> HIDE DEF C, T
<1> QED
  BY <1>4, <1>5, <1>6, <1>7

(* A launcher comes to unlink by CheckClaim only; elsewhere claims are linked *)
(* by LinkClaim only.                                                         *)
LEMMA ClaimantsStep ==
  ASSUME LeaseTypeOK, ClaimantsDiffer, NEW p \in Launchers, Moves(p)
  PROVE  ClaimantsDiffer'
<1> USE DEF LeaseTypeOK, Goto, processes
<1>1. CASE p \in alive /\ CheckClaim(p)
  <2>1. claim' = claim /\ \A q \in Launchers \ {p} : at'[q] = at[q]
    BY <1>1 DEF CheckClaim
  <2>2. ASSUME NEW q \in Launchers, q # p, at'[p] = "unlink", claim[p] = claim[q]
        PROVE  FALSE
    <3>1. claim[p] = file /\ claim[q] = file /\ Links(file) = 2
      BY <1>1, <2>2 DEF CheckClaim
    <3> QED
      BY <3>1, <2>2, LinksCounted
  <2> QED
    BY <2>1, <2>2 DEF ClaimantsDiffer
<1>2. CASE p \in alive /\ LinkClaim(p)
  BY <1>2 DEF LinkClaim, GiveWay, ClaimantsDiffer
<1>3. CASE \/ Begin(p) \/ ServerExits(p) \/ Exit(p)
           \/ p \in alive /\ \/ Clean(p) \/ Sweep(p) \/ Publish(p) \/ Settle(p) \/ Secure(p)
                             \/ Retract(p) \/ Withdraw(p) \/ Inspect(p) \/ Normalize(p) \/ Strip(p) \/ Verify(p)
                             \/ UnlinkLease(p) \/ Unclaim(p) \/ GiveUp(p)
                             \/ Spawn(p) \/ Register(p) \/ RenameRecord(p) \/ Release(p)
  <2>1. \A q \in Launchers : at'[q] = "unlink" => at[q] = "unlink"
    BY <1>3 DEF Begin, ServerExits, Exit, Clean, Sweep, GiveUp, Publish, Settle, Secure, Retract,
                Withdraw,
                Inspect, Normalize, Strip, Verify, UnlinkLease, Unclaim, GiveWay,
                Spawn, Register, RenameRecord, Release
  <2>2. \A q \in Launchers : claim'[q] \in {claim[q], NoRecord}
    BY <1>3 DEF Begin, ServerExits, Exit, Clean, Sweep, GiveUp, Publish, Settle, Secure, Retract,
                Withdraw,
                Inspect, Normalize, Strip, Verify, UnlinkLease, Unclaim,
                Spawn, Register, RenameRecord, Release
  <2> QED
    BY <2>1, <2>2 DEF ClaimantsDiffer
<1> QED
  BY <1>1, <1>2, <1>3 DEF Moves, Steps

-----------------------------------------------------------------------------
(* Launches that nobody competes with.                                        *)
LeaseSound ==
  LeaseTypeOK /\ OffIsBlank /\ InspectedIsOwnOrRetired /\ rivals = 1 /\ Alone

LEMMA StarterFacts ==
  ASSUME LeaseTypeOK, InspectedIsOwnOrRetired
  PROVE  /\ \A p \in alive : at[p] \in Acquiring \ Removing => p \in Starting
         /\ \A p \in Starting : seen[p] # NoRecord => Retired(seen[p])
         /\ \A p \in alive : at[p] \in Removing => p \in Starting \/ Releasing(p)
BY RecordFacts DEF LeaseTypeOK, InspectedIsOwnOrRetired, Starting, Releasing, Retired, Acquiring,
                   Removing

LEMMA OneStartsStep ==
  ASSUME LeaseSound, NEW p \in Launchers, Moves(p)
  PROVE  OneStarts'
<1>1. CASE Begin(p)
  <2>1. Starting \in SUBSET Launchers
    BY DEF LeaseSound, LeaseTypeOK, Starting
  <2>2. IsFiniteSet(Starting) /\ Cardinality(Starting) \in Nat
    BY <2>1, LeaseAssumption, FS_Subset, FS_CardinalityType
  <2>3. Starting = {}
    BY <1>1, <2>2, FS_EmptySet DEF Begin, LeaseSound
  <2>4. \A q \in Starting' : q # p => q \in Starting
    BY <1>1, OthersStay DEF LeaseSound, LeaseTypeOK, Starting, Releasing
  <2> QED
    BY <2>3, <2>4 DEF OneStarts
<1>2. CASE ~Begin(p)
  <2>1. \A q \in Starting' : q # p => q \in Starting
    BY OthersStay DEF LeaseSound, LeaseTypeOK, Starting, Releasing
  <2>2. ASSUME p \in Starting' PROVE p \in Starting
    <3> USE <2>2 DEF LeaseSound, LeaseTypeOK, Starting, Releasing, Acquiring, Goto, processes
    <3>1. p \in alive
      BY <1>2 DEF Moves, ServerExits, Exit, Steps
    <3>2. CASE ServerExits(p) \/ Exit(p)
      BY <3>1, <3>2 DEF ServerExits, Exit
    <3>3. CASE \/ Secure(p) \/ Retract(p) \/ Withdraw(p)
               \/ Spawn(p) \/ Register(p) \/ RenameRecord(p)
      BY <3>1, <3>3 DEF Secure, Retract, Withdraw, Spawn, Register, RenameRecord, Holding
    <3>4. CASE Inspect(p)
      BY <3>1, <3>4, StarterFacts DEF Inspect, Removing
    <3>5. CASE Release(p)
      BY <3>1, <3>5 DEF Release, InspectedIsOwnOrRetired, Holding
    <3>6. CASE \/ Clean(p) \/ Sweep(p) \/ Publish(p) \/ Settle(p) \/ Normalize(p) \/ Strip(p)
               \/ Verify(p) \/ LinkClaim(p) \/ CheckClaim(p) \/ UnlinkLease(p) \/ Unclaim(p)
               \/ GiveUp(p)
      BY <3>1, <3>6 DEF Clean, Sweep, GiveUp, Publish, Settle, Normalize, Strip, Verify,
                        LinkClaim, CheckClaim, UnlinkLease, Unclaim
    <3> QED
      BY <1>2, <3>2, <3>3, <3>4, <3>5, <3>6 DEF Moves, Steps
  <2> QED
    BY <2>1, <2>2 DEF OneStarts, LeaseSound, Alone
<1> QED
  BY <1>1, <1>2

(* Whoever changes the lease publishes at a free path, works on its own       *)
(* record, or removes a retired one, being the one launch that starts.        *)
LEMMA LeaseChangesAlone ==
  ASSUME LeaseSound, NEW p \in Launchers, Moves(p), file' # file
  PROVE  /\ p \in alive
         /\ \/ Publish(p) /\ file = NoRecord /\ file' = Record(p, "owner")
            \/ file.by = p
            \/ UnlinkLease(p) /\ file = seen[p] /\ p \in Starting /\ Retired(file)
<1> USE RecordFacts
<1>1. p \in alive /\ LeaseWrites(p)
  BY LeaseMoves DEF LeaseSound
<1>2. CASE Publish(p)
  BY <1>1, <1>2 DEF Publish
<1>3. CASE Secure(p)
  BY <1>1, <1>3 DEF Secure, LeaseSound, Alone, PublishedStays, Publishing, Record
<1>4. CASE Withdraw(p) \/ RenameRecord(p)
  BY <1>1, <1>4 DEF Withdraw, RenameRecord, LeaseSound, Alone, PublishedStays, Publishing, Holding,
                    Record
<1>5. CASE UnlinkLease(p)
  <2>1. at[p] = "unlink" /\ file = seen[p] /\ file # NoRecord
    BY <1>1, <1>5 DEF UnlinkLease, LeaseSound, Alone, CleanedStays, Cleaning, Removing,
                      InspectedIsOwnOrRetired
  <2>2. p \in Starting \/ Releasing(p)
    BY <1>1, <2>1, StarterFacts DEF LeaseSound, Removing
  <2>3. p \in Starting => Retired(file)
    BY <2>1, StarterFacts DEF LeaseSound
  <2> QED
    BY <1>1, <1>5, <2>1, <2>2, <2>3 DEF Releasing
<1> QED
  BY <1>1, <1>2, <1>3, <1>4, <1>5 DEF LeaseWrites

(* The record of a live launcher is changed by that launcher only, and a      *)
(* retired one by the launch that starts.                                     *)
LEMMA LiveRecordStays ==
  ASSUME LeaseSound, NEW p \in Launchers, Moves(p), NEW q \in alive, q # p, file.by = q
  PROVE  file' = file
BY LeaseChangesAlone, RecordFacts DEF LeaseSound, LeaseTypeOK, Retired

LEMMA PublishedStep ==
  ASSUME LeaseSound, NEW p \in Launchers, Moves(p)
  PROVE  PublishedStays'
<1> USE RecordFacts
<1>1. ASSUME NEW q \in alive', q # p
      PROVE  /\ at'[q] \in Publishing => file' = Record(q, "owner")
             /\ at'[q] \in Holding => file'.by = q
  <2>1. q \in alive /\ q \in Launchers /\ at'[q] = at[q]
    BY <1>1, OthersStay DEF LeaseSound, LeaseTypeOK
  <2>2. file.by = q => file' = file
    BY <1>1, <2>1, LiveRecordStays
  <2> QED
    BY <2>1, <2>2 DEF LeaseSound, Alone, PublishedStays, Record
<1>2. ASSUME p \in alive'
      PROVE  /\ at'[p] \in Publishing => file' = Record(p, "owner")
             /\ at'[p] \in Holding => file'.by = p
  <2> USE DEF LeaseSound, LeaseTypeOK, Goto, GiveWay, processes, Publishing, Holding
  <2>1. CASE \/ Begin(p) \/ Exit(p) \/ Clean(p) \/ Sweep(p) \/ Inspect(p) \/ Normalize(p)
             \/ Strip(p) \/ Verify(p) \/ LinkClaim(p) \/ CheckClaim(p) \/ UnlinkLease(p)
             \/ Unclaim(p) \/ GiveUp(p) \/ Release(p) \/ Withdraw(p)
    BY <1>2, <2>1 DEF Begin, Exit, Clean, Sweep, Inspect, Normalize, Strip, Verify, LinkClaim,
                      CheckClaim, UnlinkLease, Unclaim, GiveUp, Release, Withdraw
  <2>2. CASE p \in alive /\ (Publish(p) \/ Settle(p) \/ Retract(p))
    BY <2>2 DEF Publish, Settle, Retract, Alone, PublishedStays
  <2>3. CASE p \in alive /\ Secure(p)
    BY <2>3 DEF Secure, Alone, PublishedStays, Record
  <2>4. CASE p \in alive /\ (Spawn(p) \/ Register(p))
    BY <2>4 DEF Spawn, Register, Alone, PublishedStays, Record
  <2>6. CASE p \in alive /\ RenameRecord(p)
    <3>1. file.by = p /\ seen[p].by = p
      BY <2>6 DEF RenameRecord, Alone, PublishedStays, InspectedIsOwnOrRetired
    <3>2. at'[p] = "held" /\ file' \in {file, seen[p]}
      BY <2>6 DEF RenameRecord
    <3> QED
      BY <3>1, <3>2
  <2>5. CASE ServerExits(p)
    BY <1>2, <2>5 DEF ServerExits, Alone, PublishedStays
  <2> QED
    BY <2>1, <2>2, <2>3, <2>4, <2>5, <2>6 DEF Moves, Steps
<1> QED
  BY <1>1, <1>2 DEF PublishedStays

(* The parts of CleanedStays, of one launcher.                                *)
Bound(p) == at[p] \in Cleaning \ {"verify", "unclaim"} \/ (at[p] = "verify" /\ ~Releasing(p))

LEMMA BoundRecordStays ==
  ASSUME LeaseSound, NEW p \in Launchers, Moves(p), NEW q \in alive, q # p, Bound(q)
  PROVE  file' = file /\ file = seen[q]
<1> USE RecordFacts
<1>1. file = seen[q] /\ file # NoRecord
  BY DEF LeaseSound, Alone, CleanedStays, Bound, InspectedIsOwnOrRetired, Cleaning, Removing
<1>2. (q \in Starting /\ Retired(file)) \/ file.by = q
  BY <1>1, StarterFacts
     DEF Bound, LeaseSound, Cleaning, Removing, Acquiring, InspectedIsOwnOrRetired, Starting,
         Releasing
<1>3. file.by = q => file' = file
  BY LiveRecordStays
<1>4. ASSUME q \in Starting, Retired(file), file' # file PROVE FALSE
  BY <1>1, <1>4, LeaseChangesAlone DEF LeaseSound, Alone, OneStarts, Retired
<1> QED
  BY <1>1, <1>2, <1>3, <1>4

LEMMA CleanedStep ==
  ASSUME LeaseSound, NEW p \in Launchers, Moves(p)
  PROVE  CleanedStays'
<1> USE RecordFacts
<1>1. ASSUME NEW q \in alive', q # p, Bound(q)'
      PROVE  file' = seen'[q]
  <2>1. q \in alive /\ q \in Launchers /\ at'[q] = at[q] /\ seen'[q] = seen[q]
    BY <1>1, OthersStay DEF LeaseSound, LeaseTypeOK
  <2>2. Bound(q)
    BY <1>1, <2>1 DEF Bound, Releasing
  <2> QED
    BY <1>1, <2>1, <2>2, BoundRecordStays
<1>2. ASSUME p \in alive', Bound(p)'
      PROVE  file' = seen'[p]
  <2> USE DEF LeaseSound, LeaseTypeOK, Goto, GiveWay, processes, Bound, Cleaning, Removing, Releasing
  <2>1. CASE \/ Begin(p) \/ Exit(p) \/ Clean(p) \/ Sweep(p) \/ Publish(p) \/ Settle(p)
             \/ Secure(p) \/ Retract(p) \/ Withdraw(p) \/ UnlinkLease(p) \/ Unclaim(p) \/ GiveUp(p)
             \/ Spawn(p) \/ Register(p) \/ RenameRecord(p)
    BY <1>2, <2>1 DEF Begin, Exit, Clean, Sweep, Publish, Settle, Secure, Retract, Withdraw,
                      UnlinkLease, Unclaim,
                      GiveUp, Spawn, Register, RenameRecord
  <2>2. CASE p \in alive /\ (Inspect(p) \/ Normalize(p) \/ Strip(p))
    BY <1>2, <2>2 DEF Inspect, Normalize, Strip, Alone, CleanedStays
  <2>3. CASE p \in alive /\ (Verify(p) \/ LinkClaim(p) \/ CheckClaim(p))
    BY <1>2, <2>3 DEF Verify, LinkClaim, CheckClaim, Alone, CleanedStays
  <2>4. CASE p \in alive /\ Release(p)
    BY <1>2, <2>4 DEF Release, InspectedIsOwnOrRetired, Holding
  <2>5. CASE ServerExits(p)
    BY <1>2, <2>5 DEF ServerExits, Alone, CleanedStays
  <2> QED
    BY <2>1, <2>2, <2>3, <2>4, <2>5 DEF Moves, Steps
<1> QED
  BY <1>1, <1>2 DEF CleanedStays, Bound

(* Claims are only dropped, but for the one that p links to the lease.        *)
LEMMA ClaimMoves ==
  ASSUME LeaseTypeOK, NEW p \in Launchers, Moves(p), NEW q \in Launchers
  PROVE  \/ claim'[q] \in {claim[q], NoRecord}
         \/ q = p /\ LinkClaim(p) /\ claim'[q] = file
<1> USE DEF LeaseTypeOK, processes
<1>1. CASE Sweep(p) \/ Strip(p)
  BY <1>1 DEF Sweep, Strip
<1>2. CASE LinkClaim(p) \/ Unclaim(p)
  BY <1>2 DEF LinkClaim, Unclaim
<1>3. CASE ~(Sweep(p) \/ Strip(p) \/ LinkClaim(p) \/ Unclaim(p))
  BY <1>3 DEF Moves, Steps, Begin, ServerExits, Exit, Clean, Publish, Settle, Secure, Retract,
              Withdraw, Inspect,
              Normalize, Verify, CheckClaim, UnlinkLease, GiveUp, Spawn, Register, RenameRecord,
              Release
<1> QED
  BY <1>1, <1>2, <1>3

LEMMA ReleaserStep ==
  ASSUME LeaseSound, NEW p \in Launchers, Moves(p)
  PROVE  ReleaserClaimsOwn'
<1> USE RecordFacts
<1>1. ASSUME NEW q \in alive', q # p, Releasing(q)', at'[q] \in {"check", "unlink", "unclaim"}
      PROVE  claim'[q].by \in {q, None}
  <2>1. q \in alive /\ q \in Launchers /\ at'[q] = at[q] /\ seen'[q] = seen[q]
    BY <1>1, OthersStay DEF LeaseSound, LeaseTypeOK
  <2>2. claim'[q] \in {claim[q], NoRecord}
    BY <1>1, <2>1, ClaimMoves DEF LeaseSound
  <2> QED
    BY <1>1, <2>1, <2>2 DEF LeaseSound, Alone, ReleaserClaimsOwn, Releasing
<1>2. ASSUME p \in alive', Releasing(p)', at'[p] \in {"check", "unlink", "unclaim"}
      PROVE  claim'[p].by \in {p, None}
  <2> USE DEF LeaseSound, LeaseTypeOK, Goto, GiveWay, processes, Releasing
  <2>1. CASE LinkClaim(p) /\ p \in alive
    BY <1>2, <2>1 DEF LinkClaim, Alone, CleanedStays, Cleaning, Removing
  <2>2. CASE ~LinkClaim(p)
    <3>1. claim'[p] \in {claim[p], NoRecord}
      BY <2>2, ClaimMoves
    <3>2. p \in alive /\ seen'[p] = seen[p] /\ at[p] \in {"check", "unlink", "unclaim"}
      BY <1>2, <2>2 DEF Moves, Steps, Begin, ServerExits, Exit, Clean, Sweep, Publish, Settle,
           Secure, Retract, Withdraw, Inspect, Normalize, Strip, Verify, CheckClaim, UnlinkLease,
           Unclaim, GiveUp,
           Spawn, Register, RenameRecord, Release
    <3> QED
      BY <1>2, <3>1, <3>2 DEF Alone, ReleaserClaimsOwn
  <2> QED
    BY <2>1, <2>2 DEF Moves, Steps, LinkClaim, Begin, ServerExits, Exit
<1> QED
  BY <1>1, <1>2 DEF ReleaserClaimsOwn

(* Temporary names come with a publish and go with the one that made them.    *)
LEMMA TempMoves ==
  ASSUME LeaseTypeOK, NEW p \in Launchers, Moves(p)
  PROVE  \/ temp' = temp
         \/ Publish(p) /\ p \in alive /\ temp' = temp \union {p} /\ at[p] = "publish"
         \/ Settle(p) /\ p \in alive /\ temp' = temp \ {p} /\ at[p] = "settle"
BY DEF LeaseTypeOK, Moves, Steps, Begin, ServerExits, Exit, Clean, Sweep, Publish, Settle, Secure,
       Retract, Withdraw,
       Inspect, Normalize, Strip, Verify, LinkClaim, CheckClaim, UnlinkLease, Unclaim, GiveUp,
       Spawn, Register, RenameRecord, Release, processes

LEMMA TornStep ==
  ASSUME LeaseSound, NEW p \in Launchers, Moves(p)
  PROVE  TornIsNotRemoved'
<1> USE RecordFacts
<1> DEFINE Removes(q) == at[q] \in Removing \ {"unclaim"} /\ ~Releasing(q)
<1>1. ASSUME NEW q \in alive', NEW t \in temp', q # p, Removes(q)'
      PROVE  seen'[q] # Record(t, "owner")
  <2>1. /\ q \in alive /\ q \in Launchers
        /\ at'[q] = at[q] /\ seen'[q] = seen[q] /\ Removes(q)
    BY <1>1, OthersStay DEF LeaseSound, LeaseTypeOK, Releasing
  <2>2. CASE t \in temp
    BY <2>1, <2>2 DEF LeaseSound, Alone, TornIsNotRemoved
  <2>3. CASE t \notin temp
    <3>1. p \in Starting
      BY <2>3, TempMoves, StarterFacts DEF LeaseSound, Acquiring, Removing
    <3>2. q \in Starting
      BY <2>1, StarterFacts DEF LeaseSound
    <3> QED
      BY <1>1, <3>1, <3>2 DEF LeaseSound, Alone, OneStarts
  <2> QED
    BY <2>2, <2>3
<1>2. ASSUME p \in alive', NEW t \in temp', Removes(p)'
      PROVE  seen'[p] # Record(t, "owner")
  <2> USE DEF LeaseSound, LeaseTypeOK, Goto, GiveWay, processes, Releasing, Removing
  <2>1. CASE p \in alive /\ Normalize(p)
    <3>1. file = seen[p] /\ Links(file) = 1 /\ temp' = temp /\ seen' = seen
      BY <1>2, <2>1 DEF Normalize
    <3> QED
      BY <3>1, LinksCounted
  <2>2. CASE p \in alive /\ Release(p)
    BY <1>2, <2>2 DEF Release, InspectedIsOwnOrRetired, Holding
  <2>3. CASE ~Normalize(p) /\ ~Release(p)
    <3>1. p \in alive /\ seen'[p] = seen[p] /\ at[p] \in Removing \ {"unclaim"} /\ temp' = temp
      BY <1>2, <2>3 DEF Moves, Steps, Begin, ServerExits, Exit, Clean, Sweep, Publish, Settle,
           Secure, Retract, Withdraw, Inspect, Strip, Verify, LinkClaim, CheckClaim, UnlinkLease,
           Unclaim, GiveUp,
           Spawn, Register, RenameRecord
    <3> QED
      BY <1>2, <3>1 DEF Alone, TornIsNotRemoved
  <2> QED
    BY <2>1, <2>2, <2>3 DEF Moves, Steps, Normalize, Release, Begin, ServerExits, Exit
<1> QED
  BY <1>1, <1>2 DEF TornIsNotRemoved

LEMMA StrippedStep ==
  ASSUME LeaseSound, NEW p \in Launchers, Moves(p)
  PROVE  StrippedIsLinked'
<1> USE RecordFacts
<1> DEFINE Linked(q) == \/ \E c \in Launchers : claim[c] = seen[q]
                        \/ \E t \in temp : seen[q] = Record(t, "owner")
<1>1. ASSUME NEW q \in alive', q # p, at'[q] = "strip"
      PROVE  Linked(q)'
  <2>1. /\ q \in alive /\ q \in Launchers
        /\ at[q] = "strip" /\ seen'[q] = seen[q] /\ seen[q] # NoRecord
    BY <1>1, OthersStay DEF LeaseSound, LeaseTypeOK, InspectedIsOwnOrRetired, Cleaning
  <2>2. q \in Starting /\ Retired(seen[q]) /\ p \notin Starting
    BY <1>1, <2>1, StarterFacts DEF LeaseSound, Acquiring, Removing, Alone, OneStarts
  <2>3. Linked(q)
    BY <2>1 DEF LeaseSound, Alone, StrippedIsLinked
  <2>4. CASE \E t \in temp : seen[q] = Record(t, "owner")
    <3>1. temp \subseteq temp'
      BY <2>2, TempMoves, StarterFacts DEF LeaseSound, Acquiring, Removing
    <3> QED
      BY <2>1, <2>4, <3>1
  <2>5. ASSUME NEW c \in Launchers, claim[c] = seen[q]
        PROVE  claim'[c] = seen[q]
    <3>1. CASE p \in alive /\ (Sweep(p) \/ Strip(p))
      BY <2>2, <3>1, StarterFacts DEF LeaseSound, Sweep, Strip, Acquiring, Removing
    <3>2. CASE p \in alive /\ Unclaim(p)
      <4>1. at[p] = "unclaim" /\ Releasing(p)
        BY <2>2, <3>2, StarterFacts DEF LeaseSound, Unclaim, Removing
      <4>2. claim[p].by \in {p, None}
        BY <3>2, <4>1 DEF LeaseSound, Alone, ReleaserClaimsOwn
      <4>3. seen[q].by \in Launchers \ alive
        BY <2>2 DEF Retired
      <4>4. c # p
        BY <2>5, <3>2, <4>2, <4>3
      <4> QED
        BY <2>5, <3>2, <4>4 DEF Unclaim, LeaseSound, LeaseTypeOK
    <3>3. CASE LinkClaim(p)
      <4>1. file = seen[q]
        BY <2>1 DEF LeaseSound, Alone, CleanedStays, Cleaning, Removing
      <4> QED
        BY <2>5, <3>3, <4>1 DEF LinkClaim, LeaseSound, LeaseTypeOK
    <3>4. CASE \/ ~(Sweep(p) \/ Strip(p) \/ Unclaim(p) \/ LinkClaim(p))
               \/ Begin(p) \/ ServerExits(p) \/ Exit(p)
      BY <2>5, <3>4 DEF LeaseSound, LeaseTypeOK, Moves, Steps, Begin, ServerExits, Exit, Clean,
                        Publish,
           Settle, Secure, Retract, Withdraw, Inspect, Normalize, Verify, CheckClaim, UnlinkLease,
           GiveUp, Spawn,
           Register, RenameRecord, Release, processes
    <3> QED
      BY <3>1, <3>2, <3>3, <3>4 DEF Moves, Steps
  <2> QED
    BY <2>1, <2>3, <2>4, <2>5
<1>2. ASSUME p \in alive', at'[p] = "strip"
      PROVE  Linked(p)'
  <2> USE DEF LeaseSound, LeaseTypeOK, Goto, GiveWay, processes
  <2>1. CASE p \in alive /\ Normalize(p)
    <3>1. file = seen[p] /\ Links(file) # 1 /\ UNCHANGED <<claim, temp, seen>>
      BY <1>2, <2>1 DEF Normalize
    <3>2. Linked(p)
      BY <3>1, LinksCounted
    <3> QED
      BY <3>1, <3>2
  <2>2. CASE ServerExits(p)
    BY <1>2, <2>2 DEF ServerExits, Alone, StrippedIsLinked
  <2>3. CASE ~(ServerExits(p) \/ Normalize(p))
    BY <1>2, <2>3 DEF Moves, Steps, Begin, Exit, Clean, Sweep, Publish, Settle, Secure, Retract,
                      Withdraw,
         Inspect, Strip, Verify, LinkClaim, CheckClaim, UnlinkLease, Unclaim, GiveUp, Spawn,
         Register, RenameRecord, Release
  <2> QED
    BY <2>1, <2>2, <2>3 DEF Moves, Steps, Begin, Exit, Normalize
<1> QED
  BY <1>1, <1>2 DEF StrippedIsLinked

LEMMA TornPublishStep ==
  ASSUME LeaseSound, NEW p \in Launchers, Moves(p)
  PROVE  OnlyTornPublishBlocks'
<1> USE RecordFacts
<1> DEFINE Torn(t) == t \in temp \ alive /\ file = Record(t, "owner")
<1>1. ASSUME NEW t \in temp, Torn(t)
      PROVE  Torn(t)'
  <2>1. t \in Launchers /\ at[t] = "settle" /\ t \notin alive /\ file.by = t /\ file # NoRecord
    BY <1>1 DEF LeaseSound, LeaseTypeOK, Record
  <2>2. t \notin alive'
    BY <2>1, OthersStay DEF LeaseSound
  <2>3. t \in temp'
    BY <2>1, TempMoves DEF LeaseSound
  <2>4. ASSUME file' # file PROVE FALSE
    <3>1. p \in alive /\ UnlinkLease(p) /\ file = seen[p] /\ p \in Starting
      BY <2>1, <2>4, LeaseChangesAlone
    <3> QED
      BY <1>1, <3>1 DEF LeaseSound, Alone, TornIsNotRemoved, UnlinkLease, Starting, Removing
  <2> QED
    BY <1>1, <2>2, <2>3, <2>4
<1>2. ASSUME NEW q \in alive', at'[q] = "linked", ~(q \in alive /\ at[q] = "linked")
      PROVE  \E t \in temp : Torn(t)
  <2>1. q = p /\ p \in alive /\ Strip(p) /\ \A c \in Launchers : claim[c] # seen[p]
    BY <1>2, OthersStay DEF LeaseSound, LeaseTypeOK, Goto, GiveWay, processes, Moves, Steps, Begin,
         ServerExits, Exit, Clean, Sweep, Publish, Settle, Secure, Retract, Withdraw, Inspect,
         Normalize, Strip,
         Verify, LinkClaim, CheckClaim, UnlinkLease, Unclaim, GiveUp, Spawn, Register,
         RenameRecord, Release
  <2>2. at[p] = "strip"
    BY <2>1 DEF Strip
  <2>3. PICK t \in temp : seen[p] = Record(t, "owner")
    BY <2>1, <2>2 DEF LeaseSound, Alone, StrippedIsLinked
  <2>4. file = seen[p]
    BY <2>1, <2>2 DEF LeaseSound, Alone, CleanedStays, Cleaning, Removing
  <2>5. Retired(seen[p])
    BY <2>1, <2>2, StarterFacts DEF LeaseSound, Acquiring, Removing, Cleaning,
                                    InspectedIsOwnOrRetired
  <2> QED
    BY <2>3, <2>4, <2>5 DEF Retired, Record
<1>3. \A q \in alive : at[q] = "linked" => \E t \in temp : Torn(t)
  BY DEF LeaseSound, Alone, OnlyTornPublishBlocks
<1> QED
  BY <1>1, <1>2, <1>3 DEF OnlyTornPublishBlocks

-----------------------------------------------------------------------------
LEMMA LeaseIInit == LeaseInit => LeaseIInv
<1> SUFFICES ASSUME LeaseInit PROVE LeaseIInv
  OBVIOUS
<1> USE RecordFacts DEF LeaseInit
<1>1. OffIsBlank /\ InspectedIsOwnOrRetired /\ ClaimantsDiffer
  BY DEF OffIsBlank, InspectedIsOwnOrRetired, ClaimantsDiffer
<1>2. Alone
  BY DEF Alone, OneStarts, Starting, PublishedStays, CleanedStays, ReleaserClaimsOwn,
         TornIsNotRemoved, StrippedIsLinked, OnlyTornPublishBlocks
<1> QED
  BY <1>1, <1>2, TypeInit DEF LeaseIInv

LEMMA LeaseIStep == LeaseIInv /\ [LeaseNext]_leaseVars => LeaseIInv'
<1> SUFFICES ASSUME LeaseIInv, [LeaseNext]_leaseVars PROVE LeaseIInv'
  OBVIOUS
<1>1. LeaseTypeOK'
  BY LeaseTypeStep DEF LeaseIInv
<1>2. ASSUME NEW p \in Launchers, Moves(p) PROVE LeaseIInv'
  <2>1. OffIsBlank' /\ InspectedIsOwnOrRetired' /\ ClaimantsDiffer'
    BY <1>2, OffStep, InspectedStep, ClaimantsStep DEF LeaseIInv
  <2>2. rivals' = rivals
    BY <1>2, OthersStay DEF LeaseIInv
  <2>3. ASSUME rivals = 1 PROVE Alone'
    <3>1. LeaseSound
      BY <2>3 DEF LeaseSound, LeaseIInv
    <3> QED
      BY <1>2, <3>1, OneStartsStep, PublishedStep, CleanedStep, ReleaserStep, TornStep,
         StrippedStep, TornPublishStep DEF Alone
  <2> QED
    BY <1>1, <2>1, <2>2, <2>3 DEF LeaseIInv
<1>3. CASE UNCHANGED leaseVars
  BY <1>3 DEF leaseVars, LeaseIInv, LeaseTypeOK, OffIsBlank, InspectedIsOwnOrRetired, Retired,
     ClaimantsDiffer, Alone, OneStarts, Starting, Releasing, PublishedStays, CleanedStays,
     ReleaserClaimsOwn, TornIsNotRemoved, StrippedIsLinked, OnlyTornPublishBlocks
<1> QED
  BY <1>2, <1>3 DEF LeaseNext, Moves

LEMMA LeaseIInvHolds == LeaseSpec => []LeaseIInv
BY LeaseIInit, LeaseIStep, PTL DEF LeaseSpec

(* What the run checks on three launchers holds of any number of them: of     *)
(* several reclaimers at most one goes on to unlink, and a launch without     *)
(* competitors holds what it took and is blocked by a torn publish only.      *)
THEOREM LeaseInvHolds == LeaseSpec => []LeaseInv
<1>1. LeaseIInv => LeaseInv
  BY DEF LeaseIInv, LeaseInv, ClaimantsDiffer, OneClaimant, Alone, PublishedStays,
         HolderKeepsLease, LeaseTypeOK
<1> QED
  BY <1>1, LeaseIInvHolds, PTL

(* However many launchers compete, a holder loses its lease only to one that  *)
(* acts on a look it had before: at a retired record, at its own publication  *)
(* that it could not secure, or at its own lease, lost since.                 *)
THEOREM LostOnlyToPassedCheckHolds == LeaseSpec => LostOnlyToPassedCheck
<1> DEFINE Lost(p) == at[p] \in Holding /\ at'[p] \in Holding /\ file.by = p /\ file'.by # p
           Passed(p) == \E q \in alive \ {p} :
                          \/ at[q] = "unlink" /\ at'[q] = "unclaim" /\ seen[q] # file
                          \/ at[q] = "withdraw" /\ at'[q] = "failed"
                          \/ at[q] = "register" /\ at'[q] = "held" /\ file' = Record(q, "runtime")
<1>1. ASSUME LeaseIInv, LeaseNext, NEW p \in alive, Lost(p)
      PROVE  Passed(p)
  <2> USE RecordFacts
  <2>1. PICK q \in Launchers : Moves(q)
    BY <1>1 DEF LeaseNext, Moves
  <2>2. p \in Launchers /\ LeaseTypeOK
    BY <1>1 DEF LeaseIInv, LeaseTypeOK
  <2>3. q \in alive /\ LeaseWrites(q)
    BY <1>1, <2>1, <2>2, LeaseMoves
  <2>4. UnlinkLease(q) \/ Withdraw(q) \/ RenameRecord(q)
    BY <1>1, <2>2, <2>3 DEF LeaseWrites, Publish, Secure, Record, LeaseTypeOK
  <2>5. CASE UnlinkLease(q)
    <3>1. q # p /\ at[q] = "unlink" /\ at'[q] = "unclaim"
      BY <1>1, <2>2, <2>5 DEF UnlinkLease, Goto, LeaseTypeOK, Holding
    <3>2. seen[q] # file
      BY <1>1, <2>2, <2>3, <3>1
         DEF LeaseIInv, InspectedIsOwnOrRetired, Retired, Acquiring, Cleaning, Removing
    <3> QED
      BY <2>3, <3>1, <3>2
  <2>6. CASE Withdraw(q)
    <3>1. q # p /\ at[q] = "withdraw" /\ at'[q] = "failed"
      BY <1>1, <2>2, <2>6 DEF Withdraw, Goto, LeaseTypeOK, Holding
    <3> QED
      BY <2>3, <3>1
  <2>7. CASE RenameRecord(q)
    <3>1. at[q] = "register" /\ at'[q] = "held" /\ seen[q] = Record(q, "runtime")
      BY <1>1, <2>2, <2>3, <2>7
         DEF RenameRecord, Goto, LeaseTypeOK, LeaseIInv, InspectedIsOwnOrRetired
    <3>2. file' = Record(q, "runtime") /\ q # p
      BY <1>1, <2>7, <3>1 DEF RenameRecord, Record
    <3> QED
      BY <2>3, <3>1, <3>2
  <2> QED
    BY <2>4, <2>5, <2>6, <2>7
<1>2. LeaseIInv /\ [LeaseNext]_leaseVars => [\A p \in alive : Lost(p) => Passed(p)]_leaseVars
  BY <1>1
<1> QED
  BY <1>2, LeaseIInvHolds, PTL DEF LeaseSpec, LostOnlyToPassedCheck

(* A registered server keeps the lease while it runs, whatever becomes of its *)
(* launcher, if launches do not compete.                                      *)
THEOREM ServerKeepsLeaseHolds == LeaseSpec => ServerKeepsLease
<1> DEFINE Serves(p) == file = Record(p, "runtime") /\ server[p] = "running"
           Kept == rivals = 1 => \A p \in Launchers : Serves(p) => file' = file
<1>1. ASSUME LeaseIInv, LeaseNext, rivals = 1, NEW p \in Launchers, Serves(p), file' # file
      PROVE  FALSE
  <2> USE RecordFacts
  <2>1. PICK q \in Launchers : Moves(q)
    BY <1>1 DEF LeaseNext, Moves
  <2>2. LeaseSound
    BY <1>1 DEF LeaseIInv, LeaseSound
  <2>3. file # NoRecord /\ file.by = p /\ file.kind = "runtime"
    BY <1>1 DEF Record
  <2>4. q = p /\ p \in alive
    BY <1>1, <2>1, <2>2, <2>3, LeaseChangesAlone DEF Retired
  <2>5. LeaseWrites(p)
    BY <1>1, <2>1, <2>2, <2>4, LeaseMoves DEF LeaseSound
  <2>6. CASE Publish(p) \/ Secure(p) \/ Withdraw(p) \/ RenameRecord(p)
    BY <1>1, <2>2, <2>3, <2>4, <2>6
       DEF Publish, Secure, Withdraw, RenameRecord, Record, LeaseSound, Alone, PublishedStays,
           Publishing, InspectedIsOwnOrRetired
  <2>7. CASE UnlinkLease(p)
    <3>1. at[p] = "unlink" /\ file = seen[p]
      BY <2>2, <2>4, <2>7 DEF UnlinkLease, LeaseSound, Alone, CleanedStays, Cleaning, Removing
    <3> QED
      BY <1>1, <2>2, <2>3, <2>4, <3>1
         DEF LeaseSound, InspectedIsOwnOrRetired, Retired, Acquiring, Removing
  <2> QED
    BY <2>5, <2>6, <2>7 DEF LeaseWrites
<1>2. LeaseIInv /\ [LeaseNext]_leaseVars => [Kept]_leaseVars
  BY <1>1
<1> QED
  BY <1>2, LeaseIInvHolds, PTL DEF LeaseSpec, ServerKeepsLease

-------------------------------------------------------------------------------
(* The desktop application.                                                   *)
OneUp == \A k, l \in Launches : Up(k) /\ Up(l) => k = l

(* A launch that was not started has nothing; a startup has of processes what *)
(* its place says; the lease comes with a server.                             *)
NothingBefore(a) ==
  a.server = "none" /\ a.worker = "none" /\ a.model = "none" /\ ~a.registered /\ ~a.listed

StartupHas(l) == LET a == app[l] IN
  /\ a.main = "off" =>
       /\ NothingBefore(a)
       /\ a.pc = "idle" /\ a.quit = "no" /\ a.stop = "idle" /\ a.close = "idle"
  /\ a.server = "none" => lease.owner # l
  /\ a.server # "none" => data = "private"
  /\ Up(l) =>
       /\ a.pc = "idle" => NothingBefore(a)
       /\ a.pc \in {"model", "fork", "unwind"} => ~a.registered
       /\ a.pc = "model" => a.server = "none"
       /\ a.pc \in {"probe", "load", "running"} => a.registered
       /\ a.pc \notin {"idle", "failed"} => data = "private"

(* stopRuntime begins after the startup ended, one way or the other, and the  *)
(* server is told to stop once: by the startup or by stopRuntime.             *)
StopsOnce(l) == LET a == app[l] IN Up(l) =>
  /\ a.quit = "stopping" => a.pc = "running"
  /\ a.close # "idle" => a.pc \in {"undo", "failed"} \/ a.quit = "stopping"
  /\ a.close \in {"server", "model"} => a.pc # "failed"
  /\ a.close = "server" => a.registered
  /\ a.stop \notin {"idle", "stopped", "failed"} => a.pc = "unwind" \/ a.close = "server"
  /\ a.close = "idle" /\ (a.registered \/ a.pc \in {"idle", "model", "fork"}) => a.stop = "idle"
  /\ a.stop \in {"idle", "bare"} => ~a.listed

(* What the stop of a server has reached.                                     *)
StopReaches(l) == LET a == app[l] IN
  /\ a.listed => a.worker # "none" /\ host.system = "mac"
  /\ a.worker # "none" => a.server # "none"
  /\ Up(l) =>
       /\ a.stop \in {"drain", "stopped"} => a.server = "dead"
       /\ a.stop = "stopped" => ListedDead(a)
       /\ a.stop = "stuck" => host.system = "mac"
       /\ a.stop = "failed" => "unkillable" \in a.excused

(* Nothing is left that the stop could reach, but for what cannot be killed.  *)
Settled(l) ==
  "unkillable" \in app[l].excused \/ (~Alive(l) /\ ListedDead(app[l]) /\ lease.owner # l)
ModelSettled(l) ==
  {"composing", "outlived"} \cap app[l].excused # {} \/ app[l].model \in {"none", "dead"}

ClosesWhole(l) == LET a == app[l] IN
  /\ Up(l) =>
       /\ a.close \in {"model", "done"} => Settled(l)
       /\ a.pc = "undo" /\ ~a.registered => Settled(l)
       /\ a.pc = "failed" => Settled(l) /\ ModelSettled(l)
       /\ a.close = "done" => ModelSettled(l)
  /\ a.main = "exited" /\ "again" \notin a.excused => Settled(l) /\ ModelSettled(l)

(* What holds of each launch by itself.                                       *)
Sound(l) == StartupHas(l) /\ StopsOnce(l) /\ StopReaches(l) /\ ClosesWhole(l)

DesktopIInv ==
  /\ TypeOK
  /\ OneUp
  /\ LeaseNamesServer
  /\ OneWriter
  /\ \A l \in Launches : Sound(l)

-----------------------------------------------------------------------------
LEMMA LaunchesFacts == Launches \subseteq Nat \ {0} /\ Nobody \notin Launches /\ Nobody = 0
BY DesktopAssumption DEF Launches, Nobody

(* An application is an application after an assignment to one of its fields.  *)
LEMMA AppSet ==
  ASSUME NEW a \in App
  PROVE  /\ \A x \in {"off", "up", "exited", "killed"} : [a EXCEPT !.main = x] \in App
         /\ \A x \in {"idle", "model", "fork", "probe", "load", "running", "unwind", "undo", "failed"} :
              [a EXCEPT !.pc = x] \in App
         /\ \A x \in {"no", "asked", "stopping"} : [a EXCEPT !.quit = x] \in App
         /\ \A x \in {"none", "forked", "up", "ready", "dead"} : [a EXCEPT !.server = x] \in App
         /\ \A x \in {"none", "alive", "dead"} : [a EXCEPT !.worker = x] \in App
         /\ \A x \in {"none", "starting", "ready", "dead"} : [a EXCEPT !.model = x] \in App
         /\ \A x \in BOOLEAN : [a EXCEPT !.registered = x] \in App
         /\ \A x \in BOOLEAN : [a EXCEPT !.listed = x] \in App
         /\ \A x \in {"idle", "bare", "graceful", "drain", "stuck", "forced", "stopped", "failed"} :
              [a EXCEPT !.stop = x] \in App
         /\ \A x \in {"idle", "server", "model", "done"} : [a EXCEPT !.close = x] \in App
         /\ \A x \in {"none", "open", "closed"} : [a EXCEPT !.window = x] \in App
         /\ \A x \in BOOLEAN : [a EXCEPT !.pending = x] \in App
         /\ \A x \in BOOLEAN : [a EXCEPT !.asked = x] \in App
         /\ \A x \in SUBSET {"composing", "unkillable", "outlived", "again"} :
              [a EXCEPT !.excused = x] \in App
<1>1. \A x \in {"off", "up", "exited", "killed"} : [a EXCEPT !.main = x] \in App
  BY DEF App
<1>2. \A x \in {"idle", "model", "fork", "probe", "load", "running", "unwind", "undo", "failed"} :
        [a EXCEPT !.pc = x] \in App
  BY DEF App
<1>3. \A x \in {"no", "asked", "stopping"} : [a EXCEPT !.quit = x] \in App
  BY DEF App
<1>4. \A x \in {"none", "forked", "up", "ready", "dead"} : [a EXCEPT !.server = x] \in App
  BY DEF App
<1>5. \A x \in {"none", "alive", "dead"} : [a EXCEPT !.worker = x] \in App
  BY DEF App
<1>6. \A x \in {"none", "starting", "ready", "dead"} : [a EXCEPT !.model = x] \in App
  BY DEF App
<1>7. \A x \in BOOLEAN : [a EXCEPT !.registered = x] \in App
  BY DEF App
<1>8. \A x \in BOOLEAN : [a EXCEPT !.listed = x] \in App
  BY DEF App
<1>9. \A x \in {"idle", "bare", "graceful", "drain", "stuck", "forced", "stopped", "failed"} :
        [a EXCEPT !.stop = x] \in App
  BY DEF App
<1>10. \A x \in {"idle", "server", "model", "done"} : [a EXCEPT !.close = x] \in App
  BY DEF App
<1>11. \A x \in {"none", "open", "closed"} : [a EXCEPT !.window = x] \in App
  BY DEF App
<1>12. \A x \in BOOLEAN : [a EXCEPT !.pending = x] \in App
  BY DEF App
<1>13. \A x \in BOOLEAN : [a EXCEPT !.asked = x] \in App
  BY DEF App
<1>14. \A x \in SUBSET {"composing", "unkillable", "outlived", "again"} : [a EXCEPT !.excused = x] \in App
  BY DEF App
<1> QED
  BY <1>1, <1>2, <1>3, <1>4, <1>5, <1>6, <1>7, <1>8, <1>9, <1>10, <1>11, <1>12, <1>13, <1>14

(* What its fields hold.                                                      *)
LEMMA AppGet ==
  ASSUME NEW a \in App
  PROVE  /\ a.main \in {"off", "up", "exited", "killed"}
         /\ a.pc \in {"idle", "model", "fork", "probe", "load", "running", "unwind", "undo", "failed"}
         /\ a.quit \in {"no", "asked", "stopping"}
         /\ a.server \in {"none", "forked", "up", "ready", "dead"}
         /\ a.worker \in {"none", "alive", "dead"}
         /\ a.model \in {"none", "starting", "ready", "dead"}
         /\ a.registered \in BOOLEAN
         /\ a.listed \in BOOLEAN
         /\ a.stop \in {"idle", "bare", "graceful", "drain", "stuck", "forced", "stopped", "failed"}
         /\ a.close \in {"idle", "server", "model", "done"}
         /\ a.window \in {"none", "open", "closed"}
         /\ a.pending \in BOOLEAN
         /\ a.asked \in BOOLEAN
         /\ a.excused \in SUBSET {"composing", "unkillable", "outlived", "again"}
BY DEF App

(* So is what the main process leaves when it ends.                           *)
LEMMA GoneSet ==
  ASSUME NEW a \in App, NEW how \in {"exited", "killed"}
  PROVE  Gone(a, how) \in App
<1> DEFINE b == [Off EXCEPT !.main = how, !.server = a.server, !.worker = a.worker,
                            !.model = a.model]
           c == [b EXCEPT !.registered = a.registered, !.listed = a.listed, !.excused = a.excused]
<1>1. Off \in App
  BY DEF Off, App
<1>2. b \in App
  BY <1>1, AppGet, AppSet
<1>3. c \in App
  <2> HIDE DEF b
  <2> QED
    BY <1>2, AppGet, AppSet
<1> QED
  BY <1>3 DEF Gone

(* And what the stop of its server makes of it.                               *)
LEMMA StopBeginsSet ==
  ASSUME NEW a \in App, NEW found \in BOOLEAN
  PROVE  StopBegins(a, found) \in App
<1>1. (found /\ a.worker = "alive" /\ host.system = "mac") \in BOOLEAN
  OBVIOUS
<1> QED
  BY <1>1, AppSet DEF StopBegins

(* Step(l) is the disjunction of Next.                                        *)
Step(l) ==
  \/ Untrusted(l) \/ Unbound(l) \/ Launch(l) \/ Startup(l) \/ Shutdown(l) \/ StopFails(l)
  \/ Quit(l) \/ QuitAgain(l) \/ CloseWindow(l) \/ Killed(l) \/ Processes(l)

LEMMA AppStep ==
  ASSUME TypeOK, NEW l \in Launches, Step(l)
  PROVE  app' \in [Launches -> App]
<1>1. app[l] \in App /\ app \in [Launches -> App]
  BY DEF TypeOK
<1> DEFINE Makes(b) == b \in App /\ Set(l, b)
<1>2. (\E b : Makes(b)) => app' \in [Launches -> App]
  BY <1>1 DEF Set
<1> USE <1>1, AppGet, AppSet
<1>3. CASE Untrusted(l) \/ Unbound(l) \/ QuitAgain(l) \/ Killed(l)
  BY <1>2, <1>3, GoneSet DEF Untrusted, Unbound, QuitAgain, Killed
<1>4. CASE Launch(l)
  <2>1. CASE \E p \in Launches : Up(p)
    <3> DEFINE p == CHOOSE p \in Launches : Up(p)
    <3>1. p \in Launches /\ app[p] \in App
      BY <2>1
    <3>2. app' = [app EXCEPT ![l] = Gone(app[l], "exited"), ![p] = Asked(app[p])]
      BY <1>4, <2>1 DEF Launch
    <3> HIDE DEF p
    <3>3. Asked(app[p]) \in App
      BY <3>1 DEF Asked
    <3> QED
      BY <3>1, <3>2, <3>3, GoneSet
  <2>2. CASE ~\E p \in Launches : Up(p)
    BY <1>2, <1>4, <2>2 DEF Launch
  <2> QED
    BY <2>1, <2>2
<1>5. CASE StartRuntime(l)
  BY <1>2, <1>5 DEF StartRuntime
<1>6. CASE ModelSettles(l)
  BY <1>2, <1>6 DEF ModelSettles
<1>7. CASE Fork(l)
  BY <1>2, <1>7 DEF Fork
<1>8. CASE Forked(l)
  BY <1>2, <1>8, StopBeginsSet DEF Forked
<1>9. CASE Unwind(l) \/ Probe(l) \/ Fail(l)
  BY <1>2, <1>9 DEF Unwind, Probe, Fail
<1>10. CASE Load(l)
  BY <1>2, <1>10 DEF Load
<1>11. CASE ShutDown(l)
  BY <1>2, <1>11, GoneSet DEF ShutDown
<1>12. CASE Close(l)
  <2>1. CASE StopModel(l, app[l])
    <3>1. app[l].excused \cup {"outlived"} \in SUBSET {"composing", "unkillable", "outlived", "again"}
      OBVIOUS
    <3> QED
      BY <1>2, <2>1, <3>1 DEF StopModel
  <2> QED
    BY <1>2, <1>12, <2>1, StopBeginsSet DEF Close
<1>13. CASE StopWaits(l)
  BY <1>2, <1>13 DEF StopWaits
<1>14. CASE StopFails(l)
  BY <1>2, <1>14 DEF StopFails
<1>15. CASE Quit(l) \/ CloseWindow(l)
  BY <1>2, <1>15 DEF Quit, CloseWindow
<1>16. CASE Processes(l)
  BY <1>2, <1>16 DEF Processes, Spawned, Binds, WorkerStarts, WorkerEnds, ServerEnds, ServerCrashes
<1> QED
  BY <1>3, <1>4, <1>5, <1>6, <1>7, <1>8, <1>9, <1>10, <1>11, <1>12, <1>13, <1>14, <1>15, <1>16
  DEF Step, Startup, Shutdown

(* A launch that takes no part in a step, or is only asked for its window,    *)
(* stays sound.                                                               *)
LEMMA SoundKept ==
  ASSUME NEW k \in Launches, app[k] \in App, Sound(k), app'[k] \in {app[k], Asked(app[k])},
         host' = host, lease.owner # k => lease'.owner # k, data = "private" => data' = "private"
  PROVE  Sound(k)'
<1> DEFINE a == app[k]
           b == app'[k]
<1>1. /\ b.main = a.main /\ b.pc = a.pc /\ b.quit = a.quit /\ b.server = a.server
      /\ b.worker = a.worker /\ b.model = a.model /\ b.registered = a.registered
      /\ b.listed = a.listed /\ b.stop = a.stop /\ b.close = a.close /\ b.excused = a.excused
  BY DEF Asked, App
<1>2. StartupHas(k)'
  BY <1>1 DEF Sound, StartupHas, Up, NothingBefore
<1>3. StopsOnce(k)' /\ StopReaches(k)'
  BY <1>1 DEF Sound, StopsOnce, StopReaches, Up, ListedDead
<1>4. ClosesWhole(k)'
  BY <1>1 DEF Sound, ClosesWhole, Settled, ModelSettled, Up, Alive, ListedDead
<1> QED
  BY <1>2, <1>3, <1>4 DEF Sound

(* What a step of launch l does beside the launches: the host stays, the data  *)
(* root is made private at most, and the lease is given up by l, taken by l   *)
(* when it is free or stale, or marked with the server of l.                  *)
LEMMA Effects ==
  ASSUME TypeOK, NEW l \in Launches, Step(l)
  PROVE  /\ host' = host
         /\ data' \in {data, "private"}
         /\ mishaps' \in 0 .. MaxMishaps
         /\ \/ lease' = lease
            \/ (Unwind(l) \/ Close(l)) /\ app[l].stop = "stopped" /\ lease' = Released(l)
            \/ Fork(l) /\ Claimable /\ lease' = [owner |-> l, registered |-> FALSE]
            \/ Fork(l) /\ Claimable /\ lease' = Free
            \/ Forked(l) /\ lease.owner = l /\ lease' = [lease EXCEPT !.registered = TRUE]
<1> USE DEF Step, Startup, Shutdown, Processes, Keep, Untrusted, Unbound, Launch, StartRuntime,
      ModelSettles, Fork, Forked, Unwind, Probe, Load, Fail, ShutDown, Close, StopModel, StopWaits,
      StopFails, Quit, QuitAgain, CloseWindow, Killed, Spawned, Binds, WorkerStarts, WorkerEnds, ServerEnds,
      ServerCrashes
<1>1. host' = host
  OBVIOUS
<1>2. data' \in {data, "private"}
  BY DEF EnsureData
<1>3. mishaps' \in 0 .. MaxMishaps
  BY DesktopAssumption DEF TypeOK, Mishap
<1>4. \/ lease' = lease
      \/ (Unwind(l) \/ Close(l)) /\ app[l].stop = "stopped" /\ lease' = Released(l)
      \/ Fork(l) /\ Claimable /\ lease' = [owner |-> l, registered |-> FALSE]
      \/ Fork(l) /\ Claimable /\ lease' = Free
      \/ Forked(l) /\ lease.owner = l /\ lease' = [lease EXCEPT !.registered = TRUE]
  OBVIOUS
<1> QED
  BY <1>1, <1>2, <1>3, <1>4

LEMMA TypeStep ==
  ASSUME TypeOK, NEW l \in Launches, Step(l)
  PROVE  TypeOK'
<1>1. app' \in [Launches -> App]
  BY AppStep
<1>2. lease \in [owner : Launches \cup {Nobody}, registered : BOOLEAN]
  BY DEF TypeOK
<1>3. \/ lease' = lease
      \/ lease' = [owner |-> Nobody, registered |-> FALSE]
      \/ lease' = [owner |-> l, registered |-> FALSE]
      \/ lease' = [lease EXCEPT !.registered = TRUE]
  BY Effects DEF Released, Free
<1>4. [lease EXCEPT !.registered = TRUE] \in [owner : Launches \cup {Nobody}, registered : BOOLEAN]
  BY <1>2
<1>5. \A k \in Launches \cup {Nobody} :
        [owner |-> k, registered |-> FALSE] \in [owner : Launches \cup {Nobody}, registered : BOOLEAN]
  OBVIOUS
<1>6. lease' \in [owner : Launches \cup {Nobody}, registered : BOOLEAN]
  <2> DEFINE Leases == [owner : Launches \cup {Nobody}, registered : BOOLEAN]
  <2>1. /\ lease \in Leases /\ [lease EXCEPT !.registered = TRUE] \in Leases
        /\ \A k \in Launches \cup {Nobody} : [owner |-> k, registered |-> FALSE] \in Leases
    BY <1>2, <1>4, <1>5
  <2> HIDE DEF Leases
  <2>2. lease' \in Leases
    BY <1>3, <2>1
  <2> QED
    BY <2>2 DEF Leases
<1> QED
  BY <1>1, <1>6, Effects DEF TypeOK

-----------------------------------------------------------------------------
LEMMA OthersStep ==
  ASSUME TypeOK, NEW l \in Launches, Step(l), NEW k \in Launches, k # l, Sound(k)
  PROVE  Sound(k)' /\ app'[k] \in {app[k], Asked(app[k])}
<1>1. app[k] \in App /\ app \in [Launches -> App]
  BY DEF TypeOK
<1>2. app'[k] \in {app[k], Asked(app[k])}
  <2>1. CASE Launch(l)
    <3>1. CASE \E p \in Launches : Up(p)
      <4> DEFINE p == CHOOSE p \in Launches : Up(p)
      <4>1. p \in Launches /\ Up(p)
        BY <3>1
      <4>2. app' = [app EXCEPT ![l] = Gone(app[l], "exited"), ![p] = Asked(app[p])]
        BY <2>1, <3>1 DEF Launch
      <4> HIDE DEF p
      <4> QED
        BY <1>1, <4>1, <4>2
    <3>2. CASE ~\E p \in Launches : Up(p)
      BY <1>1, <2>1, <3>2 DEF Launch, Set
    <3> QED
      BY <3>1, <3>2
  <2>2. CASE ~Launch(l)
    BY <1>1, <2>2 DEF Set, Step, Startup, Shutdown, Processes, Untrusted, Unbound, StartRuntime,
      ModelSettles, Fork, Forked, Unwind, Probe, Load, Fail, ShutDown, Close, StopModel, StopWaits,
      StopFails, Quit, QuitAgain, CloseWindow, Killed, Spawned, Binds, WorkerStarts, WorkerEnds, ServerEnds,
      ServerCrashes
  <2> QED
    BY <2>1, <2>2
<1>3. lease.owner # k => lease'.owner # k
  <2>1. lease'.owner \in {lease.owner, l, Nobody}
    BY Effects DEF Released, Free, TypeOK
  <2> QED
    BY <2>1, LaunchesFacts
<1> QED
  BY <1>1, <1>2, <1>3, Effects, SoundKept

(* The launch that moves.                                                     *)
LEMMA GoneLeaves ==
  ASSUME NEW a \in App, NEW how \in {"exited", "killed"}
  PROVE  LET g == Gone(a, how) IN
         /\ g.main = how /\ g.server = a.server /\ g.worker = a.worker /\ g.model = a.model
         /\ g.registered = a.registered /\ g.listed = a.listed /\ g.excused = a.excused
BY DEF Gone, Off, App

(* The main process of a launch ends: what it leaves is sound, if its going   *)
(* is excused or it leaves nothing.                                           *)
LEMMA GoneSound ==
  ASSUME NEW l \in Launches, app \in [Launches -> App], Sound(l), NEW a \in App,
         a.server = app[l].server, a.worker = app[l].worker, a.model = app[l].model,
         a.registered = app[l].registered, a.listed = app[l].listed,
         app[l].excused \subseteq a.excused,
         NEW how \in {"exited", "killed"}, app'[l] = Gone(a, how),
         \/ how = "killed" \/ "again" \in a.excused
         \/ app[l].main = "off"
         \/ Settled(l) /\ ModelSettled(l),
         lease' = lease, host' = host, data' \in {data, "private"}
  PROVE  Sound(l)'
<1> DEFINE b == app'[l]
<1>1. /\ b.main = how /\ b.server = app[l].server /\ b.worker = app[l].worker
      /\ b.model = app[l].model /\ b.registered = app[l].registered
      /\ b.listed = app[l].listed /\ b.excused = a.excused
  BY GoneLeaves
<1>2. ~Up(l)'
  BY <1>1 DEF Up
<1>3. StartupHas(l)' /\ StopsOnce(l)' /\ StopReaches(l)'
  BY <1>1, <1>2 DEF Sound, StartupHas, StopsOnce, StopReaches
<1>4. ASSUME how = "exited", "again" \notin b.excused
      PROVE  (Settled(l) /\ ModelSettled(l))'
  <2>1. Settled(l) /\ ModelSettled(l)
    BY <1>1, <1>4 DEF Sound, StartupHas, StopReaches, NothingBefore, Settled, ModelSettled, Alive,
       ListedDead
  <2> QED
    BY <1>1, <2>1 DEF Settled, ModelSettled, Alive, ListedDead
<1> QED
  BY <1>1, <1>2, <1>3, <1>4 DEF Sound, ClosesWhole

LEMMA MoverStep ==
  ASSUME TypeOK, NEW l \in Launches, Step(l), Sound(l)
  PROVE  Sound(l)'
<1>1. app[l] \in App /\ app \in [Launches -> App] /\ l # Nobody
  BY LaunchesFacts DEF TypeOK
<1>2. host' = host /\ data' \in {data, "private"}
  BY Effects
<1> USE <1>1, <1>2 DEF Set, Keep, Sound, StartupHas, StopsOnce, StopReaches, ClosesWhole,
        Settled, ModelSettled, ListedDead, NothingBefore, Up, Alive
<1>3. CASE Fail(l)
  BY <1>3 DEF Fail, App
<1>4. CASE Quit(l)
  BY <1>4 DEF Quit, App
<1>14. CASE CloseWindow(l)
  BY <1>14 DEF CloseWindow, App
<1>5. CASE Probe(l)
  <2>1. CASE Set(l, [app[l] EXCEPT !.pc = "load", !.window = "open"])
    BY <1>5, <2>1 DEF Probe, App
  <2>2. CASE Set(l, [app[l] EXCEPT !.pc = "undo"])
    BY <1>5, <2>2 DEF Probe, App
  <2> QED
    BY <1>5, <2>1, <2>2 DEF Probe
<1>6. CASE Load(l)
  <2>1. CASE Set(l, [app[l] EXCEPT !.pc = "running", !.pending = FALSE,
                                   !.asked = app[l].asked /\ ~app[l].pending])
    BY <1>6, <2>1 DEF Load, App
  <2>2. CASE Set(l, [app[l] EXCEPT !.pc = "undo"])
    BY <1>6, <2>2 DEF Load, App
  <2> QED
    BY <1>6, <2>1, <2>2 DEF Load
<1>7. CASE Spawned(l)
  BY <1>7 DEF Spawned, App
<1>8. CASE Binds(l)
  BY <1>8 DEF Binds, App
<1>9. CASE WorkerStarts(l)
  BY <1>9 DEF WorkerStarts, Serving, App
<1>10. CASE WorkerEnds(l)
  BY <1>10 DEF WorkerEnds, App
<1>11. CASE ServerEnds(l) \/ ServerCrashes(l)
  BY <1>11 DEF ServerEnds, ServerCrashes, App
<1>12. CASE StopFails(l)
  BY <1>12 DEF StopFails, App
<1>13. CASE Unwind(l)
  BY <1>13 DEF Unwind, Released, Free, App
<1>15. CASE StartRuntime(l)
  <2> DEFINE To(pc, model) == Set(l, [app[l] EXCEPT !.pc = pc, !.model = model])
  <2>1. lease' = lease /\ Up(l) /\ app[l].pc = "idle"
    BY <1>15 DEF StartRuntime
  <2>2. CASE data' = "private" /\ To("model", "starting")
    BY <2>1, <2>2 DEF App
  <2>3. CASE data' = "private" /\ To("fork", "none")
    BY <2>1, <2>3 DEF App
  <2>4. CASE To("failed", "none")
    BY <2>1, <2>4 DEF App
  <2> QED
    BY <1>15, <2>2, <2>3, <2>4 DEF StartRuntime, EnsureData
<1>16. CASE ModelSettles(l)
  <2> DEFINE To(pc, model, why) ==
               Set(l, [app[l] EXCEPT !.pc = pc, !.model = model, !.excused = @ \cup why])
  <2>1. lease' = lease /\ Up(l) /\ app[l].pc = "model"
    BY <1>16 DEF ModelSettles
  <2>2. CASE To("fork", "ready", {})
    BY <2>1, <2>2 DEF App
  <2>3. CASE To("failed", "dead", {})
    BY <2>1, <2>3 DEF App
  <2>4. CASE To("failed", "ready", {"composing"})
    BY <2>1, <2>4 DEF App
  <2>5. CASE To("failed", "starting", {"outlived"})
    BY <2>1, <2>5 DEF App
  <2> QED
    BY <1>16, <2>2, <2>3, <2>4, <2>5 DEF ModelSettles
<1>17. CASE Fork(l)
  <2>1. Up(l) /\ app[l].pc = "fork" /\ app[l].server = "none" /\ lease.owner # l
    BY <1>17 DEF Fork
  <2>2. CASE Set(l, [app[l] EXCEPT !.server = "forked"])
    BY <2>1, <2>2 DEF App
  <2>3. CASE lease' \in {lease, Free} /\ Set(l, [app[l] EXCEPT !.pc = "undo"])
    BY <2>1, <2>3 DEF App, Free
  <2> QED
    BY <1>17, <2>2, <2>3 DEF Fork
<1>18. CASE Forked(l)
  <2>1. Up(l) /\ app[l].pc = "fork" /\ app[l].server # "none"
    BY <1>18 DEF Forked
  <2>2. CASE /\ lease' = [lease EXCEPT !.registered = TRUE]
             /\ Set(l, [app[l] EXCEPT !.pc = "probe", !.registered = TRUE])
    <3>1. lease'.owner = lease.owner
      BY <2>2 DEF TypeOK
    <3> QED
      BY <2>1, <2>2, <3>1 DEF App
  <2>3. ASSUME NEW found \in BOOLEAN, lease' = lease,
               Set(l, [StopBegins(app[l], found) EXCEPT !.pc = "unwind"])
        PROVE  Sound(l)'
    <3>1. CASE app[l].server \in {"up", "ready"}
      BY <2>1, <2>3, <3>1 DEF StopBegins, App
    <3>2. CASE app[l].server \notin {"up", "ready"}
      BY <2>1, <2>3, <3>2 DEF StopBegins, App
    <3> QED
      BY <3>1, <3>2
  <2> QED
    BY <1>18, <2>2, <2>3 DEF Forked
<1>19. CASE Close(l)
  <2>1. Up(l)
    BY <1>19 DEF Close
  <2>2. ASSUME NEW found \in BOOLEAN, lease' = lease, app[l].close = "idle", app[l].registered,
               app[l].pc = "undo" \/ app[l].quit = "stopping",
               Set(l, [StopBegins(app[l], found) EXCEPT !.close = "server"])
        PROVE  Sound(l)'
    <3>1. CASE app[l].server \in {"up", "ready"}
      BY <2>1, <2>2, <3>1 DEF StopBegins, App
    <3>2. CASE app[l].server \notin {"up", "ready"}
      BY <2>1, <2>2, <3>2 DEF StopBegins, App
    <3> QED
      BY <3>1, <3>2
  <2>3. CASE /\ app[l].close = "idle" /\ ~app[l].registered /\ lease' = lease
             /\ app[l].pc = "undo" \/ app[l].quit = "stopping"
             /\ Set(l, [app[l] EXCEPT !.close = "model"])
    BY <2>1, <2>3 DEF App
  <2>4. CASE /\ app[l].close = "server" /\ app[l].stop \in {"stopped", "failed"}
             /\ lease' = IF app[l].stop = "stopped" THEN Released(l) ELSE lease
             /\ Set(l, [app[l] EXCEPT !.close = "model"])
    BY <2>1, <2>4 DEF App, Released, Free
  <2>5. CASE /\ app[l].close = "model" /\ lease' = lease
             /\ StopModel(l, app[l])
    <3>1. CASE Set(l, [app[l] EXCEPT !.close = "done",
                                     !.model = IF @ = "none" THEN "none" ELSE "dead"])
      BY <2>1, <2>5, <3>1 DEF App
    <3>2. CASE Set(l, [app[l] EXCEPT !.close = "done", !.excused = @ \cup {"outlived"}])
      BY <2>1, <2>5, <3>2 DEF App
    <3> QED
      BY <2>5, <3>1, <3>2 DEF StopModel
  <2> QED
    BY <1>19, <2>2, <2>3, <2>4, <2>5 DEF Close
<1>20. CASE StopWaits(l)
  <2> DEFINE To(s) == Set(l, [app[l] EXCEPT !.stop = s])
  <2>1. Up(l) /\ lease' = lease
    BY <1>20 DEF StopWaits
  <2>2. CASE /\ app[l].stop \in {"bare", "graceful", "drain", "forced"}
             /\ app[l].stop \in {"drain", "forced"} => ListedDead(app[l])
             /\ app[l].stop = "graceful" => host.system = "win"
             /\ app[l].server = "dead" /\ To("stopped")
    BY <2>1, <2>2 DEF App, TypeOK
  <2>3. CASE app[l].stop \in {"bare", "graceful", "drain"} /\ To("forced")
    BY <2>1, <2>3 DEF App
  <2>4. CASE app[l].stop = "graceful" /\ app[l].server = "dead" /\ To("drain")
    BY <2>1, <2>4 DEF App
  <2>5. CASE app[l].stop = "graceful" /\ host.system = "mac" /\ To("stuck")
    BY <2>1, <2>5 DEF App
  <2>6. CASE app[l].stop = "stuck"
    <3> DEFINE more == app[l].listed \/ (app[l].worker = "alive" /\ Serving(l))
    <3>1. Set(l, [app[l] EXCEPT !.stop = "forced", !.listed = more])
      BY <1>20, <2>6 DEF StopWaits
    <3>2. more \in BOOLEAN /\ (more => app[l].listed \/ app[l].worker = "alive")
      BY AppGet
    <3> HIDE DEF more
    <3>3. CASE more = TRUE
      <4>1. Set(l, [app[l] EXCEPT !.stop = "forced", !.listed = TRUE])
        BY <3>1, <3>3
      <4>2. app[l].listed \/ app[l].worker = "alive"
        BY <3>2, <3>3
      <4> QED
        BY <2>1, <2>6, <4>1, <4>2 DEF App
    <3>4. CASE more = FALSE
      <4>1. Set(l, [app[l] EXCEPT !.stop = "forced", !.listed = FALSE])
        BY <3>1, <3>4
      <4> QED
        BY <2>1, <2>6, <4>1 DEF App
    <3> QED
      BY <3>2, <3>3, <3>4
  <2>7. app[l].stop = "drain" => app[l].server = "dead"
    BY <2>1
  <2> QED
    BY <1>20, <2>2, <2>3, <2>4, <2>5, <2>6, <2>7 DEF StopWaits
<1>21. CASE ShutDown(l)
  <2>1. CASE /\ app[l].quit = "asked" /\ app[l].pc = "running"
             /\ Set(l, [app[l] EXCEPT !.quit = "stopping"])
    BY <1>21, <2>1 DEF ShutDown, App
  <2>2. CASE /\ app[l].pc \in {"idle", "failed"} \/ app[l].close = "done"
             /\ Set(l, Gone(app[l], "exited"))
    <3>1. Up(l) /\ lease' = lease /\ app'[l] = Gone(app[l], "exited")
      BY <1>21, <2>2 DEF ShutDown
    <3>2. Settled(l) /\ ModelSettled(l)
      BY <2>2, <3>1
    <3> QED
      BY <3>1, <3>2, GoneSound
  <2> QED
    BY <1>21, <2>1, <2>2 DEF ShutDown
<1>22. CASE Untrusted(l) \/ Unbound(l) \/ Killed(l)
  <2>1. /\ \/ app'[l] = Gone(app[l], "exited") /\ app[l].main = "off"
           \/ app'[l] = Gone(app[l], "killed")
        /\ lease' = lease
    BY <1>22 DEF Untrusted, Unbound, Killed, NextLaunch
  <2> QED
    BY <2>1, GoneSound
<1>23. CASE QuitAgain(l)
  <2> DEFINE a == [app[l] EXCEPT !.excused = @ \cup {"again"}]
  <2>1. app'[l] = Gone(a, "exited") /\ lease' = lease
    BY <1>23 DEF QuitAgain
  <2>2. a \in App
    BY AppGet, AppSet
  <2>3. /\ a.server = app[l].server /\ a.worker = app[l].worker /\ a.model = app[l].model
        /\ a.registered = app[l].registered /\ a.listed = app[l].listed
        /\ app[l].excused \subseteq a.excused /\ "again" \in a.excused
    BY DEF App
  <2> HIDE DEF a
  <2> QED
    BY <2>1, <2>2, <2>3, GoneSound
<1>24. CASE Launch(l)
  <2>1. app[l].main = "off" /\ lease' = lease
    BY <1>24 DEF Launch, NextLaunch
  <2>2. CASE \E p \in Launches : Up(p)
    <3> DEFINE p == CHOOSE p \in Launches : Up(p)
    <3>1. p \in Launches /\ Up(p)
      BY <2>2
    <3>2. app' = [app EXCEPT ![l] = Gone(app[l], "exited"), ![p] = Asked(app[p])]
      BY <1>24, <2>2 DEF Launch
    <3> HIDE DEF p
    <3>3. app'[l] = Gone(app[l], "exited")
      BY <2>1, <3>1, <3>2
    <3> QED
      BY <2>1, <3>3, GoneSound
  <2>3. CASE ~\E p \in Launches : Up(p)
    <3>1. Set(l, [app[l] EXCEPT !.main = "up"])
      BY <1>24, <2>3 DEF Launch
    <3> QED
      BY <2>1, <3>1 DEF App
  <2> QED
    BY <2>2, <2>3
<1> QED
  BY <1>3, <1>4, <1>5, <1>6, <1>7, <1>8, <1>9, <1>10, <1>11, <1>12, <1>13, <1>14, <1>15, <1>16,
     <1>17, <1>18, <1>19, <1>20, <1>21, <1>22, <1>23, <1>24
  DEF Step, Startup, Shutdown, Processes

-----------------------------------------------------------------------------
(* What a step changes of the main process and the server of its launch: the  *)
(* main process comes up when no other is, the server under a lease just      *)
(* taken, and it is registered with the lease.                                *)
Comes(l) ==
  LET a == app[l]
      b == app'[l] IN
  /\ b.main = "up" => a.main = "up" \/ (a.main = "off" /\ \A k \in Launches : ~Up(k))
  /\ \/ b.server \in {a.server, "dead"} \/ Alive(l)
     \/ Fork(l) /\ Claimable /\ ~b.registered /\ lease' = [owner |-> l, registered |-> FALSE]
  /\ \/ b.registered = a.registered
     \/ Forked(l) /\ lease.owner = l /\ lease' = [lease EXCEPT !.registered = TRUE]

(* Most steps of a launch leave all three as they are.                        *)
LEMMA SameComes ==
  ASSUME NEW l \in Launches, app'[l].main = app[l].main, app'[l].server = app[l].server,
         app'[l].registered = app[l].registered
  PROVE  Comes(l)
BY DEF Comes

LEMMA MoverComes ==
  ASSUME TypeOK, NEW l \in Launches, Step(l), Sound(l)
  PROVE  Comes(l)
<1> DEFINE Same == /\ app'[l].main = app[l].main
                   /\ app'[l].server = app[l].server
                   /\ app'[l].registered = app[l].registered
<1>1. app[l] \in App /\ app \in [Launches -> App]
  BY DEF TypeOK
<1>2. Same => Comes(l)
  BY SameComes
<1> USE <1>1 DEF Set, Keep
<1>3. CASE Fail(l)
  <2>1. Same
    BY <1>3 DEF Fail, App
  <2> QED
    BY <1>2, <2>1
<1>4. CASE Quit(l)
  <2>1. Same
    BY <1>4 DEF Quit, App
  <2> QED
    BY <1>2, <2>1
<1>5. CASE CloseWindow(l)
  <2>1. Same
    BY <1>5 DEF CloseWindow, App
  <2> QED
    BY <1>2, <2>1
<1>6. CASE StopFails(l)
  <2>1. Same
    BY <1>6 DEF StopFails, App
  <2> QED
    BY <1>2, <2>1
<1>7. CASE Unwind(l)
  <2>1. Same
    BY <1>7 DEF Unwind, App
  <2> QED
    BY <1>2, <2>1
<1>8. CASE Probe(l)
  <2>1. CASE Set(l, [app[l] EXCEPT !.pc = "load", !.window = "open"])
    <3>1. Same
      BY <2>1 DEF App
    <3> QED
      BY <1>2, <3>1
  <2>2. CASE Set(l, [app[l] EXCEPT !.pc = "undo"])
    <3>1. Same
      BY <2>2 DEF App
    <3> QED
      BY <1>2, <3>1
  <2> QED
    BY <1>8, <2>1, <2>2 DEF Probe
<1>9. CASE Load(l)
  <2>1. CASE Set(l, [app[l] EXCEPT !.pc = "running", !.pending = FALSE,
                                   !.asked = app[l].asked /\ ~app[l].pending])
    <3>1. Same
      BY <2>1 DEF App
    <3> QED
      BY <1>2, <3>1
  <2>2. CASE Set(l, [app[l] EXCEPT !.pc = "undo"])
    <3>1. Same
      BY <2>2 DEF App
    <3> QED
      BY <1>2, <3>1
  <2> QED
    BY <1>9, <2>1, <2>2 DEF Load
<1>10. CASE StartRuntime(l)
  <2>1. PICK pc, model : Set(l, [app[l] EXCEPT !.pc = pc, !.model = model])
    BY <1>10 DEF StartRuntime
  <2>2. Same
    BY <2>1 DEF App
  <2> QED
    BY <1>2, <2>2
<1>11. CASE ModelSettles(l)
  <2> DEFINE To(pc, model, why) ==
               Set(l, [app[l] EXCEPT !.pc = pc, !.model = model, !.excused = @ \cup why])
  <2>1. \E pc, model, why : To(pc, model, why)
    <3>1. \/ To("fork", "ready", {}) \/ To("failed", "dead", {})
          \/ To("failed", "starting", {"outlived"}) \/ To("failed", "ready", {"composing"})
      BY <1>11 DEF ModelSettles
    <3> HIDE DEF To
    <3> QED
      BY <3>1
  <2>2. Same
    BY <2>1 DEF App
  <2> QED
    BY <1>2, <2>2
<1>12. CASE StopWaits(l)
  <2>1. CASE \E s : Set(l, [app[l] EXCEPT !.stop = s])
    <3>1. PICK s : Set(l, [app[l] EXCEPT !.stop = s])
      BY <2>1
    <3>2. Same
      BY <3>1 DEF App
    <3> QED
      BY <1>2, <3>2
  <2>2. CASE \E more : Set(l, [app[l] EXCEPT !.stop = "forced", !.listed = more])
    <3>1. PICK more : Set(l, [app[l] EXCEPT !.stop = "forced", !.listed = more])
      BY <2>2
    <3>2. Same
      BY <3>1 DEF App
    <3> QED
      BY <1>2, <3>2
  <2> QED
    BY <1>12, <2>1, <2>2 DEF StopWaits
<1>13. CASE Close(l)
  <2>1. ASSUME NEW found \in BOOLEAN, Set(l, [StopBegins(app[l], found) EXCEPT !.close = "server"])
        PROVE  Comes(l)
    <3>1. Same
      <4>1. CASE app[l].server \in {"up", "ready"}
        BY <2>1, <4>1 DEF StopBegins, App
      <4>2. CASE app[l].server \notin {"up", "ready"}
        BY <2>1, <4>2 DEF StopBegins, App
      <4> QED
        BY <4>1, <4>2
    <3> QED
      BY <1>2, <3>1
  <2>2. CASE Set(l, [app[l] EXCEPT !.close = "model"])
    <3>1. Same
      BY <2>2 DEF App
    <3> QED
      BY <1>2, <3>1
  <2>3. CASE StopModel(l, app[l])
    <3>1. Same
      <4>1. CASE Set(l, [app[l] EXCEPT !.close = "done",
                                       !.model = IF @ = "none" THEN "none" ELSE "dead"])
        BY <4>1 DEF App
      <4>2. CASE Set(l, [app[l] EXCEPT !.close = "done", !.excused = @ \cup {"outlived"}])
        BY <4>2 DEF App
      <4> QED
        BY <2>3, <4>1, <4>2 DEF StopModel
    <3> QED
      BY <1>2, <3>1
  <2> QED
    BY <1>13, <2>1, <2>2, <2>3 DEF Close
<1>14. CASE Forked(l)
  <2>1. CASE /\ lease.owner = l /\ lease' = [lease EXCEPT !.registered = TRUE]
             /\ Set(l, [app[l] EXCEPT !.pc = "probe", !.registered = TRUE])
    <3>1. app'[l].main = app[l].main /\ app'[l].server = app[l].server
      BY <2>1 DEF App
    <3> QED
      BY <1>14, <2>1, <3>1 DEF Comes
  <2>2. ASSUME NEW found \in BOOLEAN, Set(l, [StopBegins(app[l], found) EXCEPT !.pc = "unwind"])
        PROVE  Comes(l)
    <3>1. Same
      <4>1. CASE app[l].server \in {"up", "ready"}
        BY <2>2, <4>1 DEF StopBegins, App
      <4>2. CASE app[l].server \notin {"up", "ready"}
        BY <2>2, <4>2 DEF StopBegins, App
      <4> QED
        BY <4>1, <4>2
    <3> QED
      BY <1>2, <3>1
  <2> QED
    BY <1>14, <2>1, <2>2 DEF Forked
<1>15. CASE Fork(l)
  <2>1. CASE /\ Claimable /\ lease' = [owner |-> l, registered |-> FALSE]
             /\ Set(l, [app[l] EXCEPT !.server = "forked"])
    <3>1. app'[l].main = app[l].main /\ app'[l].registered = app[l].registered
      BY <2>1 DEF App
    <3>2. ~app[l].registered
      BY <1>15 DEF Fork, Sound, StartupHas
    <3> QED
      BY <1>15, <2>1, <3>1, <3>2 DEF Comes
  <2>2. CASE Set(l, [app[l] EXCEPT !.pc = "undo"])
    <3>1. Same
      BY <2>2 DEF App
    <3> QED
      BY <1>2, <3>1
  <2> QED
    BY <1>15, <2>1, <2>2 DEF Fork
<1>16. CASE Spawned(l)
  <2>1. /\ app'[l].main = app[l].main
        /\ app'[l].registered = app[l].registered
    BY <1>16 DEF Spawned, App
  <2> QED
    BY <1>16, <2>1 DEF Spawned, Comes, Alive
<1>17. CASE Binds(l)
  <2>1. /\ app'[l].main = app[l].main
        /\ app'[l].registered = app[l].registered
    BY <1>17 DEF Binds, App
  <2> QED
    BY <1>17, <2>1 DEF Binds, Comes, Alive
<1>18. CASE ServerEnds(l) \/ ServerCrashes(l)
  <2>1. /\ app'[l].main = app[l].main
        /\ app'[l].registered = app[l].registered
    BY <1>18 DEF ServerEnds, ServerCrashes, App
  <2> QED
    BY <1>18, <2>1 DEF ServerEnds, ServerCrashes, Comes, Alive
<1>19. CASE WorkerStarts(l)
  <2>1. Same
    BY <1>19 DEF WorkerStarts, App
  <2> QED
    BY <1>2, <2>1
<1>20. CASE WorkerEnds(l)
  <2>1. Same
    BY <1>20 DEF WorkerEnds, App
  <2> QED
    BY <1>2, <2>1
<1>21. ASSUME NEW b \in App, NEW how \in {"exited", "killed"}, app'[l] = Gone(b, how),
              b.server = app[l].server, b.registered = app[l].registered
       PROVE  Comes(l)
  BY <1>21, GoneLeaves DEF Comes
<1>22. CASE Untrusted(l) \/ Unbound(l) \/ Killed(l)
  <2>1. \E how \in {"exited", "killed"} : app'[l] = Gone(app[l], how)
    BY <1>22 DEF Untrusted, Unbound, Killed
  <2> QED
    BY <1>21, <2>1
<1>23. CASE QuitAgain(l)
  <2> DEFINE a == [app[l] EXCEPT !.excused = @ \cup {"again"}]
  <2>1. app'[l] = Gone(a, "exited")
    BY <1>23 DEF QuitAgain
  <2>2. a \in App
    BY AppGet, AppSet
  <2>3. a.server = app[l].server /\ a.registered = app[l].registered
    BY DEF App
  <2> HIDE DEF a
  <2> QED
    BY <1>21, <2>1, <2>2, <2>3
<1>24. CASE ShutDown(l)
  <2>1. CASE Set(l, [app[l] EXCEPT !.quit = "stopping"])
    <3>1. Same
      BY <2>1 DEF App
    <3> QED
      BY <1>2, <3>1
  <2>2. CASE Set(l, Gone(app[l], "exited"))
    BY <1>21, <2>2
  <2> QED
    BY <1>24, <2>1, <2>2 DEF ShutDown
<1>25. CASE Launch(l)
  <2>1. app[l].main = "off"
    BY <1>25 DEF Launch, NextLaunch
  <2>2. CASE \E p \in Launches : Up(p)
    <3> DEFINE p == CHOOSE p \in Launches : Up(p)
    <3>1. p \in Launches /\ Up(p)
      BY <2>2
    <3>2. app' = [app EXCEPT ![l] = Gone(app[l], "exited"), ![p] = Asked(app[p])]
      BY <1>25, <2>2 DEF Launch
    <3> HIDE DEF p
    <3>3. app'[l] = Gone(app[l], "exited")
      BY <2>1, <3>1, <3>2 DEF Up
    <3> QED
      BY <1>21, <3>3
  <2>3. CASE ~\E p \in Launches : Up(p)
    <3>1. Set(l, [app[l] EXCEPT !.main = "up"])
      BY <1>25, <2>3 DEF Launch
    <3>2. app'[l].server = app[l].server /\ app'[l].registered = app[l].registered
      BY <3>1 DEF App
    <3> QED
      BY <2>1, <2>3, <3>2 DEF Comes
  <2> QED
    BY <2>2, <2>3
<1> QED
  BY <1>3, <1>4, <1>5, <1>6, <1>7, <1>8, <1>9, <1>10, <1>11, <1>12, <1>13, <1>14, <1>15, <1>16,
     <1>17, <1>18, <1>19, <1>20, <1>22, <1>23, <1>24, <1>25
  DEF Step, Startup, Shutdown, Processes

-----------------------------------------------------------------------------
(* The launches together.                                                     *)
LEMMA OthersKeep ==
  ASSUME DesktopIInv, NEW l \in Launches, Step(l), NEW k \in Launches, k # l
  PROVE  /\ app'[k].main = app[k].main /\ app'[k].server = app[k].server
         /\ app'[k].registered = app[k].registered
<1>1. app'[k] \in {app[k], Asked(app[k])} /\ app[k] \in App
  BY OthersStep DEF DesktopIInv, TypeOK
<1> QED
  BY <1>1 DEF Asked, App

LEMMA OneUpStep ==
  ASSUME DesktopIInv, NEW l \in Launches, Step(l)
  PROVE  OneUp'
<1>1. Comes(l)
  BY MoverComes DEF DesktopIInv
<1>2. Up(l)' => Up(l) \/ \A k \in Launches : ~Up(k)
  BY <1>1 DEF Comes, Up
<1>3. \A k \in Launches : k # l => (Up(k)' <=> Up(k))
  BY OthersKeep DEF Up
<1> QED
  BY <1>2, <1>3 DEF DesktopIInv, OneUp

(* What the launch that moves does to its server: one that comes alive does   *)
(* so under a lease just taken, and what is taken from the lease is dead.     *)
LEMMA MoverServer ==
  ASSUME DesktopIInv, NEW l \in Launches, Step(l)
  PROVE  /\ Alive(l)' => Alive(l) \/ (Fork(l) /\ Claimable /\ ~app'[l].registered)
         /\ app'[l].registered =>
              app[l].registered \/ (Forked(l) /\ lease' = [owner |-> l, registered |-> TRUE])
         /\ lease' # lease /\ Alive(l) =>
              Forked(l) /\ lease' = [owner |-> l, registered |-> TRUE]
<1>1. Comes(l) /\ Sound(l)
  BY MoverComes DEF DesktopIInv
<1>2. Alive(l)' => Alive(l) \/ (Fork(l) /\ Claimable /\ ~app'[l].registered)
  BY <1>1 DEF Comes, Alive
<1>3. Forked(l) /\ lease.owner = l /\ lease' = [lease EXCEPT !.registered = TRUE] =>
        lease' = [owner |-> l, registered |-> TRUE]
  BY DEF DesktopIInv, TypeOK
<1>4. app'[l].registered =>
        app[l].registered \/ (Forked(l) /\ lease' = [owner |-> l, registered |-> TRUE])
  BY <1>1, <1>3 DEF Comes
<1>5. ASSUME lease' # lease, Alive(l)
      PROVE  Forked(l) /\ lease' = [owner |-> l, registered |-> TRUE]
  <2>1. ~Fork(l)
    BY <1>5 DEF Fork, Alive
  <2>2. ~((Unwind(l) \/ Close(l)) /\ app[l].stop = "stopped")
    BY <1>1, <1>5 DEF Unwind, Close, Alive, Sound, StopReaches
  <2> QED
    BY <1>3, <1>5, <2>1, <2>2, Effects DEF DesktopIInv
<1> QED
  BY <1>2, <1>4, <1>5

(* The lease of another launch changes hands only when it is stale.           *)
LEMMA OthersLease ==
  ASSUME DesktopIInv, NEW l \in Launches, Step(l), NEW k \in Launches, k # l, lease.owner = k,
         lease' # lease
  PROVE  Claimable /\ ~Up(k) /\ (lease.registered => app[k].server = "dead")
<1>1. k # Nobody
  BY LaunchesFacts
<1>2. Released(l) = lease
  BY DEF Released
<1> QED
  BY <1>1, <1>2, Effects DEF DesktopIInv, Claimable

LEMMA LeaseNamesServerStep ==
  ASSUME DesktopIInv, NEW l \in Launches, Step(l)
  PROVE  LeaseNamesServer'
<1> SUFFICES ASSUME NEW k \in Launches, app'[k].registered, Alive(k)'
             PROVE  lease' = [owner |-> k, registered |-> TRUE]
  BY DEF LeaseNamesServer
<1>1. CASE k = l
  <2>1. Alive(l)
    BY <1>1, MoverServer
  <2>2. CASE lease' # lease
    BY <1>1, <2>1, <2>2, MoverServer
  <2>3. CASE lease' = lease
    <3>1. \/ app[l].registered
          \/ lease' = [owner |-> l, registered |-> TRUE]
      BY <1>1, MoverServer
    <3> QED
      BY <1>1, <2>1, <2>3, <3>1 DEF DesktopIInv, LeaseNamesServer
  <2> QED
    BY <2>2, <2>3
<1>2. CASE k # l
  <2>1. app[k].registered /\ Alive(k)
    BY <1>2, OthersKeep DEF Alive
  <2>2. lease = [owner |-> k, registered |-> TRUE]
    BY <2>1 DEF DesktopIInv, LeaseNamesServer
  <2>3. lease' = lease
    BY <1>2, <2>1, <2>2, OthersLease DEF Alive
  <2> QED
    BY <2>2, <2>3
<1> QED
  BY <1>1, <1>2

(* A launch whose server runs on, unregistered and alone, stays that way.     *)
LEMMA AloneStays ==
  ASSUME DesktopIInv, NEW l \in Launches, Step(l), NEW x \in Launches, Alive(x),
         ~app[x].registered, ~Up(x)
  PROVE  ~app'[x].registered /\ ~Up(x)'
<1>1. CASE x # l
  BY <1>1, OthersKeep DEF Up
<1>2. CASE x = l
  <2>1. Comes(l) /\ Sound(l)
    BY MoverComes DEF DesktopIInv
  <2>2. app[l].main # "off"
    BY <1>2, <2>1 DEF Sound, StartupHas, NothingBefore, Alive
  <2>3. ~Up(l)'
    BY <1>2, <2>1, <2>2 DEF Comes, Up
  <2>4. ~Forked(l)
    BY <1>2 DEF Forked
  <2> QED
    BY <1>2, <2>3, <2>4, MoverServer
<1> QED
  BY <1>1, <1>2

LEMMA OneWriterStep ==
  ASSUME DesktopIInv, NEW l \in Launches, Step(l)
  PROVE  OneWriter'
<1> SUFFICES ASSUME NEW k \in Launches, NEW m \in Launches, k # m, Alive(k)', Alive(m)'
             PROVE  \E x \in {k, m} : ~app'[x].registered /\ ~Up(x)'
  BY DEF OneWriter
<1>1. CASE Alive(k) /\ Alive(m)
  <2>1. PICK x \in {k, m} : ~app[x].registered /\ ~Up(x)
    BY <1>1 DEF DesktopIInv, OneWriter
  <2> QED
    BY <1>1, <2>1, AloneStays
(* A server is forked beside one that runs: that one has no lease.            *)
<1>2. ASSUME NEW x \in {k, m}, x # l, Fork(l), Claimable
      PROVE  ~app'[x].registered /\ ~Up(x)'
  <2>1. x \in Launches /\ Alive(x)
    BY <1>2, OthersKeep DEF Alive
  <2>2. ~Up(x)
    BY <1>2, <2>1 DEF Fork, DesktopIInv, OneUp
  <2>3. ~app[x].registered
    <3> SUFFICES ASSUME app[x].registered
                 PROVE  FALSE
      OBVIOUS
    <3>1. lease = [owner |-> x, registered |-> TRUE]
      BY <2>1 DEF DesktopIInv, LeaseNamesServer
    <3>2. lease.owner # Nobody /\ lease.registered
      BY <2>1, <3>1, LaunchesFacts
    <3> QED
      BY <1>2, <2>1, <3>1, <3>2 DEF Claimable, Alive
  <2> QED
    BY <2>1, <2>2, <2>3, AloneStays
<1>3. CASE ~(Alive(k) /\ Alive(m))
  <2>1. k # l => Alive(k)
    BY OthersKeep DEF Alive
  <2>2. m # l => Alive(m)
    BY OthersKeep DEF Alive
  <2>3. Fork(l) /\ Claimable
    BY <1>3, <2>1, <2>2, MoverServer
  <2>4. \E x \in {k, m} : x # l
    OBVIOUS
  <2> QED
    BY <1>2, <2>3, <2>4
<1> QED
  BY <1>1, <1>3

-----------------------------------------------------------------------------
LEMMA InitIInv == Init => DesktopIInv
<1> SUFFICES ASSUME Init
             PROVE  DesktopIInv
  OBVIOUS
<1>1. Off \in App /\ \A l \in Launches : app[l] = Off
  BY DEF Init, Off, App
<1>2. TypeOK
  BY <1>1, DesktopAssumption DEF Init, TypeOK, Free
<1>3. \A l \in Launches : ~Up(l) /\ ~Alive(l) /\ lease.owner # l
  BY <1>1, LaunchesFacts DEF Init, Up, Alive, Off, Free
<1>4. OneUp /\ LeaseNamesServer /\ OneWriter
  BY <1>3 DEF OneUp, LeaseNamesServer, OneWriter
<1>5. ASSUME NEW l \in Launches
      PROVE  Sound(l)
  BY <1>1, <1>3 DEF Off, Sound, StartupHas, NothingBefore, StopsOnce, StopReaches, ClosesWhole
<1> QED
  BY <1>2, <1>4, <1>5 DEF DesktopIInv

LEMMA NextIInv == DesktopIInv /\ [Next]_vars => DesktopIInv'
<1> SUFFICES ASSUME DesktopIInv, [Next]_vars
             PROVE  DesktopIInv'
  OBVIOUS
<1>1. CASE Next
  <2>1. PICK l \in Launches : Step(l)
    BY <1>1 DEF Next, Step
  <2>2. TypeOK'
    BY <2>1, TypeStep DEF DesktopIInv
  <2>3. OneUp' /\ LeaseNamesServer' /\ OneWriter'
    BY <2>1, OneUpStep, LeaseNamesServerStep, OneWriterStep
  <2>4. ASSUME NEW k \in Launches
        PROVE  Sound(k)'
    BY <2>1, MoverStep, OthersStep DEF DesktopIInv
  <2> QED
    BY <2>2, <2>3, <2>4 DEF DesktopIInv
<1>2. CASE UNCHANGED vars
  BY <1>2 DEF vars, DesktopIInv, TypeOK, OneUp, LeaseNamesServer, OneWriter, Sound, StartupHas,
     StopsOnce, StopReaches, ClosesWhole, Settled, ModelSettled, NothingBefore, ListedDead, Up,
     Alive
<1> QED
  BY <1>1, <1>2

LEMMA Invariance == Spec => []DesktopIInv
BY InitIInv, NextIInv, PTL DEF Spec

-----------------------------------------------------------------------------
LEMMA IInvGivesDesktopInv == DesktopIInv => DesktopInv
<1> SUFFICES ASSUME DesktopIInv
             PROVE  DesktopInv
  OBVIOUS
<1>1. Cardinality({l \in Launches : Up(l)}) <= 1
  <2> DEFINE U == {l \in Launches : Up(l)}
  <2>1. U = {} \/ \E l \in Launches : U = {l}
    BY DEF DesktopIInv, OneUp
  <2>2. Cardinality(U) \in {0, 1}
    <3> HIDE DEF U
    <3> QED
      BY <2>1, FS_EmptySet, FS_Singleton
  <2> QED
    BY <2>2
<1>2. ServesPrivateData
  BY DEF DesktopIInv, Sound, StartupHas, ServesPrivateData
<1> QED
  BY <1>1, <1>2 DEF DesktopIInv, DesktopInv

(* At most one application runs its main process; a registered server that    *)
(* may still write is named by the lease; two servers write at once only if   *)
(* the main process of one went away before registering it; and nothing is    *)
(* served from a data root that is not private (main.ts:315,                  *)
(* process-supervisor.ts:283).                                                *)
THEOREM DesktopInvHolds == Spec => []DesktopInv
BY Invariance, IInvGivesDesktopInv, PTL

(* A main process that exits, unless it was told to twice, leaves neither its *)
(* lease nor a process it could stop, whatever the startup was doing when the *)
(* application was left (main.ts:113, 268, 330).                              *)
THEOREM NothingLeftRunningHolds == Spec => []NothingLeftRunning
<1>1. DesktopIInv => NothingLeftRunning
  <2> SUFFICES ASSUME DesktopIInv, NEW l \in Launches, app[l].main = "exited",
                      "again" \notin app[l].excused
               PROVE  /\ ModelSettled(l)
                      /\ \/ "unkillable" \in app[l].excused
                         \/ /\ ~Alive(l)
                            /\ app[l].listed => app[l].worker = "dead"
                            /\ lease.owner # l
    BY DEF NothingLeftRunning, ModelSettled
  <2>1. Sound(l) /\ app[l].worker \in {"none", "alive", "dead"}
    BY AppGet DEF DesktopIInv, TypeOK
  <2>2. Settled(l) /\ ModelSettled(l)
    BY <2>1 DEF Sound, ClosesWhole
  <2>3. app[l].listed => app[l].worker # "none"
    BY <2>1 DEF Sound, StopReaches
  <2> QED
    BY <2>1, <2>2, <2>3 DEF Settled, ListedDead
<1> QED
  BY <1>1, Invariance, PTL

(* The lease leaves a launch only when its server is dead and, if the launch  *)
(* gives it up itself, every worker the stop found; or when the launch is     *)
(* gone and its server was never registered (process-supervisor.ts:277, 322). *)
THEOREM LeaseOutlivesServerHolds == Spec => LeaseOutlivesServer
<1> DEFINE Outlives(k) == lease.owner = k /\ lease'.owner # k =>
                            \/ ~Alive(k) /\ (Up(k) => ListedDead(app[k]))
                            \/ ~Up(k) /\ ~lease.registered
<1>1. ASSUME DesktopIInv, [Next]_vars, NEW k \in Launches
      PROVE  Outlives(k)
  <2> SUFFICES ASSUME lease.owner = k, lease'.owner # k
               PROVE  \/ ~Alive(k) /\ (Up(k) => ListedDead(app[k]))
                      \/ ~Up(k) /\ ~lease.registered
    OBVIOUS
  <2>1. PICK l \in Launches : Step(l)
    BY <1>1 DEF Next, Step, vars
  <2>2. CASE k # l
    BY <1>1, <2>1, <2>2, OthersLease DEF Alive
  <2>3. CASE k = l
    <3>1. Sound(l)
      BY <1>1 DEF DesktopIInv
    <3>2. ~Alive(l)
      <4> SUFFICES ASSUME Alive(l)
                   PROVE  FALSE
        OBVIOUS
      <4>1. lease' = [owner |-> l, registered |-> TRUE]
        BY <1>1, <2>1, MoverServer
      <4> QED
        BY <2>3, <4>1
    <3>3. ~Fork(l)
      BY <2>3, <3>1 DEF Fork, Sound, StartupHas
    <3>4. Up(l) /\ app[l].stop = "stopped"
      <4>1. [lease EXCEPT !.registered = TRUE].owner = lease.owner
        BY <1>1 DEF DesktopIInv, TypeOK
      <4> QED
        BY <1>1, <2>1, <2>3, <3>3, <4>1, Effects DEF DesktopIInv, Unwind, Close
    <3> QED
      BY <2>3, <3>1, <3>2, <3>4 DEF Sound, StopReaches
  <2> QED
    BY <2>2, <2>3
<1>2. DesktopIInv /\ [Next]_vars =>
        [\A l \in Launches : lease.owner = l /\ lease'.owner # l =>
           \/ ~Alive(l) /\ (Up(l) => ListedDead(app[l]))
           \/ ~Up(l) /\ ~lease.registered]_vars
  BY <1>1
<1> QED
  BY <1>2, Invariance, PTL DEF Spec, LeaseOutlivesServer
===============================================================================
