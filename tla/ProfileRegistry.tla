---------------------------- MODULE ProfileRegistry ----------------------------
(***************************************************************************)
(* lib/profile-registry.ts: the registry of profiles, kept as a primary    *)
(* file and a recovery copy of the generation before it.                   *)
(*                                                                         *)
(* Every call runs without a pause in its process; what interleaves is the *)
(* reads and renames of other processes, a crash between two renames, and  *)
(* damage to one of the files.  The lock is taken in one step here: how    *)
(* it is taken and given back is RegistryLock.  A temporary file that a    *)
(* crash leaves is never read, so it is not part of the state.             *)
(***************************************************************************)
EXTENDS Naturals, FiniteSets

CONSTANTS
  Processes,      \* servers and tools that open the same registry
  Default,        \* the identity of the protected profile
  Profiles,       \* identities that may be created beside it
  Names,          \* display names
  MaxProfiles,    \* PROFILE_REGISTRY_MAX_PROFILES
  MaxGeneration,  \* bound: mutations stop at this generation
  MaxDamage,      \* bound: how often a file may be lost or torn
  None

ASSUME RegistryAssumption ==
  /\ Default \notin Profiles
  /\ None \notin Profiles \union {Default} \union Names \union Processes
  /\ "stale" \notin Processes /\ None # "stale"
  /\ MaxProfiles \in Nat \ {0} /\ MaxGeneration \in Nat \ {0} /\ MaxDamage \in Nat

Ids == Profiles \union {Default}

(* parseSnapshot: one protected Default, distinct names, a registered active  *)
(* profile.                                                                   *)
NamesDiffer(names) == \A a, b \in DOMAIN names : names[a] = names[b] => a = b
Snapshots ==
  {[generation |-> g, active |-> a, names |-> n] :
     g \in 1 .. MaxGeneration, a \in Ids,
     n \in {m \in UNION {[S -> Names] : S \in SUBSET Ids} : NamesDiffer(m)}}

ASSUME NoneIsNoSnapshot == None \notin Snapshots

WellFormed(s) ==
  /\ Default \in DOMAIN s.names /\ s.active \in DOMAIN s.names
  /\ Cardinality(DOMAIN s.names) <= MaxProfiles
  /\ NamesDiffer(s.names)

(* What readRegistryFile makes of a file.                                     *)
Missing == [kind |-> "missing"]
Invalid == [kind |-> "invalid"]
Valid(s) == [kind |-> "valid", snapshot |-> s]
IsValid(file) == file.kind = "valid"

VARIABLES
  primary,   \* registry.json
  recovery,  \* registry.recovery.json
  lock,      \* registry.lock: its owner, None, or "stale" when the owner died
  at,        \* process -> what it is doing
  view,      \* process -> the inspection its sessions are bound to
  glance,    \* process -> the primary it read, the recovery copy is next
  base,      \* process -> what it read under the lock
  next,      \* process -> what it is about to write
  damage,    \* how often a file was damaged
  last,      \* history: the newest snapshot that was ever put in place ...
  prior,     \* ... and the one before it
  during     \* history: process -> the snapshots current while it was reading

vars == <<primary, recovery, lock, at, view, glance, base, next, damage, last, prior, during>>
files == <<primary, recovery>>
history == <<last, prior>>

Places == {"down", "idle", "reading", "load", "keep", "write", "release"}
Files == {Missing, Invalid} \union {Valid(s) : s \in Snapshots}
Nothing == [kind |-> "setup-required"]
Inspections ==
  {Nothing} \union [kind : {"ready"}, snapshot : Snapshots, source : {"primary", "recovery"}]

TypeOK ==
  /\ \A file \in {primary, recovery} : IsValid(file) => WellFormed(file.snapshot)
  /\ primary \in Files /\ recovery \in Files
  /\ lock \in Processes \union {None, "stale"}
  /\ \A p \in Processes : at[p] \in {"load", "keep", "write", "release"} => lock = p
  /\ at \in [Processes -> Places]
  /\ view \in [Processes -> Inspections]
  /\ glance \in [Processes -> Files]
  /\ base \in [Processes -> Snapshots \union {None}]
  /\ next \in [Processes -> Snapshots \union {None}]
  /\ damage \in 0 .. MaxDamage
  /\ {last, prior} \subseteq Snapshots \union {None}
  /\ during \in [Processes -> SUBSET (Snapshots \union {None})]

-----------------------------------------------------------------------------
(* selectRegistryRead: the newest valid copy, the primary if they are level;  *)
(* two different copies of one generation are refused.                        *)
Conflict(p, r) ==
  /\ IsValid(p) /\ IsValid(r)
  /\ p.snapshot.generation = r.snapshot.generation
  /\ p.snapshot # r.snapshot

Select(p, r) ==
  IF p = Missing /\ r = Missing THEN Nothing
  ELSE IF Conflict(p, r) \/ ~(IsValid(p) \/ IsValid(r)) THEN [kind |-> "unusable"]
  ELSE IF IsValid(p) /\ (~IsValid(r) \/ r.snapshot.generation <= p.snapshot.generation)
       THEN [kind |-> "ready", snapshot |-> p.snapshot, source |-> "primary"]
       ELSE [kind |-> "ready", snapshot |-> r.snapshot, source |-> "recovery"]

SnapshotIn(inspection) == IF inspection.kind = "ready" THEN inspection.snapshot ELSE None
Current == Select(primary, recovery)

(* What create, rename, switchActive, bump and remove make of a snapshot.     *)
Advanced(s, active, names) == [generation |-> s.generation + 1, active |-> active, names |-> names]

Named(s, id, name) == [i \in DOMAIN s.names \union {id} |-> IF i = id THEN name ELSE s.names[i]]
Created(s) ==
  {Advanced(s, s.active, Named(s, id, name)) :
     id \in IF Cardinality(DOMAIN s.names) < MaxProfiles THEN Profiles \ DOMAIN s.names ELSE {},
     name \in Names}
Renamed(s) ==
  {Advanced(s, s.active, Named(s, id, name)) : id \in DOMAIN s.names, name \in Names}
  \ {Advanced(s, s.active, s.names)}
Switched(s) == {Advanced(s, id, s.names) : id \in DOMAIN s.names \ {s.active}}
Removed(s) ==
  {Advanced(s, s.active, [i \in DOMAIN s.names \ {id} |-> s.names[i]]) :
     id \in DOMAIN s.names \ {Default, s.active}}

Bumped(s) == {Advanced(s, s.active, s.names)}
Mutations(s) ==
  {c \in Created(s) \union Renamed(s) \union Switched(s) \union Bumped(s) \union Removed(s) :
     WellFormed(c) /\ c.generation <= MaxGeneration}

FirstSnapshots ==
  {[generation |-> 1, active |-> Default, names |-> [i \in {Default} |-> name]] : name \in Names}

Goto(p, place) == at' = [at EXCEPT ![p] = place]
(* What another process that is reading may come to see.                      *)
Observed ==
  during' = [p \in Processes |->
    IF at[p] = "reading" THEN during[p] \union {SnapshotIn(Select(primary', recovery'))} ELSE during[p]]

-----------------------------------------------------------------------------
(* Mutant: what the session knows stands in for the primary.                  *)
ReadPrimaryOnce(p) ==
  /\ at[p] = "idle"
  /\ glance' = [glance EXCEPT ![p] = IF view[p].kind = "ready" THEN Valid(view[p].snapshot) ELSE primary]
  /\ during' = [during EXCEPT ![p] = {SnapshotIn(Current)}]
  /\ Goto(p, "reading")
  /\ UNCHANGED <<files, lock, view, base, next, damage, history>>

(* inspectInternal reads one file and then the other.                         *)
ReadPrimary(p) ==
  /\ at[p] = "idle"
  /\ glance' = [glance EXCEPT ![p] = primary]
  /\ during' = [during EXCEPT ![p] = {SnapshotIn(Current)}]
  /\ Goto(p, "reading")
  /\ UNCHANGED <<files, lock, view, base, next, damage, history>>

ReadRecovery(p) ==
  /\ at[p] = "reading"
  /\ LET found == Select(glance[p], recovery) IN
       view' = IF found.kind = "unusable" THEN view ELSE [view EXCEPT ![p] = found]
  /\ glance' = [glance EXCEPT ![p] = Missing]
  /\ during' = [during EXCEPT ![p] = {}]
  /\ Goto(p, "idle")
  /\ UNCHANGED <<files, lock, base, next, damage, history>>

(* acquireLock: nobody has the lock, or its owner is dead.                    *)
Acquire(p) ==
  /\ at[p] = "idle"
  /\ lock \in {None, "stale"}
  /\ lock' = p
  /\ Goto(p, "load")
  /\ UNCHANGED <<files, view, glance, base, next, damage, history, during>>

(* The registry as read under the lock: initializeDefault wants none, recover    *)
(* and mutate want the generation of the session, mutate a sound primary.     *)
Initializes(found, new) == found = Nothing /\ new \in FirstSnapshots
Expected(p, found) ==
  found.kind = "ready" /\ view[p].kind = "ready"
  /\ found.snapshot.generation = view[p].snapshot.generation
Recovers(p, found, new) == Expected(p, found) /\ found.source = "recovery" /\ new = found.snapshot
(* Mutant: the snapshot of the session is built on, unchecked.                *)
MutatesUnchecked(p, found, new) ==
  /\ found.kind = "ready" /\ found.source = "primary"
  /\ view[p].kind = "ready" /\ new \in Mutations(view[p].snapshot)

Mutates(p, found, new) ==
  Expected(p, found) /\ found.source = "primary" /\ new \in Mutations(found.snapshot)

Load(p) ==
  /\ at[p] = "load"
  /\ \/ \E new \in FirstSnapshots \union {SnapshotIn(Current)} :
          /\ Initializes(Current, new) \/ Recovers(p, Current, new)
          /\ next' = [next EXCEPT ![p] = new]
          /\ Goto(p, "write")
          /\ UNCHANGED base
     \/ \E new \in UNION {Mutations(s) : s \in {SnapshotIn(Current), SnapshotIn(view[p])} \ {None}} :
          /\ Mutates(p, Current, new)
          /\ base' = [base EXCEPT ![p] = Current.snapshot]
          /\ next' = [next EXCEPT ![p] = new]
          /\ Goto(p, "keep")
     \/ Goto(p, "release") /\ UNCHANGED <<base, next>>     \* refused, or nothing to change
  /\ UNCHANGED <<files, lock, view, glance, damage, history, during>>

(* Mutant: the new snapshot is kept as well.                                  *)
KeepNew(p) ==
  /\ at[p] = "keep"
  /\ recovery' = Valid(next[p]) /\ at' \in {[at EXCEPT ![p] = "write"], [at EXCEPT ![p] = "release"]}
  /\ base' = [base EXCEPT ![p] = None]
  /\ UNCHANGED <<primary, lock, view, glance, next, damage, history>>
  /\ Observed

(* persistMutation: the recovery copy first.  A write may fail before its     *)
(* rename, or after it, and ends the call either way.                         *)
Keep(p) ==
  /\ at[p] = "keep"
  /\ recovery' = Valid(base[p]) /\ at' \in {[at EXCEPT ![p] = "write"], [at EXCEPT ![p] = "release"]}
  /\ base' = [base EXCEPT ![p] = None]
  /\ UNCHANGED <<primary, lock, view, glance, next, damage, history>>
  /\ Observed

Write(p) ==
  /\ at[p] = "write"
  /\ primary' = Valid(next[p])
  /\ last' = next[p]
  /\ prior' = IF SnapshotIn(Current) = next[p] THEN next[p] ELSE last   \* recover gives up what was lost
  /\ Goto(p, "release")
  /\ next' = [next EXCEPT ![p] = None]
  /\ UNCHANGED <<recovery, lock, view, glance, base, damage>>
  /\ Observed

WriteFails(p) ==
  /\ at[p] \in {"keep", "write"}
  /\ Goto(p, "release")
  /\ base' = [base EXCEPT ![p] = None] /\ next' = [next EXCEPT ![p] = None]
  /\ UNCHANGED <<files, lock, view, glance, damage, history, during>>

(* release unlinks the lock, or fails and leaves it to this process.          *)
Release(p) ==
  /\ at[p] = "release"
  /\ lock' \in {None, p}
  /\ next' = [next EXCEPT ![p] = None]
  /\ Goto(p, "idle")
  /\ UNCHANGED <<files, view, glance, base, damage, history, during>>

Crash(p) ==
  /\ at[p] # "down"
  /\ lock' = IF lock = p THEN "stale" ELSE lock
  /\ view' = [view EXCEPT ![p] = Nothing] /\ glance' = [glance EXCEPT ![p] = Missing]
  /\ base' = [base EXCEPT ![p] = None] /\ next' = [next EXCEPT ![p] = None]
  /\ during' = [during EXCEPT ![p] = {}]
  /\ Goto(p, "down")
  /\ UNCHANGED <<files, damage, history>>

Start(p) ==
  /\ at[p] = "down"
  /\ Goto(p, "idle")
  /\ UNCHANGED <<files, lock, view, glance, base, next, damage, history, during>>

(* A file is lost or torn while the other copy is sound.                      *)
DamageFile ==
  /\ damage < MaxDamage
  /\ \/ IsValid(recovery) /\ primary' \in {Missing, Invalid} /\ UNCHANGED recovery
     \/ IsValid(primary) /\ recovery' \in {Missing, Invalid} /\ UNCHANGED primary
  /\ damage' = damage + 1
  /\ UNCHANGED <<lock, at, view, glance, base, next, history>>
  /\ Observed

-----------------------------------------------------------------------------
Init ==
  /\ primary = Missing /\ recovery = Missing
  /\ lock = None
  /\ at = [p \in Processes |-> "idle"]
  /\ view = [p \in Processes |-> Nothing]
  /\ glance = [p \in Processes |-> Missing]
  /\ base = [p \in Processes |-> None] /\ next = [p \in Processes |-> None]
  /\ damage = 0
  /\ last = None /\ prior = None
  /\ during = [p \in Processes |-> {}]

Next ==
  \/ \E p \in Processes :
       \/ ReadPrimary(p) \/ ReadRecovery(p)
       \/ Acquire(p) \/ Load(p) \/ Keep(p) \/ Write(p) \/ WriteFails(p) \/ Release(p)
       \/ Crash(p) \/ Start(p)
  \/ DamageFile

Spec == Init /\ [][Next]_vars

-----------------------------------------------------------------------------
(* A crash or a failing write at any point of a mutation never leaves the     *)
(* registry to Recovery: the primary is the newest copy until it is damaged   *)
(* (persistMutation's order of the two writes).                               *)
CrashNeedsNoRecovery == damage = 0 /\ last # None => Current.kind = "ready" /\ Current.source = "primary"

(* However the two reads of inspect fall between the writes of others, the    *)
(* snapshot it returns was current at some moment while it was reading: as    *)
(* long as one file was damaged at most.  (After two damages, with a Recovery *)
(* between them, a reader may find neither copy and report an empty registry.) *)
ReadsAreCurrent ==
  [][\A p \in Processes :
       at[p] = "reading" /\ view'[p] # view[p] /\ at'[p] = "idle" /\ damage <= 1
       => SnapshotIn(view'[p]) \in during[p]]_vars

(* While no copy was damaged, a session with the generation of the newest     *)
(* snapshot is bound to that very snapshot (profileBindingFromRequest compares *)
(* the identity and the generation and nothing else).                         *)
GenerationNamesSnapshot ==
  damage = 0 =>
    \A p \in Processes :
      view[p].kind = "ready" /\ last # None /\ view[p].snapshot.generation = last.generation
      => view[p].snapshot = last

(* The registry never needs Recovery after a crash and never gives two        *)
(* snapshots one generation, as long as no file was damaged (persistMutation, *)
(* resolveProfileRegistry).                                                   *)
RegistryInv == TypeOK /\ CrashNeedsNoRecovery /\ GenerationNamesSnapshot

(* To its callers the registry is one snapshot, replaced by a mutation of     *)
(* itself; damage to a file takes it back one mutation at most.               *)
History ==
  INSTANCE RegistryHistory WITH current <- SnapshotIn(Current)
ImplementsRegistryHistory == History!Spec
=============================================================================
