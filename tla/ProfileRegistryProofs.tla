------------------------- MODULE ProfileRegistryProofs -------------------------
(***************************************************************************)
(* Proofs about the registry of profiles, for any processes, profiles and  *)
(* names and any number of mutations and damages: RegistryInv is part of   *)
(* an inductive invariant, RegistryIInv, under which every step is one of  *)
(* RegistryHistory or leaves it as it is.                                  *)
(***************************************************************************)
EXTENDS ProfileRegistry, FiniteSetTheorems, TLAPS

(* Where the copies stand: the primary is the newest snapshot or damaged, the *)
(* recovery copy is that or the one before, and one of the two can be read.   *)
Copies ==
  /\ last = None => primary = Missing /\ recovery = Missing /\ prior = None
  /\ last # None =>
       /\ primary \in {Missing, Invalid, Valid(last)}
       /\ recovery \in {Missing, Invalid, Valid(last), Valid(prior)}
       /\ IsValid(primary) \/ IsValid(recovery)
       /\ damage = 0 => primary = Valid(last)
  /\ prior # None => prior = last \/ prior.generation < last.generation
  /\ \A s \in {last, prior} \ {None} : WellFormed(s)

(* What the owner of the lock is about to put in place.                       *)
Initializing(p) == last = None /\ next[p] \in FirstSnapshots
Mutating(p) == last # None /\ next[p] \in Mutations(last)
Recovering(p) == last # None /\ ~IsValid(primary) /\ recovery = Valid(next[p])

Promised(p) ==
  /\ at[p] = "keep" => base[p] = last /\ Mutating(p)
  /\ at[p] = "write" =>
       \/ Initializing(p)
       \/ Mutating(p) /\ recovery \in {Missing, Invalid, Valid(last)}
       \/ Recovering(p)

(* A snapshot is no later than the newest; of its generation it is the newest. *)
Past(s) == last # None /\ (s = last \/ s.generation < last.generation)

Remembers(p) ==
  damage = 0 =>
    /\ view[p].kind = "ready" => Past(view[p].snapshot)
    /\ IsValid(glance[p]) => Past(glance[p].snapshot)

(* What a reader would find now was current while it was reading.             *)
Finds(p) == LET found == Select(glance[p], recovery) IN
  at[p] = "reading" /\ damage <= 1 =>
    /\ found.kind = "unusable" \/ SnapshotIn(found) \in during[p]
    /\ IsValid(glance[p]) => glance[p].snapshot \in during[p]
    /\ glance[p] = Missing /\ damage = 0 => None \in during[p]

RegistryIInv ==
  /\ TypeOK
  /\ Copies
  /\ \A p \in Processes : Promised(p) /\ Remembers(p) /\ Finds(p)

-----------------------------------------------------------------------------
(* Snapshots.                                                                 *)
LEMMA SnapshotFacts ==
  ASSUME NEW s \in Snapshots
  PROVE  /\ s.generation \in 1 .. MaxGeneration /\ s.active \in Ids
         /\ DOMAIN s.names \subseteq Ids /\ s.names \in [DOMAIN s.names -> Names]
         /\ s.generation \in Nat /\ s # None
<1>1. PICK g \in 1 .. MaxGeneration, a \in Ids, n \in UNION {[S -> Names] : S \in SUBSET Ids} :
        s = [generation |-> g, active |-> a, names |-> n]
  BY DEF Snapshots
<1>2. PICK S \in SUBSET Ids : n \in [S -> Names]
  BY <1>1
<1>3. s.names = n /\ DOMAIN n = S /\ s.generation = g /\ s.active = a
  BY <1>1, <1>2
<1> QED
  BY <1>1, <1>2, <1>3, RegistryAssumption, NoneIsNoSnapshot

LEMMA IsSnapshot ==
  ASSUME NEW g \in 1 .. MaxGeneration, NEW a \in Ids, NEW S \in SUBSET Ids, NEW n \in [S -> Names],
         NamesDiffer(n)
  PROVE  [generation |-> g, active |-> a, names |-> n] \in Snapshots
<1>1. n \in {m \in UNION {[T -> Names] : T \in SUBSET Ids} : NamesDiffer(m)}
  OBVIOUS
<1> QED
  BY <1>1 DEF Snapshots

LEMMA MutationFacts ==
  ASSUME NEW s \in Snapshots, NEW c \in Mutations(s)
  PROVE  c \in Snapshots /\ WellFormed(c) /\ c.generation = s.generation + 1 /\ c # s
<1> DEFINE Is(a, n) == c = [generation |-> s.generation + 1, active |-> a, names |-> n]
<1>1. WellFormed(c) /\ c.generation <= MaxGeneration
  BY DEF Mutations
<1>2. \E a \in Ids, S \in SUBSET Ids : \E n \in [S -> Names] : Is(a, n)
  <2> USE SnapshotFacts DEF Advanced
  <2>1. CASE c \in Created(s)
    <3>1. PICK id \in Profiles, name \in Names : c = Advanced(s, s.active, Named(s, id, name))
      BY <2>1 DEF Created
    <3>2. Named(s, id, name) \in [DOMAIN s.names \union {id} -> Names]
      BY DEF Named
    <3>3. DOMAIN s.names \union {id} \in SUBSET Ids
      BY DEF Ids
    <3> QED
      BY <3>1, <3>2, <3>3
  <2>2. CASE c \in Renamed(s)
    <3>1. PICK id \in DOMAIN s.names, name \in Names : c = Advanced(s, s.active, Named(s, id, name))
      BY <2>2 DEF Renamed
    <3>2. Named(s, id, name) \in [DOMAIN s.names \union {id} -> Names]
      BY DEF Named
    <3>3. DOMAIN s.names \union {id} \in SUBSET Ids
      OBVIOUS
    <3> QED
      BY <3>1, <3>2, <3>3
  <2>3. CASE c \in Switched(s) \/ c \in Bumped(s)
    BY <2>3 DEF Switched, Bumped
  <2>4. CASE c \in Removed(s)
    <3>1. PICK id \in DOMAIN s.names :
            c = Advanced(s, s.active, [i \in DOMAIN s.names \ {id} |-> s.names[i]])
      BY <2>4 DEF Removed
    <3>2. [i \in DOMAIN s.names \ {id} |-> s.names[i]] \in [DOMAIN s.names \ {id} -> Names]
      OBVIOUS
    <3>3. DOMAIN s.names \ {id} \in SUBSET Ids
      OBVIOUS
    <3> QED
      BY <3>1, <3>2, <3>3
  <2> QED
    BY <2>1, <2>2, <2>3, <2>4 DEF Mutations
<1>3. PICK a \in Ids, S \in SUBSET Ids : \E n \in [S -> Names] : Is(a, n)
  BY <1>2
<1>4. PICK n \in [S -> Names] : Is(a, n)
  BY <1>3
<1>5. c.generation = s.generation + 1 /\ c.names = n
  BY <1>4
<1>6. s.generation + 1 \in 1 .. MaxGeneration
  BY <1>1, <1>5, SnapshotFacts
<1>7. c \in Snapshots
  BY <1>1, <1>4, <1>5, <1>6, IsSnapshot DEF WellFormed
<1> QED
  BY <1>1, <1>5, <1>7, SnapshotFacts

LEMMA FirstFacts ==
  ASSUME NEW c \in FirstSnapshots
  PROVE  c \in Snapshots /\ WellFormed(c)
<1>1. PICK name \in Names :
        c = [generation |-> 1, active |-> Default, names |-> [i \in {Default} |-> name]]
  BY DEF FirstSnapshots
<1> DEFINE n == [i \in {Default} |-> name]
<1>2. n \in [{Default} -> Names] /\ NamesDiffer(n) /\ DOMAIN n = {Default}
  BY DEF NamesDiffer
<1>3. {Default} \in SUBSET Ids /\ Default \in Ids /\ 1 \in 1 .. MaxGeneration
  BY RegistryAssumption DEF Ids
<1>4. c \in Snapshots
  BY <1>1, <1>2, <1>3, IsSnapshot
<1>5. Cardinality({Default}) = 1
  BY FS_Singleton
<1> QED
  BY <1>1, <1>2, <1>4, <1>5, RegistryAssumption DEF WellFormed

-----------------------------------------------------------------------------
(* Files, and what is read in them.                                           *)
LEMMA FileFacts ==
  /\ \A s : IsValid(Valid(s)) /\ Valid(s).snapshot = s
  /\ ~IsValid(Missing) /\ ~IsValid(Invalid) /\ Missing # Invalid
  /\ \A s : Valid(s) # Missing /\ Valid(s) # Invalid
  /\ {Missing, Invalid} \subseteq Files
  /\ \A s \in Snapshots : Valid(s) \in Files
  /\ \A f \in Files : IsValid(f) => f.snapshot \in Snapshots /\ f = Valid(f.snapshot)
  /\ \A f \in Files : ~IsValid(f) => f \in {Missing, Invalid}
<1>1. \A s : IsValid(Valid(s)) /\ Valid(s).snapshot = s
  BY DEF IsValid, Valid
<1>2. ~IsValid(Missing) /\ ~IsValid(Invalid) /\ Missing # Invalid
  BY DEF IsValid, Missing, Invalid
<1>3. \A s : Valid(s) # Missing /\ Valid(s) # Invalid
  BY <1>1, <1>2
<1>4. {Missing, Invalid} \subseteq Files /\ \A s \in Snapshots : Valid(s) \in Files
  BY DEF Files
<1>5. \A f \in Files : f \in {Missing, Invalid} \/ \E s \in Snapshots : f = Valid(s)
  BY DEF Files
<1> QED
  BY <1>1, <1>2, <1>3, <1>4, <1>5

(* Records of what a reading comes to.                                        *)
LEMMA ReadyFacts ==
  ASSUME NEW s, NEW src
  PROVE  LET f == [kind |-> "ready", snapshot |-> s, source |-> src] IN
         /\ f.kind = "ready" /\ f.snapshot = s /\ f.source = src /\ SnapshotIn(f) = s
         /\ s \in Snapshots /\ src \in {"primary", "recovery"} => f \in Inspections
BY DEF SnapshotIn, Inspections

LEMMA NothingFacts ==
  /\ Nothing \in Inspections /\ Nothing.kind = "setup-required" /\ SnapshotIn(Nothing) = None
  /\ \A i \in Inspections : i.kind # "unusable"
  /\ \A i \in Inspections : i.kind = "ready" => i.snapshot \in Snapshots
  /\ \A i \in Inspections : SnapshotIn(i) \in Snapshots \union {None}
BY DEF Nothing, Inspections, SnapshotIn

LEMMA SelectFacts ==
  ASSUME NEW f \in Files, NEW r \in Files, NEW found, found = Select(f, r)
  PROVE  /\ found.kind = "unusable" \/ found \in Inspections
         /\ SnapshotIn(found) \in Snapshots \union {None}
         /\ f = Missing /\ r = Missing <=> found = Nothing
         /\ found.kind = "ready" =>
              \/ IsValid(f) /\ found.snapshot = f.snapshot
              \/ IsValid(r) /\ found.snapshot = r.snapshot
<1> DEFINE unusable == [kind |-> "unusable"]
           Ready(x, src) == [kind |-> "ready", snapshot |-> x.snapshot, source |-> src]
<1>1. unusable.kind = "unusable" /\ SnapshotIn(unusable) = None
  BY DEF SnapshotIn
<1>2. \/ found = Nothing /\ f = Missing /\ r = Missing
      \/ found = unusable /\ ~(f = Missing /\ r = Missing)
      \/ IsValid(f) /\ found = Ready(f, "primary") /\ f # Missing
      \/ IsValid(r) /\ found = Ready(r, "recovery") /\ r # Missing
  BY FileFacts DEF Select
<1>3. CASE found = Nothing
  BY <1>1, <1>2, <1>3, NothingFacts, ReadyFacts
<1>4. CASE found = unusable /\ ~(f = Missing /\ r = Missing)
  BY <1>1, <1>4, NothingFacts
<1>5. CASE IsValid(f) /\ found = Ready(f, "primary") /\ f # Missing
  BY <1>5, FileFacts, NothingFacts, ReadyFacts
<1>6. CASE IsValid(r) /\ found = Ready(r, "recovery") /\ r # Missing
  BY <1>6, FileFacts, NothingFacts, ReadyFacts
<1> QED
  BY <1>2, <1>3, <1>4, <1>5, <1>6

(* A primary is what is read if the recovery copy is no newer; else that is.  *)
LEMMA SelectPrimary ==
  ASSUME NEW l \in Snapshots, NEW r \in Files,
         IsValid(r) => r.snapshot = l \/ r.snapshot.generation < l.generation
  PROVE  Select(Valid(l), r) = [kind |-> "ready", snapshot |-> l, source |-> "primary"]
<1>1. IsValid(r) => r.snapshot \in Snapshots /\ r.snapshot.generation \in Nat
  BY FileFacts, SnapshotFacts
<1>2. l.generation \in Nat
  BY SnapshotFacts
<1>3. ~Conflict(Valid(l), r)
  BY <1>1, <1>2, FileFacts DEF Conflict
<1> QED
  BY <1>1, <1>2, <1>3, FileFacts DEF Select

LEMMA SelectRecovery ==
  ASSUME NEW s \in Snapshots, NEW f \in {Missing, Invalid}
  PROVE  Select(f, Valid(s)) = [kind |-> "ready", snapshot |-> s, source |-> "recovery"]
BY FileFacts DEF Select, Conflict

(* What every caller is shown.                                                *)
LEMMA Shown ==
  ASSUME TypeOK, Copies
  PROVE  /\ last = None => Current = Nothing
         /\ last # None /\ IsValid(primary) =>
              /\ primary = Valid(last)
              /\ Current = [kind |-> "ready", snapshot |-> last, source |-> "primary"]
         /\ last # None /\ ~IsValid(primary) =>
              \E s \in {last, prior} \ {None} :
                /\ recovery = Valid(s)
                /\ Current = [kind |-> "ready", snapshot |-> s, source |-> "recovery"]
<1>1. {last, prior} \subseteq Snapshots \union {None} /\ primary \in Files /\ recovery \in Files
  BY DEF TypeOK
<1>2. last = None => Current = Nothing
  BY DEF Copies, Current, Select
<1>3. ASSUME last # None, IsValid(primary)
      PROVE  /\ primary = Valid(last)
             /\ Current = [kind |-> "ready", snapshot |-> last, source |-> "primary"]
  <2>1. primary = Valid(last)
    BY <1>3, FileFacts DEF Copies
  <2>2. IsValid(recovery) => recovery.snapshot = last \/ recovery.snapshot.generation < last.generation
    <3> SUFFICES ASSUME IsValid(recovery)
                 PROVE  recovery.snapshot = last \/ recovery.snapshot.generation < last.generation
      OBVIOUS
    <3>1. recovery \in {Valid(last), Valid(prior)}
      BY <1>3, FileFacts DEF Copies
    <3>2. recovery.snapshot \in {last, prior} /\ recovery.snapshot # None
      BY <1>1, <3>1, FileFacts, NoneIsNoSnapshot
    <3> QED
      BY <3>2 DEF Copies
  <2>3. last \in Snapshots
    BY <1>1, <1>3
  <2> QED
    BY <1>1, <2>1, <2>2, <2>3, SelectPrimary DEF Current
<1>4. ASSUME last # None, ~IsValid(primary)
      PROVE  \E s \in {last, prior} \ {None} :
               /\ recovery = Valid(s)
               /\ Current = [kind |-> "ready", snapshot |-> s, source |-> "recovery"]
  <2>1. primary \in {Missing, Invalid} /\ IsValid(recovery)
    BY <1>4, FileFacts DEF Copies
  <2>2. recovery \in {Valid(last), Valid(prior)}
    BY <1>4, <2>1, FileFacts DEF Copies
  <2>3. PICK s \in {last, prior} : recovery = Valid(s)
    BY <2>2
  <2>4. s \in Snapshots /\ s # None
    BY <1>1, <2>1, <2>3, FileFacts, NoneIsNoSnapshot
  <2> QED
    BY <2>1, <2>3, <2>4, SelectRecovery DEF Current
<1> QED
  BY <1>2, <1>3, <1>4

-----------------------------------------------------------------------------
Moves(p) ==
  \/ ReadPrimary(p) \/ ReadRecovery(p)
  \/ Acquire(p) \/ Load(p) \/ Keep(p) \/ Write(p) \/ WriteFails(p) \/ Release(p)
  \/ Crash(p) \/ Start(p)

(* What a call has found to write when it leaves the reading under the lock.  *)
LEMMA LoadFacts ==
  ASSUME RegistryIInv, NEW p \in Processes, Load(p)
  PROVE  \/ /\ at' = [at EXCEPT ![p] = "write"] /\ base' = base
            /\ \E new \in Snapshots :
                 /\ next' = [next EXCEPT ![p] = new]
                 /\ \/ last = None /\ new \in FirstSnapshots
                    \/ last # None /\ ~IsValid(primary) /\ recovery = Valid(new)
         \/ /\ at' = [at EXCEPT ![p] = "keep"] /\ last # None
            /\ base' = [base EXCEPT ![p] = last]
            /\ \E new \in Mutations(last) : next' = [next EXCEPT ![p] = new]
         \/ at' = [at EXCEPT ![p] = "release"] /\ UNCHANGED <<base, next>>
<1> USE DEF RegistryIInv
<1>1. {last, prior} \subseteq Snapshots \union {None}
  BY DEF TypeOK
<1>2. CASE \E new \in FirstSnapshots \union {SnapshotIn(Current)} :
             /\ Initializes(Current, new) \/ Recovers(p, Current, new)
             /\ next' = [next EXCEPT ![p] = new]
             /\ Goto(p, "write") /\ UNCHANGED base
  <2>1. PICK new : /\ Initializes(Current, new) \/ Recovers(p, Current, new)
                   /\ next' = [next EXCEPT ![p] = new]
                   /\ Goto(p, "write") /\ UNCHANGED base
    BY <1>2
  <2>2. CASE Initializes(Current, new)
    <3>1. last = None
      BY <2>2, Shown, ReadyFacts, NothingFacts DEF Initializes
    <3> QED
      BY <2>1, <2>2, <3>1, FirstFacts DEF Initializes, Goto
  <2>3. CASE Recovers(p, Current, new)
    <3>1. Current.kind = "ready" /\ Current.source = "recovery" /\ new = Current.snapshot
      BY <2>3 DEF Recovers, Expected
    <3>2. last # None /\ ~IsValid(primary)
      BY <3>1, Shown, ReadyFacts, NothingFacts
    <3>3. recovery = Valid(new) /\ new \in Snapshots
      BY <1>1, <3>1, <3>2, Shown, ReadyFacts
    <3> QED
      BY <2>1, <3>2, <3>3 DEF Goto
  <2> QED
    BY <2>1, <2>2, <2>3
<1>3. CASE \E new : /\ Mutates(p, Current, new)
                    /\ base' = [base EXCEPT ![p] = Current.snapshot]
                    /\ next' = [next EXCEPT ![p] = new]
                    /\ Goto(p, "keep")
  <2>1. PICK new : /\ Mutates(p, Current, new)
                   /\ base' = [base EXCEPT ![p] = Current.snapshot]
                   /\ next' = [next EXCEPT ![p] = new]
                   /\ Goto(p, "keep")
    BY <1>3
  <2>2. Current.kind = "ready" /\ Current.source = "primary" /\ new \in Mutations(Current.snapshot)
    BY <2>1 DEF Mutates, Expected
  <2>3. last # None /\ Current.snapshot = last
    BY <2>2, Shown, ReadyFacts, NothingFacts
  <2> QED
    BY <2>1, <2>2, <2>3 DEF Goto
<1>4. CASE Goto(p, "release") /\ UNCHANGED <<base, next>>
  BY <1>4 DEF Goto
<1> QED
  BY <1>2, <1>3, <1>4 DEF Load

(* What is put in place is a snapshot.                                        *)
LEMMA WriteFacts ==
  ASSUME RegistryIInv, NEW p \in Processes, at[p] = "write"
  PROVE  next[p] \in Snapshots /\ WellFormed(next[p])
<1>1. last # None => last \in Snapshots
  BY DEF RegistryIInv, TypeOK
<1>2. CASE Initializing(p)
  BY <1>2, FirstFacts DEF Initializing
<1>3. CASE Mutating(p)
  BY <1>1, <1>3, MutationFacts DEF Mutating
<1>4. CASE Recovering(p)
  <2>1. recovery \in Files /\ IsValid(recovery) /\ recovery.snapshot = next[p]
    BY <1>4, FileFacts DEF Recovering, RegistryIInv, TypeOK
  <2> QED
    BY <2>1, FileFacts DEF RegistryIInv, TypeOK
<1> QED
  BY <1>2, <1>3, <1>4 DEF RegistryIInv, Promised

LEMMA ObservedType ==
  ASSUME Observed, during \in [Processes -> SUBSET (Snapshots \union {None})],
         primary' \in Files, recovery' \in Files
  PROVE  during' \in [Processes -> SUBSET (Snapshots \union {None})]
<1>1. SnapshotIn(Select(primary', recovery')) \in Snapshots \union {None}
  BY SelectFacts
<1> QED
  BY <1>1 DEF Observed

LEMMA TypeStep ==
  ASSUME RegistryIInv, Next
  PROVE  TypeOK'
<1>1. TypeOK /\ Copies
  BY DEF RegistryIInv
<1>2. None \notin Processes /\ "stale" \notin Processes
  BY RegistryAssumption
<1>3. SnapshotIn(Current) \in Snapshots \union {None}
  BY <1>1, SelectFacts DEF TypeOK, Current
<1>4. last # None => last \in Snapshots /\ WellFormed(last)
  BY <1>1 DEF TypeOK, Copies
<1> USE FileFacts, NothingFacts DEF Places
<1>5. ASSUME NEW p \in Processes, ReadPrimary(p)
      PROVE  TypeOK'
  BY <1>1, <1>2, <1>3, <1>5 DEF ReadPrimary, TypeOK, Goto, files, history
<1>6. ASSUME NEW p \in Processes, ReadRecovery(p)
      PROVE  TypeOK'
  <2>1. Select(glance[p], recovery).kind = "unusable" \/ Select(glance[p], recovery) \in Inspections
    BY <1>1, SelectFacts DEF TypeOK
  <2>2. view' \in [Processes -> Inspections]
    BY <1>1, <1>6, <2>1 DEF ReadRecovery, TypeOK
  <2> QED
    BY <1>1, <1>2, <1>6, <2>2 DEF ReadRecovery, TypeOK, Goto, files, history
<1>7. ASSUME NEW p \in Processes, Acquire(p)
      PROVE  TypeOK'
  BY <1>1, <1>2, <1>7 DEF Acquire, TypeOK, Goto, files, history
<1>8. ASSUME NEW p \in Processes, Load(p)
      PROVE  TypeOK'
  <2>1. at[p] = "load" /\ UNCHANGED <<files, lock, view, glance, damage, history, during>>
    BY <1>8 DEF Load
  <2>2. /\ base' \in [Processes -> Snapshots \union {None}]
        /\ next' \in [Processes -> Snapshots \union {None}]
    BY <1>1, <1>4, <1>8, LoadFacts, MutationFacts DEF TypeOK
  <2>3. \E place \in {"write", "keep", "release"} : at' = [at EXCEPT ![p] = place]
    BY <1>8, LoadFacts
  <2> QED
    BY <1>1, <1>2, <2>1, <2>2, <2>3 DEF TypeOK, files, history
<1>9. ASSUME NEW p \in Processes, Keep(p)
      PROVE  TypeOK'
  <2>1. base[p] = last /\ last # None
    BY <1>9 DEF RegistryIInv, Promised, Mutating, Keep
  <2>2. primary' = primary /\ recovery' = Valid(last) /\ recovery' \in Files
    BY <1>4, <1>9, <2>1 DEF Keep
  <2>3. during' \in [Processes -> SUBSET (Snapshots \union {None})]
    BY <1>1, <1>9, <2>2, ObservedType DEF Keep, TypeOK
  <2>4. \A file \in {primary', recovery'} : IsValid(file) => WellFormed(file.snapshot)
    BY <1>1, <1>4, <2>1, <2>2 DEF TypeOK
  <2>5. /\ lock' = lock /\ at[p] = "keep" /\ at' \in [Processes -> Places]
        /\ \A q \in Processes : at'[q] \in {"load", "keep", "write", "release"} => lock' = q
    BY <1>1, <1>9 DEF Keep, TypeOK
  <2> QED
    BY <1>1, <1>9, <2>2, <2>3, <2>4, <2>5 DEF Keep, TypeOK, history
<1>10. ASSUME NEW p \in Processes, Write(p)
       PROVE  TypeOK'
  <2>1. next[p] \in Snapshots /\ WellFormed(next[p])
    BY <1>10, WriteFacts DEF Write
  <2>2. primary' = Valid(next[p]) /\ recovery' = recovery /\ primary' \in Files
    BY <1>10, <2>1 DEF Write
  <2>3. during' \in [Processes -> SUBSET (Snapshots \union {None})]
    BY <1>1, <1>10, <2>2, ObservedType DEF Write, TypeOK
  <2>4. /\ last' \in Snapshots \union {None} /\ prior' \in Snapshots \union {None}
    BY <1>1, <1>10, <2>1 DEF Write, TypeOK
  <2>5. \A file \in {primary', recovery'} : IsValid(file) => WellFormed(file.snapshot)
    BY <1>1, <2>1, <2>2 DEF TypeOK
  <2>6. /\ lock' = lock /\ at[p] = "write" /\ at' \in [Processes -> Places]
        /\ \A q \in Processes : at'[q] \in {"load", "keep", "write", "release"} => lock' = q
    BY <1>1, <1>10 DEF Write, TypeOK, Goto
  <2> QED
    BY <1>1, <1>10, <2>2, <2>3, <2>4, <2>5, <2>6 DEF Write, TypeOK
<1>11. ASSUME NEW p \in Processes, WriteFails(p) \/ Release(p)
       PROVE  TypeOK'
  BY <1>1, <1>2, <1>11 DEF WriteFails, Release, TypeOK, Goto, files, history
<1>12. ASSUME NEW p \in Processes, Crash(p)
       PROVE  TypeOK'
  BY <1>1, <1>2, <1>12 DEF Crash, TypeOK, Goto, files, history
<1>13. ASSUME NEW p \in Processes, Start(p)
       PROVE  TypeOK'
  BY <1>1, <1>2, <1>13 DEF Start, TypeOK, Goto, files, history
<1>14. CASE DamageFile
  <2>1. primary' \in Files /\ recovery' \in Files
    BY <1>1, <1>14 DEF DamageFile, TypeOK
  <2>2. during' \in [Processes -> SUBSET (Snapshots \union {None})]
    BY <1>1, <1>14, <2>1, ObservedType DEF DamageFile, TypeOK
  <2>3. damage' \in 0 .. MaxDamage
    BY <1>1, <1>14, RegistryAssumption DEF DamageFile, TypeOK
  <2>4. \A file \in {primary', recovery'} : IsValid(file) => file \in {primary, recovery}
    BY <1>14 DEF DamageFile
  <2> QED
    BY <1>1, <1>14, <2>1, <2>2, <2>3, <2>4 DEF DamageFile, TypeOK, history
<1> QED
  BY <1>5, <1>6, <1>7, <1>8, <1>9, <1>10, <1>11, <1>12, <1>13, <1>14 DEF Next

-----------------------------------------------------------------------------
(* One step, for one process.                                                 *)
Steady(q) == Promised(q) /\ Remembers(q) /\ Finds(q)

(* One process at a time is between load and release.                         *)
LEMMA Lone ==
  ASSUME TypeOK, NEW p \in Processes, NEW q \in Processes, p # q,
         at[p] \in {"load", "keep", "write", "release"}
  PROVE  at[q] \notin {"load", "keep", "write", "release"}
BY DEF TypeOK

LEMMA OthersKept ==
  ASSUME RegistryIInv, NEW q \in Processes, UNCHANGED <<files, damage, history>>,
         at'[q] = at[q], view'[q] = view[q], glance'[q] = glance[q], base'[q] = base[q],
         next'[q] = next[q], during'[q] = during[q]
  PROVE  Steady(q)'
<1>1. Steady(q)
  BY DEF RegistryIInv, Steady
<1>2. primary' = primary /\ recovery' = recovery /\ last' = last /\ prior' = prior /\ damage' = damage
  BY DEF files, history
<1>3. Promised(q)'
  BY <1>1, <1>2 DEF Steady, Promised, Initializing, Mutating, Recovering
<1>4. Remembers(q)'
  BY <1>1, <1>2 DEF Steady, Remembers, Past
<1>5. Finds(q)'
  BY <1>1, <1>2 DEF Steady, Finds
<1> QED
  BY <1>3, <1>4, <1>5 DEF Steady

(* What other processes do to the files, a reader sees.                       *)
LEMMA ObservedGrows ==
  ASSUME Observed, NEW q \in Processes, at[q] = "reading"
  PROVE  during'[q] = during[q] \union {SnapshotIn(Select(primary', recovery'))}
BY DEF Observed

LEMMA CopiesSnapshots ==
  ASSUME TypeOK, Copies
  PROVE  /\ last # None => last \in Snapshots /\ last.generation \in Nat
         /\ prior # None => prior \in Snapshots /\ prior.generation \in Nat
         /\ IsValid(primary) => last # None /\ primary = Valid(last)
         /\ IsValid(recovery) =>
              /\ last # None /\ recovery.snapshot \in {last, prior} \ {None}
              /\ recovery = Valid(recovery.snapshot)
<1>1. /\ last # None => last \in Snapshots /\ last.generation \in Nat
      /\ prior # None => prior \in Snapshots /\ prior.generation \in Nat
  BY SnapshotFacts DEF TypeOK
<1>2. IsValid(primary) => last # None /\ primary = Valid(last)
  BY FileFacts DEF Copies
<1>3. IsValid(recovery) => last # None /\ recovery \in {Valid(last), Valid(prior)}
  BY FileFacts DEF Copies
<1>4. IsValid(recovery) => recovery.snapshot \in Snapshots
  BY FileFacts DEF TypeOK
<1> QED
  BY <1>1, <1>2, <1>3, <1>4, FileFacts, NoneIsNoSnapshot

LEMMA ReadPrimaryStep ==
  ASSUME RegistryIInv, NEW p \in Processes, ReadPrimary(p)
  PROVE  Steady(p)'
<1>1. TypeOK /\ Copies /\ Steady(p)
  BY DEF RegistryIInv, Steady
<1>2. /\ at'[p] = "reading" /\ glance'[p] = primary /\ during'[p] = {SnapshotIn(Current)}
      /\ view' = view /\ primary' = primary /\ recovery' = recovery /\ last' = last
      /\ damage' = damage
  BY <1>1 DEF ReadPrimary, TypeOK, Goto, files, history
<1>3. IsValid(primary) => last # None /\ primary.snapshot = last /\ SnapshotIn(Current) = last
  BY <1>1, CopiesSnapshots, Shown, FileFacts, ReadyFacts
<1>4. primary = Missing /\ damage = 0 => SnapshotIn(Current) = None
  BY <1>1, Shown, FileFacts, NothingFacts DEF Copies
<1>5. Remembers(p)'
  BY <1>1, <1>2, <1>3 DEF Steady, Remembers, Past
<1>6. Finds(p)'
  BY <1>2, <1>3, <1>4 DEF Finds, Current
<1> QED
  BY <1>2, <1>5, <1>6 DEF Steady, Promised

LEMMA ReadRecoveryStep ==
  ASSUME RegistryIInv, NEW p \in Processes, ReadRecovery(p)
  PROVE  Steady(p)'
<1>1. TypeOK /\ Copies /\ Steady(p)
  BY DEF RegistryIInv, Steady
<1>2. PICK found : found = Select(glance[p], recovery)
  OBVIOUS
<1>3. /\ at'[p] = "idle" /\ glance'[p] = Missing
      /\ view'[p] = IF found.kind = "unusable" THEN view[p] ELSE found
      /\ last' = last /\ damage' = damage
  BY <1>1, <1>2 DEF ReadRecovery, TypeOK, Goto, history
<1>4. found.kind = "ready" =>
        \/ IsValid(glance[p]) /\ found.snapshot = glance[p].snapshot
        \/ IsValid(recovery) /\ found.snapshot = recovery.snapshot
  BY <1>1, <1>2, SelectFacts DEF TypeOK
<1>5. IsValid(recovery) => Past(recovery.snapshot)
  BY <1>1, CopiesSnapshots DEF Past, Copies
<1>6. damage = 0 /\ view'[p].kind = "ready" => Past(view'[p].snapshot)
  BY <1>1, <1>3, <1>4, <1>5 DEF Steady, Remembers
<1> QED
  BY <1>3, <1>6, FileFacts DEF Steady, Promised, Remembers, Past, Finds

LEMMA LoadStep ==
  ASSUME RegistryIInv, NEW p \in Processes, Load(p)
  PROVE  Steady(p)'
<1>1. TypeOK /\ Steady(p)
  BY DEF RegistryIInv, Steady
<1>2. /\ view' = view /\ glance' = glance /\ primary' = primary /\ recovery' = recovery
      /\ last' = last /\ damage' = damage
  BY DEF Load, files, history
<1>3. at'[p] \in {"keep", "write", "release"}
  BY <1>1, LoadFacts DEF TypeOK
<1>4. Promised(p)'
  BY <1>1, <1>2, LoadFacts DEF TypeOK, Promised, Initializing, Mutating, Recovering
<1> QED
  BY <1>1, <1>2, <1>3, <1>4 DEF Steady, Remembers, Past, Finds

LEMMA RestStep ==
  ASSUME RegistryIInv, NEW p \in Processes,
         Acquire(p) \/ WriteFails(p) \/ Release(p) \/ Crash(p) \/ Start(p)
  PROVE  Steady(p)'
<1>1. TypeOK /\ Steady(p)
  BY DEF RegistryIInv, Steady
<1>2. /\ at'[p] \notin {"keep", "write", "reading"}
      /\ \/ view'[p] = view[p] /\ glance'[p] = glance[p]
         \/ view'[p] = Nothing /\ glance'[p] = Missing
      /\ last' = last /\ damage' = damage
  BY <1>1 DEF Acquire, WriteFails, Release, Crash, Start, TypeOK, Goto, history
<1>3. Remembers(p)'
  BY <1>1, <1>2, FileFacts, NothingFacts DEF Steady, Remembers, Past
<1> QED
  BY <1>2, <1>3 DEF Steady, Promised, Finds

(* Steps that leave the files alone.                                          *)
LEMMA QuietStep ==
  ASSUME RegistryIInv, NEW p \in Processes, Moves(p), ~Keep(p), ~Write(p)
  PROVE  Copies' /\ \A q \in Processes : Steady(q)'
<1>1. /\ UNCHANGED <<files, damage, history>>
      /\ \A q \in Processes \ {p} :
           /\ at'[q] = at[q] /\ view'[q] = view[q] /\ glance'[q] = glance[q]
           /\ base'[q] = base[q] /\ next'[q] = next[q] /\ during'[q] = during[q]
  <2>1. CASE Load(p)
    <3>1. /\ UNCHANGED <<files, damage, history, view, glance, during>>
      BY <2>1 DEF Load
    <3> QED
      BY <2>1, <3>1, LoadFacts DEF RegistryIInv, TypeOK
  <2>2. CASE ~Load(p)
    BY <2>2 DEF RegistryIInv, TypeOK, Moves, ReadPrimary, ReadRecovery, Acquire, WriteFails, Release,
       Crash, Start, Goto
  <2> QED
    BY <2>1, <2>2
<1>2. Copies'
  BY <1>1 DEF files, history, RegistryIInv, Copies
<1>3. Steady(p)'
  BY ReadPrimaryStep, ReadRecoveryStep, LoadStep, RestStep DEF Moves
<1>4. ASSUME NEW q \in Processes \ {p}
      PROVE  Steady(q)'
  BY <1>1, OthersKept
<1> QED
  BY <1>2, <1>3, <1>4

(* A reader after the recovery copy became the newest snapshot, or was        *)
(* damaged.                                                                   *)
LEMMA KeptFinds ==
  ASSUME TypeOK, NEW q \in Processes, Finds(q), Observed, at'[q] = at[q], glance'[q] = glance[q],
         damage' = damage, last \in Snapshots, recovery' = Valid(last),
         SnapshotIn(Select(primary', recovery')) = last
  PROVE  Finds(q)'
<1> SUFFICES ASSUME at[q] = "reading", damage <= 1
             PROVE  Finds(q)'
  BY DEF Finds
<1>1. during'[q] = during[q] \union {last}
  BY ObservedGrows
<1>2. PICK found : found = Select(glance[q], recovery')
  OBVIOUS
<1>3. glance[q] \in Files /\ recovery' \in Files /\ IsValid(recovery') /\ recovery'.snapshot = last
  BY FileFacts DEF TypeOK
<1>4. IsValid(glance[q]) => glance[q].snapshot \in during[q]
  BY DEF Finds
<1>5. found # Nothing
  BY <1>2, <1>3, SelectFacts, FileFacts
<1>6. found.kind = "unusable" \/ found.kind = "ready"
  BY <1>2, <1>3, <1>5, SelectFacts DEF Inspections
<1>7. found.kind = "ready" => SnapshotIn(found) \in during'[q]
  BY <1>1, <1>2, <1>3, <1>4, SelectFacts DEF SnapshotIn
<1> QED
  BY <1>1, <1>2, <1>4, <1>6, <1>7 DEF Finds

LEMMA KeepStep ==
  ASSUME RegistryIInv, NEW p \in Processes, Keep(p)
  PROVE  Copies' /\ \A q \in Processes : Steady(q)'
<1>1. TypeOK /\ Copies /\ \A q \in Processes : Steady(q)
  BY DEF RegistryIInv, Steady
<1>2. /\ at[p] = "keep" /\ base[p] = last /\ Mutating(p)
      /\ at' \in {[at EXCEPT ![p] = "write"], [at EXCEPT ![p] = "release"]}
      /\ primary' = primary /\ recovery' = Valid(last) /\ last' = last /\ prior' = prior
      /\ damage' = damage /\ next' = next /\ view' = view /\ glance' = glance /\ Observed
  BY <1>1 DEF Keep, Steady, Promised, history
<1>3. last # None /\ last \in Snapshots
  BY <1>1, <1>2, CopiesSnapshots DEF Mutating
<1>4. Copies'
  BY <1>1, <1>2, <1>3, FileFacts DEF Copies
<1>5. SnapshotIn(Select(primary', recovery')) = last
  <2>1. CASE IsValid(primary)
    BY <1>1, <1>2, <1>3, <2>1, CopiesSnapshots, SelectPrimary, FileFacts, ReadyFacts
  <2>2. CASE ~IsValid(primary)
    <3>1. primary \in {Missing, Invalid}
      BY <1>1, <2>2, FileFacts DEF TypeOK
    <3> QED
      BY <1>2, <1>3, <3>1, SelectRecovery, ReadyFacts
  <2> QED
    BY <2>1, <2>2
<1>6. ASSUME NEW q \in Processes
      PROVE  Steady(q)'
  <2>1. q # p => at'[q] = at[q] /\ at[q] \notin {"keep", "write"}
    BY <1>1, <1>2, Lone DEF TypeOK
  <2>2. q = p => at'[q] \in {"write", "release"} /\ at[q] = "keep"
    BY <1>1, <1>2 DEF TypeOK
  <2>3. Promised(q)'
    BY <1>2, <2>1, <2>2 DEF Promised, Mutating
  <2>4. Remembers(q)'
    BY <1>1, <1>2 DEF Steady, Remembers, Past
  <2>5. Finds(q)'
    <3>1. CASE at'[q] = "reading"
      BY <1>1, <1>2, <1>3, <1>5, <2>1, <2>2, <3>1, KeptFinds DEF Steady
    <3>2. CASE at'[q] # "reading"
      BY <3>2 DEF Finds
    <3> QED
      BY <3>1, <3>2
  <2> QED
    BY <2>3, <2>4, <2>5 DEF Steady
<1> QED
  BY <1>4, <1>6

(* What is shown after a write, and what was shown before it.                 *)
LEMMA WriteCopies ==
  ASSUME RegistryIInv, NEW p \in Processes, Write(p)
  PROVE  /\ Copies'
         /\ last' = next[p] /\ last' # None
         /\ \/ Initializing(p) /\ Current = Nothing /\ prior' = prior
            \/ Mutating(p) /\ SnapshotIn(Current) = last /\ prior' = last
            \/ Recovering(p) /\ SnapshotIn(Current) = next[p] /\ prior' = next[p] /\ damage # 0
<1>1. TypeOK /\ Copies /\ Promised(p) /\ at[p] = "write"
  BY DEF RegistryIInv, Write
<1>2. next[p] \in Snapshots /\ WellFormed(next[p]) /\ next[p] # None
  BY <1>1, WriteFacts, SnapshotFacts
<1>3. /\ primary' = Valid(next[p]) /\ recovery' = recovery /\ last' = next[p] /\ damage' = damage
      /\ prior' = IF SnapshotIn(Current) = next[p] THEN next[p] ELSE last
  BY DEF Write
<1>4. CASE Initializing(p)
  <2>1. last = None /\ Current = Nothing /\ SnapshotIn(Current) = None
    BY <1>1, <1>4, Shown, NothingFacts DEF Initializing
  <2>2. prior' = None /\ prior = None /\ recovery = Missing
    BY <1>1, <1>2, <1>3, <2>1 DEF Copies
  <2>3. Copies'
    BY <1>2, <1>3, <2>2, FileFacts DEF Copies
  <2> QED
    BY <1>2, <1>3, <1>4, <2>1, <2>2, <2>3
<1>5. CASE Mutating(p) /\ recovery \in {Missing, Invalid, Valid(last)}
  <2>1. last # None /\ last \in Snapshots
    BY <1>1, <1>5, CopiesSnapshots DEF Mutating
  <2>2. next[p].generation = last.generation + 1 /\ next[p] # last
    BY <1>5, <2>1, MutationFacts DEF Mutating
  <2>3. SnapshotIn(Current) = last
    <3>1. ~IsValid(primary) => recovery = Valid(last)
      BY <1>1, <1>5, <2>1, FileFacts DEF Copies
    <3> QED
      BY <1>1, <2>1, <3>1, Shown, ReadyFacts, FileFacts
  <2>4. prior' = last
    BY <1>3, <2>2, <2>3
  <2>5. last.generation < next[p].generation
    BY <2>1, <2>2, SnapshotFacts
  <2>6. Copies'
    BY <1>1, <1>2, <1>3, <1>5, <2>1, <2>4, <2>5, FileFacts DEF Copies
  <2> QED
    BY <1>2, <1>3, <1>5, <2>3, <2>4, <2>6
<1>6. CASE Recovering(p)
  <2>1. SnapshotIn(Current) = next[p]
    BY <1>1, <1>6, Shown, ReadyFacts, FileFacts DEF Recovering
  <2>2. prior' = next[p]
    BY <1>3, <2>1
  <2>3. Copies'
    BY <1>2, <1>3, <1>6, <2>2, FileFacts DEF Copies, Recovering
  <2>4. damage # 0
    BY <1>1, <1>6, FileFacts DEF Copies, Recovering
  <2> QED
    BY <1>2, <1>3, <1>6, <2>1, <2>2, <2>3, <2>4
<1> QED
  BY <1>1, <1>4, <1>5, <1>6 DEF Promised

LEMMA WriteStep ==
  ASSUME RegistryIInv, NEW p \in Processes, Write(p)
  PROVE  Copies' /\ \A q \in Processes : Steady(q)'
<1>1. TypeOK /\ Copies /\ \A q \in Processes : Steady(q)
  BY DEF RegistryIInv, Steady
<1>2. /\ at[p] = "write" /\ at' = [at EXCEPT ![p] = "release"] /\ recovery' = recovery
      /\ damage' = damage /\ view' = view /\ glance' = glance /\ Observed
  BY DEF Write, Goto
<1>3. ASSUME NEW s \in Snapshots, damage = 0, Past(s)
      PROVE  Past(s)'
  <2>1. last # None /\ Mutating(p)
    BY <1>3, WriteCopies DEF Past, Initializing
  <2>2. last \in Snapshots /\ last' = next[p] /\ last' # None
    BY <1>1, <2>1, CopiesSnapshots, WriteCopies
  <2>3. last'.generation = last.generation + 1 /\ last.generation \in Nat
    BY <2>1, <2>2, MutationFacts, SnapshotFacts DEF Mutating
  <2>4. CASE s = last
    <3>1. s.generation < last'.generation
      BY <2>3, <2>4
    <3> QED
      BY <2>2, <3>1 DEF Past
  <2>5. CASE s.generation < last.generation /\ s.generation \in Nat
    BY <2>2, <2>3, <2>5 DEF Past
  <2> QED
    BY <1>3, <2>4, <2>5, SnapshotFacts DEF Past
<1>4. ASSUME NEW q \in Processes
      PROVE  Steady(q)'
  <2>1. at'[q] \notin {"keep", "write"} /\ (at'[q] = "reading" => at[q] = "reading")
    BY <1>1, <1>2, Lone DEF TypeOK
  <2>2. Remembers(q)'
    <3>1. /\ view[q].kind = "ready" => view[q].snapshot \in Snapshots
          /\ IsValid(glance[q]) => glance[q].snapshot \in Snapshots
      BY <1>1, NothingFacts, FileFacts DEF TypeOK
    <3> QED
      BY <1>1, <1>2, <1>3, <3>1 DEF Steady, Remembers
  <2>3. Finds(q)'
    <3> SUFFICES ASSUME at[q] = "reading"
                 PROVE  Finds(q)'
      BY <2>1 DEF Finds
    <3>1. during[q] \subseteq during'[q]
      BY <1>2, ObservedGrows
    <3> QED
      BY <1>1, <1>2, <3>1 DEF Steady, Finds
  <2> QED
    BY <2>1, <2>2, <2>3 DEF Steady, Promised
<1> QED
  BY <1>4, WriteCopies

LEMMA DamageStep ==
  ASSUME RegistryIInv, DamageFile
  PROVE  Copies' /\ \A q \in Processes : Steady(q)'
<1>1. TypeOK /\ Copies /\ \A q \in Processes : Steady(q)
  BY DEF RegistryIInv, Steady
<1>2. /\ last' = last /\ prior' = prior /\ at' = at /\ view' = view /\ glance' = glance
      /\ base' = base /\ next' = next /\ damage' = damage + 1 /\ Observed
      /\ damage \in Nat /\ damage' # 0
      /\ \/ IsValid(recovery) /\ primary' \in {Missing, Invalid} /\ recovery' = recovery
         \/ IsValid(primary) /\ recovery' \in {Missing, Invalid} /\ primary' = primary
  BY <1>1 DEF DamageFile, history, TypeOK
<1>3. last # None
  BY <1>1, <1>2, CopiesSnapshots
<1>4. Copies'
  BY <1>1, <1>2, <1>3 DEF Copies
<1>5. ASSUME NEW q \in Processes
      PROVE  Steady(q)'
  <2>1. Promised(q)'
    <3>1. Promised(q)
      BY <1>1 DEF Steady
    <3>2. Recovering(q) => Recovering(q)'
      BY <1>2, FileFacts DEF Recovering
    <3> QED
      BY <1>2, <3>1, <3>2 DEF Promised, Initializing, Mutating
  <2>2. Remembers(q)'
    BY <1>2 DEF Remembers
  <2>3. Finds(q)'
    <3> SUFFICES ASSUME at[q] = "reading", damage = 0
                 PROVE  Finds(q)'
      BY <1>2 DEF Finds
    <3>1. during[q] \subseteq during'[q]
      BY <1>2, ObservedGrows
    <3>2. Finds(q) /\ glance[q] \in Files
      BY <1>1 DEF Steady, TypeOK
    <3>3. CASE recovery' = recovery
      BY <1>2, <3>1, <3>2, <3>3 DEF Finds
    <3>4. CASE recovery' \in {Missing, Invalid}
      <4>1. PICK found : found = Select(glance[q], recovery')
        OBVIOUS
      <4>2. recovery' \in Files /\ ~IsValid(recovery')
        BY <3>4, FileFacts
      <4>3. found = Nothing => None \in during'[q] /\ SnapshotIn(found) = None
        <5>1. found = Nothing => glance[q] = Missing
          BY <3>2, <4>1, <4>2, SelectFacts
        <5>2. glance[q] = Missing => None \in during[q]
          BY <3>2 DEF Finds
        <5> QED
          BY <3>1, <5>1, <5>2, NothingFacts
      <4>4. found.kind = "ready" => SnapshotIn(found) \in during'[q]
        BY <3>1, <3>2, <4>1, <4>2, SelectFacts DEF Finds, SnapshotIn
      <4>5. found.kind = "unusable" \/ found.kind = "ready" \/ found = Nothing
        BY <3>2, <4>1, <4>2, SelectFacts DEF Inspections
      <4> QED
        BY <1>2, <3>1, <3>2, <4>1, <4>3, <4>4, <4>5 DEF Finds
    <3> QED
      BY <1>2, <3>3, <3>4
  <2> QED
    BY <2>1, <2>2, <2>3 DEF Steady
<1> QED
  BY <1>4, <1>5

-----------------------------------------------------------------------------
LEMMA InitIInv == Init => RegistryIInv
<1> SUFFICES ASSUME Init
             PROVE  RegistryIInv
  OBVIOUS
<1>1. TypeOK
  BY FileFacts, NothingFacts, RegistryAssumption DEF Init, TypeOK, Places
<1>2. Copies
  BY DEF Init, Copies
<1>3. ASSUME NEW p \in Processes
      PROVE  Promised(p) /\ Remembers(p) /\ Finds(p)
  BY FileFacts, NothingFacts DEF Init, Promised, Remembers, Finds
<1> QED
  BY <1>1, <1>2, <1>3 DEF RegistryIInv

LEMMA NextIInv == RegistryIInv /\ [Next]_vars => RegistryIInv'
<1> SUFFICES ASSUME RegistryIInv, [Next]_vars
             PROVE  RegistryIInv'
  OBVIOUS
<1>1. CASE Next
  <2>1. Copies' /\ \A q \in Processes : Steady(q)'
    <3>1. CASE DamageFile
      BY <3>1, DamageStep
    <3>2. ASSUME NEW p \in Processes, Moves(p)
          PROVE  Copies' /\ \A q \in Processes : Steady(q)'
      BY <3>2, QuietStep, KeepStep, WriteStep
    <3> QED
      BY <1>1, <3>1, <3>2 DEF Next, Moves
  <2> QED
    BY <1>1, <2>1, TypeStep DEF RegistryIInv, Steady
<1>2. CASE UNCHANGED vars
  BY <1>2 DEF vars, files, history, RegistryIInv, TypeOK, Copies, Promised, Initializing, Mutating,
     Recovering, Remembers, Past, Finds
<1> QED
  BY <1>1, <1>2

LEMMA RegistryIInvHolds == Spec => []RegistryIInv
BY InitIInv, NextIInv, PTL DEF Spec

-----------------------------------------------------------------------------
(* Until a file is damaged no crash and no failing write leaves the registry  *)
(* to Recovery, and a session with the generation of the newest snapshot is   *)
(* bound to that snapshot (persistMutation, resolveProfileRegistry).          *)
THEOREM RegistryInvHolds == Spec => []RegistryInv
<1>1. RegistryIInv => RegistryInv
  <2> SUFFICES ASSUME RegistryIInv
               PROVE  RegistryInv
    OBVIOUS
  <2>1. TypeOK /\ Copies
    BY DEF RegistryIInv
  <2>2. CrashNeedsNoRecovery
    <3> SUFFICES ASSUME damage = 0, last # None
                 PROVE  Current.kind = "ready" /\ Current.source = "primary"
      BY DEF CrashNeedsNoRecovery
    <3>1. IsValid(primary)
      BY <2>1, FileFacts DEF Copies
    <3> QED
      BY <2>1, <3>1, Shown, ReadyFacts
  <2>3. GenerationNamesSnapshot
    <3> SUFFICES ASSUME NEW p \in Processes, damage = 0, view[p].kind = "ready", last # None,
                        view[p].snapshot.generation = last.generation
                 PROVE  view[p].snapshot = last
      BY DEF GenerationNamesSnapshot
    <3>1. last.generation \in Nat
      BY <2>1, CopiesSnapshots
    <3> QED
      BY <3>1 DEF RegistryIInv, Remembers, Past
  <2> QED
    BY <2>1, <2>2, <2>3 DEF RegistryInv
<1> QED
  BY <1>1, RegistryIInvHolds, PTL

(* As long as one file was damaged at most, the snapshot an inspection        *)
(* returns was current at some moment between its two reads (inspectInternal). *)
THEOREM ReadsAreCurrentHolds == Spec => ReadsAreCurrent
<1>1. ASSUME RegistryIInv, Next, NEW p \in Processes,
             at[p] = "reading", view'[p] # view[p], at'[p] = "idle", damage <= 1
      PROVE  SnapshotIn(view'[p]) \in during[p]
  <2>1. TypeOK
    BY <1>1 DEF RegistryIInv
  <2>2. PICK q \in Processes : Moves(q)
    BY <1>1 DEF Next, Moves, DamageFile
  <2>3. q = p
    BY <1>1, <2>1, <2>2 DEF Moves, ReadPrimary, ReadRecovery, Acquire, Load, Keep, Write, WriteFails,
       Release, Crash, Start, Goto, TypeOK
  <2>4. ReadRecovery(p)
    BY <1>1, <2>1, <2>2, <2>3 DEF Moves, ReadPrimary, Acquire, Load, Keep, Write, WriteFails,
       Release, Crash, Start, Goto, TypeOK
  <2>5. view'[p] = Select(glance[p], recovery) /\ Select(glance[p], recovery).kind # "unusable"
    BY <1>1, <2>1, <2>4 DEF ReadRecovery, TypeOK
  <2> QED
    BY <1>1, <2>5 DEF RegistryIInv, Finds
<1>2. RegistryIInv /\ [Next]_vars =>
        [\A p \in Processes :
           at[p] = "reading" /\ view'[p] # view[p] /\ at'[p] = "idle" /\ damage <= 1
           => SnapshotIn(view'[p]) \in during[p]]_vars
  BY <1>1
<1> QED
  BY <1>2, RegistryIInvHolds, PTL DEF Spec, ReadsAreCurrent

-----------------------------------------------------------------------------
(* The snapshot that is shown, before a step and after it.                    *)
ShowsCopy ==
  /\ last = None => SnapshotIn(Current) = None
  /\ last # None /\ IsValid(primary) => SnapshotIn(Current) = last
  /\ last # None /\ ~IsValid(primary) =>
       \E s \in {last, prior} \ {None} : recovery = Valid(s) /\ SnapshotIn(Current) = s

LEMMA ShownNext == RegistryIInv' => ShowsCopy'
<1>1. RegistryIInv => ShowsCopy
  BY Shown, ReadyFacts, NothingFacts DEF RegistryIInv, ShowsCopy
<1> QED
  BY <1>1, PTL

LEMMA HistoryStep ==
  ASSUME RegistryIInv, RegistryIInv', Next
  PROVE  History!Next \/ UNCHANGED History!vars
<1> USE DEF History!Next, History!Initialize, History!Mutate, History!FallBack, History!Reappear,
        History!Recover, History!vars
<1>1. TypeOK /\ Copies /\ TypeOK' /\ Copies'
  BY DEF RegistryIInv
<1>2. ASSUME NEW p \in Processes, Moves(p), ~Keep(p), ~Write(p)
      PROVE  UNCHANGED History!vars
  <2>1. UNCHANGED <<primary, recovery, last, prior>>
    BY <1>2 DEF Moves, ReadPrimary, ReadRecovery, Acquire, Load, WriteFails, Release, Crash, Start,
       files, history
  <2> QED
    BY <2>1 DEF Current
(* The recovery copy becomes the newest snapshot: if the primary was damaged  *)
(* after it was read, that snapshot can be read again.                        *)
<1>3. ASSUME NEW p \in Processes, Keep(p)
      PROVE  History!Reappear
  <2>1. /\ last # None /\ last \in Snapshots /\ recovery' = Valid(last)
        /\ last' = last /\ prior' = prior
    BY <1>1, <1>3, CopiesSnapshots DEF Keep, RegistryIInv, Promised, Mutating, history
  <2>2. SnapshotIn(Current)' = last
    BY <2>1, ShownNext, FileFacts DEF ShowsCopy
  <2> QED
    BY <2>1, <2>2
<1>4. ASSUME NEW p \in Processes, Write(p)
      PROVE  History!Next
  <2>1. last' = next[p] /\ last' # None /\ IsValid(primary')
    BY <1>4, WriteCopies, FileFacts DEF Write
  <2>2. SnapshotIn(Current)' = last'
    BY <2>1, ShownNext DEF ShowsCopy
  <2>3. CASE Initializing(p) /\ Current = Nothing /\ prior' = prior
    BY <2>1, <2>2, <2>3, NothingFacts DEF Initializing
  <2>4. CASE Mutating(p) /\ SnapshotIn(Current) = last /\ prior' = last
    BY <2>1, <2>2, <2>4 DEF Mutating
  <2>5. CASE Recovering(p) /\ SnapshotIn(Current) = next[p] /\ prior' = next[p]
    BY <2>1, <2>2, <2>5
  <2> QED
    BY <1>4, <2>3, <2>4, <2>5, WriteCopies
<1>5. CASE DamageFile
  <2>1. last' = last /\ prior' = prior /\ last # None
    BY <1>1, <1>5, CopiesSnapshots DEF DamageFile, history
  <2>2. SnapshotIn(Current)' \in {last, prior} /\ SnapshotIn(Current)' # None
    BY <2>1, ShownNext DEF ShowsCopy
  <2> QED
    BY <2>1, <2>2
<1> QED
  BY <1>2, <1>3, <1>4, <1>5 DEF Next, Moves

(* To its callers the registry is one snapshot, replaced by a mutation of     *)
(* itself, whoever else reads, writes or crashes meanwhile; damage to a file  *)
(* takes it back one mutation at most, and Recovery settles on what is left.  *)
THEOREM ImplementsRegistryHistoryHolds == Spec => ImplementsRegistryHistory
<1>1. Init => History!Init
  BY NothingFacts DEF Init, History!Init, Current, Select
<1>2. RegistryIInv /\ RegistryIInv' /\ [Next]_vars => [History!Next]_History!vars
  <2> SUFFICES ASSUME RegistryIInv, RegistryIInv', [Next]_vars
               PROVE  [History!Next]_History!vars
    OBVIOUS
  <2>1. CASE Next
    BY <2>1, HistoryStep
  <2>2. CASE UNCHANGED vars
    BY <2>2 DEF vars, files, history, History!vars, Current
  <2> QED
    BY <2>1, <2>2
<1> QED
  BY <1>1, <1>2, RegistryIInvHolds, PTL DEF Spec, ImplementsRegistryHistory, History!Spec
=============================================================================
