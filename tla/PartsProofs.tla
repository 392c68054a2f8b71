------------------------------ MODULE PartsProofs ------------------------------
(***************************************************************************)
(* Proofs about the parts that share no state, as MCParts composes them,   *)
(* for any windows, values, turns, files, processes and bounds.  Each part *)
(* has an invariant of its own, inductive by itself since a step is one of *)
(* the part that is followed: TransferIInv, AccessIInv and LockIInv, whose *)
(* visible part is ProfilesInv, and SetupIInv and FeedbackIInv, whose      *)
(* visible part is RecordsInv.  Releases are in ReleaseProofs.             *)
(***************************************************************************)
EXTENDS MCParts, FiniteSetTheorems, TLAPS

-----------------------------------------------------------------------------
(* Copies of a profile's tree (ProfileTransfer).                             *)
Partial == UNION {[P -> T!Present] : P \in SUBSET TreeFiles}
Backups == [files : Partial, carries : BOOLEAN, references : BOOLEAN]
Fresh == [files : Partial, approvals : BOOLEAN, references : BOOLEAN, of : Backups \cup {None}]
Copies == [kind : {"none", "backup", "migrate", "save"},
           at : {"none", "reading", "copying", "written", "linked"},
           todo : SUBSET TreeFiles, reading : TreeFiles \cup {None}, changed : BOOLEAN,
           taken : Partial, staged : Partial]

TransferTypes ==
  /\ home \in T!Tree /\ adopted \in BOOLEAN
  /\ copy \in Copies /\ backup \in Backups \cup {None} /\ fresh \in Fresh \cup {None}
  /\ saveAs \in Backups \cup {None, Another}
  /\ foreign \in BOOLEAN /\ temporary \in BOOLEAN /\ told \in BOOLEAN
  /\ had \in [TreeFiles -> SUBSET (T!Present \cup {Absent})]
  /\ edits \in 0..MaxChanges

(* What is in the tree was there in the time the copy looks at, and a file    *)
(* that is being read and did not change is there.                            *)
Observed ==
  /\ \A n \in TreeFiles : home.files[n] \in had[n]
  /\ copy.reading # None /\ ~copy.changed => home.files[copy.reading] # Absent
  /\ copy.kind \in {"backup", "migrate"} =>
       \A n \in DOMAIN copy.taken : n \in TreeFiles /\ copy.taken[n] \in had[n] \ {Absent}

(* Only a profile is backed up, only a finished save is told of, and a new    *)
(* copy or save makes the page forget it.                                     *)
Saves ==
  /\ copy.kind # "none" => ~told
  /\ copy.at \in {"written", "linked"} => copy.kind = "save"
  /\ copy.at = "reading" => copy.kind \in {"backup", "migrate"}
  /\ copy.at = "copying" => copy.todo \subseteq DOMAIN copy.taken
  /\ ~adopted => backup = None /\ ~told
  /\ copy.kind \in {"backup", "save"} => adopted
  /\ T!SavesAreExact

TransferIInv == TransferTypes /\ Observed /\ Saves /\ T!NewProfilesAreExact

LEMMA NothingTaken == [n \in {} |-> 0] \in Partial /\ T!Idle \in Copies
<1>1. [n \in {} |-> 0] \in [{} -> T!Present] /\ {} \in SUBSET TreeFiles
  OBVIOUS
<1>2. [n \in {} |-> 0] \in Partial
  BY <1>1 DEF Partial
<1> HIDE DEF Partial
<1> QED  BY <1>2 DEF T!Idle, Copies

LEMMA TransferInitial == T!TransferInit => TransferIInv
<1> SUFFICES ASSUME T!TransferInit PROVE TransferIInv
  OBVIOUS
<1>1. TransferTypes
  <2>1. home \in T!Tree /\ 0 \in T!Present /\ edits \in 0..MaxChanges
    BY TransferAssumption DEF T!TransferInit, T!Present
  <2>2. had \in [TreeFiles -> SUBSET (T!Present \cup {Absent})]
    BY <2>1 DEF T!TransferInit
  <2> QED  BY <2>1, <2>2, NothingTaken DEF T!TransferInit, TransferTypes
<1>2. Observed
  BY NothingTaken DEF T!TransferInit, Observed, T!Idle
<1>3. Saves
  BY DEF T!TransferInit, Saves, T!Idle, T!SavesAreExact
<1>4. T!NewProfilesAreExact
  BY DEF T!TransferInit, T!NewProfilesAreExact
<1> QED  BY <1>1, <1>2, <1>3, <1>4 DEF TransferIInv

(* The invariant is what the run checks and more.                             *)
LEMMA TransferImplies == TransferIInv => T!TransferInv
<1> SUFFICES ASSUME TransferIInv PROVE T!TransferInv
  OBVIOUS
<1>1. ASSUME backup # None, NEW n \in DOMAIN backup.files PROVE backup.files[n] # Torn
  <2>1. backup.files \in Partial
    BY <1>1 DEF TransferIInv, TransferTypes, Backups
  <2>2. backup.files[n] \in T!Present
    BY <1>1, <2>1 DEF Partial
  <2> QED  BY <2>2, TransferAssumption DEF T!Present
<1>2. T!CopiesAreWhole
  BY <1>1 DEF TransferIInv, Observed, T!CopiesAreWhole
<1> QED  BY <1>2 DEF TransferIInv, TransferTypes, Saves, T!TransferInv

(* A map of files that takes one more file.                                   *)
LEMMA OneMore ==
  ASSUME NEW m \in Partial, NEW n \in TreeFiles, NEW c \in T!Present,
         NEW m2, m2 = [k \in DOMAIN m \cup {n} |-> IF k = n THEN c ELSE m[k]]
  PROVE  m2 \in Partial /\ DOMAIN m2 = DOMAIN m \cup {n} /\ m2[n] = c
         /\ \A k \in DOMAIN m : k # n => m2[k] = m[k]
<1>1. PICK P \in SUBSET TreeFiles : m \in [P -> T!Present]
  BY DEF Partial
<1>2. P \cup {n} \in SUBSET TreeFiles /\ m2 \in [P \cup {n} -> T!Present]
  BY <1>1
<1> QED  BY <1>1, <1>2 DEF Partial

LEMMA TransferStays == TransferIInv /\ T!TransferNext => TransferIInv'
<1> SUFFICES ASSUME TransferIInv, T!TransferNext PROVE TransferIInv'
  OBVIOUS
<1> USE DEF T!Fail, T!Rest
<1>t. TransferTypes /\ Observed /\ Saves /\ T!NewProfilesAreExact /\ T!SavesAreExact
  BY DEF TransferIInv, Saves
<1>i. /\ T!Idle \in Copies /\ T!Idle.kind = "none" /\ T!Idle.at = "none" /\ T!Idle.reading = None
      /\ T!Idle.taken \in Partial /\ DOMAIN T!Idle.taken = {}
  BY NothingTaken DEF T!Idle
<1>f. \A n \in TreeFiles : home.files[n] \in T!Present \cup {Absent}
  BY <1>t DEF TransferTypes, T!Tree
<1> HIDE DEF Partial
<1>1. ASSUME NEW n \in TreeFiles, NEW c, T!Edit(n, c) PROVE TransferIInv'
  <2>1. edits' \in 0..MaxChanges /\ c \in T!Present \cup {Absent}
    BY <1>1, <1>t, TransferAssumption DEF T!Edit, TransferTypes, T!Present
  <2>2. home' \in T!Tree /\ home'.files[n] = c
        /\ \A k \in TreeFiles : k # n => home'.files[k] = home.files[k]
    <3> DEFINE fs == [home.files EXCEPT ![n] = c]
    <3>1. home.files \in [TreeFiles -> T!Present \cup {Absent}]
      BY <1>t DEF TransferTypes, T!Tree
    <3>2. fs \in [TreeFiles -> T!Present \cup {Absent}]
      BY <2>1, <3>1
    <3>3. home' = [home EXCEPT !.files = fs]
      BY <1>1 DEF T!Edit
    <3> HIDE DEF fs
    <3>4. home' \in T!Tree /\ home'.files = fs
      BY <1>t, <3>2, <3>3 DEF TransferTypes, T!Tree
    <3> QED  BY <3>1, <3>4 DEF fs
  <2>3. had' \in [TreeFiles -> SUBSET (T!Present \cup {Absent})] /\ c \in had'[n]
        /\ \A k \in TreeFiles : had[k] \subseteq had'[k]
    BY <1>1, <1>t, <2>1 DEF T!Edit, TransferTypes
  <2>4. /\ copy' \in Copies /\ copy'.kind = copy.kind /\ copy'.at = copy.at
        /\ copy'.reading = copy.reading /\ copy'.taken = copy.taken
        /\ copy.reading = n => copy'.changed
        /\ copy.reading # n => copy' = copy
    BY <1>1, <1>t DEF T!Edit, TransferTypes, Copies
  <2>5. TransferTypes'
    BY <1>1, <1>t, <2>1, <2>2, <2>3, <2>4 DEF T!Edit, TransferTypes
  <2>6. Observed'
    <3>1. \A k \in TreeFiles : home'.files[k] \in had'[k]
      BY <1>t, <2>2, <2>3 DEF Observed
    <3>2. copy'.reading # None /\ ~copy'.changed => home'.files[copy'.reading] # Absent
      BY <1>t, <2>2, <2>4 DEF Observed, TransferTypes, Copies
    <3> QED  BY <1>t, <2>3, <2>4, <3>1, <3>2 DEF Observed
  <2>7. Saves' /\ T!NewProfilesAreExact'
    BY <1>1, <1>t, <2>4 DEF T!Edit, Saves, T!SavesAreExact, T!NewProfilesAreExact
  <2> QED  BY <2>5, <2>6, <2>7 DEF TransferIInv
<1>2. ASSUME T!Occupy PROVE TransferIInv'
  BY <1>2, <1>t, TransferAssumption DEF T!Occupy, TransferIInv, TransferTypes, Observed, Saves,
     T!SavesAreExact, T!NewProfilesAreExact
<1>3. ASSUME T!Approve PROVE TransferIInv'
  <2>1. home' \in T!Tree /\ home'.files = home.files
    BY <1>3, <1>t DEF T!Approve, TransferTypes, T!Tree
  <2> QED  BY <1>3, <1>t, <2>1 DEF T!Approve, TransferIInv, TransferTypes, Observed, Saves,
              T!SavesAreExact, T!NewProfilesAreExact
<1>4. ASSUME NEW k \in {"backup", "migrate"}, T!Begin(k) PROVE TransferIInv'
  <2>1. /\ copy' \in Copies /\ copy'.kind = k /\ copy'.at = "reading" /\ copy'.reading = None
        /\ DOMAIN copy'.taken = {}
    BY <1>4, <1>i DEF T!Begin, T!Listed, T!Idle, Copies
  <2>2. /\ had' \in [TreeFiles -> SUBSET (T!Present \cup {Absent})]
        /\ \A n \in TreeFiles : home.files[n] \in had'[n]
    BY <1>4, <1>f DEF T!Begin
  <2>3. TransferTypes'
    BY <1>4, <1>t, <2>1, <2>2 DEF T!Begin, TransferTypes
  <2>4. Observed'
    BY <1>4, <2>1, <2>2 DEF T!Begin, Observed
  <2>5. Saves' /\ T!NewProfilesAreExact'
    BY <1>4, <1>t, <2>1 DEF T!Begin, Saves, T!SavesAreExact, T!NewProfilesAreExact
  <2> QED  BY <2>3, <2>4, <2>5 DEF TransferIInv
<1>5. ASSUME NEW n \in TreeFiles, T!Look(n) PROVE TransferIInv'
  <2>1. CASE copy' = T!Idle
    BY <1>5, <1>t, <1>i, <2>1 DEF T!Look, TransferIInv, TransferTypes, Observed, Saves,
       T!SavesAreExact, T!NewProfilesAreExact
  <2>2. CASE copy' # T!Idle
    <3>1. home.files[n] # Absent /\ copy' = [copy EXCEPT !.reading = n, !.changed = FALSE]
      BY <1>5, <2>2 DEF T!Look
    <3>2. /\ copy' \in Copies /\ copy'.kind = copy.kind /\ copy'.at = copy.at
          /\ copy'.reading = n /\ copy'.taken = copy.taken /\ copy'.todo = copy.todo
      BY <3>1, <1>t DEF TransferTypes, Copies
    <3> QED  BY <1>5, <1>t, <3>1, <3>2 DEF T!Look, TransferIInv, TransferTypes, Observed, Saves,
                T!SavesAreExact, T!NewProfilesAreExact
  <2> QED  BY <2>1, <2>2
<1>6. ASSUME T!Take PROVE TransferIInv'
  <2>1. CASE copy.changed
    BY <1>6, <1>t, <1>i, <2>1 DEF T!Take, TransferIInv, TransferTypes, Observed, Saves,
       T!SavesAreExact, T!NewProfilesAreExact
  <2>2. CASE ~copy.changed
    <3> DEFINE n == copy.reading
               m == [k \in DOMAIN copy.taken \cup {n} |-> IF k = n THEN home.files[n] ELSE copy.taken[k]]
    <3>1. n \in TreeFiles /\ home.files[n] # Absent
      BY <1>6, <1>t, <2>2 DEF T!Take, TransferTypes, Copies, Observed
    <3>2. home.files[n] \in T!Present /\ copy.taken \in Partial
      BY <1>t, <1>f, <3>1 DEF TransferTypes, Copies
    <3>3. /\ m \in Partial /\ DOMAIN m = DOMAIN copy.taken \cup {n} /\ m[n] = home.files[n]
          /\ \A k \in DOMAIN copy.taken : k # n => m[k] = copy.taken[k]
      BY <3>1, <3>2, OneMore
    <3>4. copy' = [copy EXCEPT !.todo = copy.todo \ {n}, !.reading = None, !.taken = m]
      BY <1>6, <1>t, <2>2 DEF T!Take, TransferTypes, Copies
    <3>a. copy.at = "reading"
      BY <1>6 DEF T!Take
    <3> HIDE DEF n, m
    <3>5. /\ copy' \in Copies /\ copy'.kind = copy.kind /\ copy'.at = "reading"
          /\ copy'.reading = None /\ copy'.taken = m
      BY <1>t, <3>3, <3>4, <3>a DEF TransferTypes, Copies
    <3>6. Observed'
      BY <1>6, <1>t, <3>1, <3>3, <3>5, <3>a DEF T!Take, Observed, Saves
    <3> QED  BY <1>6, <1>t, <3>5, <3>6, <3>a DEF T!Take, TransferIInv, TransferTypes, Saves,
                T!SavesAreExact, T!NewProfilesAreExact
  <2> QED  BY <2>1, <2>2, <1>t DEF TransferTypes, Copies
<1>7. ASSUME T!Deliver PROVE TransferIInv'
  <2>1. backup' \in Backups
    BY <1>7, <1>t DEF T!Deliver, TransferTypes, Copies, Backups, T!Tree
  <2> QED  BY <1>7, <1>t, <1>i, <2>1 DEF T!Deliver, TransferIInv, TransferTypes, Observed, Saves,
              T!SavesAreExact, T!NewProfilesAreExact
<1>8. ASSUME T!StartCopy PROVE TransferIInv'
  <2>1. copy.kind = "migrate" /\ copy.at = "reading" /\ copy.reading = None
    BY <1>8 DEF T!StartCopy, T!AllTaken
  <2>2. DOMAIN copy.taken \subseteq TreeFiles
    BY <1>t, <2>1 DEF Observed
  <2>3. /\ copy' \in Copies /\ copy'.kind = "migrate" /\ copy'.at = "copying"
        /\ copy'.reading = None /\ copy'.taken = copy.taken /\ copy'.todo = DOMAIN copy.taken
    BY <1>8, <1>t, <2>1, <2>2 DEF T!StartCopy, TransferTypes, Copies
  <2> QED  BY <1>8, <1>t, <2>1, <2>3 DEF T!StartCopy, TransferIInv, TransferTypes, Observed, Saves,
              T!SavesAreExact, T!NewProfilesAreExact
<1>9. ASSUME NEW n \in TreeFiles, T!Copy(n) PROVE TransferIInv'
  <2>1. CASE home.files[n] # copy.taken[n]
    BY <1>9, <1>t, <1>i, <2>1 DEF T!Copy, TransferIInv, TransferTypes, Observed, Saves,
       T!SavesAreExact, T!NewProfilesAreExact
  <2>2. CASE home.files[n] = copy.taken[n]
    <3> DEFINE m == [k \in DOMAIN copy.staged \cup {n} |-> IF k = n THEN home.files[n] ELSE copy.staged[k]]
    <3>1. copy.at = "copying" /\ n \in DOMAIN copy.taken /\ copy.taken \in Partial /\ copy.staged \in Partial
      BY <1>9, <1>t DEF T!Copy, Saves, TransferTypes, Copies
    <3>2. home.files[n] \in T!Present
      BY <2>2, <3>1 DEF Partial
    <3>3. m \in Partial
      BY <3>1, <3>2, OneMore
    <3>4. copy' = [copy EXCEPT !.todo = copy.todo \ {n}, !.staged = m]
      BY <1>9, <1>t, <2>2 DEF T!Copy, TransferTypes, Copies
    <3> HIDE DEF m
    <3>5. /\ copy' \in Copies /\ copy'.kind = copy.kind /\ copy'.at = "copying"
          /\ copy'.reading = copy.reading /\ copy'.taken = copy.taken /\ copy'.changed = copy.changed
          /\ copy'.todo \subseteq copy.todo
      BY <1>t, <3>1, <3>3, <3>4 DEF TransferTypes, Copies
    <3> QED  BY <1>9, <1>t, <3>1, <3>5 DEF T!Copy, TransferIInv, TransferTypes, Observed, Saves,
                T!SavesAreExact, T!NewProfilesAreExact
  <2> QED  BY <2>1, <2>2
<1>10. ASSUME T!Activate PROVE TransferIInv'
  <2>1. fresh' \in Fresh \cup {None} /\ T!NewProfilesAreExact'
    <3>1. CASE fresh' = fresh
      BY <1>t, <3>1 DEF TransferTypes, T!NewProfilesAreExact
    <3>2. CASE fresh' # fresh
      <4>1. /\ fresh' = [files |-> copy.staged, approvals |-> home.approvals, references |-> FALSE, of |-> None]
            /\ T!Valid(copy.staged)
        BY <1>10, <3>2 DEF T!Activate
      <4>2. copy.staged \in Partial /\ home.approvals \in BOOLEAN
        BY <1>t DEF TransferTypes, Copies, T!Tree
      <4> QED  BY <4>1, <4>2 DEF Fresh, T!NewProfilesAreExact
    <3> QED  BY <3>1, <3>2
  <2> QED  BY <1>10, <1>t, <1>i, <2>1 DEF T!Activate, TransferIInv, TransferTypes, Observed, Saves,
              T!SavesAreExact
<1>11. ASSUME NEW b \in {backup, saveAs}, T!Restore(b) PROVE TransferIInv'
  <2>1. b \in Backups
    BY <1>11, <1>t DEF T!Restore, T!Inspects, TransferTypes
  <2>2. fresh' \in Fresh /\ T!NewProfilesAreExact'
    BY <1>11, <2>1 DEF T!Restore, Fresh, Backups, T!NewProfilesAreExact
  <2> QED  BY <1>11, <1>t, <2>2 DEF T!Restore, TransferIInv, TransferTypes, Observed, Saves,
              T!SavesAreExact
<1>12. ASSUME T!Continue PROVE TransferIInv'
  <2>1. fresh \in Fresh
    BY <1>12, <1>t DEF T!Continue, TransferTypes
  <2>2. home' \in T!Tree
    <3> DEFINE fs == [n \in TreeFiles |-> IF n \in DOMAIN fresh.files THEN fresh.files[n] ELSE Absent]
    <3>1. fs \in [TreeFiles -> T!Present \cup {Absent}]
      BY <2>1 DEF Fresh, Partial
    <3>2. home' = [files |-> fs, approvals |-> fresh.approvals, references |-> fresh.references]
      BY <1>12 DEF T!Continue
    <3> HIDE DEF fs
    <3> QED  BY <2>1, <3>1, <3>2 DEF Fresh, T!Tree
  <2>3. /\ had' \in [TreeFiles -> SUBSET (T!Present \cup {Absent})]
        /\ \A n \in TreeFiles : home'.files[n] \in had'[n]
    <3>1. had' = [n \in TreeFiles |-> {home'.files[n]}]
      BY <1>12 DEF T!Continue
    <3>2. \A n \in TreeFiles : home'.files[n] \in T!Present \cup {Absent}
      BY <2>2 DEF T!Tree
    <3> QED  BY <3>1, <3>2
  <2>4. copy.kind = "none" /\ copy.reading = None /\ copy' = copy /\ copy.at = "none"
    BY <1>12, <1>i DEF T!Continue
  <2> QED  BY <1>12, <1>t, <2>2, <2>3, <2>4 DEF T!Continue, TransferIInv, TransferTypes, Observed, Saves,
              T!SavesAreExact, T!NewProfilesAreExact
<1>13. ASSUME T!BeginSave PROVE TransferIInv'
  <2>1. copy' \in Copies /\ copy'.kind = "save" /\ copy'.at = "written" /\ copy'.reading = None
    BY <1>13, <1>i DEF T!BeginSave, T!Idle, Copies
  <2> QED  BY <1>13, <1>t, <2>1 DEF T!BeginSave, TransferIInv, TransferTypes, Observed, Saves,
              T!SavesAreExact, T!NewProfilesAreExact
<1>14. ASSUME T!Link PROVE TransferIInv'
  <2>1. copy.kind = "save" /\ ~told
    BY <1>14, <1>t DEF T!Link, Saves
  <2>2. CASE saveAs = None
    <3>1. /\ copy' \in Copies /\ copy'.kind = "save" /\ copy'.at = "linked"
          /\ copy'.reading = copy.reading /\ copy'.changed = copy.changed
      BY <1>14, <1>t, <2>1, <2>2 DEF T!Link, TransferTypes, Copies
    <3> QED  BY <1>14, <1>t, <2>1, <2>2, <3>1, TransferAssumption DEF T!Link, TransferIInv, TransferTypes,
                Observed, Saves, T!SavesAreExact, T!NewProfilesAreExact
  <2>3. CASE saveAs # None
    BY <1>14, <1>t, <1>i, <2>1, <2>3 DEF T!Link, TransferIInv, TransferTypes, Observed, Saves,
       T!SavesAreExact, T!NewProfilesAreExact
  <2> QED  BY <2>2, <2>3
<1>15. ASSUME T!FinishSave PROVE TransferIInv'
  <2>1. copy.kind = "save" /\ adopted /\ ~told
    BY <1>15, <1>t DEF T!FinishSave, Saves
  <2> QED  BY <1>15, <1>t, <1>i, <2>1 DEF T!FinishSave, TransferIInv, TransferTypes, Observed, Saves,
              T!SavesAreExact, T!NewProfilesAreExact
<1>16. ASSUME T!Crash PROVE TransferIInv'
  BY <1>16, <1>t, <1>i DEF T!Crash, TransferIInv, TransferTypes, Observed, Saves,
     T!SavesAreExact, T!NewProfilesAreExact
<1> QED
  BY <1>1, <1>2, <1>3, <1>4, <1>5, <1>6, <1>7, <1>8, <1>9, <1>10, <1>11, <1>12, <1>13, <1>14, <1>15, <1>16
     DEF T!TransferNext

-----------------------------------------------------------------------------
(* Admission to the active profile (ProfileAccess).                          *)
AccessTypes ==
  /\ registry \in [generation : 0..MaxGeneration, active : Values \cup {A!Legacy}]
  /\ registry.generation = 0 <=> registry.active = A!Legacy
  /\ journal \in 0..MaxGeneration \cup {None} /\ cookie \in A!Binding \cup {None}
  /\ document \in [Windows -> A!Documents] /\ request \in [Windows -> A!Calls \cup {None}]
  /\ desktop \in BOOLEAN /\ linkUsed \in BOOLEAN /\ missed \in BOOLEAN /\ accidents \in 0..MaxAccidents

(* What a request carries: a change names the generation its page saw, which *)
(* is that of its binding; and a binding travels with a view of its own.     *)
Meant(r) ==
  /\ r.kind \in {"setup", "change", "switch"} =>
       r.expected = r.header.generation /\ (r.expected = 0 => r.kind = "setup")
  /\ r.kind \in {"list", "work"} => r.binding = None
  /\ r.binding # None => r.view # None /\ r.view.generation = r.binding.generation
  /\ r.binding # None /\ r.kind = "change" => r.binding.profile = r.header.profile
  /\ r.binding = None /\ r.view # None =>
       r.kind = "list" /\ (~r.view.recovery => r.view.generation = r.header.generation)

(* What a document has in common with its request in flight, r.              *)
Heard(d, r) ==
  /\ ~d.open /\ r # None => r.abandoned
  /\ r # None => IF r.abandoned THEN d.doc = None /\ d.view = None /\ ~d.switching
                 ELSE r.header = d.doc
  /\ d.view # None => d.doc # None
  /\ r # None \/ ~d.switching =>
       /\ d.doc # None => d.shows = d.doc.profile
       /\ d.view # None /\ ~d.view.recovery => d.view.generation = d.doc.generation

(* The desktop app has one window, and unless an answer was lost whatever    *)
(* answer moves the binding is that window's and has the current one.        *)
Moving(o) == request[o] # None /\ request[o].kind \notin {"list", "work"}
OneWindow ==
  /\ desktop => \A o, p \in Windows : document[o].open /\ document[p].open => o = p
  /\ ~missed => \A o \in Windows : Moving(o) => ~request[o].abandoned
  /\ desktop /\ ~missed =>
       \A o \in Windows : request[o] # None /\ request[o].binding # None => request[o].binding = A!Current

Pages == \A o \in Windows : Heard(document[o], request[o]) /\ (request[o] # None => Meant(request[o]))
Works == \A o \in A!Working : request[o].header = A!Current

AccessIInv == AccessTypes /\ Pages /\ Works /\ OneWindow /\ A!EvidenceFits /\ A!CookieAdmits

LEMMA Bindings ==
  ASSUME AccessTypes
  PROVE  A!Current \in A!Binding /\ A!Current.profile = registry.active
         /\ A!Current.generation = registry.generation /\ A!Current # None
BY AccessAssumption DEF AccessTypes, A!Current, A!Binding

LEMMA AccessInitial == A!AccessInit => AccessIInv
<1> SUFFICES ASSUME A!AccessInit PROVE AccessIInv
  OBVIOUS
<1>1. registry \in [generation : 0..MaxGeneration, active : Values \cup {A!Legacy}]
      /\ (registry.generation = 0 <=> registry.active = A!Legacy)
  <2>1. CASE registry = [generation |-> 0, active |-> A!Legacy]
    BY <2>1, AccessAssumption
  <2>2. ASSUME NEW p \in Values, registry = [generation |-> 1, active |-> p]
        PROVE  registry \in [generation : 0..MaxGeneration, active : Values \cup {A!Legacy}]
               /\ (registry.generation = 0 <=> registry.active = A!Legacy)
    BY <2>2, AccessAssumption
  <2> QED  BY <2>1, <2>2 DEF A!AccessInit
<1>2. A!NoDocument \in A!Documents /\ ~A!NoDocument.open /\ A!NoDocument.doc = None
      /\ A!NoDocument.view = None /\ ~A!NoDocument.switching
  BY DEF A!NoDocument, A!Documents
<1>3. \A o \in Windows : document[o] = A!NoDocument /\ request[o] = None
  BY DEF A!AccessInit
<1>4. AccessTypes
  <2>1. document \in [Windows -> A!Documents] /\ request \in [Windows -> A!Calls \cup {None}]
    BY <1>2 DEF A!AccessInit
  <2>2. desktop \in BOOLEAN /\ linkUsed \in BOOLEAN /\ missed \in BOOLEAN
    BY DEF A!AccessInit
  <2>3. accidents \in 0..MaxAccidents /\ journal = None /\ cookie = None
    BY AccessAssumption DEF A!AccessInit
  <2> QED  BY <1>1, <2>1, <2>2, <2>3 DEF AccessTypes
<1>5. Pages
  BY <1>2, <1>3 DEF Pages, Heard
<1>6. Works /\ OneWindow /\ A!EvidenceFits /\ A!CookieAdmits
  BY <1>2, <1>3 DEF A!AccessInit, Works, A!Working, OneWindow, Moving, A!EvidenceFits, A!CookieAdmits
<1> QED  BY <1>4, <1>5, <1>6 DEF AccessIInv

(* Work is done in the profile its page shows.                               *)
LEMMA AccessImplies == AccessIInv => A!AccessInv
<1> SUFFICES ASSUME AccessIInv PROVE A!AccessInv
  OBVIOUS
<1>1. ASSUME NEW o \in A!Working PROVE request[o].header = A!Current
        /\ (~request[o].abandoned => document[o].shows = registry.active)
  <2>1. o \in Windows /\ request[o] # None /\ request[o].header = A!Current
    BY <1>1 DEF AccessIInv, Works, A!Working
  <2>2. Heard(document[o], request[o])
    BY <2>1 DEF AccessIInv, Pages
  <2>3. A!Current # None /\ A!Current.profile = registry.active
    BY Bindings DEF AccessIInv
  <2> QED  BY <2>1, <2>2, <2>3 DEF Heard
<1>2. A!AccessTypeOK
  BY DEF AccessIInv, AccessTypes, A!AccessTypeOK
<1> QED  BY <1>1, <1>2 DEF AccessIInv, A!AccessInv, A!WorkIsOfShownProfile, A!RecoveryWithinReach

(* An answer, or the next step of the server, leaves the window the same     *)
(* request.                                                                  *)
LEMMA SameRequest ==
  ASSUME AccessIInv, NEW o \in Windows, request[o] # None, NEW r \in A!Calls,
         r.header = request[o].header, r.abandoned = request[o].abandoned, Meant(r),
         request' = [request EXCEPT ![o] = r], document' = document
  PROVE  /\ request' \in [Windows -> A!Calls \cup {None}] /\ Pages'
         /\ request'[o] = r /\ \A p \in Windows : p # o => request'[p] = request[p]
<1>1. /\ request' \in [Windows -> A!Calls \cup {None}]
      /\ request'[o] = r /\ \A p \in Windows : p # o => request'[p] = request[p]
  BY DEF AccessIInv, AccessTypes
<1>2. Heard(document[o], request[o]) /\ r # None
  BY AccessAssumption DEF AccessIInv, Pages
<1>3. Heard(document[o], r)
  BY <1>2 DEF Heard
<1>4. \A p \in Windows : Heard(document'[p], request'[p]) /\ (request'[p] # None => Meant(request'[p]))
  BY <1>1, <1>3 DEF AccessIInv, Pages
<1> QED  BY <1>1, <1>4 DEF Pages

(* Answers.                                                                  *)
LEMMA Answering ==
  ASSUME AccessIInv, NEW o \in Windows, request[o] # None,
         NEW k \in A!Views \cup {None}, NEW b \in A!Binding \cup {None},
         b # None => k # None /\ k.generation = b.generation,
         request[o].kind \in {"list", "work"} => b = None,
         b # None /\ request[o].kind = "change" => b.profile = request[o].header.profile,
         b = None /\ k # None =>
           request[o].kind = "list" /\ (~k.recovery => k.generation = request[o].header.generation),
         A!Answer(o, k, b), document' = document
  PROVE  /\ request' \in [Windows -> A!Calls \cup {None}] /\ Pages'
         /\ request'[o] \in A!Calls /\ request'[o].at = "answered" /\ request'[o].binding = b
         /\ request'[o].kind = request[o].kind /\ request'[o].header = request[o].header
         /\ request'[o].abandoned = request[o].abandoned
         /\ \A p \in Windows : p # o => request'[p] = request[p]
<1> DEFINE r == [request[o] EXCEPT !.at = "answered", !.view = k, !.binding = b]
<1>1. request[o] \in A!Calls /\ request' = [request EXCEPT ![o] = r] /\ Meant(request[o])
  BY DEF AccessIInv, AccessTypes, Pages, A!Answer
<1>2. /\ r \in A!Calls /\ r.header = request[o].header /\ r.abandoned = request[o].abandoned
      /\ r.at = "answered" /\ r.view = k /\ r.binding = b /\ r.kind = request[o].kind
      /\ r.expected = request[o].expected
  BY <1>1 DEF A!Calls
<1> HIDE DEF r
<1>3. Meant(r)
  BY <1>1, <1>2 DEF Meant
<1> QED  BY <1>1, <1>2, <1>3, SameRequest

(* A step of a request while the registry stays.                             *)
LEMMA StepInPlace ==
  ASSUME AccessIInv, NEW o \in Windows, request[o] # None, request[o].at # "answered",
         request' \in [Windows -> A!Calls \cup {None}], Pages',
         \A p \in Windows : p # o => request'[p] = request[p],
         request'[o] \in A!Calls, request'[o].kind = request[o].kind,
         request'[o].abandoned = request[o].abandoned,
         request'[o].at = "working" => request'[o].header = A!Current,
         request'[o].binding \in {None, request[o].binding, A!Current},
         journal' \in 0..MaxGeneration \cup {None}, A!EvidenceFits', accidents' \in 0..MaxAccidents,
         UNCHANGED <<desktop, registry, linkUsed, cookie, document, missed>>
  PROVE  AccessIInv'
<1>1. AccessTypes'
  BY DEF AccessIInv, AccessTypes
<1>2. A!Current' = A!Current
  BY DEF A!Current
<1>3. Works'
  <2> SUFFICES ASSUME NEW p \in A!Working' PROVE request'[p].header = A!Current
    BY <1>2 DEF Works
  <2>1. p \in Windows /\ request'[p] # None /\ request'[p].at = "working"
    BY DEF A!Working
  <2>2. CASE p = o
    BY <2>1, <2>2
  <2>3. CASE p # o
    BY <2>1, <2>3 DEF AccessIInv, Works, A!Working
  <2> QED  BY <2>2, <2>3
<1>4. OneWindow'
  <2>1. \A p \in Windows : Moving(p)' => Moving(p) /\ request'[p].abandoned = request[p].abandoned
    BY DEF Moving
  <2>2. ASSUME desktop, ~missed, NEW p \in Windows, request'[p] # None, request'[p].binding # None
        PROVE  request'[p].binding = A!Current
    BY <2>2 DEF AccessIInv, OneWindow
  <2> QED  BY <1>2, <2>1, <2>2 DEF AccessIInv, OneWindow
<1>5. A!CookieAdmits'
  BY <1>2 DEF AccessIInv, A!CookieAdmits
<1> QED  BY <1>1, <1>3, <1>4, <1>5 DEF AccessIInv

(* The registry moves only beside no work, and the request that moved it     *)
(* brings the binding back or is lost.                                       *)
LEMMA Moves ==
  ASSUME AccessIInv, NEW o \in Windows, request[o] # None,
         request[o].kind \in {"setup", "change", "switch"}, A!Working = {},
         request' \in [Windows -> A!Calls \cup {None}], Pages',
         \A p \in Windows : p # o => request'[p] = request[p],
         request'[o] \in A!Calls, request'[o].kind = request[o].kind,
         request'[o].abandoned = request[o].abandoned, request'[o].at = "answered",
         \/ request'[o].binding = A!Current' /\ missed' = missed
         \/ request'[o].binding = None /\ missed' = TRUE,
         registry' \in [generation : 0..MaxGeneration, active : Values \cup {A!Legacy}],
         registry'.generation = 0 <=> registry'.active = A!Legacy,
         journal' \in 0..MaxGeneration \cup {None}, A!EvidenceFits', accidents' \in 0..MaxAccidents,
         UNCHANGED <<desktop, linkUsed, cookie, document>>
  PROVE  AccessIInv'
<1>1. AccessTypes'
  BY DEF AccessIInv, AccessTypes
<1>2. request'[o] # None
  BY AccessAssumption
<1>3. Works'
  BY DEF Works, A!Working
<1>4. ASSUME desktop, ~missed', NEW p \in Windows, request'[p] # None, request'[p].binding # None
      PROVE  request'[p].binding = A!Current'
  <2>1. ~missed
    BY <1>4
  <2>2. CASE p = o
    BY <1>4, <2>2
  <2>3. CASE p # o
    <3>1. request'[p] = request[p] /\ Moving(p)
      BY <1>4, <2>3 DEF AccessIInv, Pages, Meant, Moving
    <3>2. Moving(o) /\ ~request[o].abandoned /\ ~request[p].abandoned
      BY <2>1, <3>1 DEF AccessIInv, OneWindow, Moving
    <3>3. document[o].open /\ document[p].open
      BY <3>1, <3>2 DEF AccessIInv, Pages, Heard, Moving
    <3> QED  BY <1>4, <2>3, <3>3 DEF AccessIInv, OneWindow
  <2> QED  BY <2>2, <2>3
<1>5. OneWindow'
  <2>1. \A p \in Windows : Moving(p)' => Moving(p) /\ request'[p].abandoned = request[p].abandoned
    BY DEF Moving
  <2> QED  BY <1>4, <2>1 DEF AccessIInv, OneWindow
<1>6. A!CookieAdmits'
  BY <1>2 DEF AccessIInv, A!CookieAdmits
<1> QED  BY <1>1, <1>3, <1>5, <1>6 DEF AccessIInv

(* A refusal.                                                                *)
LEMMA Refusing ==
  ASSUME AccessIInv, NEW o \in Windows, request[o] # None, request[o].at # "answered", A!Refuse(o),
         UNCHANGED <<desktop, linkUsed, cookie, document>>
  PROVE  AccessIInv'
<1>1. A!Answer(o, None, None)
  BY DEF A!Refuse
<1>2. /\ request' \in [Windows -> A!Calls \cup {None}] /\ Pages'
      /\ request'[o] \in A!Calls /\ request'[o].at = "answered" /\ request'[o].binding = None
      /\ request'[o].kind = request[o].kind /\ request'[o].header = request[o].header
      /\ request'[o].abandoned = request[o].abandoned
      /\ \A p \in Windows : p # o => request'[p] = request[p]
  BY <1>1, Answering
<1>3. journal' \in 0..MaxGeneration \cup {None} /\ A!EvidenceFits' /\ accidents' \in 0..MaxAccidents
      /\ registry' = registry /\ missed' = missed
  BY DEF A!Refuse, AccessIInv, AccessTypes, A!EvidenceFits
<1> QED  BY <1>2, <1>3, StepInPlace

(* The request goes on to the next place.                                    *)
LEMMA Advancing ==
  ASSUME AccessIInv, NEW o \in Windows, request[o] # None, request[o].at # "answered",
         NEW a \in {"admitted", "working"}, a = "working" => request[o].header = A!Current,
         request' = [request EXCEPT ![o].at = a],
         UNCHANGED <<desktop, registry, journal, linkUsed, cookie, document, missed, accidents>>
  PROVE  AccessIInv'
<1> DEFINE r == [request[o] EXCEPT !.at = a]
<1>1. request[o] \in A!Calls /\ request' = [request EXCEPT ![o] = r] /\ Meant(request[o])
  BY DEF AccessIInv, AccessTypes, Pages
<1>2. /\ r \in A!Calls /\ r.header = request[o].header /\ r.abandoned = request[o].abandoned
      /\ r.at = a /\ r.view = request[o].view /\ r.binding = request[o].binding
      /\ r.kind = request[o].kind /\ r.expected = request[o].expected
  BY <1>1 DEF A!Calls
<1> HIDE DEF r
<1>3. Meant(r)
  BY <1>1, <1>2 DEF Meant
<1>4. /\ request' \in [Windows -> A!Calls \cup {None}] /\ Pages'
      /\ request'[o] = r /\ \A p \in Windows : p # o => request'[p] = request[p]
  BY <1>1, <1>2, <1>3, SameRequest
<1>5. journal' \in 0..MaxGeneration \cup {None} /\ A!EvidenceFits' /\ accidents' \in 0..MaxAccidents
  BY DEF AccessIInv, AccessTypes, A!EvidenceFits
<1> QED  BY <1>2, <1>4, <1>5, StepInPlace

LEMMA GateStays ==
  ASSUME AccessIInv, NEW o \in Windows, A!Gate(o)
  PROVE  AccessIInv'
<1>1. request[o] # None /\ request[o].at = "sent"
  BY DEF A!Gate
<1>2. CASE A!Admits(request[o])
  BY <1>1, <1>2, Advancing DEF A!Gate
<1>3. CASE ~A!Admits(request[o])
  BY <1>1, <1>3, Refusing DEF A!Gate
<1> QED  BY <1>2, <1>3

LEMMA EndWorkStays ==
  ASSUME AccessIInv, NEW o \in Windows, A!EndWork(o)
  PROVE  AccessIInv'
<1>1. request[o] # None /\ request[o].at = "working"
  BY DEF A!EndWork, A!Working
<1>2. A!Refuse(o)
  BY DEF A!EndWork, A!Refuse
<1> QED  BY <1>1, <1>2, Refusing DEF A!EndWork

LEMMA ListStays ==
  ASSUME AccessIInv, NEW o \in Windows, request[o] # None, request[o].at = "admitted", A!List(o),
         UNCHANGED <<desktop, linkUsed, cookie, document>>
  PROVE  AccessIInv'
<1>1. CASE A!Answer(o, None, None)
  BY <1>1, Refusing DEF A!List, A!Refuse
<1>2. CASE A!Answer(o, A!View, None) /\ (journal = None => A!BoundNow(o))
  <2>1. /\ A!View \in A!Views /\ A!View.generation = registry.generation
        /\ A!View.recovery = (journal # None)
    BY DEF AccessIInv, AccessTypes, A!List, A!View, A!Views
  <2>2. ~A!View.recovery => A!View.generation = request[o].header.generation
    BY <1>2, <2>1, Bindings DEF A!BoundNow, AccessIInv
  <2>3. request[o].kind = "list"
    BY DEF A!List
  <2> DEFINE k == A!View
  <2> HIDE DEF k
  <2>4. k \in A!Views \cup {None} /\ (~k.recovery => k.generation = request[o].header.generation)
        /\ A!Answer(o, k, None)
    BY <1>2, <2>1, <2>2 DEF k
  <2>5. /\ request' \in [Windows -> A!Calls \cup {None}] /\ Pages'
        /\ request'[o] \in A!Calls /\ request'[o].at = "answered" /\ request'[o].binding = None
        /\ request'[o].kind = request[o].kind /\ request'[o].header = request[o].header
        /\ request'[o].abandoned = request[o].abandoned
        /\ \A p \in Windows : p # o => request'[p] = request[p]
    BY <2>3, <2>4, Answering
  <2>6. journal' \in 0..MaxGeneration \cup {None} /\ A!EvidenceFits' /\ accidents' \in 0..MaxAccidents
        /\ registry' = registry /\ missed' = missed
    BY DEF A!List, AccessIInv, AccessTypes, A!EvidenceFits
  <2> QED  BY <2>5, <2>6, StepInPlace
<1> QED  BY <1>1, <1>2 DEF A!List

LEMMA WorkStays ==
  ASSUME AccessIInv, NEW o \in Windows, request[o] # None, request[o].at = "admitted", A!BeginWork(o),
         UNCHANGED <<desktop, linkUsed, cookie, document>>
  PROVE  AccessIInv'
<1>1. CASE A!BoundNow(o)
  BY <1>1, Advancing DEF A!BeginWork, A!BoundNow
<1>2. CASE ~A!BoundNow(o)
  BY <1>2, Refusing DEF A!BeginWork, A!Refuse
<1> QED  BY <1>1, <1>2

LEMMA RecoverStays ==
  ASSUME AccessIInv, NEW o \in Windows, request[o] # None, request[o].at = "admitted", A!Recover(o),
         UNCHANGED <<desktop, linkUsed, cookie, document>>
  PROVE  AccessIInv'
<1>1. CASE A!Refuse(o)
  BY <1>1, Refusing
<1>2. CASE ~A!Refuse(o)
  <2> DEFINE k == A!View
  <2>1. /\ request[o].kind = "recover" /\ journal' = None /\ A!Answer(o, k, A!Current)
        /\ registry' = registry /\ missed' = missed /\ accidents' = accidents
    BY <1>2 DEF A!Recover
  <2>2. k \in A!Views /\ k.generation = registry.generation
    BY <2>1 DEF AccessIInv, AccessTypes, A!View, A!Views
  <2> HIDE DEF k
  <2> DEFINE b == A!Current
  <2>3. b \in A!Binding /\ b.generation = registry.generation /\ b # None
    BY Bindings DEF AccessIInv
  <2>a. A!Answer(o, k, b)
    BY <2>1
  <2> HIDE DEF b
  <2>4. /\ request' \in [Windows -> A!Calls \cup {None}] /\ Pages'
        /\ request'[o] \in A!Calls /\ request'[o].at = "answered" /\ request'[o].binding = b
        /\ request'[o].kind = request[o].kind /\ request'[o].header = request[o].header
        /\ request'[o].abandoned = request[o].abandoned
        /\ \A p \in Windows : p # o => request'[p] = request[p]
    <3>1. k # None
      BY <2>2, AccessAssumption
    <3> QED  BY <2>1, <2>a, <2>2, <2>3, <3>1, Answering
  <2>5. journal' \in 0..MaxGeneration \cup {None} /\ A!EvidenceFits' /\ accidents' \in 0..MaxAccidents
    BY <2>1 DEF AccessIInv, AccessTypes, A!EvidenceFits
  <2> QED  BY <2>1, <2>4, <2>5, StepInPlace DEF b
<1> QED  BY <1>1, <1>2

(* What a change of the registry answers, or does not.                       *)
LEMMA Moved ==
  ASSUME AccessIInv, NEW o \in Windows, request[o] # None, request[o].at = "admitted",
         request[o].kind \in {"setup", "change", "switch"}, A!BoundNow(o), A!MutationReady,
         NEW p \in Values, registry.generation < MaxGeneration,
         registry' = [generation |-> registry.generation + 1, active |-> p],
         request[o].kind = "change" => p = registry.active,
         \/ A!Answer(o, A!View, A!Current') /\ missed' = missed
         \/ A!Answer(o, None, None) /\ missed' = TRUE,
         journal' \in {None, registry.generation}, accidents' \in 0..MaxAccidents,
         UNCHANGED <<desktop, linkUsed, cookie, document>>
  PROVE  AccessIInv'
<1>1. /\ registry' \in [generation : 0..MaxGeneration, active : Values \cup {A!Legacy}]
      /\ registry'.generation = registry.generation + 1 /\ registry'.active = p
      /\ registry'.generation # 0 /\ registry'.active # A!Legacy
      /\ registry.generation \in 0..MaxGeneration
  BY AccessAssumption DEF AccessIInv, AccessTypes
<1>2. A!EvidenceFits' /\ journal' \in 0..MaxGeneration \cup {None} /\ A!Working = {}
  BY <1>1, AccessAssumption DEF A!EvidenceFits, A!MutationReady
<1> DEFINE k == A!View
           b == A!Current'
<1>3. /\ k \in A!Views /\ k.generation = b.generation /\ b \in A!Binding /\ b.profile = p
      /\ k # None /\ b # None
  <2>1. k \in A!Views /\ k.generation = registry'.generation
    BY <1>1, <1>2 DEF A!View, A!Views
  <2>2. b \in A!Binding /\ b.generation = registry'.generation /\ b.profile = p
    BY <1>1 DEF A!Current, A!Binding
  <2> QED  BY <2>1, <2>2, AccessAssumption
<1>4. request[o].kind = "change" => b.profile = request[o].header.profile
  <2>1. request[o].header.profile = registry.active
    BY Bindings DEF A!BoundNow, AccessIInv
  <2> QED  BY <1>3, <2>1
<1>5. CASE A!Answer(o, k, b) /\ missed' = missed
  <2>a. A!Answer(o, k, b) /\ missed' = missed
    BY <1>5
  <2>b. b = A!Current'
    OBVIOUS
  <2> HIDE DEF k, b
  <2>1. /\ request' \in [Windows -> A!Calls \cup {None}] /\ Pages'
        /\ request'[o] \in A!Calls /\ request'[o].at = "answered" /\ request'[o].binding = b
        /\ request'[o].kind = request[o].kind /\ request'[o].header = request[o].header
        /\ request'[o].abandoned = request[o].abandoned
        /\ \A q \in Windows : q # o => request'[q] = request[q]
    BY <2>a, <1>3, <1>4, Answering
  <2> QED  BY <1>1, <1>2, <2>a, <2>b, <2>1, Moves
<1>6. CASE A!Answer(o, None, None) /\ missed' = TRUE
  <2>1. /\ request' \in [Windows -> A!Calls \cup {None}] /\ Pages'
        /\ request'[o] \in A!Calls /\ request'[o].at = "answered" /\ request'[o].binding = None
        /\ request'[o].kind = request[o].kind /\ request'[o].header = request[o].header
        /\ request'[o].abandoned = request[o].abandoned
        /\ \A q \in Windows : q # o => request'[q] = request[q]
    BY <1>6, Answering
  <2> QED  BY <1>1, <1>2, <1>6, <2>1, Moves
<1> QED  BY <1>5, <1>6

LEMMA SwitchStays ==
  ASSUME AccessIInv, NEW o \in Windows, request[o] # None, request[o].at = "admitted", A!Switch(o),
         UNCHANGED <<desktop, linkUsed, cookie, document>>
  PROVE  AccessIInv'
<1>1. CASE A!Refuse(o)
  BY <1>1, Refusing
<1>2. CASE ~A!Refuse(o)
  <2>1. PICK p \in Values : registry' = [generation |-> registry.generation + 1, active |-> p]
    BY <1>2 DEF A!Switch
  <2>2. /\ request[o].kind = "switch" /\ A!BoundNow(o) /\ A!MutationReady
        /\ registry.generation < MaxGeneration /\ A!Answer(o, A!View, A!Current')
        /\ missed' = missed /\ accidents' = accidents /\ journal' = journal
    BY <1>2 DEF A!Switch
  <2>3. journal' = None
    BY <2>2 DEF A!MutationReady
  <2>4. accidents' \in 0..MaxAccidents
    BY <2>2 DEF AccessIInv, AccessTypes
  <2> QED  BY <2>1, <2>2, <2>3, <2>4, Moved
<1> QED  BY <1>1, <1>2

LEMMA ChangedStays ==
  ASSUME AccessIInv, NEW o \in Windows, request[o] # None, request[o].at = "admitted",
         request[o].kind \in {"setup", "change"}, A!BoundNow(o), A!MutationReady, NEW p,
         p \in Values \/ (p = registry.active /\ request[o].kind = "change"),
         request[o].kind = "change" => p = registry.active,
         NEW committed \in BOOLEAN, NEW cleared \in BOOLEAN, NEW answered \in BOOLEAN,
         A!Changed(o, p, committed, cleared, answered),
         UNCHANGED <<desktop, linkUsed, cookie, document>>
  PROVE  AccessIInv'
<1>1. /\ request[o].expected = registry.generation
      /\ request[o].kind = "change" => registry.generation # 0
      /\ registry.generation \in 0..MaxGeneration
  <2>1. Meant(request[o]) /\ request[o].header.generation = registry.generation
    BY Bindings DEF A!BoundNow, AccessIInv, Pages
  <2> QED  BY <2>1 DEF Meant, AccessIInv, AccessTypes
<1>2. p \in Values
  BY <1>1 DEF AccessIInv, AccessTypes
<1>3. journal' \in {None, registry.generation} /\ accidents' \in 0..MaxAccidents
  <2>1. accidents' = accidents \/ (accidents < MaxAccidents /\ accidents' = accidents + 1)
    BY DEF A!Changed
  <2> QED  BY <1>1, <2>1, AccessAssumption DEF A!Changed, AccessIInv, AccessTypes
<1>4. CASE committed
  <2>1. registry' = [generation |-> registry.generation + 1, active |-> p] /\ registry.generation < MaxGeneration
    BY <1>4 DEF A!Changed
  <2>2. \/ A!Answer(o, A!View, A!Current') /\ missed' = missed
        \/ A!Answer(o, None, None) /\ missed' = TRUE
    <3>1. missed \in BOOLEAN
      BY DEF AccessIInv, AccessTypes
    <3>2. CASE answered
      BY <1>4, <3>1, <3>2 DEF A!Changed
    <3>3. CASE ~answered
      BY <1>4, <3>1, <3>3 DEF A!Changed
    <3> QED  BY <3>2, <3>3
  <2> QED  BY <1>2, <1>3, <2>1, <2>2, Moved
<1>5. CASE ~committed
  <2>1. /\ A!Answer(o, None, None) /\ registry' = registry /\ journal' = registry.generation
    BY <1>1, <1>5 DEF A!Changed
  <2>2. missed' = missed
    BY <1>5 DEF A!Changed, AccessIInv, AccessTypes
  <2>3. A!EvidenceFits' /\ journal' \in 0..MaxGeneration \cup {None}
    BY <1>1, <2>1, AccessAssumption DEF A!EvidenceFits
  <2>4. /\ request' \in [Windows -> A!Calls \cup {None}] /\ Pages'
        /\ request'[o] \in A!Calls /\ request'[o].at = "answered" /\ request'[o].binding = None
        /\ request'[o].kind = request[o].kind /\ request'[o].header = request[o].header
        /\ request'[o].abandoned = request[o].abandoned
        /\ \A q \in Windows : q # o => request'[q] = request[q]
    BY <2>1, Answering
  <2> QED  BY <1>3, <2>1, <2>2, <2>3, <2>4, StepInPlace
<1> QED  BY <1>4, <1>5

LEMMA HandleStays ==
  ASSUME AccessIInv, NEW o \in Windows, A!Handle(o)
  PROVE  AccessIInv'
<1>1. request[o] # None /\ request[o].at = "admitted" /\ UNCHANGED <<desktop, linkUsed, cookie, document>>
  BY DEF A!Handle
<1>2. CASE A!Change(o)
  <2>1. CASE A!Refuse(o)
    BY <1>1, <2>1, Refusing
  <2>2. CASE ~A!Refuse(o)
    <3>1. PICK committed, cleared, answered \in BOOLEAN : A!Changed(o, registry.active, committed, cleared, answered)
      BY <1>2, <2>2 DEF A!Change
    <3>2. request[o].kind = "change" /\ A!BoundNow(o) /\ A!MutationReady
      BY <1>2, <2>2 DEF A!Change
    <3> QED  BY <1>1, <3>1, <3>2, ChangedStays
  <2> QED  BY <2>1, <2>2
<1>3. CASE A!SetUp(o)
  <2>1. CASE A!Refuse(o)
    BY <1>1, <2>1, Refusing
  <2>2. CASE ~A!Refuse(o)
    <3>1. PICK p \in Values, committed, cleared \in BOOLEAN : A!Changed(o, p, committed, cleared, cleared)
      BY <1>3, <2>2 DEF A!SetUp
    <3>2. request[o].kind = "setup" /\ A!BoundNow(o) /\ A!MutationReady
      BY <1>3, <2>2 DEF A!SetUp
    <3> QED  BY <1>1, <3>1, <3>2, ChangedStays
  <2> QED  BY <2>1, <2>2
<1> QED  BY <1>1, <1>2, <1>3, ListStays, WorkStays, SwitchStays, RecoverStays DEF A!Handle

LEMMA EmptyDocuments ==
  /\ A!NoDocument \in A!Documents /\ ~A!NoDocument.open /\ A!NoDocument.doc = None
  /\ A!NoDocument.view = None /\ ~A!NoDocument.switching
  /\ A!Document \in A!Documents /\ A!Document.open /\ A!Document.doc = None
  /\ A!Document.view = None /\ ~A!Document.switching
BY DEF A!NoDocument, A!Document, A!Documents

LEMMA OpenLinkStays ==
  ASSUME AccessIInv, NEW o \in Windows, A!OpenLink(o)
  PROVE  AccessIInv'
<1>1. /\ document' = [document EXCEPT ![o] = A!Document] /\ ~document[o].open /\ request' = request
      /\ registry' = registry /\ journal' = journal /\ missed' = missed /\ desktop' = desktop
      /\ cookie' = A!Current /\ linkUsed' = TRUE /\ accidents' = accidents
      /\ desktop => \A p \in Windows \ {o} : ~document[p].open
  BY DEF A!OpenLink, A!Alone
<1>2. /\ document' \in [Windows -> A!Documents] /\ document'[o] = A!Document
      /\ \A p \in Windows : p # o => document'[p] = document[p]
  BY <1>1, EmptyDocuments DEF AccessIInv, AccessTypes
<1>3. AccessTypes'
  BY <1>1, <1>2, Bindings DEF AccessIInv, AccessTypes
<1>4. Heard(A!Document, request[o])
  <2>1. Heard(document[o], request[o])
    BY DEF AccessIInv, Pages
  <2> QED  BY <1>1, <2>1, EmptyDocuments DEF Heard
<1>5. Pages'
  BY <1>1, <1>2, <1>4 DEF AccessIInv, Pages
<1>6. A!Current' = A!Current /\ A!Working' = A!Working
  BY <1>1 DEF A!Current, A!Working
<1>7. Works'
  BY <1>1, <1>6 DEF AccessIInv, Works
<1>8. OneWindow'
  BY <1>1, <1>2, <1>6 DEF AccessIInv, OneWindow, Moving
<1>9. A!EvidenceFits' /\ A!CookieAdmits'
  BY <1>1, <1>6 DEF AccessIInv, A!EvidenceFits, A!CookieAdmits
<1> QED  BY <1>3, <1>5, <1>7, <1>8, <1>9 DEF AccessIInv

(* A document that is left behind: its request is abandoned, and an answer   *)
(* that moves the binding is lost with it.                                   *)
LEMMA ReloadStays ==
  ASSUME AccessIInv, NEW o \in Windows, A!Reload(o)
  PROVE  AccessIInv'
<1>1. /\ document' \in {[document EXCEPT ![o] = A!Document], [document EXCEPT ![o] = A!NoDocument]}
      /\ registry' = registry /\ journal' = journal /\ desktop' = desktop
      /\ cookie' = cookie /\ linkUsed' = linkUsed
      /\ desktop => \A p \in Windows \ {o} : ~document[p].open
  BY DEF A!Reload, A!Alone
<1>2. /\ document' \in [Windows -> A!Documents] /\ document'[o] \in {A!Document, A!NoDocument}
      /\ \A p \in Windows : p # o => document'[p] = document[p]
  BY <1>1, EmptyDocuments DEF AccessIInv, AccessTypes
<1>3. /\ request' \in [Windows -> A!Calls \cup {None}] /\ accidents' \in 0..MaxAccidents
      /\ \A p \in Windows : p # o => request'[p] = request[p]
      /\ missed' \in BOOLEAN /\ (missed => missed')
      /\ request[o] = None => request'[o] = None
      /\ request[o] # None => /\ request'[o] # None /\ request'[o].abandoned
                              /\ request'[o].kind = request[o].kind /\ request'[o].at = request[o].at
                              /\ request'[o].header = request[o].header
                              /\ request'[o].binding = request[o].binding
                              /\ Meant(request'[o])
      /\ Moving(o) => missed'
  <2>1. CASE request[o] = None \/ request[o].abandoned
    <3>1. UNCHANGED <<request, missed, accidents>>
      BY <2>1 DEF A!Reload, A!Abandon
    <3>2. Moving(o) => missed
      BY <2>1 DEF AccessIInv, OneWindow, Moving
    <3> QED  BY <2>1, <3>1, <3>2 DEF AccessIInv, AccessTypes, Pages
  <2>2. CASE ~(request[o] = None \/ request[o].abandoned)
    <3> DEFINE r == [request[o] EXCEPT !.abandoned = TRUE]
    <3>1. /\ accidents < MaxAccidents /\ accidents' = accidents + 1 /\ request' = [request EXCEPT ![o] = r]
          /\ missed' = (missed \/ request[o].kind \notin {"list", "work"})
      BY <2>2 DEF A!Reload, A!Abandon
    <3>2. request[o] \in A!Calls /\ Meant(request[o])
      BY <2>2 DEF AccessIInv, AccessTypes, Pages
    <3>3. /\ r \in A!Calls /\ r.abandoned /\ r.kind = request[o].kind /\ r.at = request[o].at
          /\ r.header = request[o].header /\ r.binding = request[o].binding
          /\ r.view = request[o].view /\ r.expected = request[o].expected
      BY <3>2 DEF A!Calls
    <3> HIDE DEF r
    <3>4. Meant(r)
      BY <3>2, <3>3 DEF Meant
    <3>5. r # None
      BY <3>3, AccessAssumption
    <3>6. /\ request' \in [Windows -> A!Calls \cup {None}] /\ request'[o] = r
          /\ \A p \in Windows : p # o => request'[p] = request[p]
      BY <3>1, <3>3 DEF AccessIInv, AccessTypes
    <3>7. accidents' \in 0..MaxAccidents
      BY <3>1, AccessAssumption DEF AccessIInv, AccessTypes
    <3>8. missed' \in BOOLEAN /\ (missed => missed') /\ (Moving(o) => missed')
      BY <3>1 DEF Moving
    <3> QED  BY <2>2, <3>3, <3>4, <3>5, <3>6, <3>7, <3>8
  <2> QED  BY <2>1, <2>2
<1>4. AccessTypes'
  BY <1>1, <1>2, <1>3 DEF AccessIInv, AccessTypes
<1>5. Heard(document'[o], request'[o])
  BY <1>2, <1>3, EmptyDocuments DEF Heard
<1>6. Pages'
  BY <1>2, <1>3, <1>5 DEF AccessIInv, Pages
<1>7. A!Current' = A!Current
  BY <1>1 DEF A!Current
<1>8. Works'
  BY <1>3, <1>7 DEF AccessIInv, Works, A!Working
<1>9. OneWindow'
  <2>1. desktop' => \A p, q \in Windows : document'[p].open /\ document'[q].open => p = q
    BY <1>1, <1>2
  <2>2. \A p \in Windows : Moving(p)' => Moving(p)
    BY <1>3 DEF Moving
  <2>3. ~missed' => \A p \in Windows : Moving(p)' => ~request'[p].abandoned
    BY <1>3, <2>2 DEF AccessIInv, OneWindow
  <2>4. desktop' /\ ~missed' =>
          \A p \in Windows : request'[p] # None /\ request'[p].binding # None => request'[p].binding = A!Current
    BY <1>1, <1>3 DEF AccessIInv, OneWindow
  <2> QED  BY <1>7, <2>1, <2>3, <2>4 DEF OneWindow
<1>10. A!EvidenceFits' /\ A!CookieAdmits'
  BY <1>1, <1>3, <1>7 DEF AccessIInv, A!EvidenceFits, A!CookieAdmits
<1> QED  BY <1>4, <1>6, <1>8, <1>9, <1>10 DEF AccessIInv

(* What the page adopts of an answer.                                        *)
LEMMA Adopting ==
  ASSUME AccessIInv, NEW o \in Windows, request[o] # None, ~request[o].abandoned,
         NEW d, d.open = document[o].open, d.shows = document[o].shows,
         d.doc = IF request[o].binding = None THEN document[o].doc ELSE request[o].binding,
         d.view = IF request[o].view = None \/ request[o].kind = "switch"
                  THEN document[o].view ELSE request[o].view,
         d.switching = (request[o].binding # None /\ request[o].kind \in {"setup", "switch", "recover"})
  PROVE  Heard(d, None)
<1>1. Heard(document[o], request[o]) /\ Meant(request[o]) /\ request[o] \in A!Calls
  BY DEF AccessIInv, Pages, AccessTypes
<1>2. request[o].header = document[o].doc /\ document[o].doc # None
  BY <1>1, AccessAssumption DEF Heard, A!Calls
<1>3. CASE request[o].binding = None
  <2>1. /\ document[o].shows = document[o].doc.profile
        /\ document[o].view # None /\ ~document[o].view.recovery =>
             document[o].view.generation = document[o].doc.generation
    BY <1>1, <1>2 DEF Heard
  <2>2. CASE request[o].view = None \/ request[o].kind = "switch"
    BY <1>2, <1>3, <2>1, <2>2 DEF Heard
  <2>3. CASE ~(request[o].view = None \/ request[o].kind = "switch")
    <3>1. d.doc = document[o].doc /\ d.view = request[o].view /\ ~d.switching
      BY <1>3, <2>3
    <3>2. ~d.view.recovery => d.view.generation = d.doc.generation
      BY <1>1, <1>2, <1>3, <2>3, <3>1 DEF Meant
    <3> QED  BY <1>2, <2>1, <3>1, <3>2 DEF Heard
  <2> QED  BY <2>2, <2>3
<1>4. CASE request[o].binding # None
  <2>1. CASE d.switching
    BY <1>2, <1>4, <2>1 DEF Heard
  <2>2. CASE ~d.switching
    <3>1. request[o].kind = "change" /\ d.doc = request[o].binding /\ d.view = request[o].view
      BY <1>1, <1>4, <2>2 DEF Meant, A!Calls, A!Kinds
    <3>2. d.shows = d.doc.profile
      <4>1. document[o].shows = document[o].doc.profile
        BY <1>1, <1>2 DEF Heard
      <4> QED  BY <1>1, <1>2, <1>4, <3>1, <4>1 DEF Meant
    <3>3. d.view.generation = d.doc.generation
      BY <1>1, <1>4, <3>1 DEF Meant
    <3> QED  BY <1>4, <3>1, <3>2, <3>3 DEF Heard
  <2> QED  BY <2>1, <2>2
<1> QED  BY <1>3, <1>4

LEMMA ReceiveStays ==
  ASSUME AccessIInv, NEW o \in Windows, A!Receive(o)
  PROVE  AccessIInv'
<1>1. /\ request[o] # None /\ request[o].at = "answered" /\ request' = [request EXCEPT ![o] = None]
      /\ registry' = registry /\ journal' = journal /\ missed' = missed /\ desktop' = desktop
      /\ linkUsed' = linkUsed /\ accidents' = accidents
  BY DEF A!Receive
<1>2. /\ request' \in [Windows -> A!Calls \cup {None}] /\ request'[o] = None
      /\ \A p \in Windows : p # o => request'[p] = request[p]
  BY <1>1 DEF AccessIInv, AccessTypes
<1>3. request[o] \in A!Calls /\ Meant(request[o]) /\ Heard(document[o], request[o])
  BY <1>1 DEF AccessIInv, AccessTypes, Pages
<1>4. /\ document' \in [Windows -> A!Documents] /\ \A p \in Windows : p # o => document'[p] = document[p]
      /\ document'[o].open = document[o].open /\ Heard(document'[o], None)
      /\ cookie' \in A!Binding \cup {None}
      /\ cookie' = IF request[o].abandoned \/ request[o].binding = None THEN cookie ELSE request[o].binding
  <2>1. CASE request[o].abandoned
    <3>1. document' = document /\ cookie' = cookie
      BY <2>1 DEF A!Receive
    <3>2. Heard(document[o], None)
      BY <1>1, <1>3, <2>1 DEF Heard
    <3> QED  BY <2>1, <3>1, <3>2 DEF AccessIInv, AccessTypes
  <2>2. CASE ~request[o].abandoned
    <3> DEFINE d == [document[o] EXCEPT
                      !.doc = IF request[o].binding = None THEN document[o].doc ELSE request[o].binding,
                      !.view = IF request[o].view = None \/ request[o].kind = "switch"
                               THEN document[o].view ELSE request[o].view,
                      !.switching = request[o].binding # None /\ request[o].kind \in {"setup", "switch", "recover"}]
    <3>1. document[o] \in A!Documents
      BY DEF AccessIInv, AccessTypes
    <3>2. document' = [document EXCEPT ![o] = d]
          /\ cookie' = IF request[o].binding = None THEN cookie ELSE request[o].binding
      BY <2>2 DEF A!Receive
    <3>3. /\ d.open = document[o].open /\ d.shows = document[o].shows
          /\ d.doc = IF request[o].binding = None THEN document[o].doc ELSE request[o].binding
          /\ d.view = IF request[o].view = None \/ request[o].kind = "switch"
                      THEN document[o].view ELSE request[o].view
          /\ d.switching = (request[o].binding # None /\ request[o].kind \in {"setup", "switch", "recover"})
          /\ d.asked = document[o].asked /\ DOMAIN d = DOMAIN document[o]
      BY <3>1 DEF A!Documents
    <3>4. d \in A!Documents
      <4>1. request[o].binding \in A!Binding \cup {None} /\ request[o].view \in A!Views \cup {None}
        BY <1>3 DEF A!Calls
      <4> QED  BY <3>1, <4>1 DEF A!Documents
    <3> HIDE DEF d
    <3>5. Heard(d, None)
      BY <1>1, <2>2, <3>3, Adopting
    <3>6. document' \in [Windows -> A!Documents] /\ document'[o] = d
          /\ \A p \in Windows : p # o => document'[p] = document[p]
      BY <3>2, <3>4 DEF AccessIInv, AccessTypes
    <3>7. cookie' \in A!Binding \cup {None}
      BY <1>3, <3>2 DEF A!Calls, AccessIInv, AccessTypes
    <3> QED  BY <2>2, <3>2, <3>3, <3>5, <3>6, <3>7
  <2> QED  BY <2>1, <2>2
<1>5. AccessTypes'
  BY <1>1, <1>2, <1>4 DEF AccessIInv, AccessTypes
<1>6. Pages'
  BY <1>2, <1>4 DEF AccessIInv, Pages
<1>7. A!Current' = A!Current
  BY <1>1 DEF A!Current
<1>8. Works'
  BY <1>2, <1>7 DEF AccessIInv, Works, A!Working
<1>9. OneWindow'
  <2>1. \A p \in Windows : document'[p].open = document[p].open
    BY <1>4
  <2>2. \A p \in Windows : Moving(p)' => Moving(p) /\ request'[p] = request[p]
    BY <1>2 DEF Moving
  <2> QED  BY <1>1, <1>2, <1>7, <2>1, <2>2 DEF AccessIInv, OneWindow
<1>10. A!CookieAdmits'
  <2>1. CASE ~desktop \/ ~linkUsed \/ missed
    BY <1>1, <2>1 DEF A!CookieAdmits
  <2>2. CASE desktop /\ linkUsed /\ ~missed
    <3>1. request[o].binding # None => ~request[o].abandoned /\ request[o].binding = A!Current
      BY <1>1, <1>3, <2>2 DEF AccessIInv, OneWindow, Moving, Meant
    <3>2. CASE request[o].binding # None
      BY <1>4, <1>7, <3>1, <3>2 DEF A!CookieAdmits
    <3>3. CASE request[o].binding = None
      <4>1. cookie' = cookie
        BY <1>4, <3>3
      <4>2. A!Current # None
        BY Bindings DEF AccessIInv
      <4>3. cookie = A!Current
            \/ \E p \in Windows : p # o /\ request[p] # None /\ request[p].at = "answered"
                                /\ request[p].binding = A!Current
        BY <2>2, <3>3, <4>2 DEF AccessIInv, A!CookieAdmits
      <4> QED  BY <1>2, <1>7, <4>1, <4>3 DEF A!CookieAdmits
    <3> QED  BY <3>2, <3>3
  <2> QED  BY <2>1, <2>2 DEF AccessIInv, AccessTypes
<1>11. A!EvidenceFits'
  BY <1>1 DEF AccessIInv, A!EvidenceFits
<1> QED  BY <1>5, <1>6, <1>8, <1>9, <1>10, <1>11 DEF AccessIInv

LEMMA SendStays ==
  ASSUME AccessIInv, NEW o \in Windows, NEW kind \in A!Kinds, A!Send(o, kind)
  PROVE  AccessIInv'
<1> DEFINE pin == A!Pinned(o)
           r == A!Request(o, kind)
           d == [document[o] EXCEPT !.doc = pin, !.asked = TRUE,
                   !.shows = IF document[o].doc = None THEN cookie.profile ELSE document[o].shows,
                   !.switching = kind \in {"setup", "switch"}]
<1>1. /\ document[o].open /\ request[o] = None /\ ~document[o].switching /\ pin # None
      /\ kind # "list" => (kind = "recover" <=> A!SeesRecovery(o))
      /\ kind \in {"setup", "change", "switch"} =>
           document[o].view # None /\ (kind = "setup" <=> document[o].view.generation = 0)
  BY DEF A!Send, A!Offers
<1>2. document[o] \in A!Documents /\ Heard(document[o], None) /\ cookie \in A!Binding \cup {None}
  BY <1>1 DEF AccessIInv, AccessTypes, Pages
<1>3. document' = [document EXCEPT ![o] = d] /\ request' = [request EXCEPT ![o] = r]
      /\ registry' = registry /\ journal' = journal /\ missed' = missed /\ desktop' = desktop
      /\ linkUsed' = linkUsed /\ accidents' = accidents /\ cookie' = cookie
  <2>1. document' = [document EXCEPT ![o] = d]
    BY DEF A!Send, AccessIInv, AccessTypes
  <2> QED  BY <2>1 DEF A!Send
<1>4. pin \in A!Binding /\ (document[o].doc # None => pin = document[o].doc)
      /\ (document[o].doc = None => pin = cookie)
  BY <1>1, <1>2 DEF A!Pinned, A!Documents
<1>5. /\ r.kind = kind /\ r.at = "sent" /\ r.header = pin /\ ~r.abandoned
      /\ r.view = None /\ r.binding = None /\ r \in A!Calls
      /\ document[o].view # None => r.expected = document[o].view.generation
  <2>1. r.expected \in 0..MaxGeneration
    BY <1>2, AccessAssumption DEF A!Request, A!Documents, A!Views
  <2>a. r = [kind |-> kind, at |-> "sent", header |-> pin, cookie |-> cookie, abandoned |-> FALSE,
             expected |-> r.expected, view |-> None, binding |-> None]
    BY DEF A!Request
  <2>b. document[o].view # None => r.expected = document[o].view.generation
    BY DEF A!Request
  <2> HIDE DEF r, pin
  <2>c. r \in A!Calls
    <3> DEFINE e == r.expected
    <3>1. e \in 0..MaxGeneration /\ r = [kind |-> kind, at |-> "sent", header |-> pin, cookie |-> cookie,
             abandoned |-> FALSE, expected |-> e, view |-> None, binding |-> None]
      BY <2>1, <2>a
    <3> HIDE DEF e
    <3> QED  BY <1>2, <1>4, <3>1 DEF A!Calls
  <2> QED  BY <2>a, <2>b, <2>c
<1>6. /\ d.open /\ d.doc = pin /\ d.view = document[o].view
      /\ d.shows = IF document[o].doc = None THEN cookie.profile ELSE document[o].shows
      /\ d \in A!Documents
  <2>1. cookie \in A!Binding => cookie.profile \in Values \cup {A!Legacy}
    BY DEF A!Binding
  <2>2. (IF document[o].doc = None THEN cookie.profile ELSE document[o].shows) \in Values \cup {A!Legacy, None}
    BY <1>1, <1>2, <1>4, <2>1 DEF A!Documents
  <2> DEFINE sh == IF document[o].doc = None THEN cookie.profile ELSE document[o].shows
             sw == kind \in {"setup", "switch"}
  <2>3. d = [document[o] EXCEPT !.doc = pin, !.asked = TRUE, !.shows = sh, !.switching = sw]
    OBVIOUS
  <2>4. sh \in Values \cup {A!Legacy, None} /\ sw \in BOOLEAN /\ pin \in A!Binding
    BY <1>4, <2>2
  <2> HIDE DEF pin, sh, sw, d
  <2>5. d \in A!Documents /\ d.open = document[o].open /\ d.doc = pin /\ d.view = document[o].view
        /\ d.shows = sh
    BY <1>2, <2>3, <2>4 DEF A!Documents
  <2> QED  BY <1>1, <2>5 DEF sh
<1>7. Meant(r)
  <2>1. kind \in {"setup", "change", "switch"} => document[o].view.generation = pin.generation
    BY <1>1, <1>2, <1>4 DEF Heard, A!SeesRecovery, A!Kinds
  <2> HIDE DEF r, pin
  <2> QED  BY <1>1, <1>5, <2>1 DEF Meant
<1>8. Heard(d, r)
  <2>1. d.shows = d.doc.profile
    BY <1>1, <1>2, <1>4, <1>6 DEF Heard
  <2>2. d.view # None => d.doc # None
    BY <1>1, <1>6
  <2>3. d.view # None /\ ~d.view.recovery => d.view.generation = d.doc.generation
    BY <1>1, <1>2, <1>4, <1>6 DEF Heard
  <2> HIDE DEF r, d, pin
  <2> QED  BY <1>5, <1>6, <2>1, <2>2, <2>3 DEF Heard
<1> HIDE DEF r, d, pin
<1>9. /\ document' \in [Windows -> A!Documents] /\ request' \in [Windows -> A!Calls \cup {None}]
      /\ document'[o] = d /\ request'[o] = r
      /\ \A p \in Windows : p # o => document'[p] = document[p] /\ request'[p] = request[p]
  BY <1>3, <1>5, <1>6 DEF AccessIInv, AccessTypes
<1>10. AccessTypes'
  BY <1>3, <1>9 DEF AccessIInv, AccessTypes
<1>11. Pages'
  BY <1>7, <1>8, <1>9 DEF AccessIInv, Pages
<1>12. A!Current' = A!Current
  BY <1>3 DEF A!Current
<1>13. Works'
  BY <1>5, <1>9, <1>12 DEF AccessIInv, Works, A!Working
<1>14. OneWindow'
  <2>1. \A p \in Windows : document'[p].open <=> document[p].open
    BY <1>1, <1>6, <1>9
  <2>2. \A p \in Windows : Moving(p)' => ~request'[p].abandoned \/ (Moving(p) /\ request'[p] = request[p])
    BY <1>5, <1>9 DEF Moving
  <2>3. \A p \in Windows : request'[p] # None /\ request'[p].binding # None => request'[p] = request[p]
    BY <1>5, <1>9
  <2> QED  BY <1>3, <1>12, <2>1, <2>2, <2>3 DEF AccessIInv, OneWindow
<1>15. A!CookieAdmits' /\ A!EvidenceFits'
  BY <1>1, <1>3, <1>9, <1>12 DEF AccessIInv, A!CookieAdmits, A!EvidenceFits
<1> QED  BY <1>10, <1>11, <1>13, <1>14, <1>15 DEF AccessIInv

LEMMA RestartStays ==
  ASSUME AccessIInv, A!Restart
  PROVE  AccessIInv'
<1>1. /\ accidents < MaxAccidents /\ accidents' = accidents + 1 /\ cookie' = None /\ ~linkUsed' /\ ~missed'
      /\ linkUsed' \in BOOLEAN /\ missed' \in BOOLEAN
      /\ request' = [o \in Windows |-> None]
      /\ registry' = registry /\ journal' = journal /\ desktop' = desktop
  BY DEF A!Restart
<1>2. document' \in [Windows -> A!Documents]
      /\ \A o \in Windows : Heard(document'[o], None) /\ (document'[o].open => document[o].open)
  <2>1. CASE desktop
    <3>1. document' = [o \in Windows |-> A!NoDocument]
      BY <2>1 DEF A!Restart
    <3> QED  BY <3>1, EmptyDocuments DEF Heard
  <2>2. CASE ~desktop
    <3>1. document' = [o \in Windows |->
                        [document[o] EXCEPT !.switching = document[o].switching /\ request[o] = None]]
      BY <2>2 DEF A!Restart, AccessIInv, AccessTypes
    <3>2. ASSUME NEW o \in Windows PROVE
            /\ document'[o] \in A!Documents /\ document'[o].open = document[o].open
            /\ document'[o].doc = document[o].doc /\ document'[o].shows = document[o].shows
            /\ document'[o].view = document[o].view
            /\ document'[o].switching = (document[o].switching /\ request[o] = None)
      <4>1. document[o] \in A!Documents
        BY DEF AccessIInv, AccessTypes
      <4> QED  BY <3>1, <4>1 DEF A!Documents
    <3>3. ASSUME NEW o \in Windows PROVE Heard(document'[o], None)
      <4>1. Heard(document[o], request[o])
        BY DEF AccessIInv, Pages
      <4> QED  BY <3>2, <4>1 DEF Heard
    <3> QED  BY <3>1, <3>2, <3>3
  <2> QED  BY <2>1, <2>2 DEF AccessIInv, AccessTypes
<1>3. \A o \in Windows : request'[o] = None
  BY <1>1
<1>4. AccessTypes'
  <2>1. accidents' \in 0..MaxAccidents
    BY <1>1, AccessAssumption DEF AccessIInv, AccessTypes
  <2>2. request' \in [Windows -> A!Calls \cup {None}]
    BY <1>1
  <2> QED  BY <1>1, <1>2, <2>1, <2>2 DEF AccessIInv, AccessTypes
<1>5. Pages' /\ Works'
  BY <1>2, <1>3 DEF Pages, Works, A!Working
<1>6. OneWindow'
  BY <1>1, <1>2, <1>3 DEF AccessIInv, OneWindow, Moving
<1>7. A!CookieAdmits' /\ A!EvidenceFits'
  BY <1>1 DEF AccessIInv, A!CookieAdmits, A!EvidenceFits
<1> QED  BY <1>4, <1>5, <1>6, <1>7 DEF AccessIInv

LEMMA AccessStays == AccessIInv /\ A!AccessNext => AccessIInv'
BY OpenLinkStays, ReloadStays, ReceiveStays, GateStays, HandleStays, EndWorkStays, SendStays, RestartStays
   DEF A!AccessNext

-----------------------------------------------------------------------------
(* The lock of the registry (RegistryLock).                                  *)
Places == {"idle", "blocked", "held", "clean", "sweep", "publish", "settle", "confirm", "inspect",
           "normalize", "strip", "verify", "claim", "check", "unlink", "unclaim"}
AnyLock == L!Locks \cup {L!NoLock}

LockTypes ==
  /\ lock \in AnyLock
  /\ claim \in [Processes -> AnyLock] /\ temp \in [Processes -> AnyLock]
  /\ own \in [Processes -> AnyLock] /\ seen \in [Processes -> AnyLock] /\ glance \in [Processes -> AnyLock]
  /\ at \in [Processes -> Places]
  /\ alive \subseteq Processes /\ rivals \in Rivalry /\ stolen \in BOOLEAN

(* A process makes locks of its own, and leaves the temporary name of one    *)
(* only while it publishes.                                                  *)
Made(p) ==
  /\ own[p].by \in {p, None}
  /\ at[p] # "idle" => own[p].by = p
  /\ temp[p] \in {own[p], L!NoLock}
  /\ temp[p] # L!NoLock => at[p] = "settle"

(* What a live process means to unlink is its own lock or a dead one's.      *)
Means(p) ==
  /\ seen[p] \in {own[p], L!NoLock} \/ seen[p].by \in Processes \ alive
  /\ at[p] \in {"normalize", "strip"} => seen[p].by \in Processes \ alive
  /\ at[p] \in {"verify", "claim", "check", "unlink", "unclaim"} => seen[p] # L!NoLock

(* Unless one was stolen, what is published stays until it is released.      *)
Holding(p) == at[p] \in {"settle", "confirm", "held"} /\ ~stolen => lock = own[p]

(* What holds of calls that do not overlap: one process works at a time, ... *)
OneWorks == \A p, q \in L!Busy : p = q

(* ... the lock of a live process is the one it uses or gives back, ...      *)
Using(p) ==
  lock.by = p =>
    /\ lock = own[p]
    /\ at[p] \in {"settle", "confirm", "held"} \/ (L!Releasing(p) /\ at[p] \in {"verify", "claim", "check", "unlink"})

(* ... only its owner claims it, ...                                         *)
Claimed(p) ==
  claim[p].by \in alive => claim[p].by = p /\ at[p] \in {"check", "unlink", "unclaim"}

(* ... what is inspected stays, ...                                          *)
Stays(p) ==
  /\ at[p] \in {"claim", "check", "unlink"} => lock = seen[p]
  /\ at[p] = "check" => claim[p] = seen[p]

(* ... and what is stripped has a second link to account for.                *)
Torn1 == \E q \in Processes \ alive : temp[q] # L!NoLock
Stripped(p) ==
  /\ at[p] = "strip" => Torn1 \/ \E q \in Processes : claim[q] = seen[p]
  /\ at[p] = "blocked" => Torn1

Alone ==
  /\ OneWorks
  /\ \A p \in alive : Using(p) /\ Stays(p) /\ Stripped(p)
  /\ \A p \in Processes : Claimed(p)

LockIInv ==
  /\ LockTypes
  /\ \A p \in Processes : Made(p)
  /\ \A p \in alive : Means(p) /\ Holding(p)
  /\ L!OneClaimant
  /\ rivals = 1 => Alone

LEMMA LockFacts ==
  /\ L!NoLock \notin L!Locks /\ L!NoLock.by = None /\ L!NoLock.n = 0 /\ None \notin Processes
  /\ \A l \in AnyLock : l.by \in Processes \cup {None} /\ l.n \in 0..MaxTakes
                        /\ (l = L!NoLock <=> l.by = None) /\ (l.by \in Processes => l \in L!Locks)
  /\ \A p \in Processes, n \in 1..MaxTakes : [by |-> p, n |-> n] \in L!Locks
BY LockAssumption DEF L!Locks, L!NoLock, AnyLock

(* The lock counts as its own instance of FiniteSets does.                   *)
LEMMA SameCount == \A C : L!Cardinality(C) = Cardinality(C)
BY DEF L!Cardinality, Cardinality

(* Counting the links of the lock file.                                      *)
LEMMA AtLeastTwo ==
  ASSUME NEW C, IsFiniteSet(C), NEW p \in C, NEW q \in C, p # q
  PROVE  Cardinality(C) >= 2
<1>1. IsFiniteSet({p}) /\ Cardinality({p}) = 1
  BY FS_Singleton
<1>2. IsFiniteSet({p} \union {q}) /\ Cardinality({p} \union {q}) = 2
  <2> DEFINE P == {p}
  <2>1. IsFiniteSet(P) /\ Cardinality(P) = 1 /\ q \notin P
    BY <1>1
  <2> HIDE DEF P
  <2>2. IsFiniteSet(P \union {q}) /\ Cardinality(P \union {q}) = Cardinality(P) + 1
    BY <2>1, FS_AddElement
  <2> QED  BY <2>1, <2>2 DEF P
<1>3. {p} \union {q} \in SUBSET C
  OBVIOUS
<1>4. Cardinality(C) \in Nat
  BY FS_CardinalityType
<1>5. Cardinality({p} \union {q}) <= Cardinality(C)
  BY <1>3, FS_Subset
<1> QED  BY <1>2, <1>4, <1>5

LEMMA LinksCounted ==
  ASSUME LockTypes
  PROVE  /\ \A p, q \in Processes :
              claim[p] = lock /\ claim[q] = lock /\ L!Links(lock) = 2 => p = q
         /\ L!Links(lock) = 1 <=> \A q \in Processes : claim[q] # lock /\ temp[q] # lock
         /\ \A p \in Processes :
              claim[p] = lock /\ (\A q \in Processes : (claim[q] = lock => q = p) /\ temp[q] # lock)
              => L!Links(lock) = 2
<1> DEFINE C == {r \in Processes : claim[r] = lock}
           D == {r \in Processes : temp[r] = lock}
<1>1. IsFiniteSet(C) /\ IsFiniteSet(D)
  BY LockAssumption, FS_Subset
<1>2. /\ Cardinality(C) \in Nat /\ Cardinality(D) \in Nat
      /\ Cardinality(C) = 0 <=> C = {}
      /\ Cardinality(D) = 0 <=> D = {}
  BY <1>1, FS_CardinalityType, FS_EmptySet
<1>3. L!Links(lock) = Cardinality(C) + Cardinality(D) + 1
  <2>1. L!Links(lock) = Cardinality(C) + Cardinality(D) + (IF lock = lock THEN 1 ELSE 0)
    BY SameCount DEF L!Links
  <2> HIDE DEF C, D
  <2> QED  BY <1>2, <2>1
<1>4. ASSUME NEW p \in Processes, NEW q \in Processes, claim[p] = lock, claim[q] = lock, L!Links(lock) = 2
      PROVE  p = q
  <2>1. p \in C /\ q \in C
    BY <1>4
  <2> HIDE DEF C, D
  <2>2. p # q => Cardinality(C) >= 2
    BY <2>1, <1>1, AtLeastTwo
  <2> QED  BY <1>2, <1>3, <1>4, <2>2
<1>5. L!Links(lock) = 1 <=> C = {} /\ D = {}
  <2> HIDE DEF C, D
  <2> QED  BY <1>2, <1>3
<1>6. ASSUME NEW p \in Processes, claim[p] = lock,
             \A q \in Processes : (claim[q] = lock => q = p) /\ temp[q] # lock
      PROVE  L!Links(lock) = 2
  <2>1. C = {p} /\ D = {}
    BY <1>6
  <2> HIDE DEF C, D
  <2>2. Cardinality(C) = 1 /\ Cardinality(D) = 0
    BY <1>2, <2>1, FS_Singleton
  <2> QED  BY <1>3, <2>2
<1> QED  BY <1>4, <1>5, <1>6

LEMMA NobodyWorks ==
  ASSUME LockTypes, rivals = 1, L!Cardinality(L!Busy) < rivals
  PROVE  L!Busy = {}
<1>1. IsFiniteSet(L!Busy)
  BY LockAssumption, FS_Subset DEF LockTypes, L!Busy
<1>2. Cardinality(L!Busy) \in Nat
  BY <1>1, FS_CardinalityType
<1>3. Cardinality(L!Busy) = 0
  BY <1>2, SameCount
<1> QED  BY <1>1, <1>3, FS_EmptySet

LEMMA LockInitial == L!LockInit => LockIInv
<1> SUFFICES ASSUME L!LockInit PROVE LockIInv
  OBVIOUS
<1>1. LockTypes
  BY DEF L!LockInit, LockTypes, AnyLock, Places
<1>2. \A p \in Processes : /\ claim[p] = L!NoLock /\ temp[p] = L!NoLock /\ own[p] = L!NoLock
                           /\ seen[p] = L!NoLock /\ at[p] = "idle"
  BY DEF L!LockInit
<1>3. \A p \in Processes : Made(p) /\ Means(p) /\ Holding(p)
  BY <1>2, LockFacts DEF Made, Means, Holding
<1>4. L!OneClaimant /\ OneWorks
  BY <1>2 DEF L!LockInit, L!OneClaimant, OneWorks, L!Busy, L!Quiet
<1>5. \A p \in Processes : Using(p) /\ Stays(p) /\ Stripped(p) /\ Claimed(p)
  BY <1>2, LockFacts DEF L!LockInit, Using, Stays, Stripped, Claimed
<1> QED  BY <1>1, <1>3, <1>4, <1>5 DEF LockIInv, Alone, L!LockInit

LEMMA LockImplies == LockIInv => L!LockInv
<1> SUFFICES ASSUME LockIInv PROVE L!LockInv
  OBVIOUS
<1>1. L!WritersHoldTheLock
  BY DEF LockIInv, Holding, L!WritersHoldTheLock
<1>2. ASSUME rivals = 1 PROVE L!AloneItIsGivenBack
  <2>1. \A p \in alive : at[p] = "blocked" => Torn1
    BY <1>2 DEF LockIInv, Alone, Stripped
  <2>2. \A p \in alive : L!Free(p) => lock.by # p
    BY <1>2 DEF LockIInv, Alone, Using, L!Free
  <2> QED  BY <2>1, <2>2 DEF L!AloneItIsGivenBack, Torn1
<1>3. L!AloneItIsGivenBack
  BY <1>2 DEF L!AloneItIsGivenBack
<1> QED  BY <1>1, <1>3 DEF LockIInv, LockTypes, AnyLock, L!LockInv

(* The steps of process p.                                                   *)
LockStep(p) ==
  \/ L!Take(p) \/ L!Clean(p) \/ L!Sweep(p) \/ L!Publish(p) \/ L!Settle(p) \/ L!Confirm(p)
  \/ L!Inspect(p) \/ L!Normalize(p) \/ L!Strip(p) \/ L!Release(p) \/ L!Verify(p) \/ L!LinkClaim(p)
  \/ L!CheckClaim(p) \/ L!UnlinkLock(p) \/ L!Unclaim(p) \/ L!GiveUp(p) \/ L!Die(p)

LEMMA LockTypesStay ==
  ASSUME LockTypes, \A q \in Processes : Made(q), NEW p \in alive, LockStep(p)
  PROVE  LockTypes'
<1> USE DEF LockTypes, L!Goto, L!GiveWay, Places
<1>p. p \in Processes /\ L!NoLock \in AnyLock
  BY DEF AnyLock
<1>1. CASE L!Take(p)
  <2>1. own[p] \in AnyLock /\ own[p].n < MaxTakes
    BY <1>1, <1>p DEF L!Take
  <2>2. own[p].n + 1 \in 1..MaxTakes
    BY <2>1, LockFacts, LockAssumption
  <2>3. [by |-> p, n |-> own[p].n + 1] \in AnyLock
    BY <1>p, <2>2, LockFacts DEF AnyLock
  <2> QED  BY <1>1, <1>p, <2>3 DEF L!Take
<1>2. CASE L!Clean(p) \/ L!Settle(p) \/ L!Confirm(p) \/ L!Inspect(p) \/ L!Normalize(p) \/ L!Release(p)
  BY <1>2, <1>p DEF L!Clean, L!Settle, L!Confirm, L!Inspect, L!Normalize, L!Release
<1>3. CASE L!Sweep(p)
  <2>1. claim' \in [Processes -> AnyLock]
    BY <1>3, <1>p DEF L!Sweep
  <2> QED  BY <1>3, <1>p, <2>1 DEF L!Sweep
<1>4. CASE L!Strip(p)
  <2>1. claim' \in [Processes -> AnyLock]
    BY <1>4, <1>p DEF L!Strip
  <2> QED  BY <1>4, <1>p, <2>1 DEF L!Strip
<1>5. CASE L!Publish(p) \/ L!LinkClaim(p)
  BY <1>5, <1>p DEF L!Publish, L!LinkClaim
<1>6. CASE L!Verify(p) \/ L!CheckClaim(p) \/ L!UnlinkLock(p) \/ L!Unclaim(p) \/ L!GiveUp(p) \/ L!Die(p)
  BY <1>6, <1>p DEF L!Verify, L!CheckClaim, L!UnlinkLock, L!Unclaim, L!GiveUp, L!Die
<1> QED  BY <1>1, <1>2, <1>3, <1>4, <1>5, <1>6 DEF LockStep

(* What a step of p leaves to the others.                                    *)
LEMMA OthersKeep ==
  ASSUME LockTypes, NEW p \in alive, LockStep(p)
  PROVE  /\ \A q \in Processes : q # p =>
               /\ at'[q] = at[q] /\ own'[q] = own[q] /\ seen'[q] = seen[q] /\ temp'[q] = temp[q]
               /\ claim'[q] \in {claim[q], L!NoLock}
         /\ claim'[p] \in {claim[p], L!NoLock} \/ L!LinkClaim(p)
         /\ alive' \subseteq alive /\ alive \ {p} \subseteq alive' /\ (~L!Die(p) => alive' = alive)
         /\ rivals' = rivals /\ (stolen => stolen')
         /\ lock' = lock \/ L!Publish(p) \/ L!UnlinkLock(p)
         /\ L!Die(p) => p \notin alive'
<1> USE DEF LockTypes, L!Goto, L!GiveWay
<1>1. CASE L!Take(p) \/ L!Clean(p) \/ L!Publish(p) \/ L!Settle(p) \/ L!Confirm(p)
  BY <1>1 DEF L!Take, L!Clean, L!Publish, L!Settle, L!Confirm, L!Die
<1>2. CASE L!Sweep(p) \/ L!Strip(p)
  BY <1>2 DEF L!Sweep, L!Strip, L!Die
<1>3. CASE L!Inspect(p) \/ L!Normalize(p) \/ L!Release(p) \/ L!Verify(p) \/ L!LinkClaim(p)
  BY <1>3 DEF L!Inspect, L!Normalize, L!Release, L!Verify, L!LinkClaim, L!Die
<1>4. CASE L!CheckClaim(p) \/ L!UnlinkLock(p) \/ L!Unclaim(p) \/ L!GiveUp(p) \/ L!Die(p)
  BY <1>4 DEF L!CheckClaim, L!UnlinkLock, L!Unclaim, L!GiveUp, L!Die
<1> QED  BY <1>1, <1>2, <1>3, <1>4 DEF LockStep

LEMMA MadeStays ==
  ASSUME LockIInv, NEW p \in alive, LockStep(p), NEW q \in Processes
  PROVE  Made(q)'
<1>t. LockTypes /\ Made(q) /\ p \in Processes
  BY DEF LockIInv, LockTypes
<1>1. CASE q # p
  BY <1>1, <1>t, OthersKeep DEF Made
<1>2. CASE q = p
  <2> USE DEF LockTypes, Made, L!Goto, L!GiveWay
  <2>1. CASE L!Take(p)
    BY <1>2, <1>t, <2>1 DEF L!Take
  <2>2. CASE L!Clean(p) \/ L!Sweep(p) \/ L!Publish(p) \/ L!Settle(p) \/ L!Confirm(p)
    BY <1>2, <1>t, <2>2 DEF L!Clean, L!Sweep, L!Publish, L!Settle, L!Confirm
  <2>3. CASE L!Inspect(p) \/ L!Normalize(p) \/ L!Strip(p) \/ L!Release(p) \/ L!Verify(p) \/ L!LinkClaim(p)
    BY <1>2, <1>t, <2>3 DEF L!Inspect, L!Normalize, L!Strip, L!Release, L!Verify, L!LinkClaim
  <2>4. CASE L!CheckClaim(p) \/ L!UnlinkLock(p) \/ L!Unclaim(p) \/ L!GiveUp(p) \/ L!Die(p)
    BY <1>2, <1>t, <2>4 DEF L!CheckClaim, L!UnlinkLock, L!Unclaim, L!GiveUp, L!Die
  <2> QED  BY <2>1, <2>2, <2>3, <2>4 DEF LockStep
<1> QED  BY <1>1, <1>2

LEMMA MeansStays ==
  ASSUME LockIInv, NEW p \in alive, LockStep(p), NEW q \in alive'
  PROVE  Means(q)'
<1>t. LockTypes /\ p \in Processes /\ q \in Processes /\ q \in alive /\ Means(q) /\ Made(q)
      /\ alive' \subseteq alive
  BY OthersKeep DEF LockIInv, LockTypes
<1>1. CASE q # p
  BY <1>1, <1>t, OthersKeep DEF Means
<1>2. CASE q = p
  <2> USE DEF LockTypes, Means, L!Goto, L!GiveWay
  <2>1. CASE L!Take(p) \/ L!Clean(p) \/ L!Sweep(p) \/ L!Publish(p) \/ L!Settle(p) \/ L!Confirm(p)
    BY <1>2, <1>t, <2>1 DEF L!Take, L!Clean, L!Sweep, L!Publish, L!Settle, L!Confirm
  <2>2. CASE L!Inspect(p)
    <3>1. CASE lock # L!NoLock /\ L!Stale(lock)
      <4>1. lock.by \in Processes \ alive
        BY <1>t, <3>1, LockFacts DEF L!Stale
      <4> QED  BY <1>2, <1>t, <2>2, <3>1, <4>1 DEF L!Inspect
    <3>2. CASE ~(lock # L!NoLock /\ L!Stale(lock))
      BY <1>2, <1>t, <2>2, <3>2 DEF L!Inspect
    <3> QED  BY <3>1, <3>2
  <2>3. CASE L!Release(p)
    <3>1. own[p] # L!NoLock
      BY <1>2, <1>t, <2>3, LockFacts DEF L!Release, Made
    <3> QED  BY <1>2, <1>t, <2>3, <3>1 DEF L!Release
  <2>4. CASE L!Normalize(p)
    <3>1. seen[p] # L!NoLock
      BY <1>2, <1>t, <2>4, LockFacts DEF L!Normalize
    <3> QED  BY <1>2, <1>t, <2>4, <3>1 DEF L!Normalize
  <2>5. CASE L!Strip(p) \/ L!Verify(p) \/ L!LinkClaim(p)
    BY <1>2, <1>t, <2>5 DEF L!Strip, L!Verify, L!LinkClaim
  <2>6. CASE L!CheckClaim(p) \/ L!UnlinkLock(p) \/ L!Unclaim(p) \/ L!GiveUp(p) \/ L!Die(p)
    BY <1>2, <1>t, <2>6 DEF L!CheckClaim, L!UnlinkLock, L!Unclaim, L!GiveUp, L!Die
  <2> QED  BY <2>1, <2>2, <2>3, <2>4, <2>5, <2>6 DEF LockStep
<1> QED  BY <1>1, <1>2

LEMMA HoldingStays ==
  ASSUME LockIInv, NEW p \in alive, LockStep(p), NEW q \in alive'
  PROVE  Holding(q)'
<1>t. LockTypes /\ p \in Processes /\ q \in Processes /\ q \in alive /\ Made(q) /\ Made(p)
      /\ Holding(q) /\ Means(p) /\ alive' \subseteq alive
  BY OthersKeep DEF LockIInv, LockTypes
<1>1. CASE q # p
  <2>1. at'[q] = at[q] /\ own'[q] = own[q] /\ (stolen => stolen')
    BY <1>1, <1>t, OthersKeep
  <2>2. at[q] \in {"settle", "confirm", "held"} /\ ~stolen => lock = own[q] /\ lock # L!NoLock /\ lock.by = q
    BY <1>t, LockFacts DEF Holding, Made
  <2>3. CASE lock' = lock
    BY <1>t, <2>1, <2>3 DEF Holding
  <2>4. CASE L!Publish(p)
    BY <2>1, <2>2, <2>4 DEF L!Publish, Holding
  <2>5. CASE L!UnlinkLock(p)
    <3>1. at[q] \in {"settle", "confirm", "held"} /\ ~stolen => lock # seen[p]
      BY <1>1, <1>t, <2>2, LockFacts DEF Means, Made
    <3>2. stolen' = (stolen \/ lock \notin {seen[p], L!NoLock})
      BY <2>5 DEF L!UnlinkLock
    <3>3. at[q] \in {"settle", "confirm", "held"} => stolen'
      BY <2>2, <3>1, <3>2
    <3> QED  BY <2>1, <3>3 DEF Holding
  <2> QED  BY <1>t, <2>3, <2>4, <2>5, OthersKeep
<1>2. CASE q = p
  <2> USE DEF LockTypes, Holding, L!Goto, L!GiveWay
  <2>1. CASE L!Take(p) \/ L!Clean(p) \/ L!Sweep(p) \/ L!Publish(p) \/ L!Settle(p) \/ L!Confirm(p)
    BY <1>2, <1>t, <2>1 DEF L!Take, L!Clean, L!Sweep, L!Publish, L!Settle, L!Confirm
  <2>2. CASE L!Inspect(p) \/ L!Normalize(p) \/ L!Strip(p) \/ L!Release(p) \/ L!Verify(p) \/ L!LinkClaim(p)
    BY <1>2, <1>t, <2>2 DEF L!Inspect, L!Normalize, L!Strip, L!Release, L!Verify, L!LinkClaim
  <2>3. CASE L!CheckClaim(p) \/ L!UnlinkLock(p) \/ L!Unclaim(p) \/ L!GiveUp(p) \/ L!Die(p)
    BY <1>2, <1>t, <2>3 DEF L!CheckClaim, L!UnlinkLock, L!Unclaim, L!GiveUp, L!Die
  <2> QED  BY <2>1, <2>2, <2>3 DEF LockStep
<1> QED  BY <1>1, <1>2

(* A process comes to unlink by CheckClaim only.                             *)
LEMMA OneClaimantStays ==
  ASSUME LockIInv, NEW p \in alive, LockStep(p)
  PROVE  L!OneClaimant'
<1>t. LockTypes /\ p \in Processes /\ L!OneClaimant /\ alive \subseteq Processes /\ alive' \subseteq alive
  BY OthersKeep DEF LockIInv, LockTypes
<1>1. CASE ~L!CheckClaim(p)
  <2>1. \A q \in alive' : at'[q] = "unlink" =>
           at[q] = "unlink" /\ (claim'[q] = claim[q] \/ claim'[q] = L!NoLock)
    <3>1. at'[p] = "unlink" => L!Die(p)
      BY <1>1, <1>t DEF LockTypes, LockStep, L!Goto, L!GiveWay, L!Take, L!Clean, L!Sweep, L!Publish,
         L!Settle, L!Confirm, L!Inspect, L!Normalize, L!Strip, L!Release, L!Verify, L!LinkClaim,
         L!UnlinkLock, L!Unclaim, L!GiveUp
    <3>2. L!Die(p) => p \notin alive'
      BY OthersKeep, <1>t
    <3> QED  BY <1>t, <3>1, <3>2, OthersKeep
  <2> QED  BY <1>t, <2>1 DEF L!OneClaimant
<1>2. CASE L!CheckClaim(p)
  <2>1. at' = [at EXCEPT ![p] = IF L!Matches(p) THEN "unlink" ELSE "unclaim"] /\ claim' = claim
        /\ alive' = alive
    BY <1>2 DEF L!CheckClaim, L!Goto
  <2>2. ASSUME NEW q \in alive, q # p, at'[p] = "unlink", claim[p] = claim[q]
        PROVE  FALSE
    <3>1. claim[p] = lock /\ claim[q] = lock /\ L!Links(lock) = 2
      BY <1>t, <2>1, <2>2 DEF LockTypes, L!Matches
    <3> QED  BY <1>t, <2>2, <3>1, LinksCounted
  <2>3. \A q \in alive : q # p => at'[q] = at[q]
    BY <1>t, <2>1 DEF LockTypes
  <2> QED  BY <1>t, <2>1, <2>2, <2>3 DEF L!OneClaimant
<1> QED  BY <1>1, <1>2

(* Calls that do not overlap.                                                *)
LEMMA OneWorksStays ==
  ASSUME LockIInv, rivals = 1, NEW p \in alive, LockStep(p)
  PROVE  OneWorks'
<1>t. LockTypes /\ OneWorks /\ p \in Processes /\ alive \subseteq Processes
  BY DEF LockIInv, LockTypes, Alone
<1>1. \A q \in Processes : q # p /\ q \in L!Busy' => q \in L!Busy
  BY <1>t, OthersKeep DEF L!Busy, L!Quiet
<1>2. CASE p \in L!Busy
  <2>1. \A q \in L!Busy' : q = p
    BY <1>t, <1>1, <1>2, OthersKeep DEF OneWorks, L!Busy
  <2> QED  BY <2>1 DEF OneWorks
<1>3. CASE p \notin L!Busy
  <2>1. CASE L!Take(p) \/ L!Release(p)
    <3>1. L!Busy = {}
      BY <1>t, <2>1, NobodyWorks DEF L!Take, L!Release
    <3>2. \A q \in L!Busy' : q = p
      BY <1>t, <1>1, <3>1, OthersKeep DEF L!Busy
    <3> QED  BY <3>2 DEF OneWorks
  <2>2. CASE L!Die(p)
    <3>1. L!Busy' \subseteq L!Busy
      BY <2>2 DEF L!Die, L!Busy
    <3> QED  BY <1>t, <3>1 DEF OneWorks
  <2>3. CASE ~L!Take(p) /\ ~L!Release(p) /\ ~L!Die(p)
    BY <1>3, <2>3 DEF LockStep, L!Busy, L!Quiet, L!Clean, L!Sweep, L!Publish,
       L!Settle, L!Confirm, L!Inspect, L!Normalize, L!Strip, L!Verify, L!LinkClaim, L!CheckClaim,
       L!UnlinkLock, L!Unclaim, L!GiveUp
  <2> QED  BY <2>1, <2>2, <2>3
<1> QED  BY <1>2, <1>3

(* While one process works, the others that live stand quiet.                *)
LEMMA OthersQuiet ==
  ASSUME LockIInv, rivals = 1, NEW p \in alive, LockStep(p), ~L!Take(p), ~L!Release(p), ~L!Die(p)
  PROVE  \A q \in alive : q # p => at[q] \in {"idle", "blocked", "held"}
<1>1. p \in L!Busy
  BY DEF LockStep, L!Busy, L!Quiet, L!Clean, L!Sweep, L!Publish,
     L!Settle, L!Confirm, L!Inspect, L!Normalize, L!Strip, L!Verify, L!LinkClaim, L!CheckClaim,
     L!UnlinkLock, L!Unclaim, L!GiveUp
<1> QED  BY <1>1 DEF LockIInv, Alone, OneWorks, L!Busy, L!Quiet

LEMMA ClaimedStays ==
  ASSUME LockIInv, rivals = 1, NEW p \in alive, LockStep(p), NEW q \in Processes
  PROVE  Claimed(q)'
<1>t. LockTypes /\ p \in Processes /\ alive' \subseteq alive /\ Claimed(q) /\ Means(p) /\ Stays(p) /\ Made(p)
  BY OthersKeep DEF LockIInv, LockTypes, Alone
<1>1. CASE q # p
  BY <1>1, <1>t, OthersKeep, LockFacts DEF Claimed, LockTypes
<1>2. CASE q = p
  <2> USE DEF LockTypes, Claimed, L!Goto, L!GiveWay
  <2>1. CASE L!LinkClaim(p)
    <3>1. lock = seen[p]
      BY <1>t, <2>1 DEF Stays, L!LinkClaim
    <3>2. lock.by \in alive => lock.by = p
      BY <1>t, <3>1, LockFacts DEF Means, Made
    <3> QED  BY <1>2, <1>t, <2>1, <3>2 DEF L!LinkClaim
  <2>2. CASE L!Take(p) \/ L!Clean(p) \/ L!Sweep(p) \/ L!Publish(p) \/ L!Settle(p) \/ L!Confirm(p)
    BY <1>2, <1>t, <2>2, LockFacts DEF L!Take, L!Clean, L!Sweep, L!Publish, L!Settle, L!Confirm
  <2>3. CASE L!Inspect(p) \/ L!Normalize(p) \/ L!Strip(p) \/ L!Release(p) \/ L!Verify(p)
    BY <1>2, <1>t, <2>3, LockFacts DEF L!Inspect, L!Normalize, L!Strip, L!Release, L!Verify
  <2>4. CASE L!CheckClaim(p) \/ L!UnlinkLock(p) \/ L!Unclaim(p) \/ L!GiveUp(p) \/ L!Die(p)
    BY <1>2, <1>t, <2>4, LockFacts DEF L!CheckClaim, L!UnlinkLock, L!Unclaim, L!GiveUp, L!Die
  <2> QED  BY <2>1, <2>2, <2>3, <2>4 DEF LockStep
<1> QED  BY <1>1, <1>2

(* A process that works is the one that steps, unless another dies.          *)
LEMMA WorkerSteps ==
  ASSUME LockIInv, rivals = 1, NEW p \in alive, LockStep(p), NEW q \in alive,
         q # p, at[q] \notin {"idle", "blocked", "held"}
  PROVE  L!Die(p)
<1>1. q \in L!Busy
  BY DEF L!Busy, L!Quiet
<1>2. L!Take(p) \/ L!Release(p) => L!Busy = {}
  BY NobodyWorks DEF LockIInv, L!Take, L!Release
<1> QED  BY <1>1, <1>2, OthersQuiet

LEMMA StaysStays ==
  ASSUME LockIInv, rivals = 1, NEW p \in alive, LockStep(p), NEW q \in alive'
  PROVE  Stays(q)'
<1>t. LockTypes /\ p \in Processes /\ q \in Processes /\ q \in alive /\ Stays(q)
  BY OthersKeep DEF LockIInv, LockTypes, Alone
<1>1. CASE q # p
  <2>1. at'[q] = at[q] /\ seen'[q] = seen[q]
    BY <1>1, <1>t, OthersKeep
  <2>2. CASE at[q] \in {"claim", "check", "unlink"}
    <3>1. L!Die(p)
      BY <1>1, <1>t, <2>2, WorkerSteps
    <3> QED  BY <1>t, <2>1, <3>1 DEF L!Die, Stays
  <2>3. CASE at[q] \notin {"claim", "check", "unlink"}
    BY <2>1, <2>3 DEF Stays
  <2> QED  BY <2>2, <2>3
<1>2. CASE q = p
  <2> USE DEF LockTypes, Stays, L!Goto, L!GiveWay
  <2>1. CASE L!Take(p) \/ L!Clean(p) \/ L!Sweep(p) \/ L!Publish(p) \/ L!Settle(p) \/ L!Confirm(p)
    BY <1>2, <1>t, <2>1 DEF L!Take, L!Clean, L!Sweep, L!Publish, L!Settle, L!Confirm
  <2>2. CASE L!Inspect(p) \/ L!Normalize(p) \/ L!Strip(p) \/ L!Release(p)
    BY <1>2, <1>t, <2>2 DEF L!Inspect, L!Normalize, L!Strip, L!Release
  <2>3. CASE L!Verify(p) \/ L!LinkClaim(p) \/ L!UnlinkLock(p) \/ L!Unclaim(p) \/ L!GiveUp(p) \/ L!Die(p)
    BY <1>2, <1>t, <2>3 DEF L!Verify, L!LinkClaim, L!UnlinkLock, L!Unclaim, L!GiveUp, L!Die
  <2>4. CASE L!CheckClaim(p)
    BY <1>2, <1>t, <2>4 DEF L!CheckClaim, L!Matches
  <2> QED  BY <2>1, <2>2, <2>3, <2>4 DEF LockStep
<1> QED  BY <1>1, <1>2

LEMMA TornStays ==
  ASSUME LockIInv, NEW p \in alive, LockStep(p), Torn1
  PROVE  Torn1'
<1>1. PICK q \in Processes \ alive : temp[q] # L!NoLock
  BY DEF Torn1
<1>2. q # p /\ q \in Processes \ alive' /\ temp'[q] = temp[q]
  BY <1>1, OthersKeep DEF LockIInv
<1>3. L!NoLock' = L!NoLock
  BY DEF L!NoLock
<1> QED  BY <1>1, <1>2, <1>3 DEF Torn1

LEMMA StrippedStays ==
  ASSUME LockIInv, rivals = 1, NEW p \in alive, LockStep(p), NEW q \in alive'
  PROVE  Stripped(q)'
<1>t. LockTypes /\ p \in Processes /\ q \in Processes /\ q \in alive /\ Stripped(q) /\ Means(p)
  BY OthersKeep DEF LockIInv, LockTypes, Alone
<1>1. CASE q # p
  <2>1. at'[q] = at[q] /\ seen'[q] = seen[q]
    BY <1>1, <1>t, OthersKeep
  <2>2. CASE at[q] = "strip"
    <3>1. L!Die(p)
      BY <1>1, <1>t, <2>2, WorkerSteps
    <3>2. claim' = claim
      BY <3>1 DEF L!Die
    <3> QED  BY <1>t, <2>1, <2>2, <3>2, TornStays DEF Stripped
  <2>3. CASE at[q] # "strip"
    BY <1>t, <2>1, <2>3, TornStays DEF Stripped
  <2> QED  BY <2>2, <2>3
<1>2. CASE q = p
  <2> USE DEF LockTypes, L!Goto, L!GiveWay
  <2>1. CASE L!Normalize(p)
    <3>1. CASE at'[p] = "strip"
      <4>1. lock = seen[p] /\ L!Links(lock) # 1 /\ claim' = claim /\ temp' = temp /\ alive' = alive
            /\ seen' = seen /\ lock.by \in Processes \ alive
        BY <1>t, <2>1, <3>1 DEF L!Normalize, Means
      <4>2. PICK r \in Processes : claim[r] = lock \/ temp[r] = lock
        BY <1>t, <4>1, LinksCounted
      <4>3. CASE claim[r] = lock
        BY <1>2, <3>1, <4>1, <4>2, <4>3 DEF Stripped
      <4>4. CASE temp[r] = lock
        <5>1. temp[r] # L!NoLock /\ temp[r].by = r
          BY <4>1, <4>2, <4>4, LockFacts DEF LockIInv, Made
        <5>2. Torn1
          BY <4>1, <4>2, <4>4, <5>1 DEF Torn1
        <5> QED  BY <1>2, <3>1, <5>2, TornStays DEF Stripped
      <4> QED  BY <4>2, <4>3, <4>4
    <3>2. CASE at'[p] # "strip"
      BY <1>2, <1>t, <2>1, <3>2 DEF L!Normalize, Stripped
    <3> QED  BY <3>1, <3>2
  <2>2. CASE L!Strip(p)
    <3>1. at'[p] # "strip" /\ (at'[p] = "blocked" => Torn1)
      BY <1>2, <1>t, <2>2 DEF L!Strip, Stripped
    <3> QED  BY <1>2, <3>1, TornStays DEF Stripped
  <2>3. CASE ~L!Normalize(p) /\ ~L!Strip(p)
    <3>1. at'[p] \notin {"strip", "blocked"} \/ p \notin alive'
      BY <1>t, <2>3 DEF LockStep, L!Take, L!Clean, L!Sweep, L!Publish, L!Settle, L!Confirm, L!Inspect,
         L!Release, L!Verify, L!LinkClaim, L!CheckClaim, L!UnlinkLock, L!Unclaim, L!GiveUp, L!Die
    <3> QED  BY <1>2, <3>1 DEF Stripped
  <2> QED  BY <2>1, <2>2, <2>3
<1> QED  BY <1>1, <1>2

(* The lock of a process that is not releasing it has one link.              *)
LEMMA OwnLinks ==
  ASSUME LockIInv, rivals = 1, NEW p \in alive, lock.by = p, at[p] # "settle"
  PROVE  /\ \A q \in Processes : (claim[q] = lock => q = p /\ at[p] \in {"check", "unlink", "unclaim"})
                                /\ temp[q] # lock
<1>1. lock # L!NoLock /\ p \in Processes
  BY LockFacts DEF LockIInv, LockTypes
<1>2. ASSUME NEW q \in Processes, claim[q] = lock PROVE q = p /\ at[p] \in {"check", "unlink", "unclaim"}
  BY <1>2 DEF LockIInv, Alone, Claimed
<1>3. ASSUME NEW q \in Processes, temp[q] = lock PROVE FALSE
  BY <1>1, <1>3, LockFacts DEF LockIInv, Made
<1> QED  BY <1>2, <1>3

LEMMA UsingStays ==
  ASSUME LockIInv, rivals = 1, NEW p \in alive, LockStep(p), NEW q \in alive'
  PROVE  Using(q)'
<1>t. LockTypes /\ p \in Processes /\ q \in Processes /\ q \in alive /\ Using(q) /\ Using(p)
      /\ Made(p) /\ Stays(p)
  BY OthersKeep DEF LockIInv, LockTypes, Alone
<1>1. CASE q # p
  <2>1. at'[q] = at[q] /\ own'[q] = own[q] /\ seen'[q] = seen[q]
    BY <1>1, <1>t, OthersKeep
  <2>2. CASE lock' = lock
    BY <1>t, <2>1, <2>2 DEF Using, L!Releasing
  <2>3. CASE lock' # lock
    <3>1. lock'.by # q
      BY <1>1, <1>t, <2>3, OthersKeep, LockFacts DEF L!Publish, L!UnlinkLock, Made
    <3> QED  BY <3>1 DEF Using
  <2> QED  BY <2>2, <2>3
<1>2. CASE q = p
  <2> USE DEF LockTypes, Using, L!Goto, L!GiveWay, L!Releasing
  <2>1. CASE L!Take(p) \/ L!Clean(p) \/ L!Sweep(p) \/ L!Inspect(p) \/ L!Normalize(p)
    <3>1. lock' = lock /\ lock.by # p
      BY <1>t, <2>1 DEF L!Take, L!Clean, L!Sweep, L!Inspect, L!Normalize
    <3> QED  BY <1>2, <3>1
  <2>2. CASE L!Strip(p) \/ L!Unclaim(p) \/ L!GiveUp(p)
    <3>1. lock' = lock /\ lock.by # p
      BY <1>t, <2>2 DEF L!Strip, L!Unclaim, L!GiveUp
    <3> QED  BY <1>2, <3>1
  <2>3. CASE L!Publish(p) \/ L!Settle(p) \/ L!Release(p)
    BY <1>2, <1>t, <2>3 DEF L!Publish, L!Settle, L!Release
  <2>4. CASE L!Confirm(p)
    <3>1. lock.by = p => lock # L!NoLock /\ L!Links(lock) = 1
      <4> SUFFICES ASSUME lock.by = p PROVE lock # L!NoLock /\ L!Links(lock) = 1
        OBVIOUS
      <4>1. \A r \in Processes : claim[r] # lock /\ temp[r] # lock
        BY <2>4, OwnLinks DEF L!Confirm
      <4> QED  BY <1>t, <4>1, LinksCounted, LockFacts
    <3> QED  BY <1>2, <1>t, <2>4, <3>1 DEF L!Confirm
  <2>5. CASE L!Verify(p)
    <3>1. lock.by = p => L!Links(lock) = 1
      <4> SUFFICES ASSUME lock.by = p PROVE L!Links(lock) = 1
        OBVIOUS
      <4>1. \A r \in Processes : claim[r] # lock /\ temp[r] # lock
        BY <2>5, OwnLinks DEF L!Verify
      <4> QED  BY <1>t, <4>1, LinksCounted
    <3> QED  BY <1>2, <1>t, <2>5, <3>1 DEF L!Verify
  <2>6. CASE L!LinkClaim(p)
    BY <1>2, <1>t, <2>6, LockFacts DEF L!LinkClaim
  <2>7. CASE L!CheckClaim(p)
    <3>1. lock.by = p => L!Matches(p)
      <4> SUFFICES ASSUME lock.by = p PROVE L!Matches(p)
        OBVIOUS
      <4>1. \A r \in Processes : (claim[r] = lock => r = p) /\ temp[r] # lock
        BY <2>7, OwnLinks DEF L!CheckClaim
      <4>2. lock = seen[p] /\ claim[p] = seen[p]
        BY <1>t, <2>7 DEF L!CheckClaim, Stays
      <4>3. L!Links(lock) = 2
        BY <1>t, <4>1, <4>2, LinksCounted
      <4> QED  BY <4>2, <4>3 DEF L!Matches
    <3> QED  BY <1>2, <1>t, <2>7, <3>1 DEF L!CheckClaim
  <2>8. CASE L!UnlinkLock(p)
    BY <1>2, <1>t, <2>8, LockFacts DEF L!UnlinkLock
  <2>9. CASE L!Die(p)
    BY <1>2, <2>9 DEF L!Die
  <2> QED  BY <2>1, <2>2, <2>3, <2>4, <2>5, <2>6, <2>7, <2>8, <2>9 DEF LockStep
<1> QED  BY <1>1, <1>2

LEMMA LockStays == LockIInv /\ L!LockNext => LockIInv'
<1> SUFFICES ASSUME LockIInv, L!LockNext PROVE LockIInv'
  OBVIOUS
<1>1. PICK p \in alive : LockStep(p)
  BY DEF L!LockNext, LockStep
<1>2. LockTypes'
  BY <1>1, LockTypesStay DEF LockIInv
<1>3. (\A q \in Processes : Made(q)') /\ (\A q \in alive' : Means(q)' /\ Holding(q)') /\ L!OneClaimant'
  BY <1>1, MadeStays, MeansStays, HoldingStays, OneClaimantStays
<1>4. ASSUME rivals' = 1 PROVE Alone'
  <2>1. rivals = 1
    BY <1>1, <1>4, OthersKeep DEF LockIInv
  <2>2. OneWorks' /\ (\A q \in Processes : Claimed(q)')
    BY <1>1, <2>1, OneWorksStays, ClaimedStays
  <2>3. \A q \in alive' : Using(q)' /\ Stays(q)' /\ Stripped(q)'
    BY <1>1, <2>1, UsingStays, StaysStays, StrippedStays
  <2> QED  BY <2>2, <2>3 DEF Alone
<1> QED  BY <1>2, <1>3, <1>4 DEF LockIInv
------------------------------------------------------------
(* First-run setup and preferences (Setup).                                  *)
SetupTypes ==
  /\ progress \in S!Progresses /\ prefs \in S!Preferences /\ model \in S!Choices
  /\ page \in [Windows -> S!Pages] /\ wizard \in [Windows -> S!Wizards \cup {None}]
  /\ dialog \in [Windows -> S!Dialogs \cup {None}] /\ call \in [Windows -> S!Calls \cup {None}]

Finished(p) == /\ (p.status = "completed") <=> (p.receipt # None)
               /\ p.status = "completed" => p.step = Ready

(* A copy is of the past of its store, or what the store is now.             *)
CopyOf(r, now) == r.revision <= now.revision /\ (r.revision = now.revision => r = now)
Newer(r, now) == r = now \/ r.revision < now.revision

Mutations == {"start", "advance", "dismiss", "complete"}
OfWizard == {"stay", "turn", "close", "advance"}

(* A page that was not refused has the name and the revision that go with    *)
(* its preferences; a setup dialog is at the step of its copy; and an open   *)
(* dialog shows what the user did not touch as the page has it.              *)
PageOK(p, pr, pf) ==
  /\ Finished(p.progress) /\ CopyOf(p.progress, pr) /\ CopyOf(p.prefs, pf) /\ p.revision <= pf.revision
  /\ ~p.refused => p.revision = p.prefs.revision /\ p.name = p.prefs.name
WizardOK(z, pr, pf) ==
  /\ Finished(z.progress) /\ CopyOf(z.progress, pr) /\ CopyOf(z.prefs, pf)
  /\ z.step = z.progress.step
DialogOK(d, p) == ~p.refused => /\ "look" \notin d.touched => d.look = p.prefs.look
                                /\ "name" \notin d.touched => d.name = p.prefs.name

(* A request: its answer is a copy of the store it went to; a completion is  *)
(* of the last step and alone has a receipt; and what a window saves of the  *)
(* preferences is, but for what the user touched, what it was shown, unless  *)
(* it is saved from the dialog of a page that was refused.                   *)
Answered(c, pr, pf) ==
  /\ c.kind \in Mutations /\ c.at \in {"done", "conflict"} =>
       c.answer \in S!Progresses /\ Finished(c.answer) /\ CopyOf(c.answer, pr)
  /\ c.kind \in Mutations /\ c.at = "done" => c.answer.step = c.step
  /\ c.kind = "prefs" /\ c.at \in {"done", "conflict"} => c.answer \in S!Preferences /\ CopyOf(c.answer, pf)
  /\ c.kind = "model" /\ c.at = "done" => c.answer \in S!Choices
Asks(c) ==
  /\ IF c.kind = "complete" THEN c.step = Ready ELSE c.receipt = None
  /\ c.kind \in {"prefs", "model"} => c.name \in Values
  /\ c.kind = "prefs" => c.look \in Values
  /\ c.then \in {"stay", "turn", "close", "page"} => c.kind \in Mutations
  /\ c.then = "dialog" => c.kind = "prefs"
  /\ c.then = "advance" => c.kind \in {"prefs", "model"}
Untouched(c, p, pf) ==
  c.kind = "prefs" =>
    /\ c.revision <= pf.revision
    /\ \/ p.refused /\ c.then = "dialog"
       \/ c.revision = pf.revision => /\ "look" \notin c.touched => c.look = pf.look
                                      /\ "name" \notin c.touched => c.name = pf.name
Waits(c, z) ==
  /\ c.then \in OfWizard => z # None
  /\ c.then = "stay" => c.step = z.step

WindowOK(p, z, d, c, pr, pf) ==
  /\ PageOK(p, pr, pf)
  /\ z # None => WizardOK(z, pr, pf) /\ d = None
  /\ d # None => DialogOK(d, p)
  /\ c # None => Answered(c, pr, pf) /\ Asks(c) /\ Untouched(c, p, pf) /\ Waits(c, z)

SetupIInv ==
  /\ SetupTypes /\ S!Writes <= MaxWrites + 1 /\ Finished(progress)
  /\ \A o \in Windows : WindowOK(page[o], wizard[o], dialog[o], call[o], progress, prefs)

LEMMA SetupImplies == SetupIInv => S!SetupInv
<1> SUFFICES ASSUME SetupIInv PROVE S!SetupInv
  OBVIOUS
<1>1. ASSUME NEW o \in Windows, S!Idle(o), wizard[o].progress.revision = progress.revision
      PROVE  wizard[o].progress = progress /\ wizard[o].step = progress.step
  BY <1>1 DEF SetupIInv, WindowOK, WizardOK, CopyOf, S!Idle
<1>2. S!ReceiptIffCompleted
  BY DEF SetupIInv, Finished, S!ReceiptIffCompleted
<1>3. S!SetupTypeOK
  BY DEF SetupIInv, SetupTypes, S!SetupTypeOK
<1> QED  BY <1>1, <1>2, <1>3 DEF S!SetupInv, S!ShowsSavedStep

LEMMA SetupInitial == S!SetupInit => SetupIInv
<1> SUFFICES ASSUME S!SetupInit PROVE SetupIInv
  OBVIOUS
<1>1. PICK c \in Values :
          /\ model = [revision |-> 0, choice |-> c]
          /\ \/ /\ progress = [status |-> "pending", step |-> S!You, revision |-> 0, receipt |-> None]
                /\ prefs = [revision |-> 0, look |-> c, name |-> c]
             \/ /\ progress = [status |-> "available", step |-> S!You, revision |-> 0, receipt |-> None]
                /\ prefs = [revision |-> 1, look |-> c, name |-> c]
             \/ \E e \in {"in-progress", "dismissed"}, k \in S!Steps :
                   /\ progress = [status |-> e, step |-> k, revision |-> 1, receipt |-> None]
                   /\ prefs = [revision |-> 0, look |-> c, name |-> c]
  BY DEF S!SetupInit
<1>2. /\ model \in S!Choices /\ prefs \in S!Preferences /\ progress \in S!Progresses
      /\ Finished(progress) /\ S!Writes <= MaxWrites + 1
  <2>1. S!You \in S!Steps
    BY SetupAssumption DEF S!You, S!Steps
  <2>2. model \in S!Choices /\ prefs \in S!Preferences
    BY <1>1 DEF S!Choices, S!Preferences
  <2>3. progress \in S!Progresses /\ progress.status # "completed" /\ progress.receipt = None
    BY <1>1, <2>1 DEF S!Progresses
  <2>4. S!Writes <= MaxWrites + 1
    BY <1>1, SetupAssumption DEF S!Writes
  <2> QED  BY <2>2, <2>3, <2>4 DEF Finished
<1>3. page = [o \in Windows |-> S!Loaded] /\ wizard = [o \in Windows |-> None]
      /\ dialog = [o \in Windows |-> None] /\ call = [o \in Windows |-> None]
  BY DEF S!SetupInit
<1>4. S!Loaded \in S!Pages
  BY <1>2 DEF S!Loaded, S!Pages, S!Preferences
<1>5. PageOK(S!Loaded, progress, prefs)
  BY <1>2 DEF S!Loaded, PageOK, CopyOf, S!Preferences, S!Progresses
<1>6. SetupTypes
  BY <1>2, <1>3, <1>4 DEF SetupTypes
<1> QED  BY <1>2, <1>3, <1>5, <1>6 DEF SetupIInv, WindowOK

(* What a window holds stays true while others write.                        *)
LEMMA CopiesAge ==
  ASSUME NEW p \in S!Pages, NEW z \in S!Wizards \cup {None}, NEW d \in S!Dialogs \cup {None},
         NEW c \in S!Calls \cup {None}, NEW pr \in S!Progresses, NEW pf \in S!Preferences,
         NEW pr2 \in S!Progresses, NEW pf2 \in S!Preferences,
         Newer(pr, pr2), Newer(pf, pf2), WindowOK(p, z, d, c, pr, pf)
  PROVE  WindowOK(p, z, d, c, pr2, pf2)
<1>1. ASSUME NEW r, r.revision \in Nat, CopyOf(r, pr) PROVE CopyOf(r, pr2)
  BY <1>1 DEF CopyOf, Newer, S!Progresses
<1>2. ASSUME NEW r, r.revision \in Nat, CopyOf(r, pf) PROVE CopyOf(r, pf2)
  BY <1>2 DEF CopyOf, Newer, S!Preferences
<1>3. pf.revision \in Nat /\ pf2.revision \in Nat /\ (pf = pf2 \/ pf.revision < pf2.revision)
  BY DEF Newer, S!Preferences
<1>4. PageOK(p, pr2, pf2)
  <2>1. p.progress.revision \in Nat /\ p.prefs.revision \in Nat /\ p.revision \in Nat
    BY DEF S!Pages, S!Progresses, S!Preferences
  <2> QED  BY <1>1, <1>2, <1>3, <2>1 DEF WindowOK, PageOK
<1>5. ASSUME z # None PROVE WizardOK(z, pr2, pf2) /\ d = None
  <2>1. z.progress.revision \in Nat /\ z.prefs.revision \in Nat
    BY <1>5 DEF S!Wizards, S!Progresses, S!Preferences
  <2> QED  BY <1>1, <1>2, <1>5, <2>1 DEF WindowOK, WizardOK
<1>6. ASSUME c # None PROVE Answered(c, pr2, pf2) /\ Untouched(c, p, pf2)
  <2>1. Answered(c, pr, pf) /\ Untouched(c, p, pf) /\ c.revision \in Nat
    BY <1>6 DEF WindowOK, S!Calls
  <2>2. c.answer \in S!Progresses \cup S!Preferences => c.answer.revision \in Nat
    BY DEF S!Progresses, S!Preferences
  <2>3. Answered(c, pr2, pf2)
    BY <1>1, <1>2, <2>1, <2>2 DEF Answered
  <2>4. Untouched(c, p, pf2)
    BY <1>3, <2>1 DEF Untouched
  <2> QED  BY <2>3, <2>4
<1> QED  BY <1>4, <1>5, <1>6 DEF WindowOK

(* A step of one window, after which the stores are what they were or newer. *)
LEMMA WindowMoves ==
  ASSUME SetupIInv, NEW o \in Windows, NEW p \in S!Pages, NEW z \in S!Wizards \cup {None},
         NEW d \in S!Dialogs \cup {None}, NEW c \in S!Calls \cup {None},
         page' = [page EXCEPT ![o] = p], wizard' = [wizard EXCEPT ![o] = z],
         dialog' = [dialog EXCEPT ![o] = d], call' = [call EXCEPT ![o] = c],
         progress' \in S!Progresses, prefs' \in S!Preferences, model' \in S!Choices,
         Newer(progress, progress'), Newer(prefs, prefs'), Finished(progress'),
         S!Writes' <= MaxWrites + 1, WindowOK(p, z, d, c, progress', prefs')
  PROVE  SetupIInv'
<1>1. SetupTypes'
  BY DEF SetupIInv, SetupTypes
<1>2. ASSUME NEW q \in Windows
      PROVE  WindowOK(page'[q], wizard'[q], dialog'[q], call'[q], progress', prefs')
  <2>1. CASE q = o
    BY <2>1 DEF SetupIInv, SetupTypes
  <2>2. CASE q # o
    <3>1. WindowOK(page[q], wizard[q], dialog[q], call[q], progress, prefs) /\ SetupTypes
      BY DEF SetupIInv
    <3>2. page'[q] = page[q] /\ wizard'[q] = wizard[q] /\ dialog'[q] = dialog[q] /\ call'[q] = call[q]
      BY <2>2, <3>1 DEF SetupTypes
    <3>3. page[q] \in S!Pages /\ wizard[q] \in S!Wizards \cup {None} /\ dialog[q] \in S!Dialogs \cup {None}
          /\ call[q] \in S!Calls \cup {None} /\ progress \in S!Progresses /\ prefs \in S!Preferences
      BY <3>1 DEF SetupTypes
    <3>4. WindowOK(page[q], wizard[q], dialog[q], call[q], progress', prefs')
      BY <3>1, <3>3, CopiesAge
    <3> QED  BY <3>2, <3>4
  <2> QED  BY <2>1, <2>2
<1> QED  BY <1>1, <1>2 DEF SetupIInv

(* What a window finds.                                                      *)
LEMMA WindowHas ==
  ASSUME SetupIInv, NEW o \in Windows
  PROVE  /\ page[o] \in S!Pages /\ wizard[o] \in S!Wizards \cup {None}
         /\ dialog[o] \in S!Dialogs \cup {None} /\ call[o] \in S!Calls \cup {None}
         /\ WindowOK(page[o], wizard[o], dialog[o], call[o], progress, prefs)
         /\ page = [page EXCEPT ![o] = page[o]] /\ wizard = [wizard EXCEPT ![o] = wizard[o]]
         /\ dialog = [dialog EXCEPT ![o] = dialog[o]] /\ call = [call EXCEPT ![o] = call[o]]
  BY DEF SetupIInv, SetupTypes

(* A step of one window that writes no store.                                *)
LEMMA Shows ==
  ASSUME SetupIInv, NEW o \in Windows, NEW p \in S!Pages, NEW z \in S!Wizards \cup {None},
         NEW d \in S!Dialogs \cup {None}, NEW c \in S!Calls \cup {None},
         page' = [page EXCEPT ![o] = p], wizard' = [wizard EXCEPT ![o] = z],
         dialog' = [dialog EXCEPT ![o] = d], call' = [call EXCEPT ![o] = c],
         UNCHANGED S!Stores, WindowOK(p, z, d, c, progress, prefs)
  PROVE  SetupIInv'
<1>1. progress' = progress /\ prefs' = prefs /\ model' = model
  BY DEF S!Stores
<1>2. /\ progress' \in S!Progresses /\ prefs' \in S!Preferences /\ model' \in S!Choices
      /\ Newer(progress, progress') /\ Newer(prefs, prefs') /\ Finished(progress')
      /\ S!Writes' <= MaxWrites + 1 /\ WindowOK(p, z, d, c, progress', prefs')
  BY <1>1 DEF SetupIInv, SetupTypes, Newer, S!Writes
<1> QED  BY <1>2, WindowMoves

(* A window that has no request under way sends one.                         *)
LEMMA Sends ==
  ASSUME SetupIInv, NEW o \in Windows, NEW c \in S!Calls, S!Free(o), S!Turn(o, c),
         c.at = "sent", Asks(c), Untouched(c, page[o], prefs), Waits(c, wizard[o])
  PROVE  SetupIInv'
<1>1. /\ page' = [page EXCEPT ![o] = page[o]] /\ wizard' = [wizard EXCEPT ![o] = wizard[o]]
      /\ dialog' = [dialog EXCEPT ![o] = dialog[o]] /\ call' = [call EXCEPT ![o] = c]
      /\ UNCHANGED S!Stores
  BY WindowHas DEF S!Turn, S!Sent
<1>2. WindowOK(page[o], wizard[o], dialog[o], c, progress, prefs)
  BY WindowHas DEF WindowOK, Answered
<1> QED  BY <1>1, <1>2, WindowHas, Shows

LEMMA MutationOK ==
  ASSUME NEW z, z.progress.revision \in Nat, NEW k \in Mutations, NEW e \in S!Steps,
         NEW t \in {"stay", "turn", "close", "page"}, k = "complete" => e = Ready
  PROVE  /\ S!Mutation(z, k, e, t) \in S!Calls /\ S!Mutation(z, k, e, t).at = "sent"
         /\ S!Mutation(z, k, e, t).step = e /\ S!Mutation(z, k, e, t).then = t
         /\ Asks(S!Mutation(z, k, e, t)) /\ \A p : Untouched(S!Mutation(z, k, e, t), p, prefs)
<1> DEFINE c == S!Mutation(z, k, e, t)
<1>1. c = [kind |-> k, at |-> "sent", revision |-> z.progress.revision, step |-> e, look |-> None,
           name |-> None, touched |-> {}, then |-> t, receipt |-> None, answer |-> None]
  <2>1. PICK q : q = [S!Request(k) EXCEPT !.revision = z.progress.revision, !.step = e, !.then = t]
    OBVIOUS
  <2>2. c = q
    BY <2>1 DEF S!Mutation
  <2> HIDE DEF c
  <2> QED  BY <2>1, <2>2 DEF S!Request, S!You
<1>2. c \in S!Calls
  BY <1>1 DEF S!Calls, Mutations
<1>3. Asks(c) /\ \A p : Untouched(c, p, prefs)
  BY <1>1 DEF Asks, Untouched, Mutations
<1> QED  BY <1>1, <1>2, <1>3

(* A setup dialog that waits for nothing sends one of its own.               *)
LEMMA WizardSends ==
  ASSUME SetupIInv, NEW o \in Windows, S!Idle(o), NEW k \in Mutations, NEW e \in S!Steps,
         NEW t \in {"stay", "turn", "close"}, k = "complete" => e = Ready,
         t = "stay" => e = wizard[o].step, S!Turn(o, S!Mutation(wizard[o], k, e, t))
  PROVE  SetupIInv'
<1>1. wizard[o] \in S!Wizards /\ S!Free(o)
  BY WindowHas DEF S!Idle
<1>2. wizard[o].progress.revision \in Nat /\ wizard[o] # None
  BY <1>1 DEF S!Wizards, S!Progresses, S!Idle
<1> DEFINE c == S!Mutation(wizard[o], k, e, t)
<1>3. c \in S!Calls /\ c.at = "sent" /\ c.step = e /\ c.then = t /\ Asks(c) /\ Untouched(c, page[o], prefs)
  BY <1>2, MutationOK
<1>4. Waits(c, wizard[o])
  BY <1>2, <1>3 DEF Waits
<1> HIDE DEF c
<1> QED  BY <1>1, <1>3, <1>4, Sends DEF c

LEMMA PageReloads == ASSUME SetupIInv, NEW o \in Windows, S!Reload(o) PROVE SetupIInv'
<1>1. S!Loaded \in S!Pages
  BY DEF SetupIInv, SetupTypes, S!Loaded, S!Pages, S!Preferences
<1>2. PageOK(S!Loaded, progress, prefs)
  BY DEF SetupIInv, SetupTypes, S!Loaded, PageOK, CopyOf, S!Preferences, S!Progresses
<1>3. WindowOK(S!Loaded, None, None, None, progress, prefs)
  BY <1>2 DEF WindowOK
<1>4. /\ page' = [page EXCEPT ![o] = S!Loaded] /\ wizard' = [wizard EXCEPT ![o] = None]
      /\ dialog' = [dialog EXCEPT ![o] = None] /\ call' = [call EXCEPT ![o] = None]
      /\ UNCHANGED S!Stores
  BY WindowHas DEF S!Reload, S!Free
<1> QED  BY <1>1, <1>3, <1>4, Shows

LEMMA OpenWizardStays == ASSUME SetupIInv, NEW o \in Windows, S!OpenWizard(o) PROVE SetupIInv'
<1> DEFINE p == page[o].progress
           z == [progress |-> p, prefs |-> page[o].prefs, models |-> None,
                 step |-> IF p.status = "completed" THEN Ready ELSE p.step,
                 look |-> page[o].prefs.look, name |-> page[o].prefs.name,
                 startFailed |-> FALSE, canLeave |-> FALSE]
<1>1. /\ page[o] \in S!Pages /\ PageOK(page[o], progress, prefs)
      /\ page[o].progress \in S!Progresses /\ page[o].prefs \in S!Preferences
  BY WindowHas DEF WindowOK, S!Pages
<1>2. Finished(p) /\ p.step \in S!Steps /\ Ready \in S!Steps /\ p.revision \in Nat
  BY <1>1, SetupAssumption DEF PageOK, S!Progresses, S!Steps
<1>3. z \in S!Wizards
  BY <1>1, <1>2 DEF S!Wizards, S!Preferences
<1>4. WizardOK(z, progress, prefs)
  BY <1>1, <1>2 DEF WizardOK, PageOK, Finished
<1>5. z.step = p.step /\ z.progress = p
  BY <1>2 DEF Finished
<1>6. /\ page' = [page EXCEPT ![o] = page[o]] /\ wizard' = [wizard EXCEPT ![o] = z]
      /\ dialog' = [dialog EXCEPT ![o] = None] /\ UNCHANGED S!Stores /\ call[o] = None
  BY WindowHas DEF S!OpenWizard, S!Free
<1>7. IF p.status \in S!Waiting THEN call' = [call EXCEPT ![o] = S!Mutation(z, "start", p.step, "stay")]
                                ELSE call' = call
  BY DEF S!OpenWizard, S!Sent
<1> HIDE DEF z
<1>8. z # None
  BY <1>3, SetupAssumption
<1>9. CASE p.status \in S!Waiting
  <2> DEFINE c == S!Mutation(z, "start", p.step, "stay")
  <2>1. c \in S!Calls /\ c.at = "sent" /\ c.step = p.step /\ c.then = "stay" /\ Asks(c)
        /\ Untouched(c, page[o], prefs)
    BY <1>2, <1>5, MutationOK DEF Mutations
  <2> HIDE DEF c
  <2>2. Waits(c, z) /\ Answered(c, progress, prefs)
    BY <1>5, <1>8, <2>1 DEF Waits, Answered
  <2>3. WindowOK(page[o], z, None, c, progress, prefs)
    BY <1>1, <1>4, <2>1, <2>2 DEF WindowOK
  <2>4. call' = [call EXCEPT ![o] = c]
    BY <1>7, <1>9 DEF c
  <2> QED  BY <1>1, <1>3, <1>6, <2>1, <2>3, <2>4, Shows
<1>10. CASE p.status \notin S!Waiting
  <2>1. call' = [call EXCEPT ![o] = None]
    BY <1>6, <1>7, <1>10, WindowHas
  <2>2. WindowOK(page[o], z, None, None, progress, prefs)
    BY <1>1, <1>4 DEF WindowOK
  <2> QED  BY <1>1, <1>3, <1>6, <2>1, <2>2, Shows
<1> QED  BY <1>9, <1>10

LEMMA Closes ==
  ASSUME SetupIInv, NEW o \in Windows, S!Idle(o), S!Close(o), UNCHANGED <<S!Stores, page, dialog, call>>
  PROVE  SetupIInv'
<1>1. /\ page' = [page EXCEPT ![o] = page[o]] /\ wizard' = [wizard EXCEPT ![o] = None]
      /\ dialog' = [dialog EXCEPT ![o] = dialog[o]] /\ call' = [call EXCEPT ![o] = None]
      /\ UNCHANGED S!Stores
  BY WindowHas DEF S!Close, S!Idle, S!Free
<1>2. wizard[o] # None /\ WindowOK(page[o], wizard[o], dialog[o], call[o], progress, prefs)
  BY WindowHas DEF S!Idle
<1>3. WindowOK(page[o], None, dialog[o], None, progress, prefs)
  BY <1>2 DEF WindowOK
<1>4. page[o] \in S!Pages /\ dialog[o] \in S!Dialogs \cup {None}
  BY WindowHas
<1> QED  BY ONLY SetupIInv, o \in Windows, <1>1, <1>3, <1>4, Shows

LEMMA IdleWizard ==
  ASSUME SetupIInv, NEW o \in Windows, S!Idle(o)
  PROVE  /\ wizard[o] \in S!Wizards /\ wizard[o] # None /\ call[o] = None /\ dialog[o] = None
         /\ wizard[o].step \in S!Steps /\ WizardOK(wizard[o], progress, prefs)
<1>1. wizard[o] \in S!Wizards /\ wizard[o] # None /\ call[o] = None
  BY WindowHas DEF S!Idle, S!Free
<1>2. WizardOK(wizard[o], progress, prefs) /\ dialog[o] = None
  BY <1>1, WindowHas DEF WindowOK
<1> QED  BY <1>1, <1>2 DEF S!Wizards

LEMMA WizardStays ==
  ASSUME SetupIInv, NEW o \in Windows,
         \/ S!RetryStart(o) \/ S!Dismiss(o) \/ S!CloseWithoutSaving(o) \/ S!FinishSetup(o)
         \/ \E e \in S!Steps : S!Advance(o, e)
  PROVE  SetupIInv'
<1>0. Ready \in S!Steps
  BY SetupAssumption DEF S!Steps
<1>1. CASE S!RetryStart(o)
  <2>1. S!Idle(o) /\ S!Turn(o, S!Mutation(wizard[o], "start", wizard[o].step, "stay"))
    BY <1>1 DEF S!RetryStart
  <2> QED  BY <2>1, IdleWizard, WizardSends DEF Mutations
<1>2. CASE S!Dismiss(o)
  <2>1. CASE S!Replay(o)
    BY <1>2, <2>1, Closes DEF S!Dismiss
  <2>2. CASE ~S!Replay(o)
    <3>1. S!Idle(o) /\ S!Turn(o, S!Mutation(wizard[o], "dismiss", wizard[o].step, "close"))
      BY <1>2, <2>2 DEF S!Dismiss
    <3> QED  BY <3>1, IdleWizard, WizardSends DEF Mutations
  <2> QED  BY <2>1, <2>2
<1>3. CASE S!CloseWithoutSaving(o)
  BY <1>3, Closes DEF S!CloseWithoutSaving
<1>4. CASE S!FinishSetup(o)
  <2>1. CASE S!Replay(o)
    BY <1>4, <2>1, Closes DEF S!FinishSetup
  <2>2. CASE ~S!Replay(o)
    <3>1. S!Idle(o) /\ S!Turn(o, S!Mutation(wizard[o], "complete", Ready, "stay")) /\ wizard[o].step = Ready
      BY <1>4, <2>2 DEF S!FinishSetup
    <3> QED  BY <1>0, <3>1, WizardSends DEF Mutations
  <2> QED  BY <2>1, <2>2
<1>5. CASE \E e \in S!Steps : S!Advance(o, e)
  <2>1. PICK e \in S!Steps : S!Idle(o) /\ S!Turn(o, S!Mutation(wizard[o], "advance", e, "turn"))
    BY <1>5 DEF S!Advance
  <2> QED  BY <2>1, WizardSends DEF Mutations
<1> QED  BY <1>1, <1>2, <1>3, <1>4, <1>5

LEMMA DiscoverStays == ASSUME SetupIInv, NEW o \in Windows, S!Discover(o) PROVE SetupIInv'
<1> DEFINE z == [wizard[o] EXCEPT !.models = model]
<1>1. wizard[o] \in S!Wizards /\ wizard[o] # None /\ model \in S!Choices
  BY WindowHas DEF S!Discover, SetupIInv, SetupTypes
<1>2. z \in S!Wizards /\ z.progress = wizard[o].progress /\ z.prefs = wizard[o].prefs /\ z.step = wizard[o].step
  BY <1>1 DEF S!Wizards
<1>3. wizard' = [wizard EXCEPT ![o] = z]
  BY DEF S!Discover
<1> HIDE DEF z
<1>4. WizardOK(z, progress, prefs) /\ dialog[o] = None /\ z # None
  BY <1>1, <1>2, WindowHas, SetupAssumption DEF WindowOK, WizardOK
<1>5. ASSUME call[o] # None PROVE Waits(call[o], z)
  BY <1>2, <1>4, <1>5, WindowHas DEF WindowOK, Waits
<1>6. WindowOK(page[o], z, dialog[o], call[o], progress, prefs)
  BY <1>4, <1>5, WindowHas DEF WindowOK
<1>7. /\ page' = [page EXCEPT ![o] = page[o]] /\ dialog' = [dialog EXCEPT ![o] = dialog[o]]
      /\ call' = [call EXCEPT ![o] = call[o]] /\ UNCHANGED S!Stores
  BY WindowHas DEF S!Discover
<1> QED  BY <1>2, <1>3, <1>6, <1>7, WindowHas, Shows

LEMMA UseModelStays == ASSUME SetupIInv, NEW o \in Windows, NEW a \in Values, S!UseModel(o, a) PROVE SetupIInv'
<1>1. S!Idle(o) /\ wizard[o].step = S!ModelStep /\ wizard[o].models # None
  BY DEF S!UseModel
<1>2. wizard[o] \in S!Wizards /\ wizard[o] # None
  BY <1>1, IdleWizard
<1>3. wizard[o].models \in S!Choices /\ wizard[o].step + 1 = 3 /\ 3 \in S!Steps
  BY <1>1, <1>2, SetupAssumption DEF S!Wizards, S!ModelStep, S!Steps
<1>4. CASE wizard[o].models.choice = a
  <2>1. S!Turn(o, S!Mutation(wizard[o], "advance", 3, "turn"))
    BY <1>3, <1>4 DEF S!UseModel
  <2> QED  BY <1>1, <1>3, <2>1, WizardSends DEF Mutations
<1>5. CASE wizard[o].models.choice # a
  <2> DEFINE c == [kind |-> "model", at |-> "sent", revision |-> wizard[o].models.revision, step |-> 3,
                   look |-> None, name |-> a, touched |-> {}, then |-> "advance", receipt |-> None,
                   answer |-> None]
  <2>1. S!Turn(o, [S!Request("model") EXCEPT !.revision = wizard[o].models.revision, !.name = a,
                      !.step = 3, !.then = "advance"])
    BY <1>3, <1>5 DEF S!UseModel
  <2>2. PICK q : q = [S!Request("model") EXCEPT !.revision = wizard[o].models.revision, !.name = a,
                         !.step = 3, !.then = "advance"]
    OBVIOUS
  <2>3. q = c
    BY <2>2 DEF S!Request, S!You
  <2>4. S!Turn(o, c)
    BY <2>1, <2>2, <2>3
  <2>5. wizard[o].models.revision \in Nat
    BY <1>3 DEF S!Choices
  <2>6. c \in S!Calls /\ c.at = "sent" /\ Asks(c) /\ Untouched(c, page[o], prefs) /\ Waits(c, wizard[o])
    BY <1>2, <1>3, <2>5 DEF S!Calls, Asks, Untouched, Waits, Mutations, OfWizard
  <2> HIDE DEF c
  <2> QED  BY <1>1, <2>4, <2>6, Sends DEF S!Idle
<1> QED  BY <1>4, <1>5

LEMMA InvitationStays == ASSUME SetupIInv, NEW o \in Windows, S!DismissInvitation(o) PROVE SetupIInv'
<1>1. page[o].progress.revision \in Nat /\ page[o].progress.step \in S!Steps
  BY WindowHas DEF S!Pages, S!Progresses
<1> DEFINE c == S!Mutation(page[o], "dismiss", page[o].progress.step, "page")
<1>2. c \in S!Calls /\ c.at = "sent" /\ c.then = "page" /\ Asks(c) /\ Untouched(c, page[o], prefs)
  BY <1>1, MutationOK DEF Mutations
<1>3. S!Turn(o, c) /\ S!Free(o)
  BY DEF S!DismissInvitation
<1> HIDE DEF c
<1>4. Waits(c, wizard[o])
  BY <1>2 DEF Waits, OfWizard
<1> QED  BY <1>2, <1>3, <1>4, Sends

LEMMA OpenDialogStays == ASSUME SetupIInv, NEW o \in Windows, S!OpenDialog(o) PROVE SetupIInv'
<1> DEFINE d == [look |-> page[o].prefs.look, name |-> page[o].name, touched |-> {}]
<1>1. page[o] \in S!Pages /\ PageOK(page[o], progress, prefs) /\ page[o].prefs \in S!Preferences
  BY WindowHas DEF WindowOK, S!Pages
<1>2. d \in S!Dialogs
  BY <1>1 DEF S!Dialogs, S!Pages, S!Preferences
<1>3. DialogOK(d, page[o])
  BY <1>1 DEF DialogOK, PageOK
<1>4. /\ page' = [page EXCEPT ![o] = page[o]] /\ wizard' = [wizard EXCEPT ![o] = None]
      /\ dialog' = [dialog EXCEPT ![o] = d] /\ call' = [call EXCEPT ![o] = None]
      /\ UNCHANGED S!Stores
  BY WindowHas DEF S!OpenDialog, S!Free
<1> HIDE DEF d
<1>5. WindowOK(page[o], None, d, None, progress, prefs)
  BY <1>1, <1>3 DEF WindowOK
<1> QED  BY <1>1, <1>2, <1>4, <1>5, Shows

LEMMA CloseDialogStays == ASSUME SetupIInv, NEW o \in Windows, S!CloseDialog(o) PROVE SetupIInv'
<1>1. /\ page' = [page EXCEPT ![o] = page[o]] /\ wizard' = [wizard EXCEPT ![o] = wizard[o]]
      /\ dialog' = [dialog EXCEPT ![o] = None] /\ call' = [call EXCEPT ![o] = None]
      /\ UNCHANGED S!Stores /\ call[o] = None
  BY WindowHas DEF S!CloseDialog, S!Free
<1>2. WindowOK(page[o], wizard[o], None, None, progress, prefs)
  BY WindowHas DEF WindowOK
<1> QED  BY <1>1, <1>2, WindowHas, Shows

(* Preferences are saved from the dialog d ...                               *)
LEMMA DialogSaves ==
  ASSUME SetupIInv, NEW o \in Windows, NEW d \in S!Dialogs, dialog[o] # None, S!Free(o),
         DialogOK(d, page[o]), dialog' = [dialog EXCEPT ![o] = d],
         call' = [call EXCEPT ![o] = [S!Request("prefs") EXCEPT !.revision = page[o].revision,
                     !.look = d.look, !.name = d.name, !.touched = d.touched, !.then = "dialog"]],
         UNCHANGED <<S!Stores, page, wizard>>
  PROVE  SetupIInv'
<1> DEFINE r == [kind |-> "prefs", at |-> "sent", revision |-> page[o].revision, step |-> 1,
                 look |-> d.look, name |-> d.name, touched |-> d.touched, then |-> "dialog",
                 receipt |-> None, answer |-> None]
<1>1. PICK q : q = [S!Request("prefs") EXCEPT !.revision = page[o].revision,
                       !.look = d.look, !.name = d.name, !.touched = d.touched, !.then = "dialog"]
  OBVIOUS
<1>2. q = r
  BY <1>1 DEF S!Request, S!You
<1>3. call' = [call EXCEPT ![o] = r]
  BY <1>1, <1>2
<1>4. /\ page[o] \in S!Pages /\ PageOK(page[o], progress, prefs)
      /\ wizard[o] = None /\ page[o].revision \in Nat
  BY WindowHas DEF WindowOK, S!Pages
<1>5. d.look \in Values /\ d.name \in Values /\ d.touched \in SUBSET {"look", "name"} /\ 1 \in S!Steps
  BY SetupAssumption DEF S!Dialogs, S!Steps
<1>6. r \in S!Calls
  BY <1>4, <1>5 DEF S!Calls
<1>7. Untouched(r, page[o], prefs)
  BY <1>4 DEF Untouched, PageOK, CopyOf, DialogOK
<1>8. Asks(r) /\ Answered(r, progress, prefs) /\ Waits(r, None)
  BY <1>5 DEF Asks, Answered, Waits, OfWizard, Mutations
<1> HIDE DEF r
<1>9. WindowOK(page[o], None, d, r, progress, prefs)
  BY <1>4, <1>7, <1>8 DEF WindowOK
<1>10. page' = [page EXCEPT ![o] = page[o]] /\ wizard' = [wizard EXCEPT ![o] = None] /\ UNCHANGED S!Stores
  BY <1>4, WindowHas
<1> QED  BY ONLY SetupIInv, o \in Windows, d \in S!Dialogs, dialog' = [dialog EXCEPT ![o] = d],
            <1>3, <1>4, <1>6, <1>9, <1>10, Shows

LEMMA SavePreferencesStays ==
  ASSUME SetupIInv, NEW o \in Windows, NEW h \in {"look", "name"}, NEW a \in Values, S!SavePreferences(o, h, a)
  PROVE  SetupIInv'
<1>1. dialog[o] # None /\ S!Free(o) /\ UNCHANGED <<S!Stores, page, wizard>>
  BY DEF S!SavePreferences
<1>2. dialog[o] \in S!Dialogs /\ DialogOK(dialog[o], page[o])
  BY <1>1, WindowHas DEF WindowOK
<1>3. dialog[o].look \in Values /\ dialog[o].name \in Values /\ dialog[o].touched \in SUBSET {"look", "name"}
  BY <1>2 DEF S!Dialogs
<1>4. PICK d : /\ d = [dialog[o] EXCEPT ![h] = a, !.touched = @ \cup {h}]
               /\ dialog' = [dialog EXCEPT ![o] = d]
               /\ call' = [call EXCEPT ![o] = [S!Request("prefs") EXCEPT !.revision = page[o].revision,
                              !.look = d.look, !.name = d.name, !.touched = d.touched, !.then = "dialog"]]
  BY DEF S!SavePreferences, S!Sent
<1>5. CASE h = "look"
  <2>1. d = [look |-> a, name |-> dialog[o].name, touched |-> dialog[o].touched \cup {"look"}]
    BY <1>2, <1>4, <1>5 DEF S!Dialogs
  <2>2. d \in S!Dialogs
    BY <1>3, <2>1 DEF S!Dialogs
  <2>3. DialogOK(d, page[o])
    BY <1>2, <2>1 DEF DialogOK
  <2> QED  BY <1>1, <1>4, <2>2, <2>3, DialogSaves
<1>6. CASE h = "name"
  <2>1. d = [look |-> dialog[o].look, name |-> a, touched |-> dialog[o].touched \cup {"name"}]
    BY <1>2, <1>4, <1>6 DEF S!Dialogs
  <2>2. d \in S!Dialogs
    BY <1>3, <2>1 DEF S!Dialogs
  <2>3. DialogOK(d, page[o])
    BY <1>2, <2>1 DEF DialogOK
  <2> QED  BY <1>1, <1>4, <2>2, <2>3, DialogSaves
<1> QED  BY <1>5, <1>6

(* ... and from the first step of the setup dialog z.                        *)
LEMMA WizardSaves ==
  ASSUME SetupIInv, NEW o \in Windows, S!Idle(o), NEW z \in S!Wizards, WizardOK(z, progress, prefs), z.step = 1,
         NEW t, t = {k \in {"look", "name"} : z[k] # z.prefs[k]}, wizard' = [wizard EXCEPT ![o] = z],
         call' = [call EXCEPT ![o] = [S!Request("prefs") EXCEPT !.revision = z.prefs.revision,
                     !.step = z.step + 1, !.look = z.look, !.name = z.name, !.then = "advance",
                     !.touched = t]],
         UNCHANGED <<S!Stores, page, dialog>>
  PROVE  SetupIInv'
<1> DEFINE r == [kind |-> "prefs", at |-> "sent", revision |-> z.prefs.revision, step |-> z.step + 1,
                 look |-> z.look, name |-> z.name, touched |-> t, then |-> "advance",
                 receipt |-> None, answer |-> None]
<1>1. PICK q : q = [S!Request("prefs") EXCEPT !.revision = z.prefs.revision,
                     !.step = z.step + 1, !.look = z.look, !.name = z.name, !.then = "advance",
                     !.touched = t]
  OBVIOUS
<1>2. q = r
  BY <1>1 DEF S!Request
<1>3. call' = [call EXCEPT ![o] = r]
  BY <1>1, <1>2
<1>4. page[o] \in S!Pages /\ PageOK(page[o], progress, prefs) /\ dialog[o] = None /\ z # None
  BY WindowHas, IdleWizard, SetupAssumption DEF WindowOK
<1>5. z.look \in Values /\ z.name \in Values /\ t \in SUBSET {"look", "name"} /\ z.step + 1 \in S!Steps
      /\ z.prefs \in S!Preferences /\ z.prefs.revision \in Nat
  BY SetupAssumption DEF S!Wizards, S!Steps, S!Preferences
<1>6. r \in S!Calls
  BY <1>5 DEF S!Calls
<1>7. /\ "look" \notin t => z.look = z.prefs.look
      /\ "name" \notin t => z.name = z.prefs.name
  OBVIOUS
<1>8. Untouched(r, page[o], prefs)
  BY <1>7 DEF Untouched, WizardOK, CopyOf
<1>9. Asks(r) /\ Answered(r, progress, prefs) /\ Waits(r, z)
  BY <1>4, <1>5 DEF Asks, Answered, Waits, OfWizard, Mutations
<1> HIDE DEF r
<1>10. WindowOK(page[o], z, None, r, progress, prefs)
  BY <1>4, <1>8, <1>9 DEF WindowOK
<1>11. page' = [page EXCEPT ![o] = page[o]] /\ dialog' = [dialog EXCEPT ![o] = None] /\ UNCHANGED S!Stores
  BY <1>4, WindowHas
<1> QED  BY ONLY SetupIInv, o \in Windows, z \in S!Wizards, wizard' = [wizard EXCEPT ![o] = z],
            <1>3, <1>4, <1>6, <1>10, <1>11, Shows

LEMMA SaveAndContinueStays ==
  ASSUME SetupIInv, NEW o \in Windows, NEW h \in {"look", "name"}, NEW a \in Values, S!SaveAndContinue(o, h, a)
  PROVE  SetupIInv'
<1>1. S!Idle(o) /\ UNCHANGED <<S!Stores, page, dialog>>
  BY DEF S!SaveAndContinue
<1>2. wizard[o] \in S!Wizards /\ WizardOK(wizard[o], progress, prefs)
  BY <1>1, IdleWizard
<1>3. PICK z : /\ z = [wizard[o] EXCEPT ![h] = a] /\ z.step = 1 /\ wizard' = [wizard EXCEPT ![o] = z]
               /\ call' = [call EXCEPT ![o] = [S!Request("prefs") EXCEPT !.revision = z.prefs.revision,
                     !.step = z.step + 1, !.look = z.look, !.name = z.name, !.then = "advance",
                     !.touched = {k \in {"look", "name"} : z[k] # z.prefs[k]}]]
  BY DEF S!SaveAndContinue, S!Sent, S!You
<1>4. z \in S!Wizards /\ z.progress = wizard[o].progress /\ z.prefs = wizard[o].prefs /\ z.step = wizard[o].step
  <2>1. CASE h = "look"
    BY <1>2, <1>3, <2>1 DEF S!Wizards
  <2>2. CASE h = "name"
    BY <1>2, <1>3, <2>2 DEF S!Wizards
  <2> QED  BY <2>1, <2>2
<1>5. WizardOK(z, progress, prefs)
  BY <1>2, <1>4 DEF WizardOK
<1>6. PICK t : t = {k \in {"look", "name"} : z[k] # z.prefs[k]}
  OBVIOUS
<1> QED  BY <1>1, <1>3, <1>4, <1>5, <1>6, WizardSaves

(* The server.                                                               *)
LEMMA AnswerIs ==
  ASSUME NEW c \in S!Calls, NEW e, NEW a, NEW r, r = [c EXCEPT !.at = e, !.answer = a]
  PROVE  r = [kind |-> c.kind, at |-> e, revision |-> c.revision, step |-> c.step, look |-> c.look,
              name |-> c.name, touched |-> c.touched, then |-> c.then, receipt |-> c.receipt, answer |-> a]
  BY DEF S!Calls

LEMMA Answers ==
  ASSUME SetupIInv, NEW o \in Windows, call[o] # None, NEW e \in {"done", "conflict", "refused"},
         NEW a \in S!Progresses \cup S!Preferences \cup S!Choices \cup {None},
         S!Answer(o, e, a), UNCHANGED <<page, wizard, dialog>>,
         progress' \in S!Progresses, prefs' \in S!Preferences, model' \in S!Choices,
         Newer(progress, progress'), Newer(prefs, prefs'), Finished(progress'), S!Writes' <= MaxWrites + 1,
         call[o].kind \in Mutations /\ e \in {"done", "conflict"} =>
           a \in S!Progresses /\ Finished(a) /\ CopyOf(a, progress'),
         call[o].kind \in Mutations /\ e = "done" => a.step = call[o].step,
         call[o].kind = "prefs" /\ e \in {"done", "conflict"} => a \in S!Preferences /\ CopyOf(a, prefs'),
         call[o].kind = "model" /\ e = "done" => a \in S!Choices
  PROVE  SetupIInv'
<1>1. /\ call[o] \in S!Calls /\ page[o] \in S!Pages /\ wizard[o] \in S!Wizards \cup {None}
      /\ dialog[o] \in S!Dialogs \cup {None} /\ progress \in S!Progresses /\ prefs \in S!Preferences
      /\ WindowOK(page[o], wizard[o], dialog[o], call[o], progress, prefs)
  BY WindowHas DEF SetupIInv, SetupTypes
<1>2. WindowOK(page[o], wizard[o], dialog[o], call[o], progress', prefs')
  BY <1>1, CopiesAge
<1>3. PICK r : r = [call[o] EXCEPT !.at = e, !.answer = a] /\ call' = [call EXCEPT ![o] = r]
  BY DEF S!Answer, S!Sent
<1> DEFINE c == call[o]
<1>4. r = [kind |-> c.kind, at |-> e, revision |-> c.revision, step |-> c.step, look |-> c.look,
           name |-> c.name, touched |-> c.touched, then |-> c.then, receipt |-> c.receipt, answer |-> a]
  BY <1>1, <1>3, AnswerIs
<1>5. r \in S!Calls
  BY <1>1, <1>4 DEF S!Calls
<1>6. /\ r.kind = c.kind /\ r.at = e /\ r.revision = c.revision /\ r.step = c.step /\ r.look = c.look
      /\ r.name = c.name /\ r.touched = c.touched /\ r.then = c.then /\ r.receipt = c.receipt /\ r.answer = a
  BY <1>4
<1>7. Asks(c) /\ Untouched(c, page[o], prefs') /\ Waits(c, wizard[o])
  BY <1>2 DEF WindowOK
<1>8. Asks(r) /\ Untouched(r, page[o], prefs') /\ Waits(r, wizard[o])
  BY <1>6, <1>7 DEF Asks, Untouched, Waits
<1>9. Answered(r, progress', prefs')
  BY <1>6 DEF Answered
<1>10. WindowOK(page[o], wizard[o], dialog[o], r, progress', prefs')
  BY <1>2, <1>8, <1>9 DEF WindowOK
<1>11. page' = [page EXCEPT ![o] = page[o]] /\ wizard' = [wizard EXCEPT ![o] = wizard[o]]
       /\ dialog' = [dialog EXCEPT ![o] = dialog[o]]
  BY WindowHas
<1>12. call' = [call EXCEPT ![o] = r]
  BY <1>3
<1> HIDE DEF c
<1> QED  BY <1>1, <1>5, <1>10, <1>11, <1>12, WindowMoves

LEMMA AnswersOnly ==
  ASSUME SetupIInv, NEW o \in Windows, call[o] # None, NEW e \in {"done", "conflict", "refused"},
         NEW a \in S!Progresses \cup S!Preferences \cup S!Choices \cup {None},
         S!Answer(o, e, a), UNCHANGED <<S!Stores, page, wizard, dialog>>,
         \/ e = "refused"
         \/ e = "conflict" /\ call[o].kind \in Mutations /\ a = progress
         \/ e = "conflict" /\ call[o].kind = "prefs" /\ a = prefs
  PROVE  SetupIInv'
<1>1. progress' = progress /\ prefs' = prefs /\ model' = model
  BY DEF S!Stores
<1>2. /\ progress' \in S!Progresses /\ prefs' \in S!Preferences /\ model' \in S!Choices
      /\ Newer(progress, progress') /\ Newer(prefs, prefs') /\ Finished(progress')
      /\ S!Writes' <= MaxWrites + 1 /\ CopyOf(progress, progress') /\ CopyOf(prefs, prefs')
  BY <1>1 DEF SetupIInv, SetupTypes, Newer, S!Writes, CopyOf, S!Progresses, S!Preferences
<1>3. "prefs" \notin Mutations
  BY DEF Mutations
<1> QED  BY <1>1, <1>2, <1>3, Answers

LEMMA LoseStays == ASSUME SetupIInv, NEW o \in Windows, S!Lose(o) PROVE SetupIInv'
<1>1. call[o] # None /\ S!Answer(o, "refused", None) /\ UNCHANGED <<S!Stores, page, wizard, dialog>>
  BY DEF S!Lose
<1> QED  BY <1>1, AnswersOnly

LEMMA MakeReceiptStays == ASSUME SetupIInv, NEW o \in Windows, S!MakeReceipt(o) PROVE SetupIInv'
<1>1. /\ call[o] \in S!Calls /\ call[o] # None /\ call[o].kind = "complete" /\ call[o].at = "sent"
      /\ UNCHANGED <<S!Stores, page, wizard, dialog>> /\ call[o].receipt = None
      /\ WindowOK(page[o], wizard[o], dialog[o], call[o], progress, prefs)
  BY WindowHas DEF S!MakeReceipt, S!Arrived
<1>2. PICK r : r = [call[o] EXCEPT !.receipt = model.choice] /\ call' = [call EXCEPT ![o] = r]
  BY DEF S!MakeReceipt, S!Sent
<1>3. model.choice \in Values
  BY DEF SetupIInv, SetupTypes, S!Choices
<1>4. r \in S!Calls
  BY <1>1, <1>2, <1>3 DEF S!Calls
<1>5. r.kind = "complete" /\ r.at = "sent" /\ r.step = call[o].step /\ r.then = call[o].then
  BY <1>1, <1>2 DEF S!Calls
<1>6. Asks(r) /\ Untouched(r, page[o], prefs) /\ Waits(r, wizard[o]) /\ Answered(r, progress, prefs)
  BY <1>1, <1>5 DEF WindowOK, Asks, Untouched, Waits, Answered, Mutations
<1>7. WindowOK(page[o], wizard[o], dialog[o], r, progress, prefs)
  BY <1>1, <1>6 DEF WindowOK
<1>8. page' = [page EXCEPT ![o] = page[o]] /\ wizard' = [wizard EXCEPT ![o] = wizard[o]]
      /\ dialog' = [dialog EXCEPT ![o] = dialog[o]]
  BY <1>1, WindowHas
<1>9. page[o] \in S!Pages /\ wizard[o] \in S!Wizards \cup {None} /\ dialog[o] \in S!Dialogs \cup {None}
  BY WindowHas
<1>10. call' = [call EXCEPT ![o] = r] /\ UNCHANGED S!Stores
  BY <1>1, <1>2
<1> QED  BY ONLY SetupIInv, o \in Windows, <1>4, <1>7, <1>8, <1>9, <1>10, Shows

LEMMA MoveStays == ASSUME SetupIInv, NEW o \in Windows, S!Move(o) PROVE SetupIInv'
<1> DEFINE c == call[o]
<1>1. /\ c # None /\ c \in S!Calls /\ c.kind \in Mutations /\ c.at = "sent" /\ Asks(c)
      /\ c.kind = "complete" => c.receipt # None
  BY WindowHas DEF S!Move, S!Arrived, Mutations, WindowOK
<1>2. /\ progress \in S!Progresses /\ prefs \in S!Preferences /\ model \in S!Choices
      /\ S!Writes <= MaxWrites + 1 /\ Finished(progress)
  BY DEF SetupIInv, SetupTypes
<1>3. UNCHANGED <<prefs, model, page, wizard, dialog>>
  BY DEF S!Move
<1>4. CASE ~S!Current(o)
  <2>1. S!Answer(o, "conflict", progress) /\ UNCHANGED progress
    BY <1>4 DEF S!Move
  <2> QED  BY <1>1, <1>2, <1>3, <2>1, AnswersOnly DEF S!Stores
<1>5. CASE S!Current(o) /\ ~S!Allowed(c)
  <2>1. S!Answer(o, "refused", None) /\ UNCHANGED progress
    BY <1>5 DEF S!Move
  <2> QED  BY <1>1, <1>2, <1>3, <2>1, AnswersOnly DEF S!Stores
<1>6. CASE S!Current(o) /\ S!Allowed(c)
  <2>1. S!Writes < MaxWrites /\ progress' = S!Moved(c) /\ S!Answer(o, "done", S!Moved(c))
    BY <1>6 DEF S!Move
  <2>2. c.step \in S!Steps /\ c.receipt \in Values \cup {None} /\ progress.revision \in Nat
        /\ prefs.revision \in Nat /\ model.revision \in Nat
    BY <1>1, <1>2 DEF S!Calls, S!Progresses, S!Preferences, S!Choices
  <2>3. PICK e \in {"dismissed", "completed", "in-progress"} :
           /\ S!Moved(c) = [status |-> e, step |-> c.step, revision |-> progress.revision + 1,
                            receipt |-> c.receipt]
           /\ e = "completed" <=> c.kind = "complete"
    BY DEF S!Moved
  <2>4. S!Moved(c) \in S!Progresses
    BY <2>2, <2>3 DEF S!Progresses
  <2>5. Finished(S!Moved(c))
    BY <1>1, <2>3 DEF Finished, Asks
  <2>6. Newer(progress, progress') /\ Newer(prefs, prefs') /\ CopyOf(S!Moved(c), progress')
    BY <1>3, <2>1, <2>2, <2>3 DEF Newer, CopyOf
  <2>7. S!Writes' <= MaxWrites + 1
    BY <1>3, <2>1, <2>2, <2>3, SetupAssumption DEF S!Writes
  <2>8. S!Moved(c).step = c.step /\ "prefs" \notin Mutations /\ "model" \notin Mutations
    BY <2>3 DEF Mutations
  <2>9. prefs' \in S!Preferences /\ model' \in S!Choices /\ progress' \in S!Progresses /\ Finished(progress')
    BY <1>2, <1>3, <2>1, <2>4, <2>5
  <2> HIDE DEF c
  <2>10. UNCHANGED <<page, wizard, dialog>>
    BY <1>3
  <2> QED  BY <1>1, <2>1, <2>4, <2>5, <2>6, <2>7, <2>8, <2>9, <2>10, Answers DEF c
<1> QED  BY <1>4, <1>5, <1>6

LEMMA StorePreferencesStays == ASSUME SetupIInv, NEW o \in Windows, S!StorePreferences(o) PROVE SetupIInv'
<1> DEFINE c == call[o]
           r == [revision |-> prefs.revision + 1, look |-> c.look, name |-> c.name]
<1>1. /\ c # None /\ c \in S!Calls /\ c.kind = "prefs" /\ c.at = "sent" /\ Asks(c)
      /\ UNCHANGED <<progress, model, page, wizard, dialog>>
  BY WindowHas DEF S!StorePreferences, S!Arrived, WindowOK
<1>2. /\ progress \in S!Progresses /\ prefs \in S!Preferences /\ model \in S!Choices
      /\ S!Writes <= MaxWrites + 1 /\ Finished(progress)
  BY DEF SetupIInv, SetupTypes
<1>3. CASE c.revision # prefs.revision
  <2>1. S!Answer(o, "conflict", prefs) /\ UNCHANGED prefs
    BY <1>3 DEF S!StorePreferences
  <2> QED  BY <1>1, <1>2, <2>1, AnswersOnly DEF S!Stores
<1>4. CASE c.revision = prefs.revision
  <2>1. S!Writes < MaxWrites /\ prefs' = r /\ S!Answer(o, "done", r)
    BY <1>4 DEF S!StorePreferences
  <2>2. /\ c.look \in Values /\ c.name \in Values /\ progress.revision \in Nat
        /\ prefs.revision \in Nat /\ model.revision \in Nat
    BY <1>1, <1>2 DEF Asks, S!Progresses, S!Preferences, S!Choices
  <2>3. r \in S!Preferences
    BY <2>2 DEF S!Preferences
  <2>4. Newer(progress, progress') /\ Newer(prefs, prefs') /\ CopyOf(r, prefs')
    BY <1>1, <2>1, <2>2 DEF Newer, CopyOf
  <2>5. S!Writes' <= MaxWrites + 1
    BY <1>1, <2>1, <2>2, SetupAssumption DEF S!Writes
  <2>6. prefs' \in S!Preferences /\ model' \in S!Choices /\ progress' \in S!Progresses /\ Finished(progress')
        /\ "prefs" \notin Mutations
    BY <1>1, <1>2, <2>1, <2>3 DEF Mutations
  <2> HIDE DEF c, r
  <2>7. UNCHANGED <<page, wizard, dialog>>
    BY <1>1
  <2> QED  BY <1>1, <2>1, <2>3, <2>4, <2>5, <2>6, <2>7, Answers DEF c
<1> QED  BY <1>3, <1>4

LEMMA StoreModelStays == ASSUME SetupIInv, NEW o \in Windows, S!StoreModel(o) PROVE SetupIInv'
<1> DEFINE c == call[o]
           r == [revision |-> model.revision + 1, choice |-> c.name]
<1>1. /\ c # None /\ c \in S!Calls /\ c.kind = "model" /\ c.at = "sent" /\ Asks(c)
      /\ UNCHANGED <<progress, prefs, page, wizard, dialog>>
  BY WindowHas DEF S!StoreModel, S!Arrived, WindowOK
<1>2. /\ progress \in S!Progresses /\ prefs \in S!Preferences /\ model \in S!Choices
      /\ S!Writes <= MaxWrites + 1 /\ Finished(progress)
  BY DEF SetupIInv, SetupTypes
<1>3. CASE c.revision # model.revision
  <2>1. S!Answer(o, "refused", None) /\ UNCHANGED model
    BY <1>3 DEF S!StoreModel
  <2> QED  BY <1>1, <1>2, <2>1, AnswersOnly DEF S!Stores
<1>4. CASE c.revision = model.revision
  <2>1. S!Writes < MaxWrites /\ model' = r /\ S!Answer(o, "done", r)
    BY <1>4 DEF S!StoreModel
  <2>2. /\ c.name \in Values /\ progress.revision \in Nat
        /\ prefs.revision \in Nat /\ model.revision \in Nat
    BY <1>1, <1>2 DEF Asks, S!Progresses, S!Preferences, S!Choices
  <2>3. r \in S!Choices
    BY <2>2 DEF S!Choices
  <2>4. Newer(progress, progress') /\ Newer(prefs, prefs')
    BY <1>1, <2>1, <2>2 DEF Newer, CopyOf
  <2>5. S!Writes' <= MaxWrites + 1
    BY <1>1, <2>1, <2>2, SetupAssumption DEF S!Writes
  <2>6. prefs' \in S!Preferences /\ model' \in S!Choices /\ progress' \in S!Progresses /\ Finished(progress')
        /\ "model" \notin Mutations
    BY <1>1, <1>2, <2>1, <2>3 DEF Mutations
  <2> HIDE DEF c, r
  <2>7. UNCHANGED <<page, wizard, dialog>>
    BY <1>1
  <2> QED  BY <1>1, <2>1, <2>3, <2>4, <2>5, <2>6, <2>7, Answers DEF c
<1> QED  BY <1>3, <1>4

LEMMA ManageModelStays == ASSUME SetupIInv, NEW a \in Values, S!ManageModel(a) PROVE SetupIInv'
<1>1. /\ S!Writes < MaxWrites /\ model' = [revision |-> model.revision + 1, choice |-> a]
      /\ UNCHANGED <<progress, prefs, page, wizard, dialog, call>>
  BY DEF S!ManageModel
<1>2. /\ progress \in S!Progresses /\ prefs \in S!Preferences /\ model \in S!Choices
  BY DEF SetupIInv, SetupTypes
<1>3. model' \in S!Choices /\ S!Writes' <= MaxWrites + 1
  BY <1>1, <1>2, SetupAssumption DEF S!Writes, S!Choices, S!Progresses, S!Preferences
<1> QED  BY <1>1, <1>3 DEF SetupIInv, SetupTypes

(* Replies.                                                                  *)
LEMMA RepliedHas ==
  ASSUME SetupIInv, NEW o \in Windows, NEW ts, NEW es, S!Replied(o, ts, es)
  PROVE  /\ call[o] # None /\ call[o] \in S!Calls /\ call[o].then \in ts /\ call[o].at \in es
         /\ Answered(call[o], progress, prefs) /\ Asks(call[o]) /\ Waits(call[o], wizard[o])
         /\ PageOK(page[o], progress, prefs) /\ page[o] \in S!Pages
         /\ call[o].then \in OfWizard => /\ wizard[o] \in S!Wizards /\ wizard[o] # None
                                         /\ WizardOK(wizard[o], progress, prefs) /\ dialog[o] = None
<1>1. call[o] # None /\ call[o] \in S!Calls /\ call[o].then \in ts /\ call[o].at \in es
  BY WindowHas DEF S!Replied
<1> QED  BY <1>1, WindowHas DEF WindowOK, Waits

(* The page takes over what was saved.                                       *)
LEMMA TakesProgress ==
  ASSUME NEW p \in S!Pages, NEW a \in S!Progresses, NEW p2, p2 = [p EXCEPT !.progress = a],
         PageOK(p, progress, prefs), Finished(a), CopyOf(a, progress)
  PROVE  /\ p2 \in S!Pages /\ PageOK(p2, progress, prefs)
         /\ \A d : DialogOK(d, p) => DialogOK(d, p2)
<1>1. /\ p2 \in S!Pages /\ p2.progress = a /\ p2.prefs = p.prefs /\ p2.revision = p.revision
      /\ p2.name = p.name /\ p2.refused = p.refused
  BY DEF S!Pages
<1>2. PageOK(p2, progress, prefs)
  BY <1>1 DEF PageOK
<1>3. \A d : DialogOK(d, p) => DialogOK(d, p2)
  BY <1>1 DEF DialogOK
<1> QED  BY <1>1, <1>2, <1>3

LEMMA TakesPreferences ==
  ASSUME NEW p \in S!Pages, NEW a \in S!Preferences, NEW p2,
         p2 = [p EXCEPT !.prefs = a, !.name = a.name, !.refused = FALSE, !.revision = a.revision],
         PageOK(p, progress, prefs), CopyOf(a, prefs)
  PROVE  p2 \in S!Pages /\ PageOK(p2, progress, prefs)
<1>1. a.name \in Values /\ a.revision \in Nat
  BY DEF S!Preferences
<1>2. /\ p2 \in S!Pages /\ p2.progress = p.progress /\ p2.prefs = a /\ p2.revision = a.revision
      /\ p2.name = a.name /\ p2.refused = FALSE
  BY <1>1 DEF S!Pages
<1>3. PageOK(p2, progress, prefs)
  BY <1>2 DEF PageOK, CopyOf
<1> QED  BY <1>2, <1>3

(* A reply to the setup dialog leaves it at z.                               *)
LEMMA WizardReply ==
  ASSUME SetupIInv, NEW o \in Windows, NEW ts \in SUBSET OfWizard, NEW es, S!Replied(o, ts, es),
         NEW p \in S!Pages, PageOK(p, progress, prefs), NEW z \in S!Wizards \cup {None},
         z # None => WizardOK(z, progress, prefs),
         page' = [page EXCEPT ![o] = p], wizard' = [wizard EXCEPT ![o] = z], S!Sent(o, None),
         UNCHANGED <<S!Stores, dialog>>
  PROVE  SetupIInv'
<1>1. dialog[o] = None
  BY RepliedHas
<1>2. WindowOK(p, z, None, None, progress, prefs)
  BY DEF WindowOK
<1>3. dialog' = [dialog EXCEPT ![o] = None] /\ call' = [call EXCEPT ![o] = None] /\ UNCHANGED S!Stores
  BY <1>1, WindowHas DEF S!Sent
<1> QED  BY <1>2, <1>3, Shows

LEMMA ProgressedStays == ASSUME SetupIInv, NEW o \in Windows, S!Progressed(o) PROVE SetupIInv'
<1> DEFINE c == call[o]
           a == call[o].answer
<1>1. S!Replied(o, {"stay", "turn", "close"}, {"done"})
  BY DEF S!Progressed
<1>2. /\ c \in S!Calls /\ c.then \in {"stay", "turn", "close"} /\ c.at = "done"
      /\ Answered(c, progress, prefs) /\ Asks(c) /\ Waits(c, wizard[o])
      /\ PageOK(page[o], progress, prefs) /\ page[o] \in S!Pages
      /\ wizard[o] \in S!Wizards /\ WizardOK(wizard[o], progress, prefs)
  BY <1>1, RepliedHas DEF OfWizard
<1>3. a \in S!Progresses /\ Finished(a) /\ CopyOf(a, progress) /\ a.step = c.step /\ c.step \in S!Steps
  BY <1>2 DEF Asks, Answered, S!Calls
<1>4. PICK p : p = [page[o] EXCEPT !.progress = a] /\ page' = [page EXCEPT ![o] = p]
  BY DEF S!Progressed, S!Shown
<1>5. p \in S!Pages /\ PageOK(p, progress, prefs)
  BY <1>2, <1>3, <1>4, TakesProgress
<1>6. S!Sent(o, None) /\ UNCHANGED <<S!Stores, dialog>>
  BY DEF S!Progressed
<1>7. CASE c.then = "close"
  <2>1. wizard' = [wizard EXCEPT ![o] = None]
    BY <1>7 DEF S!Progressed, S!Close
  <2> QED  BY <1>1, <1>4, <1>5, <1>6, <2>1, WizardReply DEF OfWizard
<1>8. CASE c.then # "close"
  <2>0. wizard' = [wizard EXCEPT ![o].progress = call[o].answer, ![o].canLeave = FALSE,
                          ![o].step = IF call[o].then = "turn" THEN call[o].step ELSE @,
                          ![o].startFailed = @ /\ call[o].kind # "start"]
    BY <1>8 DEF S!Progressed
  <2>1. PICK z : /\ z = [wizard[o] EXCEPT !.progress = a, !.canLeave = FALSE,
                          !.step = IF c.then = "turn" THEN c.step ELSE wizard[o].step,
                          !.startFailed = wizard[o].startFailed /\ c.kind # "start"]
                 /\ wizard' = [wizard EXCEPT ![o] = z]
    BY <2>0
  <2>2. z.progress = a /\ z.prefs = wizard[o].prefs /\ z.step = IF c.then = "turn" THEN c.step ELSE wizard[o].step
    BY <1>2, <2>1 DEF S!Wizards
  <2>3. z.step = c.step
    BY <1>2, <1>8, <2>2 DEF Waits
  <2>4. wizard[o].startFailed \in BOOLEAN
    BY <1>2 DEF S!Wizards
  <2>5. (wizard[o].startFailed /\ c.kind # "start") \in BOOLEAN
    OBVIOUS
  <2>6. z \in S!Wizards
    BY <1>2, <1>3, <2>1, <2>5 DEF S!Wizards
  <2>7. WizardOK(z, progress, prefs)
    BY <1>2, <1>3, <2>2, <2>3 DEF WizardOK
  <2> QED  BY <1>1, <1>4, <1>5, <1>6, <2>1, <2>6, <2>7, WizardReply DEF OfWizard
<1> QED  BY <1>7, <1>8

LEMMA RefreshedStays == ASSUME SetupIInv, NEW o \in Windows, S!Refreshed(o) PROVE SetupIInv'
<1> DEFINE c == call[o]
           a == call[o].answer
<1>1. S!Replied(o, {"stay", "turn", "close"}, {"conflict"})
  BY DEF S!Refreshed
<1>2. /\ c \in S!Calls /\ c.then \in {"stay", "turn", "close"} /\ c.at = "conflict"
      /\ Answered(c, progress, prefs) /\ Asks(c)
      /\ PageOK(page[o], progress, prefs) /\ page[o] \in S!Pages
      /\ wizard[o] \in S!Wizards /\ WizardOK(wizard[o], progress, prefs)
  BY <1>1, RepliedHas DEF OfWizard
<1>3. a \in S!Progresses /\ Finished(a) /\ CopyOf(a, progress) /\ a.step \in S!Steps
  BY <1>2 DEF Asks, Answered, S!Progresses
<1>4. PICK p : p = [page[o] EXCEPT !.progress = a] /\ page' = [page EXCEPT ![o] = p]
  BY DEF S!Refreshed, S!Shown
<1>5. p \in S!Pages /\ PageOK(p, progress, prefs)
  BY <1>2, <1>3, <1>4, TakesProgress
<1>6. S!Sent(o, None) /\ UNCHANGED <<S!Stores, dialog>>
  BY DEF S!Refreshed
<1>7. PICK z : /\ z = [wizard[o] EXCEPT !.progress = a, !.step = a.step,
                         !.startFailed = a.status \in S!Waiting, !.canLeave = c.then = "close"]
               /\ wizard' = [wizard EXCEPT ![o] = z]
  BY DEF S!Refreshed
<1>8. z.progress = a /\ z.prefs = wizard[o].prefs /\ z.step = a.step
  BY <1>2, <1>7 DEF S!Wizards
<1>9. (a.status \in S!Waiting) \in BOOLEAN /\ (c.then = "close") \in BOOLEAN
  OBVIOUS
<1>10. z \in S!Wizards
  BY <1>2, <1>3, <1>7, <1>9 DEF S!Wizards
<1>11. WizardOK(z, progress, prefs)
  BY <1>2, <1>3, <1>8 DEF WizardOK
<1> QED  BY <1>1, <1>4, <1>5, <1>6, <1>7, <1>10, <1>11, WizardReply DEF OfWizard

LEMMA NotSavedStays == ASSUME SetupIInv, NEW o \in Windows, S!NotSaved(o) PROVE SetupIInv'
<1> DEFINE c == call[o]
<1>1. S!Replied(o, OfWizard, {"refused", "conflict"})
  BY DEF S!NotSaved, S!Replied, OfWizard
<1>2. /\ PageOK(page[o], progress, prefs) /\ page[o] \in S!Pages
      /\ wizard[o] \in S!Wizards /\ WizardOK(wizard[o], progress, prefs)
  BY <1>1, RepliedHas
<1>3. PICK z : /\ z = [wizard[o] EXCEPT !.startFailed = @ \/ c.kind = "start",
                         !.canLeave = @ \/ c.kind \in {"start", "dismiss"}]
               /\ wizard' = [wizard EXCEPT ![o] = z]
  BY DEF S!NotSaved
<1>4. z.progress = wizard[o].progress /\ z.prefs = wizard[o].prefs /\ z.step = wizard[o].step
  BY <1>2, <1>3 DEF S!Wizards
<1>5. (wizard[o].startFailed \/ c.kind = "start") \in BOOLEAN
      /\ (wizard[o].canLeave \/ c.kind \in {"start", "dismiss"}) \in BOOLEAN
  OBVIOUS
<1>6. z \in S!Wizards
  BY <1>2, <1>3, <1>5 DEF S!Wizards
<1>7. WizardOK(z, progress, prefs)
  BY <1>2, <1>4 DEF WizardOK
<1>8. page' = [page EXCEPT ![o] = page[o]] /\ S!Sent(o, None) /\ UNCHANGED <<S!Stores, dialog>>
  BY WindowHas DEF S!NotSaved
<1> QED  BY <1>1, <1>2, <1>3, <1>6, <1>7, <1>8, WizardReply

LEMMA SavedThenAdvanceStays == ASSUME SetupIInv, NEW o \in Windows, S!SavedThenAdvance(o) PROVE SetupIInv'
<1> DEFINE c == call[o]
           a == call[o].answer
<1>1. S!Replied(o, {"advance"}, {"done"})
  BY DEF S!SavedThenAdvance
<1>2. /\ c \in S!Calls /\ c.then = "advance" /\ c.at = "done"
      /\ Answered(c, progress, prefs) /\ Asks(c)
      /\ PageOK(page[o], progress, prefs) /\ page[o] \in S!Pages
      /\ wizard[o] \in S!Wizards /\ WizardOK(wizard[o], progress, prefs) /\ dialog[o] = None
  BY <1>1, RepliedHas DEF OfWizard
<1>3. c.kind \in {"prefs", "model"} /\ c.step \in S!Steps /\ wizard[o].progress.revision \in Nat
  BY <1>2 DEF Asks, S!Calls, S!Wizards, S!Progresses
<1> DEFINE m == S!Mutation(wizard[o], "advance", c.step, "turn")
<1>4. m \in S!Calls /\ m.at = "sent" /\ m.then = "turn" /\ Asks(m)
      /\ \A p : Untouched(m, p, prefs)
  BY <1>3, MutationOK DEF Mutations
<1>5. call' = [call EXCEPT ![o] = m] /\ dialog' = [dialog EXCEPT ![o] = None] /\ UNCHANGED S!Stores
  BY <1>2, WindowHas DEF S!SavedThenAdvance, S!Sent
<1> HIDE DEF m
<1>6. ASSUME NEW p \in S!Pages, PageOK(p, progress, prefs), NEW z \in S!Wizards, WizardOK(z, progress, prefs),
             page' = [page EXCEPT ![o] = p], wizard' = [wizard EXCEPT ![o] = z]
      PROVE  SetupIInv'
  <2>1. Waits(m, z) /\ Answered(m, progress, prefs)
    BY <1>4, SetupAssumption DEF Waits, Answered
  <2>2. WindowOK(p, z, None, m, progress, prefs)
    BY <1>4, <1>6, <2>1 DEF WindowOK
  <2> QED  BY ONLY SetupIInv, o \in Windows, <1>4, <1>5, <1>6, <2>2, Shows
<1>7. CASE c.kind = "prefs"
  <2>1. a \in S!Preferences /\ CopyOf(a, prefs)
    BY <1>2, <1>7 DEF Answered
  <2>2. PICK z : z = [wizard[o] EXCEPT !.prefs = a] /\ wizard' = [wizard EXCEPT ![o] = z]
    BY <1>7 DEF S!SavedThenAdvance
  <2>0. page' = [page EXCEPT ![o].prefs = call[o].answer, ![o].name = call[o].answer.name,
                             ![o].refused = FALSE, ![o].revision = call[o].answer.revision]
    BY <1>7 DEF S!SavedThenAdvance
  <2>3. PICK p : /\ p = [page[o] EXCEPT !.prefs = a, !.name = a.name, !.refused = FALSE,
                                         !.revision = a.revision]
                 /\ page' = [page EXCEPT ![o] = p]
    BY <2>0
  <2>4. z \in S!Wizards /\ z.progress = wizard[o].progress /\ z.prefs = a /\ z.step = wizard[o].step
    BY <1>2, <2>1, <2>2 DEF S!Wizards
  <2>5. WizardOK(z, progress, prefs)
    BY <1>2, <2>1, <2>4 DEF WizardOK
  <2>6. p \in S!Pages /\ PageOK(p, progress, prefs)
    BY <1>2, <2>1, <2>3, TakesPreferences
  <2> QED  BY <1>6, <2>2, <2>3, <2>4, <2>5, <2>6
<1>8. CASE c.kind = "model"
  <2>1. a \in S!Choices
    BY <1>2, <1>8 DEF Answered
  <2>2. PICK z : z = [wizard[o] EXCEPT !.models = a] /\ wizard' = [wizard EXCEPT ![o] = z]
    BY <1>8 DEF S!SavedThenAdvance
  <2>3. page' = [page EXCEPT ![o] = page[o]]
    BY <1>8, WindowHas DEF S!SavedThenAdvance
  <2>4. z \in S!Wizards /\ z.progress = wizard[o].progress /\ z.prefs = wizard[o].prefs /\ z.step = wizard[o].step
    BY <1>2, <2>1, <2>2 DEF S!Wizards
  <2>5. WizardOK(z, progress, prefs)
    BY <1>2, <2>4 DEF WizardOK
  <2> QED  BY <1>2, <1>6, <2>2, <2>3, <2>4, <2>5
<1> QED  BY <1>3, <1>7, <1>8

LEMMA InvitationDismissedStays ==
  ASSUME SetupIInv, NEW o \in Windows, S!InvitationDismissed(o) PROVE SetupIInv'
<1> DEFINE c == call[o]
<1>1. S!Replied(o, {"page"}, {"done", "conflict", "refused"})
  BY DEF S!InvitationDismissed
<1>2. /\ c.then = "page" /\ Answered(c, progress, prefs) /\ Asks(c)
      /\ PageOK(page[o], progress, prefs) /\ page[o] \in S!Pages
  BY <1>1, RepliedHas
<1>3. PICK p \in S!Pages : /\ page' = [page EXCEPT ![o] = p] /\ PageOK(p, progress, prefs)
                           /\ \A d : DialogOK(d, page[o]) => DialogOK(d, p)
  <2>1. CASE c.at = "done"
    <3>1. PICK p : p = [page[o] EXCEPT !.progress = c.answer] /\ page' = [page EXCEPT ![o] = p]
      BY <2>1 DEF S!InvitationDismissed, S!Shown
    <3>2. c.answer \in S!Progresses /\ Finished(c.answer) /\ CopyOf(c.answer, progress)
      BY <1>2, <2>1 DEF Asks, Answered
    <3>3. /\ p \in S!Pages /\ PageOK(p, progress, prefs)
          /\ \A d : DialogOK(d, page[o]) => DialogOK(d, p)
      BY <1>2, <3>1, <3>2, TakesProgress
    <3> QED  BY <3>1, <3>3
  <2>2. CASE c.at # "done"
    BY <1>2, <2>2, WindowHas DEF S!InvitationDismissed
  <2> QED  BY <2>1, <2>2
<1>4. WindowOK(p, wizard[o], dialog[o], None, progress, prefs)
  BY <1>3, WindowHas DEF WindowOK
<1>5. /\ wizard' = [wizard EXCEPT ![o] = wizard[o]] /\ dialog' = [dialog EXCEPT ![o] = dialog[o]]
      /\ call' = [call EXCEPT ![o] = None] /\ UNCHANGED S!Stores
      /\ wizard[o] \in S!Wizards \cup {None} /\ dialog[o] \in S!Dialogs \cup {None}
  BY WindowHas DEF S!InvitationDismissed, S!Sent
<1> QED  BY ONLY SetupIInv, o \in Windows, <1>3, <1>4, <1>5, Shows

LEMMA PreferencesSavedStays == ASSUME SetupIInv, NEW o \in Windows, S!PreferencesSaved(o) PROVE SetupIInv'
<1> DEFINE c == call[o]
           a == call[o].answer
<1>1. S!Replied(o, {"dialog"}, {"done"})
  BY DEF S!PreferencesSaved
<1>2. /\ c.then = "dialog" /\ c.at = "done" /\ Answered(c, progress, prefs) /\ Asks(c)
      /\ PageOK(page[o], progress, prefs) /\ page[o] \in S!Pages
  BY <1>1, RepliedHas
<1>3. a \in S!Preferences /\ CopyOf(a, prefs)
  BY <1>2 DEF Asks, Answered
<1>4. PICK p : /\ p = [page[o] EXCEPT !.prefs = a, !.name = a.name, !.refused = FALSE,
                                         !.revision = a.revision]
               /\ page' = [page EXCEPT ![o] = p]
  BY DEF S!PreferencesSaved
<1>5. p \in S!Pages /\ PageOK(p, progress, prefs)
  BY <1>2, <1>3, <1>4, TakesPreferences
<1>6. WindowOK(p, wizard[o], None, None, progress, prefs)
  BY <1>5, WindowHas DEF WindowOK
<1>7. /\ wizard' = [wizard EXCEPT ![o] = wizard[o]] /\ dialog' = [dialog EXCEPT ![o] = None]
      /\ call' = [call EXCEPT ![o] = None] /\ UNCHANGED S!Stores /\ wizard[o] \in S!Wizards \cup {None}
  BY WindowHas DEF S!PreferencesSaved, S!Sent
<1> QED  BY ONLY SetupIInv, o \in Windows, <1>4, <1>5, <1>6, <1>7, Shows

LEMMA PreferencesRefusedStays == ASSUME SetupIInv, NEW o \in Windows, S!PreferencesRefused(o) PROVE SetupIInv'
<1> DEFINE c == call[o]
           a == call[o].answer
<1>1. S!Replied(o, {"dialog"}, {"conflict", "refused"})
  BY DEF S!PreferencesRefused
<1>2. /\ c.then = "dialog" /\ Answered(c, progress, prefs) /\ Asks(c)
      /\ PageOK(page[o], progress, prefs) /\ page[o] \in S!Pages
  BY <1>1, RepliedHas
<1>3. PICK p \in S!Pages : /\ page' = [page EXCEPT ![o] = p] /\ PageOK(p, progress, prefs)
                           /\ \A d : DialogOK(d, page[o]) => DialogOK(d, p)
  <2>1. CASE c.at = "conflict"
    <3>1. PICK p : /\ p = [page[o] EXCEPT !.name = a.name, !.refused = TRUE, !.revision = a.revision]
                   /\ page' = [page EXCEPT ![o] = p]
      BY <2>1 DEF S!PreferencesRefused
    <3>2. a \in S!Preferences /\ CopyOf(a, prefs)
      BY <1>2, <2>1 DEF Asks, Answered
    <3>3. a.name \in Values /\ a.revision \in Nat
      BY <3>2 DEF S!Preferences
    <3>4. /\ p \in S!Pages /\ p.progress = page[o].progress /\ p.prefs = page[o].prefs
          /\ p.revision = a.revision /\ p.refused
      BY <1>2, <3>1, <3>3 DEF S!Pages
    <3>5. PageOK(p, progress, prefs)
      BY <1>2, <3>2, <3>4 DEF PageOK, CopyOf
    <3>6. \A d : DialogOK(d, p)
      BY <3>4 DEF DialogOK
    <3> QED  BY <3>1, <3>4, <3>5, <3>6
  <2>2. CASE c.at # "conflict"
    BY <1>2, <2>2, WindowHas DEF S!PreferencesRefused
  <2> QED  BY <2>1, <2>2
<1>4. WindowOK(p, wizard[o], dialog[o], None, progress, prefs)
  BY <1>3, WindowHas DEF WindowOK
<1>5. /\ wizard' = [wizard EXCEPT ![o] = wizard[o]] /\ dialog' = [dialog EXCEPT ![o] = dialog[o]]
      /\ call' = [call EXCEPT ![o] = None] /\ UNCHANGED S!Stores
      /\ wizard[o] \in S!Wizards \cup {None} /\ dialog[o] \in S!Dialogs \cup {None}
  BY WindowHas DEF S!PreferencesRefused, S!Sent
<1> QED  BY ONLY SetupIInv, o \in Windows, <1>3, <1>4, <1>5, Shows

LEMMA SetupStays == SetupIInv /\ S!SetupNext => SetupIInv'
<1> SUFFICES ASSUME SetupIInv, S!SetupNext PROVE SetupIInv'
  OBVIOUS
<1>1. CASE \E a \in Values : S!ManageModel(a)
  BY <1>1, ManageModelStays
<1>2. ASSUME NEW o \in Windows,
             \/ S!Reload(o) \/ S!OpenWizard(o) \/ S!RetryStart(o) \/ S!Discover(o)
             \/ S!Dismiss(o) \/ S!CloseWithoutSaving(o) \/ S!FinishSetup(o) \/ S!DismissInvitation(o)
             \/ S!OpenDialog(o) \/ S!CloseDialog(o) \/ \E to \in S!Steps : S!Advance(o, to)
      PROVE  SetupIInv'
  BY <1>2, PageReloads, OpenWizardStays, WizardStays, DiscoverStays, InvitationStays, OpenDialogStays,
     CloseDialogStays
<1>3. ASSUME NEW o \in Windows,
             \/ S!MakeReceipt(o) \/ S!Move(o) \/ S!StorePreferences(o) \/ S!StoreModel(o) \/ S!Lose(o)
      PROVE  SetupIInv'
  BY <1>3, MakeReceiptStays, MoveStays, StorePreferencesStays, StoreModelStays, LoseStays
<1>4. ASSUME NEW o \in Windows,
             \/ S!Progressed(o) \/ S!Refreshed(o) \/ S!NotSaved(o) \/ S!SavedThenAdvance(o)
             \/ S!InvitationDismissed(o) \/ S!PreferencesSaved(o) \/ S!PreferencesRefused(o)
      PROVE  SetupIInv'
  BY <1>4, ProgressedStays, RefreshedStays, NotSavedStays, SavedThenAdvanceStays, InvitationDismissedStays,
     PreferencesSavedStays, PreferencesRefusedStays
<1>5. ASSUME NEW o \in Windows, NEW a \in Values, NEW h \in {"look", "name"},
             S!UseModel(o, a) \/ S!SavePreferences(o, h, a) \/ S!SaveAndContinue(o, h, a)
      PROVE  SetupIInv'
  BY <1>5, UseModelStays, SavePreferencesStays, SaveAndContinueStays
<1> QED  BY <1>1, <1>2, <1>3, <1>4, <1>5 DEF S!SetupNext

LEMMA SetupStutters == SetupIInv /\ UNCHANGED setupState => SetupIInv'
<1> SUFFICES ASSUME SetupIInv, UNCHANGED setupState PROVE SetupIInv'
  OBVIOUS
<1>1. UNCHANGED <<progress, prefs, model, page, wizard, dialog, call>>
  BY DEF setupState
<1>2. SetupTypes' /\ S!Writes' = S!Writes
  BY <1>1 DEF SetupIInv, SetupTypes, S!Writes
<1> QED  BY <1>1, <1>2 DEF SetupIInv

LEMMA NothingUndone == SetupIInv => S!UndoesOnlyRefused
<1> SUFFICES ASSUME SetupIInv, NEW o \in Windows, S!Undoes(o)
             PROVE  page[o].refused /\ call[o].then = "dialog"
  BY DEF S!UndoesOnlyRefused
<1> DEFINE c == call[o]
<1>1. c.kind = "prefs" /\ Untouched(c, page[o], prefs)
  BY WindowHas DEF S!Undoes, S!StorePreferences, S!Arrived, WindowOK
<1>2. c.revision = prefs.revision /\ prefs' = [revision |-> prefs.revision + 1, look |-> c.look, name |-> c.name]
  BY DEF S!Undoes, S!StorePreferences
<1>3. PICK k \in {"look", "name"} \ c.touched : prefs'[k] # prefs[k]
  BY DEF S!Undoes
<1>4. ~(/\ "look" \notin c.touched => c.look = prefs.look
        /\ "name" \notin c.touched => c.name = prefs.name)
  <2>1. CASE k = "look"
    BY <1>2, <1>3, <2>1
  <2>2. CASE k = "name"
    BY <1>2, <1>3, <2>2
  <2> QED  BY <1>3, <2>1, <2>2
<1> QED  BY <1>1, <1>2, <1>4 DEF Untouched

------------------------------------------------------------
(* The ratings of answers (Feedback).                                        *)

(* A read that will be applied, unless a later one is first; and a read that *)
(* shows the row of turn t, or will.                                         *)
Counts(q) == q.generation = ui.generation /\ q.request >= ui.latest
Brings(q, t) == q.at = "sent" \/ q.rows[t] # NoRow

ReadsInOrder ==
  \A q \in reads :
     /\ q.generation <= ui.generation /\ q.startedAt <= ui.operation /\ q.request <= ui.requests
     /\ \A q2 \in reads : q2.request = q.request => q2 = q

(* A turn without its row is unknown to everybody; what was rated has its    *)
(* row, and a read that began after the rating finds it.                     *)
RowsFirst ==
  \A t \in Turns :
     /\ stored[t] = NoRow => /\ ui.shown[t] = NoRow /\ saving[t] = None /\ opening.rows[t] = NoRow
                             /\ ui.revision[t] = 0 /\ \A q \in reads : q.rows[t] = NoRow
     /\ ui.revision[t] > 0 =>
          /\ ui.shown[t] # NoRow
          /\ \A q \in reads : q.generation = ui.generation /\ ui.revision[t] <= q.startedAt => Brings(q, t)

(* A rating under way knows what is stored, before it and after; and what is *)
(* shown, or will be of a read that counts, is stored.                       *)
KnowsStored(t) ==
  /\ saving[t] # None => /\ saving[t].generation = ui.generation /\ ui.revision[t] > 0
                         /\ saving[t].at = "sent" => saving[t].previous = stored[t]
                         /\ saving[t].at = "set" => saving[t].next = stored[t]
  /\ saving[t] = None => /\ ui.shown[t] # NoRow => ui.shown[t] = stored[t]
                         /\ \A q \in reads : Counts(q) /\ q.rows[t] # NoRow /\ ui.revision[t] <= q.startedAt
                              => q.rows[t] = stored[t]

(* A turn that has its row and is not shown has a read on its way, also past *)
(* any that will hide it.                                                    *)
Arrives(t) ==
  stored[t] # NoRow =>
    /\ ui.shown[t] = NoRow => \E q \in reads : Counts(q) /\ Brings(q, t)
    /\ \A q \in reads : Counts(q) /\ ~Brings(q, t) =>
         \E q2 \in reads : Counts(q2) /\ Brings(q2, t) /\ q2.request > q.request

FeedbackIInv ==
  /\ F!FeedbackTypeOK /\ ReadsInOrder /\ RowsFirst
  /\ \A t \in Turns \ excused : KnowsStored(t) /\ Arrives(t)

LEMMA FeedbackImplies == FeedbackIInv => F!FeedbackInv
<1> SUFFICES ASSUME FeedbackIInv PROVE F!FeedbackInv
  OBVIOUS
<1>1. F!ShownHasRow
  BY DEF FeedbackIInv, RowsFirst, F!ShownHasRow
<1>2. F!SettledShowsStored
  BY DEF FeedbackIInv, F!SettledShowsStored, KnowsStored, Arrives
<1> QED  BY <1>1, <1>2 DEF FeedbackIInv, F!FeedbackInv

LEMMA FeedbackInitial == F!FeedbackInit => FeedbackIInv
<1> SUFFICES ASSUME F!FeedbackInit PROVE FeedbackIInv
  OBVIOUS
<1>1. /\ stored = [t \in Turns |-> NoRow] /\ reads = {} /\ excused = {}
      /\ ui = [shown |-> [t \in Turns |-> NoRow], generation |-> 1, operation |-> 1,
               revision |-> [t \in Turns |-> 0], requests |-> 1, latest |-> 1]
      /\ saving = [t \in Turns |-> None] /\ opening = [at |-> "none", rows |-> [t \in Turns |-> NoRow]]
  BY DEF F!FeedbackInit, F!NoRows, F!Closed
<1>2. [t \in Turns |-> NoRow] \in F!Rows
  BY DEF F!Rows
<1>3. F!FeedbackTypeOK
  <2> HIDE DEF F!Rows
  <2>1. ui \in [shown : F!Rows, generation : Nat, operation : Nat, revision : [Turns -> Nat],
                requests : Nat, latest : Nat]
    BY <1>1, <1>2
  <2>2. opening \in [at : {"none", "sent", "read"}, rows : F!Rows]
    BY <1>1, <1>2
  <2>3. saving \in [Turns -> F!Savings \cup {None}]
    BY <1>1
  <2>4. \A t \in Turns : ui.revision[t] <= ui.operation
    BY <1>1
  <2> QED  BY <1>1, <1>2, <2>1, <2>2, <2>3, <2>4 DEF F!FeedbackTypeOK
<1>4. ReadsInOrder /\ RowsFirst
  BY <1>1 DEF ReadsInOrder, RowsFirst
<1>5. ASSUME NEW t \in Turns PROVE KnowsStored(t) /\ Arrives(t)
  BY <1>1 DEF KnowsStored, Arrives
<1> QED  BY <1>3, <1>4, <1>5 DEF FeedbackIInv

LEMMA FeedbackHas ==
  ASSUME F!FeedbackTypeOK
  PROVE  /\ ui.generation \in Nat /\ ui.operation \in Nat /\ ui.requests \in Nat /\ ui.latest \in Nat
         /\ ui.shown \in F!Rows /\ ui.revision \in [Turns -> Nat] /\ stored \in F!Rows
         /\ ui.latest <= ui.requests /\ \A t \in Turns : ui.revision[t] <= ui.operation
         /\ \A t \in Turns : ui.revision[t] \in Nat
         /\ \A q \in reads : /\ q \in F!Reads /\ q.generation \in Nat /\ q.request \in Nat /\ q.startedAt \in Nat
                             /\ q.at \in {"sent", "read"} /\ q.rows \in F!Rows
         /\ \A t \in Turns : saving[t] \in F!Savings \cup {None}
         /\ \A t \in Turns : saving[t] # None => /\ saving[t] \in F!Savings /\ saving[t].previous \in F!Shown
                                                 /\ saving[t].next \in F!Shown /\ saving[t].generation \in Nat
                                                 /\ saving[t].at \in {"sent", "set"}
<1>1. /\ ui.generation \in Nat /\ ui.operation \in Nat /\ ui.requests \in Nat /\ ui.latest \in Nat
      /\ ui.shown \in F!Rows /\ ui.revision \in [Turns -> Nat] /\ stored \in F!Rows
      /\ ui.latest <= ui.requests /\ \A t \in Turns : ui.revision[t] <= ui.operation
  BY DEF F!FeedbackTypeOK
<1>2. \A q \in reads : /\ q \in F!Reads /\ q.generation \in Nat /\ q.request \in Nat /\ q.startedAt \in Nat
                       /\ q.at \in {"sent", "read"} /\ q.rows \in F!Rows
  BY DEF F!FeedbackTypeOK, F!Reads
<1>3. \A t \in Turns : saving[t] \in F!Savings \cup {None}
  BY DEF F!FeedbackTypeOK
<1>4. \A z \in F!Savings : /\ z.previous \in F!Shown /\ z.next \in F!Shown /\ z.generation \in Nat
                           /\ z.at \in {"sent", "set"}
  BY DEF F!Savings
<1> QED  BY <1>1, <1>2, <1>3, <1>4

(* A read begins, perhaps of a turn c that was completed in the same step.   *)
LEMMA Reading ==
  ASSUME FeedbackIInv, reads' = reads \cup {F!NewRead}, ui' = [ui EXCEPT !.requests = @ + 1],
         UNCHANGED <<saving, opening, excused>>,
         \/ stored' = stored
         \/ \E t \in Turns : stored[t] = NoRow /\ stored' = [stored EXCEPT ![t] = Unrated]
  PROVE  FeedbackIInv'
<1> USE FeedbackHas DEF FeedbackIInv
<1> PICK n : n = F!NewRead
  OBVIOUS
<1>1. /\ reads' = reads \cup {n}
      /\ n = [generation |-> ui.generation, request |-> ui.requests + 1, startedAt |-> ui.operation,
              at |-> "sent", rows |-> F!NoRows]
  BY DEF F!NewRead
<1>2. /\ ui'.generation = ui.generation /\ ui'.operation = ui.operation /\ ui'.requests = ui.requests + 1
      /\ ui'.latest = ui.latest /\ ui'.shown = ui.shown /\ ui'.revision = ui.revision
      /\ ui' \in [shown : F!Rows, generation : Nat, operation : Nat, revision : [Turns -> Nat],
                  requests : Nat, latest : Nat]
  <2> HIDE DEF F!Rows
  <2> QED  BY DEF F!FeedbackTypeOK
<1>3. n \in F!Reads
  <2>1. F!NoRows \in F!Rows
    BY DEF F!NoRows, F!Rows
  <2> QED  BY <1>1, <2>1 DEF F!Reads
<1>4. stored' \in F!Rows
  BY DEF F!Rows, F!Shown
<1>5. F!FeedbackTypeOK'
  BY <1>1, <1>2, <1>3, <1>4 DEF F!FeedbackTypeOK
<1>6. ReadsInOrder'
  BY <1>1, <1>2 DEF ReadsInOrder
<1>7. \A t \in Turns : /\ stored'[t] = NoRow => stored[t] = NoRow
                       /\ stored[t] # NoRow => stored'[t] = stored[t]
  BY DEF F!Rows
<1>8. \A t \in Turns : n.rows[t] = NoRow /\ n.at = "sent"
  BY <1>1 DEF F!NoRows
<1>9. RowsFirst'
  BY <1>1, <1>2, <1>7, <1>8 DEF RowsFirst, Brings
<1>10. Counts(n)' /\ \A q \in reads : Counts(q)' <=> Counts(q)
  BY <1>1, <1>2 DEF Counts
<1>11. ASSUME NEW t \in Turns \ excused' PROVE KnowsStored(t)'
  <2>1. CASE stored[t] = NoRow
    BY <1>1, <1>2, <1>8, <2>1 DEF RowsFirst, KnowsStored
  <2>2. CASE stored[t] # NoRow
    BY <1>1, <1>2, <1>7, <1>8, <1>10, <2>2 DEF KnowsStored
  <2> QED  BY <2>1, <2>2
<1>12. ASSUME NEW t \in Turns \ excused' PROVE Arrives(t)'
  <2>1. \A q \in reads : n.request > q.request
    BY <1>1, <1>2 DEF ReadsInOrder
  <2>2. Brings(n, t) /\ n \in reads'
    BY <1>1, <1>8 DEF Brings
  <2>3. ASSUME NEW q \in reads', ~Brings(q, t) PROVE q \in reads
    BY <1>1, <2>2, <2>3
  <2>4. \A q \in reads' : Counts(q)' <=> Counts(q)
    BY <1>2 DEF Counts
  <2>5. \A q \in reads' : Brings(q, t)' <=> Brings(q, t)
    BY DEF Brings
  <2>6. Counts(n)' /\ Brings(n, t)'
    BY <1>10, <2>2, <2>5
  <2>7. ASSUME stored'[t] # NoRow, ui'.shown[t] = NoRow
        PROVE  \E q \in reads' : Counts(q)' /\ Brings(q, t)'
    BY <2>2, <2>6
  <2>8. ASSUME NEW q \in reads', Counts(q)', ~Brings(q, t)'
        PROVE  \E o \in reads' : Counts(o)' /\ Brings(o, t)' /\ o.request > q.request
    BY <2>1, <2>2, <2>3, <2>5, <2>6, <2>8
  <2> QED  BY <2>7, <2>8 DEF Arrives
<1> QED  BY <1>5, <1>6, <1>9, <1>11, <1>12

(* What the page shows of turn t is set to r, in the generation it is for.   *)
LEMMA UpdateIs ==
  ASSUME F!FeedbackTypeOK, NEW t \in Turns, NEW r \in F!Shown, F!Update(ui.generation, t, r)
  PROVE  /\ ui'.generation = ui.generation /\ ui'.operation = ui.operation + 1 /\ ui'.requests = ui.requests
         /\ ui'.latest = ui.latest /\ ui'.shown = [ui.shown EXCEPT ![t] = r]
         /\ ui'.revision = [ui.revision EXCEPT ![t] = ui.operation + 1]
         /\ ui' \in [shown : F!Rows, generation : Nat, operation : Nat, revision : [Turns -> Nat],
                     requests : Nat, latest : Nat]
         /\ \A q \in Turns : ui'.revision[q] <= ui'.operation
<1>1. ui' = [ui EXCEPT !.operation = @ + 1, !.revision[t] = ui.operation + 1, !.shown[t] = r]
  BY DEF F!Update
<1>2. ui \in [shown : F!Rows, generation : Nat, operation : Nat, revision : [Turns -> Nat],
              requests : Nat, latest : Nat]
  BY DEF F!FeedbackTypeOK
<1>3. [ui.shown EXCEPT ![t] = r] \in F!Rows /\ [ui.revision EXCEPT ![t] = ui.operation + 1] \in [Turns -> Nat]
  BY <1>2, FeedbackHas DEF F!Rows
<1>4. ui' = [shown |-> [ui.shown EXCEPT ![t] = r], generation |-> ui.generation,
             operation |-> ui.operation + 1, revision |-> [ui.revision EXCEPT ![t] = ui.operation + 1],
             requests |-> ui.requests, latest |-> ui.latest]
  <2> HIDE DEF F!Rows
  <2> QED  BY <1>1, <1>2
<1>5. \A q \in Turns : ui'.revision[q] <= ui'.operation
  BY <1>4, FeedbackHas
<1>6. ui.generation \in Nat /\ ui.operation + 1 \in Nat /\ ui.requests \in Nat /\ ui.latest \in Nat
  BY FeedbackHas
<1> HIDE DEF F!Rows
<1> QED  BY <1>3, <1>4, <1>5, <1>6

(* A rating of turn t is over: what it sent, or took back, is what is stored,*)
(* unless the turn is excused.                                               *)
LEMMA Settles ==
  ASSUME FeedbackIInv, NEW t \in Turns, saving[t] # None, NEW r \in F!Shown,
         F!Update(saving[t].generation, t, r), saving' = [saving EXCEPT ![t] = None],
         excused \subseteq excused', excused' \subseteq Turns, t \notin excused' => r = stored[t],
         UNCHANGED <<stored, reads, opening>>
  PROVE  FeedbackIInv'
<1> USE FeedbackHas DEF FeedbackIInv
<1>1. CASE saving[t].generation = ui.generation
  <2>1. /\ ui'.generation = ui.generation /\ ui'.operation = ui.operation + 1 /\ ui'.requests = ui.requests
        /\ ui'.latest = ui.latest /\ ui'.shown = [ui.shown EXCEPT ![t] = r]
        /\ ui'.revision = [ui.revision EXCEPT ![t] = ui.operation + 1]
        /\ ui' \in [shown : F!Rows, generation : Nat, operation : Nat, revision : [Turns -> Nat],
                    requests : Nat, latest : Nat]
        /\ \A q \in Turns : ui'.revision[q] <= ui'.operation
    BY <1>1, UpdateIs
  <2>2. /\ ui'.shown[t] = r /\ ui'.revision[t] = ui.operation + 1 /\ stored[t] # NoRow /\ r # NoRow
        /\ \A q \in Turns \ {t} : ui'.shown[q] = ui.shown[q] /\ ui'.revision[q] = ui.revision[q]
    BY <2>1, FeedbackAssumption DEF F!Rows, RowsFirst
  <2>3. saving'[t] = None /\ \A q \in Turns \ {t} : saving'[q] = saving[q]
    BY DEF F!FeedbackTypeOK
  <2>4. F!FeedbackTypeOK'
    <3>1. saving' \in [Turns -> F!Savings \cup {None}]
      BY DEF F!FeedbackTypeOK
    <3> QED  BY <2>1, <3>1 DEF F!FeedbackTypeOK
  <2>5. ReadsInOrder'
    BY <2>1 DEF ReadsInOrder
  <2>6. \A q \in reads : q.startedAt < ui'.revision[t]
    BY <2>2 DEF ReadsInOrder
  <2>7. RowsFirst'
    BY <2>1, <2>2, <2>3, <2>6 DEF RowsFirst, Brings
  <2>8. ASSUME NEW q \in Turns \ excused' PROVE KnowsStored(q)' /\ Arrives(q)'
    <3>1. KnowsStored(q) /\ Arrives(q)
      OBVIOUS
    <3>2. \A o \in reads : Counts(o)' <=> Counts(o)
      BY <2>1 DEF Counts
    <3>3. CASE q = t
      <4>1. KnowsStored(t)'
        BY <2>2, <2>3, <2>6, <3>3 DEF KnowsStored
      <4> QED  BY <2>2, <3>1, <3>2, <3>3, <4>1 DEF Arrives, Brings
    <3>4. CASE q # t
      BY <2>1, <2>2, <2>3, <3>1, <3>2, <3>4 DEF KnowsStored, Arrives, Brings
    <3> QED  BY <3>3, <3>4
  <2> QED  BY <2>4, <2>5, <2>7, <2>8
<1>2. CASE saving[t].generation # ui.generation
  <2>1. ui' = ui /\ t \in excused
    BY <1>2 DEF F!Update, KnowsStored
  <2>2. saving'[t] = None /\ \A q \in Turns \ {t} : saving'[q] = saving[q]
    BY DEF F!FeedbackTypeOK
  <2>3. F!FeedbackTypeOK'
    BY <2>1 DEF F!FeedbackTypeOK
  <2>4. ReadsInOrder' /\ RowsFirst'
    BY <2>1, <2>2 DEF ReadsInOrder, RowsFirst, Brings
  <2>5. ASSUME NEW q \in Turns \ excused' PROVE KnowsStored(q)' /\ Arrives(q)'
    BY <2>1, <2>2, <2>5 DEF KnowsStored, Arrives, Brings, Counts
  <2> QED  BY <2>3, <2>4, <2>5
<1> QED  BY <1>1, <1>2

(* What is known of turn o holds on when its row, its rating, what is shown  *)
(* of it and the reads are as before.                                        *)
LEMMA KnowsKept ==
  ASSUME NEW o \in Turns, KnowsStored(o), Arrives(o), reads' = reads, stored'[o] = stored[o],
         saving'[o] = saving[o], ui'.shown[o] = ui.shown[o], ui'.revision[o] = ui.revision[o],
         ui'.generation = ui.generation, ui'.latest = ui.latest
  PROVE  KnowsStored(o)' /\ Arrives(o)'
<1>1. \A q \in reads : (Counts(q)' <=> Counts(q)) /\ (Brings(q, o)' <=> Brings(q, o))
  BY DEF Counts, Brings
<1>2. KnowsStored(o)'
  BY <1>1 DEF KnowsStored
<1>3. Arrives(o)'
  BY <1>1 DEF Arrives
<1> QED  BY <1>2, <1>3

LEMMA CompletesTurn ==
  ASSUME FeedbackIInv, NEW t \in Turns, F!CompleteTurn(t)
  PROVE  FeedbackIInv'
BY Reading DEF F!CompleteTurn

LEMMA Reconciles ==
  ASSUME FeedbackIInv, F!Reconcile
  PROVE  FeedbackIInv'
BY Reading DEF F!Reconcile

LEMMA Rates ==
  ASSUME FeedbackIInv, NEW t \in Turns, NEW r \in Ratings, F!Rate(t, r)
  PROVE  FeedbackIInv'
<1> USE FeedbackHas DEF FeedbackIInv
<1> DEFINE next == IF ui.shown[t] = r THEN Unrated ELSE r
           z == [previous |-> ui.shown[t], next |-> next, at |-> "sent", generation |-> ui.generation]
<1>1. /\ ui.shown[t] # NoRow /\ saving[t] = None /\ saving' = [saving EXCEPT ![t] = z]
      /\ F!Update(ui.generation, t, next) /\ UNCHANGED <<stored, reads, opening, excused>>
  BY DEF F!Rate
<1>2. next \in F!Shown
  BY DEF F!Shown
<1>3. z \in F!Savings /\ z # None
  <2>1. ui.shown[t] \in F!Shown
    BY <1>1 DEF F!Rows
  <2>2. z \in F!Savings
    BY <1>2, <2>1 DEF F!Savings
  <2> QED  BY <2>2, FeedbackAssumption
<1>4. z.generation = ui.generation /\ z.at = "sent" /\ z.previous = ui.shown[t]
  OBVIOUS
<1> HIDE DEF z, next
<1>5. /\ ui'.generation = ui.generation /\ ui'.operation = ui.operation + 1 /\ ui'.requests = ui.requests
      /\ ui'.latest = ui.latest /\ ui'.shown = [ui.shown EXCEPT ![t] = next]
      /\ ui'.revision = [ui.revision EXCEPT ![t] = ui.operation + 1]
      /\ ui' \in [shown : F!Rows, generation : Nat, operation : Nat, revision : [Turns -> Nat],
                  requests : Nat, latest : Nat]
      /\ \A q \in Turns : ui'.revision[q] <= ui'.operation
  BY <1>1, <1>2, UpdateIs
<1>6. /\ ui'.shown[t] = next /\ ui'.revision[t] = ui.operation + 1 /\ stored[t] # NoRow /\ next # NoRow
      /\ \A q \in Turns \ {t} : ui'.shown[q] = ui.shown[q] /\ ui'.revision[q] = ui.revision[q]
  BY <1>1, <1>2, <1>5, FeedbackAssumption DEF F!Rows, RowsFirst
<1>7. saving'[t] = z /\ \A q \in Turns \ {t} : saving'[q] = saving[q]
  BY <1>1 DEF F!FeedbackTypeOK
<1>8. F!FeedbackTypeOK'
  <2>1. saving' \in [Turns -> F!Savings \cup {None}]
    BY <1>1, <1>3 DEF F!FeedbackTypeOK
  <2> QED  BY <1>1, <1>5, <2>1 DEF F!FeedbackTypeOK
<1>9. ReadsInOrder'
  BY <1>1, <1>5 DEF ReadsInOrder
<1>10. \A q \in reads : q.startedAt < ui'.revision[t]
  BY <1>6 DEF ReadsInOrder
<1>11. RowsFirst'
  BY <1>1, <1>5, <1>6, <1>7, <1>10 DEF RowsFirst, Brings
<1>12. ASSUME NEW o \in Turns \ excused' PROVE KnowsStored(o)' /\ Arrives(o)'
  <2>1. KnowsStored(o) /\ Arrives(o)
    BY <1>1
  <2>2. CASE o = t
    <3>1. KnowsStored(t)'
      BY <1>1, <1>3, <1>4, <1>5, <1>6, <1>7, <2>1, <2>2 DEF KnowsStored
    <3>2. \A q \in reads : (Counts(q)' <=> Counts(q)) /\ (Brings(q, t)' <=> Brings(q, t))
      BY <1>1, <1>5 DEF Counts, Brings
    <3> QED  BY <1>1, <1>6, <2>1, <2>2, <3>1, <3>2 DEF Arrives
  <2>3. CASE o # t
    BY <1>1, <1>5, <1>6, <1>7, <2>1, <2>3, KnowsKept
  <2> QED  BY <2>2, <2>3
<1> QED  BY <1>8, <1>9, <1>11, <1>12

LEMMA SetsFeedback ==
  ASSUME FeedbackIInv, NEW t \in Turns, F!SetFeedback(t)
  PROVE  FeedbackIInv'
<1> USE FeedbackHas DEF FeedbackIInv
<1>1. /\ saving[t] # None /\ saving[t].at = "sent" /\ stored' = [stored EXCEPT ![t] = saving[t].next]
      /\ saving' = [saving EXCEPT ![t].at = "set"] /\ UNCHANGED <<ui, reads, opening, excused>>
  BY DEF F!SetFeedback
<1> DEFINE z == [previous |-> saving[t].previous, next |-> saving[t].next, at |-> "set",
                 generation |-> saving[t].generation]
<1>2. saving' = [saving EXCEPT ![t] = z]
  <2>1. saving[t] \in F!Savings
    BY <1>1
  <2>2. PICK q : q = [saving[t] EXCEPT !.at = "set"]
    OBVIOUS
  <2>3. q = z
    BY <2>1, <2>2 DEF F!Savings
  <2>4. saving' = [saving EXCEPT ![t] = q]
    BY <1>1, <2>2
  <2> QED  BY <2>3, <2>4
<1>3. z \in F!Savings /\ z # None
  <2>1. z \in F!Savings
    BY <1>1 DEF F!Savings
  <2> QED  BY <2>1, FeedbackAssumption
<1>4. z.generation = saving[t].generation /\ z.at = "set" /\ z.next = saving[t].next
  OBVIOUS
<1> HIDE DEF z
<1>5. saving'[t] = z /\ \A q \in Turns \ {t} : saving'[q] = saving[q]
  BY <1>2 DEF F!FeedbackTypeOK
<1>6. /\ stored' \in F!Rows /\ stored'[t] = saving[t].next /\ stored'[t] # NoRow /\ stored[t] # NoRow
      /\ \A q \in Turns \ {t} : stored'[q] = stored[q]
  BY <1>1, FeedbackAssumption DEF F!Rows, RowsFirst
<1>7. F!FeedbackTypeOK'
  BY <1>1, <1>2, <1>3, <1>6 DEF F!FeedbackTypeOK
<1>8. ReadsInOrder' /\ RowsFirst'
  BY <1>1, <1>5, <1>6 DEF ReadsInOrder, RowsFirst, Brings
<1>9. ASSUME NEW o \in Turns \ excused' PROVE KnowsStored(o)' /\ Arrives(o)'
  <2>1. KnowsStored(o) /\ Arrives(o)
    BY <1>1
  <2>2. CASE o = t
    <3>1. KnowsStored(t)'
      BY <1>1, <1>3, <1>4, <1>5, <1>6, <2>1, <2>2 DEF KnowsStored
    <3>2. \A q \in reads : (Counts(q)' <=> Counts(q)) /\ (Brings(q, t)' <=> Brings(q, t))
      BY <1>1 DEF Counts, Brings
    <3> QED  BY <1>1, <1>6, <2>1, <2>2, <3>1, <3>2 DEF Arrives
  <2>3. CASE o # t
    BY <1>1, <1>5, <1>6, <2>1, <2>3, KnowsKept
  <2> QED  BY <2>2, <2>3
<1> QED  BY <1>7, <1>8, <1>9

LEMMA Confirms ==
  ASSUME FeedbackIInv, NEW t \in Turns, F!Confirm(t)
  PROVE  FeedbackIInv'
<1>1. /\ saving[t] # None /\ saving[t].at = "set" /\ F!Update(saving[t].generation, t, saving[t].next)
      /\ saving' = [saving EXCEPT ![t] = None] /\ UNCHANGED <<stored, reads, opening, excused>>
  BY DEF F!Confirm
<1>2. saving[t].next \in F!Shown /\ excused \subseteq Turns
  BY <1>1, FeedbackHas DEF FeedbackIInv, F!FeedbackTypeOK
<1>3. t \notin excused => saving[t].next = stored[t]
  BY <1>1 DEF FeedbackIInv, KnowsStored
<1> QED  BY <1>1, <1>2, <1>3, Settles

LEMMA RateFailing ==
  ASSUME FeedbackIInv, NEW t \in Turns, F!RateFails(t)
  PROVE  FeedbackIInv'
<1>1. /\ saving[t] # None /\ F!Update(saving[t].generation, t, saving[t].previous)
      /\ saving' = [saving EXCEPT ![t] = None]
      /\ excused' = IF saving[t].at = "set" THEN excused \cup {t} ELSE excused
      /\ UNCHANGED <<stored, reads, opening>>
  BY DEF F!RateFails
<1>2. saving[t].previous \in F!Shown /\ saving[t].at \in {"sent", "set"} /\ excused \subseteq Turns
  BY <1>1, FeedbackHas DEF FeedbackIInv, F!FeedbackTypeOK
<1>3. t \notin excused' => saving[t].previous = stored[t]
  BY <1>1, <1>2 DEF FeedbackIInv, KnowsStored
<1> QED  BY <1>1, <1>2, <1>3, Settles

LEMMA ServesRead ==
  ASSUME FeedbackIInv, NEW q \in reads, F!ServeRead(q)
  PROVE  FeedbackIInv'
<1> USE FeedbackHas DEF FeedbackIInv
<1> DEFINE n == [generation |-> q.generation, request |-> q.request, startedAt |-> q.startedAt,
                 at |-> "read", rows |-> stored]
<1>1. /\ q.at = "sent" /\ UNCHANGED <<stored, ui, saving, opening, excused>>
      /\ reads' = (reads \ {q}) \cup {n}
  <2>1. PICK o : o = [q EXCEPT !.at = "read", !.rows = stored]
    OBVIOUS
  <2>2. o = n
    BY <2>1 DEF F!Reads
  <2> QED  BY <2>1, <2>2 DEF F!ServeRead
<1>2. /\ n.generation = q.generation /\ n.request = q.request /\ n.startedAt = q.startedAt
      /\ n.at = "read" /\ n.rows = stored
  OBVIOUS
<1>3. n \in F!Reads
  BY DEF F!Reads
<1> HIDE DEF n
<1>4. F!FeedbackTypeOK'
  BY <1>1, <1>3 DEF F!FeedbackTypeOK
<1>5. ReadsInOrder'
  BY <1>1, <1>2 DEF ReadsInOrder
<1>6. \A t \in Turns : stored[t] # NoRow => Brings(n, t)
  BY <1>2 DEF Brings
<1>7. RowsFirst'
  <2>1. ASSUME NEW t \in Turns, stored[t] = NoRow
        PROVE  /\ ui.shown[t] = NoRow /\ saving[t] = None /\ opening.rows[t] = NoRow
               /\ ui.revision[t] = 0 /\ \A o \in reads' : o.rows[t] = NoRow
    BY <1>1, <1>2, <2>1 DEF RowsFirst
  <2>2. ASSUME NEW t \in Turns, ui.revision[t] > 0
        PROVE  /\ ui.shown[t] # NoRow
               /\ \A o \in reads' : o.generation = ui.generation /\ ui.revision[t] <= o.startedAt => Brings(o, t)
    BY <1>1, <1>2, <1>6, <2>2 DEF RowsFirst
  <2> QED  BY <1>1, <2>1, <2>2 DEF RowsFirst, Brings
<1>8. /\ Counts(n) <=> Counts(q)
      /\ \A o \in reads' : Counts(o)' <=> Counts(o)
  BY <1>1, <1>2 DEF Counts
<1>9. ASSUME NEW t \in Turns \ excused' PROVE KnowsStored(t)' /\ Arrives(t)'
  <2>1. KnowsStored(t) /\ Arrives(t)
    BY <1>1
  <2>2. KnowsStored(t)'
    BY <1>1, <1>2, <1>8, <2>1 DEF KnowsStored
  <2>3. \A o \in reads' : Brings(o, t)' <=> Brings(o, t)
    BY DEF Brings
  <2>4. ASSUME stored[t] # NoRow, NEW o \in reads, Counts(o), Brings(o, t)
        PROVE  \E o2 \in reads' : Counts(o2)' /\ Brings(o2, t)' /\ o2.request = o.request
    <3>1. CASE o = q
      BY <1>1, <1>2, <1>6, <1>8, <2>3, <2>4, <3>1
    <3>2. CASE o # q
      BY <1>1, <1>8, <2>3, <2>4, <3>2
    <3> QED  BY <3>1, <3>2
  <2>5. ASSUME stored[t] # NoRow, ui.shown[t] = NoRow
        PROVE  \E o \in reads' : Counts(o)' /\ Brings(o, t)'
    BY <2>1, <2>4, <2>5 DEF Arrives
  <2>6. ASSUME stored[t] # NoRow, NEW o \in reads', Counts(o)', ~Brings(o, t)'
        PROVE  \E o2 \in reads' : Counts(o2)' /\ Brings(o2, t)' /\ o2.request > o.request
    <3>1. o \in reads /\ Counts(o) /\ ~Brings(o, t)
      BY <1>1, <1>6, <1>8, <2>3, <2>6
    <3>2. PICK o2 \in reads : Counts(o2) /\ Brings(o2, t) /\ o2.request > o.request
      BY <2>1, <2>6, <3>1 DEF Arrives
    <3> QED  BY <2>4, <2>6, <3>2
  <2>7. Arrives(t)'
    BY <1>1, <2>5, <2>6 DEF Arrives
  <2> QED  BY <2>2, <2>7
<1> QED  BY <1>4, <1>5, <1>7, <1>9

LEMMA AppliesRead ==
  ASSUME FeedbackIInv, NEW q \in reads, F!ApplyRead(q)
  PROVE  FeedbackIInv'
<1> USE FeedbackHas DEF FeedbackIInv
<1>1. /\ q.at = "read" /\ UNCHANGED <<stored, saving, opening, excused>> /\ reads' = reads \ {q}
  BY DEF F!ApplyRead
<1>2. CASE ~Counts(q)
  <2>1. ui' = ui
    BY <1>2 DEF F!ApplyRead, Counts
  <2>2. F!FeedbackTypeOK' /\ ReadsInOrder' /\ RowsFirst'
    BY <1>1, <2>1 DEF F!FeedbackTypeOK, ReadsInOrder, RowsFirst, Brings
  <2>3. ASSUME NEW t \in Turns \ excused' PROVE KnowsStored(t)' /\ Arrives(t)'
    <3>1. KnowsStored(t) /\ Arrives(t)
      BY <1>1
    <3>2. \A o \in reads : (Counts(o)' <=> Counts(o)) /\ (Brings(o, t)' <=> Brings(o, t))
      BY <2>1 DEF Counts, Brings
    <3> QED  BY <1>1, <1>2, <2>1, <3>1, <3>2 DEF KnowsStored, Arrives
  <2> QED  BY <2>2, <2>3
<1>3. CASE Counts(q)
  <2>1. q.generation = ui.generation /\ q.request >= ui.latest
    BY <1>3 DEF Counts
  <2>2. ui' = [ui EXCEPT !.latest = q.request, !.shown = F!Merged(q)]
    BY <2>1 DEF F!ApplyRead
  <2>3. F!Merged(q) \in F!Rows
    BY DEF F!Merged, F!Rows
  <2>4. /\ ui'.generation = ui.generation /\ ui'.operation = ui.operation /\ ui'.requests = ui.requests
        /\ ui'.latest = q.request /\ ui'.shown = F!Merged(q) /\ ui'.revision = ui.revision
        /\ ui' \in [shown : F!Rows, generation : Nat, operation : Nat, revision : [Turns -> Nat],
                    requests : Nat, latest : Nat]
    <3>1. ui \in [shown : F!Rows, generation : Nat, operation : Nat, revision : [Turns -> Nat],
                  requests : Nat, latest : Nat]
      BY DEF F!FeedbackTypeOK
    <3> HIDE DEF F!Rows, F!Merged
    <3> QED  BY <2>2, <2>3, <3>1
  <2>5. \A t \in Turns : F!Merged(q)[t] = IF ui.revision[t] > q.startedAt THEN ui.shown[t] ELSE q.rows[t]
    BY DEF F!Merged
  <2>6. F!FeedbackTypeOK' /\ ReadsInOrder'
    BY <1>1, <2>4 DEF F!FeedbackTypeOK, ReadsInOrder
  <2>7. RowsFirst'
    <3>1. ASSUME NEW t \in Turns, stored[t] = NoRow
          PROVE  ui'.shown[t] = NoRow
      BY <2>4, <2>5, <3>1 DEF RowsFirst
    <3>2. ASSUME NEW t \in Turns, ui.revision[t] > 0
          PROVE  ui'.shown[t] # NoRow
      BY <1>1, <2>1, <2>4, <2>5, <3>2 DEF RowsFirst, Brings
    <3> QED  BY <1>1, <2>4, <3>1, <3>2 DEF RowsFirst, Brings
  <2>8. \A o \in reads : Counts(o)' <=> Counts(o) /\ o.request >= q.request
    BY <2>1, <2>4 DEF Counts
  <2>9. ASSUME NEW t \in Turns \ excused' PROVE KnowsStored(t)' /\ Arrives(t)'
    <3>1. KnowsStored(t) /\ Arrives(t)
      BY <1>1
    <3>2. \A o \in reads : Brings(o, t)' <=> Brings(o, t)
      BY DEF Brings
    <3>3. KnowsStored(t)'
      BY <1>1, <1>3, <2>4, <2>5, <2>8, <3>1 DEF KnowsStored
    <3>4. ASSUME stored[t] # NoRow, NEW o \in reads, o.request >= q.request, Counts(o), ~Brings(o, t)
          PROVE  \E o2 \in reads' : Counts(o2)' /\ Brings(o2, t)' /\ o2.request > o.request
      <4>1. PICK o2 \in reads : Counts(o2) /\ Brings(o2, t) /\ o2.request > o.request
        BY <3>1, <3>4 DEF Arrives
      <4> QED  BY <1>1, <2>8, <3>2, <3>4, <4>1
    <3>5. ASSUME stored[t] # NoRow, ui'.shown[t] = NoRow
          PROVE  \E o \in reads' : Counts(o)' /\ Brings(o, t)'
      <4>1. ~Brings(q, t)
        BY <1>1, <2>4, <2>5, <3>5 DEF RowsFirst, Brings
      <4> QED  BY <1>3, <3>4, <3>5, <4>1
    <3>6. Arrives(t)'
      BY <1>1, <2>8, <3>2, <3>4, <3>5 DEF Arrives
    <3> QED  BY <3>3, <3>6
  <2> QED  BY <2>6, <2>7, <2>9
<1> QED  BY <1>2, <1>3

LEMMA ReadFailing ==
  ASSUME FeedbackIInv, NEW q \in reads, F!ReadFails(q)
  PROVE  FeedbackIInv'
<1> USE FeedbackHas DEF FeedbackIInv
<1>1. reads' = reads \ {q} /\ excused' = Turns /\ UNCHANGED <<stored, ui, saving, opening>>
  BY DEF F!ReadFails
<1> QED  BY <1>1 DEF F!FeedbackTypeOK, ReadsInOrder, RowsFirst, Brings

(* Opening and its read change what is read, and nothing else.               *)
LEMMA Opens ==
  ASSUME FeedbackIInv, F!Open \/ F!ServeOpen
  PROVE  FeedbackIInv'
<1> USE FeedbackHas DEF FeedbackIInv
<1>1. UNCHANGED <<stored, ui, saving, reads, excused>>
  BY DEF F!Open, F!ServeOpen
<1>2. /\ opening' \in [at : {"none", "sent", "read"}, rows : F!Rows]
      /\ opening'.rows = F!NoRows \/ opening'.rows = stored
  <2>1. F!NoRows \in F!Rows
    BY DEF F!NoRows, F!Rows
  <2>2. CASE F!Open
    <3>1. opening' = [at |-> "sent", rows |-> F!NoRows]
      BY <2>2 DEF F!Open, F!Closed
    <3> HIDE DEF F!Rows
    <3> QED  BY <2>1, <3>1
  <2>3. CASE F!ServeOpen
    BY <2>3 DEF F!ServeOpen
  <2> QED  BY <2>2, <2>3
<1>3. \A t \in Turns : stored[t] = NoRow => opening'.rows[t] = NoRow
  BY <1>2 DEF F!NoRows
<1>4. F!FeedbackTypeOK' /\ ReadsInOrder'
  BY <1>1, <1>2 DEF F!FeedbackTypeOK, ReadsInOrder
<1>5. RowsFirst'
  BY <1>1, <1>3 DEF RowsFirst, Brings
<1>6. ASSUME NEW t \in Turns \ excused' PROVE KnowsStored(t)' /\ Arrives(t)'
  BY <1>1, KnowsKept
<1> QED  BY <1>4, <1>5, <1>6

LEMMA Binds ==
  ASSUME FeedbackIInv, F!Bind
  PROVE  FeedbackIInv'
<1> USE FeedbackHas DEF FeedbackIInv
<1>1. /\ excused' = {t \in Turns : saving[t] # None \/ opening.rows[t] # stored[t]}
      /\ opening' = F!Closed /\ UNCHANGED <<stored, saving, reads>>
      /\ ui' = [ui EXCEPT !.generation = ui.generation + 1, !.operation = ui.operation + 1,
                          !.shown = opening.rows, !.revision = [t \in Turns |-> 0],
                          !.requests = ui.requests + 1, !.latest = ui.requests + 1]
  BY DEF F!Bind
<1>2. /\ opening.rows \in F!Rows /\ F!Closed \in [at : {"none", "sent", "read"}, rows : F!Rows]
      /\ F!Closed.rows = F!NoRows
  <2>1. F!NoRows \in F!Rows
    BY DEF F!NoRows, F!Rows
  <2> QED  BY <2>1 DEF F!Closed, F!FeedbackTypeOK
<1>3. /\ ui'.generation = ui.generation + 1 /\ ui'.operation = ui.operation + 1
      /\ ui'.requests = ui.requests + 1 /\ ui'.latest = ui.requests + 1
      /\ ui'.shown = opening.rows /\ ui'.revision = [t \in Turns |-> 0]
      /\ ui' \in [shown : F!Rows, generation : Nat, operation : Nat, revision : [Turns -> Nat],
                  requests : Nat, latest : Nat]
  <2>1. ui \in [shown : F!Rows, generation : Nat, operation : Nat, revision : [Turns -> Nat],
                requests : Nat, latest : Nat]
    BY DEF F!FeedbackTypeOK
  <2>2. [t \in Turns |-> 0] \in [Turns -> Nat]
    OBVIOUS
  <2>3. ui' = [shown |-> opening.rows, generation |-> ui.generation + 1, operation |-> ui.operation + 1,
               revision |-> [t \in Turns |-> 0], requests |-> ui.requests + 1, latest |-> ui.requests + 1]
    BY <1>1, <2>1
  <2>4. ui.generation + 1 \in Nat /\ ui.operation + 1 \in Nat /\ ui.requests + 1 \in Nat
    OBVIOUS
  <2> HIDE DEF F!Rows
  <2> QED  BY <1>2, <2>2, <2>3, <2>4
<1>4. \A t \in Turns : ui'.revision[t] = 0 /\ F!NoRows[t] = NoRow
  BY <1>3 DEF F!NoRows
<1>5. F!FeedbackTypeOK'
  BY <1>1, <1>2, <1>3, <1>4 DEF F!FeedbackTypeOK
<1>6. ReadsInOrder'
  BY <1>1, <1>3 DEF ReadsInOrder
<1>7. RowsFirst'
  BY <1>1, <1>2, <1>3, <1>4 DEF RowsFirst
<1>8. \A q \in reads : ~Counts(q)'
  BY <1>3 DEF ReadsInOrder, Counts
<1>9. ASSUME NEW t \in Turns \ excused' PROVE KnowsStored(t)' /\ Arrives(t)'
  <2>1. saving[t] = None /\ opening.rows[t] = stored[t]
    BY <1>1
  <2> QED  BY <1>1, <1>3, <1>8, <2>1 DEF KnowsStored, Arrives
<1> QED  BY <1>5, <1>6, <1>7, <1>9

LEMMA FeedbackStays ==
  FeedbackIInv /\ F!FeedbackNext => FeedbackIInv'
BY CompletesTurn, SetsFeedback, Confirms, RateFailing, Rates, ServesRead, AppliesRead, ReadFailing,
   Reconciles, Opens, Binds DEF F!FeedbackNext

LEMMA FeedbackStutters ==
  FeedbackIInv /\ UNCHANGED feedbackState => FeedbackIInv'
<1> SUFFICES ASSUME FeedbackIInv, UNCHANGED feedbackState PROVE FeedbackIInv'
  OBVIOUS
<1>1. UNCHANGED <<stored, ui, saving, reads, opening, excused>>
  BY DEF feedbackState
<1>2. F!FeedbackTypeOK' /\ ReadsInOrder' /\ RowsFirst'
  BY <1>1 DEF FeedbackIInv, F!FeedbackTypeOK, ReadsInOrder, RowsFirst, Brings
<1>3. ASSUME NEW t \in Turns \ excused' PROVE KnowsStored(t)' /\ Arrives(t)'
  BY <1>1, KnowsKept DEF FeedbackIInv
<1> QED  BY <1>2, <1>3 DEF FeedbackIInv

-----------------------------------------------------------------------------
(* The parts together: a step is one of the part that is followed.           *)
ProfilesIInv ==
  /\ part = "access" => AccessIInv
  /\ part = "transfer" => TransferIInv
  /\ part = "lock" => LockIInv

LEMMA ProfilesInitial == PartsInit => ProfilesIInv
BY AccessInitial, TransferInitial, LockInitial DEF PartsInit, ProfilesIInv

LEMMA AccessStutters == AccessIInv /\ UNCHANGED accessState => AccessIInv'
<1> SUFFICES ASSUME AccessIInv, UNCHANGED accessState PROVE AccessIInv'
  OBVIOUS
<1> USE DEF accessState
<1>1. AccessTypes'
  BY DEF AccessIInv, AccessTypes
<1>2. Pages' /\ Works' /\ OneWindow'
  BY DEF AccessIInv, Pages, Works, A!Working, A!Current, OneWindow, Moving
<1>3. A!EvidenceFits' /\ A!CookieAdmits'
  BY DEF AccessIInv, A!EvidenceFits, A!CookieAdmits, A!Current
<1> QED  BY <1>1, <1>2, <1>3 DEF AccessIInv

LEMMA TransferStutters == TransferIInv /\ UNCHANGED transferState => TransferIInv'
<1> SUFFICES ASSUME TransferIInv, UNCHANGED transferState PROVE TransferIInv'
  OBVIOUS
<1> USE DEF transferState, TransferIInv
<1>1. TransferTypes' /\ Observed'
  BY DEF TransferTypes, Observed
<1>2. Saves' /\ T!NewProfilesAreExact'
  BY DEF Saves, T!SavesAreExact, T!NewProfilesAreExact
<1> QED  BY <1>1, <1>2

LEMMA LockStutters == LockIInv /\ UNCHANGED lockState => LockIInv'
<1> SUFFICES ASSUME LockIInv, UNCHANGED lockState PROVE LockIInv'
  OBVIOUS
<1> USE DEF lockState, LockIInv
<1>1. LockTypes' /\ L!OneClaimant'
  BY DEF LockTypes, L!OneClaimant
<1>2. (\A p \in Processes : Made(p)') /\ (\A p \in alive' : Means(p)' /\ Holding(p)')
  BY DEF Made, Means, Holding
<1>3. ASSUME rivals' = 1 PROVE Alone'
  BY <1>3 DEF Alone, OneWorks, L!Busy, Using, L!Releasing, Stays, Stripped, Torn1, Claimed
<1> QED  BY <1>1, <1>2, <1>3

LEMMA ProfilesStay == ProfilesIInv /\ [PartsNext]_partsVars => ProfilesIInv'
<1> SUFFICES ASSUME ProfilesIInv, [PartsNext]_partsVars PROVE ProfilesIInv'
  OBVIOUS
<1>1. part' = part
  BY DEF PartsNext, partsVars
<1>2. CASE part = "access"
  <2>1. A!AccessNext \/ UNCHANGED accessState
    BY <1>2 DEF PartsNext, partsVars, profilesState
  <2> QED  BY <1>1, <1>2, <2>1, AccessStays, AccessStutters DEF ProfilesIInv
<1>3. CASE part = "transfer"
  <2>1. T!TransferNext \/ UNCHANGED transferState
    BY <1>3 DEF PartsNext, partsVars, profilesState
  <2> QED  BY <1>1, <1>3, <2>1, TransferStays, TransferStutters DEF ProfilesIInv
<1>4. CASE part = "lock"
  <2>1. L!LockNext \/ UNCHANGED lockState
    BY <1>4 DEF PartsNext, partsVars, profilesState
  <2> QED  BY <1>1, <1>4, <2>1, LockStays, LockStutters DEF ProfilesIInv
<1>5. CASE part \notin {"access", "transfer", "lock"}
  BY <1>1, <1>5 DEF ProfilesIInv
<1> QED  BY <1>2, <1>3, <1>4, <1>5

(* Work is done in the profile its window shows and what an interrupted      *)
(* change needs stays within reach (proxy.ts, profile-request.ts); copies of *)
(* a profile are whole and restored ones exact (profile-backup.ts); and who  *)
(* changes the registry holds its lock (profile-registry.ts).                *)
THEOREM ProfilesInvHolds == PartsSpec => []ProfilesInv
<1>1. ProfilesIInv => ProfilesInv
  BY AccessImplies, TransferImplies, LockImplies DEF ProfilesIInv, ProfilesInv
<1> QED  BY <1>1, ProfilesInitial, ProfilesStay, PTL DEF PartsSpec, partsVars

(* Setup, preferences and ratings.                                           *)
RecordsIInv ==
  /\ part = "setup" => SetupIInv
  /\ part = "feedback" => FeedbackIInv

LEMMA RecordsInitial == PartsInit => RecordsIInv
BY SetupInitial, FeedbackInitial DEF PartsInit, RecordsIInv

LEMMA RecordsStay == RecordsIInv /\ [PartsNext]_partsVars => RecordsIInv'
<1> SUFFICES ASSUME RecordsIInv, [PartsNext]_partsVars PROVE RecordsIInv'
  OBVIOUS
<1>1. part' = part
  BY DEF PartsNext, partsVars
<1>2. CASE part = "setup"
  <2>1. S!SetupNext \/ UNCHANGED setupState
    BY <1>2 DEF PartsNext, partsVars, recordsState
  <2> QED  BY <1>1, <1>2, <2>1, SetupStays, SetupStutters DEF RecordsIInv
<1>3. CASE part = "feedback"
  <2>1. F!FeedbackNext \/ UNCHANGED feedbackState
    BY <1>3 DEF PartsNext, partsVars, recordsState
  <2> QED  BY <1>1, <1>3, <2>1, FeedbackStays, FeedbackStutters DEF RecordsIInv
<1>4. CASE part \notin {"setup", "feedback"}
  BY <1>1, <1>4 DEF RecordsIInv
<1> QED  BY <1>2, <1>3, <1>4

(* A setup dialog shows the step that is saved and a completed setup has its *)
(* receipt (first-run-setup.tsx, onboarding-state.ts); and once all has      *)
(* arrived the page shows of every answer the rating that is stored, but for *)
(* those a failure or an opening left unknown                                *)
(* (response-feedback-client-state.ts).                                      *)
THEOREM RecordsInvHolds == PartsSpec => []RecordsInv
<1>1. RecordsIInv => RecordsInv
  BY SetupImplies, FeedbackImplies DEF RecordsIInv, RecordsInv
<1> QED  BY <1>1, RecordsInitial, RecordsStay, PTL DEF PartsSpec, partsVars

(* What another window saved of the preferences is undone only from the      *)
(* dialog of a page that was refused for it (desktop-preferences.ts,         *)
(* updateDesktopPreferences, and its callers; page.tsx, 2114-2161).          *)
THEOREM UndoneOnlyAfterRefusalHolds == PartsSpec => UndoneOnlyAfterRefusal
<1>1. RecordsIInv => [part = "setup" => S!UndoesOnlyRefused]_prefs
  BY NothingUndone DEF RecordsIInv
<1> QED  BY <1>1, RecordsInitial, RecordsStay, PTL DEF PartsSpec, partsVars, UndoneOnlyAfterRefusal
================================================================================
