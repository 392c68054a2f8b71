--------------------------- MODULE ProfileLifecycle ---------------------------
(***************************************************************************)
(* lib/profile-lifecycle.ts over lib/profile-recovery.ts: the journaled    *)
(* operations that set up, create, restore, reset and delete a profile,    *)
(* and the explicit Recovery that finishes or undoes an interrupted one.   *)
(*                                                                         *)
(* A lifecycle call is synchronous, so no other request runs inside it;    *)
(* what cuts in is a crash or a failing step, between any two durable      *)
(* writes and in the middle of removing a tree.  A call is the sequence of *)
(* the durable writes it still has to do.  The registry is one atomic cell *)
(* with a generation here; ProfileRegistry models its two files.           *)
(***************************************************************************)
EXTENDS Naturals, Sequences, FiniteSets

CONSTANTS
  Profiles,       \* ids for created and restored profiles
  Testing,        \* those of kind testing
  Default,        \* the id of the protected profile
  Operations,     \* the journaled operations users ask for
  Staleness,      \* how many generations a request body may lag behind
  MaxGeneration,  \* bound on the registry generation
  NoProfile

Ids == Profiles \union {Default}

ASSUME LifecycleAssumption ==
  /\ IsFiniteSet(Profiles)
  /\ Default \notin Profiles
  /\ NoProfile \notin Ids
  /\ Testing \subseteq Profiles
  /\ Staleness \in Nat
  /\ MaxGeneration \in Nat \ {0}

(* What a tree holds: "bare" is an empty directory, "fresh" has only the      *)
(* onboarding state, "sealed" is restored content with its origin marker,     *)
(* "torn" is half written or half removed.                                    *)
Tree == {"none", "bare", "fresh", "filled", "sealed", "torn"}

Phases == {"prepared", "profile-root-created", "profile-root-restored",
           "tombstone-moved", "replacement-created", "registry-committed"}

VARIABLES
  registry,   \* [generation, profiles, active]; generation 0 is not set up
  journal,    \* operation-recovery.json, or NoJournal
  root,       \* profile -> its tree under data/
  tomb,       \* profile -> its tree under tombstones/
  stage,      \* profile -> its staging tree under data/
  manifest,   \* whether the Default migration manifest is written
  call,       \* the running lifecycle call: its profile, the writes it has to do
  working,    \* the profile an ordinary operation is bound to, or NoProfile
  applied     \* history: the registry took the change the journal names

lifecycleVars == <<registry, journal, root, tomb, stage, manifest, call, working, applied>>
files == <<root, tomb, stage, manifest>>

NoJournal == [operation |-> "none", phase |-> "none", id |-> NoProfile, expected |-> 0]
Idle == [id |-> NoProfile, todo |-> <<>>]

LifecycleTypeOK ==
  /\ registry \in [generation : 0..MaxGeneration, profiles : SUBSET Ids, active : Ids \union {NoProfile}]
  /\ registry.generation = 0 <=> registry.profiles = {}
  /\ registry.active = NoProfile <=> registry.generation = 0
  /\ registry.active # NoProfile => registry.active \in registry.profiles
  /\ journal \in [operation : {"none", "default-migration", "create", "restore", "reset", "delete"},
                  phase : Phases \union {"none"}, id : Ids \union {NoProfile}, expected : 0..MaxGeneration]
  /\ root \in [Ids -> Tree] /\ tomb \in [Ids -> Tree] /\ stage \in [Ids -> Tree]
  /\ manifest \in BOOLEAN /\ applied \in BOOLEAN
  /\ call.id \in Ids \union {NoProfile} /\ Len(call.todo) <= 9
  /\ working \in Ids \union {NoProfile}

Registered(p) == p \in registry.profiles
Missing(tree) == tree = "none"

-----------------------------------------------------------------------------
(* Ordinary work: a request bound to the active profile, as withProfileRequest *)
(* and the chat route hold it.  The proxy admits none while Recovery pends.    *)
BeginWork ==
  /\ registry.active # NoProfile /\ working = NoProfile
  /\ call = Idle /\ journal = NoJournal
  /\ working' = registry.active
  /\ UNCHANGED <<registry, journal, files, call, applied>>

EndWork ==
  /\ working # NoProfile
  /\ root' = [root EXCEPT ![working] = IF @ = "sealed" THEN @ ELSE "filled"]
  /\ working' = NoProfile
  /\ UNCHANGED <<registry, journal, tomb, stage, manifest, call, applied>>

(* Mutant: a mutation does not look for active operations.                    *)
ReadyBesideWork == call = Idle /\ journal = NoJournal

(* Mutant: nor for a pending Recovery.                                        *)
ReadyDespiteJournal == call = Idle /\ working = NoProfile

(* requireMutationReady *)
MutationReady == call = Idle /\ journal = NoJournal /\ working = NoProfile

(* The generation a request body carries.                                     *)
Expected == {e \in 1..registry.generation : registry.generation - e <= Staleness}

-----------------------------------------------------------------------------
(* Requests.  The first durable write of each is its journal.                 *)
Begin(operation, p, e, todo) ==
  /\ operation \in Operations
  /\ MutationReady
  /\ registry.generation < MaxGeneration
  /\ journal' = [operation |-> operation, phase |-> "prepared", id |-> p, expected |-> e]
  /\ call' = [id |-> p, todo |-> todo]
  /\ applied' = FALSE
  /\ UNCHANGED <<registry, files, working>>

InitializeDefaultProfile ==
  /\ registry.generation = 0
  /\ Begin("default-migration", Default, 0,
       <<"stage", "fill", "manifest", "publish", "profile-root-restored",
         "register", "registry-committed", "clear">>)

CreateProfile(p, e) ==
  /\ ~Registered(p) /\ p # Default
  /\ Begin("create", p, e,
       <<"mkdir", "profile-root-created", "register", "registry-committed", "onboard", "clear">>)

RestoreProfile(p, e) ==
  /\ ~Registered(p) /\ p # Default /\ p \notin Testing
  /\ Begin("restore", p, e,
       <<"stage", "seal", "publish", "profile-root-restored", "register", "registry-committed", "clear">>)

(* Mutant: the tombstone goes before the registry has taken the reset.        *)
ResetPurgingFirst(p, e) ==
  /\ p \in Testing /\ Registered(p) /\ p # registry.active
  /\ Begin("reset", p, e,
       <<"bury", "tombstone-moved", "mkdir", "purge", "register", "registry-committed", "clear">>)

ResetTestingProfile(p, e) ==
  /\ p \in Testing /\ Registered(p) /\ p # registry.active
  /\ Begin("reset", p, e,
       <<"bury", "tombstone-moved", "mkdir", "replacement-created",
         "register", "registry-committed", "purge", "clear", "onboard">>)

DeleteProfile(p, e) ==
  /\ Registered(p) /\ p # Default /\ p # registry.active
  /\ Begin("delete", p, e,
       <<"bury", "tombstone-moved", "register", "registry-committed", "purge", "clear">>)

(* renameProfile and switchProfile change the registry alone.                 *)
RenameProfile(e) ==
  /\ MutationReady
  /\ e = registry.generation /\ e \in 1..(MaxGeneration - 1)
  /\ registry' = [registry EXCEPT !.generation = @ + 1]
  /\ UNCHANGED <<journal, files, call, working, applied>>

SwitchProfile(p, e) ==
  /\ MutationReady
  /\ Registered(p) /\ p # registry.active /\ ~Missing(root[p])
  /\ e = registry.generation /\ e < MaxGeneration
  /\ registry' = [registry EXCEPT !.generation = @ + 1, !.active = p]
  /\ UNCHANGED <<journal, files, call, working, applied>>

-----------------------------------------------------------------------------
(* The durable writes of the running call.                                    *)
Todo(step) == call.todo # <<>> /\ Head(call.todo) = step
Done == call' = IF Len(call.todo) = 1 THEN Idle ELSE [call EXCEPT !.todo = Tail(@)]

MarkPhase ==
  /\ call.todo # <<>> /\ Head(call.todo) \in Phases
  /\ journal' = [journal EXCEPT !.phase = Head(call.todo)]
  /\ Done /\ UNCHANGED <<registry, files, working, applied>>

(* A staging tree is made, then gets its marker or its verified copy.         *)
MakeStage ==
  /\ Todo("stage")
  /\ stage' = [stage EXCEPT ![call.id] = "torn"]
  /\ Done /\ UNCHANGED <<registry, journal, root, tomb, manifest, working, applied>>

FillStage ==
  /\ Todo("seal") \/ Todo("fill")
  /\ stage' = [stage EXCEPT ![call.id] = IF Todo("seal") THEN "sealed" ELSE "filled"]
  /\ Done /\ UNCHANGED <<registry, journal, root, tomb, manifest, working, applied>>

WriteManifest ==
  /\ Todo("manifest")
  /\ manifest' = TRUE
  /\ Done /\ UNCHANGED <<registry, journal, root, tomb, stage, working, applied>>

PublishStage ==
  /\ Todo("publish")
  /\ root' = [root EXCEPT ![call.id] = stage[call.id]]
  /\ stage' = [stage EXCEPT ![call.id] = "none"]
  /\ Done /\ UNCHANGED <<registry, journal, tomb, manifest, working, applied>>

MakeRoot ==
  /\ Todo("mkdir")
  /\ root' = [root EXCEPT ![call.id] = "bare"]
  /\ Done /\ UNCHANGED <<registry, journal, tomb, stage, manifest, working, applied>>

WriteOnboarding ==
  /\ Todo("onboard")
  /\ root' = [root EXCEPT ![call.id] = "fresh"]
  /\ Done /\ UNCHANGED <<registry, journal, tomb, stage, manifest, working, applied>>

BuryRoot ==
  /\ Todo("bury")
  /\ tomb' = [tomb EXCEPT ![call.id] = root[call.id]]
  /\ root' = [root EXCEPT ![call.id] = "none"]
  /\ Done /\ UNCHANGED <<registry, journal, stage, manifest, working, applied>>

PurgeTombstone ==
  /\ Todo("purge")
  /\ tomb' = [tomb EXCEPT ![call.id] = "none"]
  /\ Done /\ UNCHANGED <<registry, journal, root, stage, manifest, working, applied>>

UnburyRoot ==
  /\ Todo("unbury")
  /\ root' = [root EXCEPT ![call.id] = tomb[call.id]]
  /\ tomb' = [tomb EXCEPT ![call.id] = "none"]
  /\ Done /\ UNCHANGED <<registry, journal, stage, manifest, working, applied>>

RemoveRoot ==
  /\ Todo("remove-root")
  /\ root' = [root EXCEPT ![call.id] = "none"]
  /\ Done /\ UNCHANGED <<registry, journal, tomb, stage, manifest, working, applied>>

RemoveStage ==
  /\ Todo("remove-stage")
  /\ stage' = [stage EXCEPT ![call.id] = "none"]
  /\ Done /\ UNCHANGED <<registry, journal, root, tomb, manifest, working, applied>>

ClearJournal ==
  /\ Todo("clear")
  /\ journal' = NoJournal
  /\ Done /\ UNCHANGED <<registry, files, working, applied>>

(* The registry takes the change if nobody changed it since.                  *)
Changed(r) ==
  CASE journal.operation = "default-migration" ->
         [generation |-> 1, profiles |-> {journal.id}, active |-> journal.id]
    [] journal.operation \in {"create", "restore"} ->
         [r EXCEPT !.generation = @ + 1, !.profiles = @ \union {journal.id}]
    [] journal.operation = "reset" -> [r EXCEPT !.generation = @ + 1]
    [] journal.operation = "delete" ->
         [r EXCEPT !.generation = @ + 1, !.profiles = @ \ {journal.id}]

Register ==
  /\ Todo("register")
  /\ registry.generation = journal.expected
  /\ registry' = Changed(registry)
  /\ applied' = TRUE
  /\ Done /\ UNCHANGED <<journal, files, working>>

(* It may refuse for the generation, a taken name or a held lock: the call    *)
(* throws and leaves its journal.                                             *)
RegistryRefuses ==
  /\ Todo("register")
  /\ call' = Idle
  /\ UNCHANGED <<registry, journal, files, working, applied>>

-----------------------------------------------------------------------------
(* The process dies, or a step fails and the call throws.                     *)
Crash ==
  /\ call # Idle \/ working # NoProfile
  /\ call' = Idle /\ working' = NoProfile
  /\ UNCHANGED <<registry, journal, files, applied>>

Torn(tree) == IF tree = "bare" THEN "bare" ELSE "torn"

CrashInRemoval ==
  /\ \/ Todo("purge") /\ tomb' = [tomb EXCEPT ![call.id] = Torn(@)] /\ UNCHANGED <<root, stage>>
     \/ Todo("remove-root") /\ root' = [root EXCEPT ![call.id] = Torn(@)] /\ UNCHANGED <<tomb, stage>>
     \/ Todo("remove-stage") /\ stage' = [stage EXCEPT ![call.id] = Torn(@)] /\ UNCHANGED <<root, tomb>>
  /\ call' = Idle /\ working' = NoProfile
  /\ UNCHANGED <<registry, journal, manifest, applied>>

(* A copy, the manifest or the rename fails: the staged tree is removed.      *)
StagingFails ==
  /\ Todo("seal") \/ Todo("fill") \/ Todo("manifest") \/ Todo("publish")
  /\ journal.phase = "prepared" /\ Missing(root[call.id])
  /\ stage' = [stage EXCEPT ![call.id] = "none"]
  /\ call' = Idle
  /\ UNCHANGED <<registry, journal, root, tomb, manifest, working, applied>>

-----------------------------------------------------------------------------
(* Recovery: the writes that resolve the journal, when the evidence fits.     *)
CreateResolves(plan) ==
  LET p == journal.id
  IN  \/ /\ Registered(p) /\ ~Missing(root[p])
         /\ plan = <<"clear">>
      \/ /\ ~Registered(p) /\ registry.generation = journal.expected
         /\ \/ Missing(root[p]) /\ plan = <<"clear">>
            \/ root[p] = "bare" /\ plan = <<"remove-root", "clear">>

RestoreResolves(plan) ==
  LET p == journal.id
  IN  \/ /\ Registered(p) /\ root[p] = "sealed" /\ Missing(stage[p])
         /\ plan = <<"clear">>
      \/ /\ ~Registered(p) /\ registry.generation = journal.expected
         /\ \/ Missing(root[p]) /\ Missing(stage[p]) /\ plan = <<"clear">>
            \/ root[p] = "sealed" /\ Missing(stage[p]) /\ plan = <<"remove-root", "clear">>
            \/ Missing(root[p]) /\ stage[p] = "sealed" /\ plan = <<"remove-stage", "clear">>

(* Mutant: any registry that still names the profile counts as committed.     *)
TombstoneAlwaysPurged(plan) ==
  /\ ~Missing(tomb[journal.id])
  /\ plan = <<"purge", "clear">>

TombstoneResolves(plan) ==
  LET p == journal.id
      reset == journal.operation = "reset"
      committed == registry.generation = journal.expected + 1 /\ (reset <=> Registered(p))
      uncommitted == registry.generation = journal.expected /\ Registered(p)
  IN  \/ /\ committed /\ Missing(tomb[p]) /\ (reset => ~Missing(root[p]))
         /\ plan = <<"clear">>
      \/ /\ committed /\ ~Missing(tomb[p]) /\ (reset => root[p] = "bare")
         /\ plan = <<"purge", "clear">>
      \/ /\ uncommitted /\ Missing(tomb[p])
         /\ ~Missing(root[p]) /\ journal.phase = "prepared"
         /\ plan = <<"clear">>
      \/ /\ uncommitted /\ ~Missing(tomb[p])
         /\ \/ Missing(root[p]) /\ plan = <<"unbury", "clear">>
            \/ reset /\ root[p] = "bare" /\ plan = <<"remove-root", "unbury", "clear">>

MigrationResolves(plan) ==
  LET p == journal.id
      register == <<"register", "registry-committed", "clear">>
  IN  \/ /\ Registered(p) /\ root[p] = "filled" /\ manifest /\ Missing(stage[p])
         /\ plan = <<"clear">>
      \/ /\ registry.generation = 0 /\ ~manifest /\ Missing(root[p])
         /\ plan = IF Missing(stage[p]) THEN <<"clear">> ELSE <<"remove-stage", "clear">>
      \/ /\ registry.generation = 0 /\ manifest
         /\ \/ root[p] = "filled" /\ Missing(stage[p]) /\ plan = register
            \/ Missing(root[p]) /\ stage[p] = "filled" /\ plan = <<"publish">> \o register

Plans == {<<"clear">>, <<"remove-root", "clear">>, <<"remove-stage", "clear">>,
          <<"purge", "clear">>, <<"unbury", "clear">>, <<"remove-root", "unbury", "clear">>,
          <<"register", "registry-committed", "clear">>,
          <<"publish", "register", "registry-committed", "clear">>}

(* The user confirms the generation the workspace shows, the current one.     *)
Resolves(plan) ==
  \/ journal.operation = "default-migration" /\ MigrationResolves(plan)
  \/ /\ registry.generation \in {journal.expected, journal.expected + 1}
     /\ \/ journal.operation = "create" /\ CreateResolves(plan)
        \/ journal.operation = "restore" /\ RestoreResolves(plan)
        \/ journal.operation \in {"reset", "delete"} /\ TombstoneResolves(plan)

RecoverProfileLifecycle ==
  /\ journal # NoJournal /\ call = Idle /\ working = NoProfile
  /\ \E plan \in Plans :
       /\ Resolves(plan)
       /\ call' = [id |-> journal.id, todo |-> plan]
  /\ UNCHANGED <<registry, journal, files, working, applied>>

-----------------------------------------------------------------------------
LifecycleInit ==
  /\ registry = [generation |-> 0, profiles |-> {}, active |-> NoProfile]
  /\ journal = NoJournal
  /\ root = [p \in Ids |-> "none"]
  /\ tomb = [p \in Ids |-> "none"]
  /\ stage = [p \in Ids |-> "none"]
  /\ manifest = FALSE
  /\ call = Idle /\ working = NoProfile /\ applied = FALSE

Request ==
  \/ InitializeDefaultProfile
  \/ \E p \in Ids, e \in Expected :
       \/ CreateProfile(p, e) \/ RestoreProfile(p, e)
       \/ ResetTestingProfile(p, e) \/ DeleteProfile(p, e)
       \/ SwitchProfile(p, e)
  \/ \E e \in Expected : RenameProfile(e)

Write ==
  \/ MarkPhase \/ MakeStage \/ FillStage \/ WriteManifest \/ PublishStage
  \/ MakeRoot \/ WriteOnboarding \/ BuryRoot \/ PurgeTombstone \/ UnburyRoot
  \/ RemoveRoot \/ RemoveStage \/ ClearJournal \/ Register

LifecycleNext ==
  \/ BeginWork \/ EndWork
  \/ Request \/ Write
  \/ RegistryRefuses \/ Crash \/ CrashInRemoval \/ StagingFails
  \/ RecoverProfileLifecycle

LifecycleSpec == LifecycleInit /\ [][LifecycleNext]_lifecycleVars
-----------------------------------------------------------------------------
(* Whatever is interrupted, a registered profile has its tree, in its place   *)
(* or in the tombstone the journal names (recoverTombstone).                  *)
RegisteredHaveStorage ==
  \A p \in registry.profiles :
    ~Missing(root[p]) \/ (journal.id = p /\ ~Missing(tomb[p]))

(* When no journal is left, nothing is left of a profile the registry does    *)
(* not name, and no staging tree or tombstone at all.                         *)
NothingLeftBehind ==
  journal = NoJournal =>
    \A p \in Ids :
      /\ Missing(tomb[p]) /\ Missing(stage[p])
      /\ Missing(root[p]) <=> ~Registered(p)

(* A profile never changes under work that is bound to it: the active profile *)
(* stays the one the work began in, with its tree (requireNoActiveOperations). *)
WorkStaysHome ==
  working # NoProfile => working = registry.active /\ ~Missing(root[working])

(* A buried tree is damaged or dropped only after the registry has taken the  *)
(* reset or the deletion; before, it can only go back to its place.           *)
KeptUntilCommitted ==
  [][\A p \in Ids : Missing(tomb[p]) \/ tomb'[p] = tomb[p] \/ root'[p] = tomb[p] \/ applied]_lifecycleVars

(* Each accepted request is one step of a store of profiles.                  *)
ContentOf(tree) ==
  CASE tree = "none" -> "absent"
    [] tree \in {"bare", "fresh"} -> "empty"
    [] OTHER -> "filled"

Visible(p) ==
  CASE ~Registered(p) -> "absent"
    [] Registered(p) /\ journal.id = p /\ ~applied /\ ~Missing(tomb[p]) -> ContentOf(tomb[p])
    [] OTHER -> ContentOf(root[p])

Store == INSTANCE ProfileStore WITH
  store <- [p \in Ids |-> Visible(p)], current <- registry.active

ImplementsProfileStore == Store!Spec

(* docs/PROFILES_V1.md: explicit Recovery "either rolls back the uncommitted  *)
(* cutover or completes the committed cleanup", so a pending journal can      *)
(* always be resolved.  One conjunct per family of operations.                *)
Pending(operations) == journal.operation \in operations /\ call = Idle /\ working = NoProfile
Resolvable == \E plan \in Plans : Resolves(plan)

CreationsResolve == Pending({"create"}) => Resolvable
RestoresResolve == Pending({"restore"}) => Resolvable
CutoversResolve == Pending({"reset", "delete"}) => Resolvable
SetupResolves == Pending({"default-migration"}) => Resolvable

(* Recovery has a way out of every journal a crash or a failing step leaves   *)
(* (recoverProfileLifecycle); docs/PROFILES_V1.md says so of each operation.  *)
RecoveryResolves == CreationsResolve /\ RestoresResolve /\ CutoversResolve /\ SetupResolves

(* Nothing registered is without its tree, nothing is left of a profile that  *)
(* is not registered, and a crashed creation can be resolved.                 *)
LifecycleInv ==
  /\ LifecycleTypeOK
  /\ RegisteredHaveStorage
  /\ NothingLeftBehind
  /\ CreationsResolve
=============================================================================
