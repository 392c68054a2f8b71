--------------------------- MODULE ProfileTransfer ---------------------------
(***************************************************************************)
(* Copies of a profile's tree: lib/profile-backup.ts (create and restore), *)
(* lib/profile-migration.ts (the first workspace becomes a profile),       *)
(* lib/profile-domain-validation.ts, and the desktop app's                 *)
(* desktop/electron/profile-backup-save.ts.                                *)
(*                                                                         *)
(* A copy is one synchronous call, but the tree and the chosen folder are  *)
(* ordinary directories: another program may change a file between any two *)
(* reads and during one.  A crash ends a call; what it leaves in staging   *)
(* is resolved by the Recovery that ProfileLifecycle models, here at once. *)
(* The lists of approved folders and datasets never travel: a backup turns *)
(* them into references, a restore writes those to a file of its own.      *)
(***************************************************************************)
EXTENDS Naturals, FiniteSets

CONSTANTS
  Files,        \* ordinary files of the tree
  Stores,       \* those with a schema that is checked
  Absent, Malformed, Torn, Another, None,
  MaxEdits,     \* changes by other programs
  MaxCopies,    \* backups and migrations begun
  MaxCrashes

Present == 0..MaxEdits \cup {Malformed}
Tree == [files : [Files -> Present \cup {Absent}], approvals : BOOLEAN, references : BOOLEAN]
Idle == [kind |-> "none", at |-> "none", todo |-> {}, reading |-> None, changed |-> FALSE,
         taken |-> [f \in {} |-> 0], staged |-> [f \in {} |-> 0]]

VARIABLES
  home,      \* the tree of the profile in use
  adopted,   \* whether home is a profile or still the first workspace
  job,       \* the copy under way
  backup,    \* the backup the page holds, or None
  fresh,     \* the tree of a restored or migrated profile, or None
  target,    \* the chosen file: None, Another's, or the backup written there
  foreign,   \* history: another program put a file under the chosen name
  temporary, \* whether the save's temporary file exists
  had,       \* history: contents each file had since the copy began
  told,      \* history: the page was told that its backup is saved
  edits, copies, crashes

transferVars == <<home, adopted, job, backup, fresh, target, foreign, temporary, had, told, edits, copies, crashes>>

TransferInit ==
  /\ home \in {t \in Tree : t.files = [f \in Files |-> 0] /\ ~t.references}
  /\ adopted \in BOOLEAN
  /\ job = Idle /\ backup = None /\ fresh = None
  /\ target \in {None, Another} /\ foreign = (target = Another) /\ temporary = FALSE
  /\ had = [f \in Files |-> {0}] /\ told = FALSE
  /\ edits = 0 /\ copies = 0 /\ crashes = 0

-----------------------------------------------------------------------------
(* Another program writes, spoils or removes a file of the tree.           *)
Edit(f, content) ==
  /\ edits < MaxEdits /\ edits' = edits + 1
  /\ content \in {edits', Malformed, Absent} \ {home.files[f]}
  /\ content = Malformed => f \in Stores
  /\ home' = [home EXCEPT !.files[f] = content]
  /\ had' = [had EXCEPT ![f] = @ \cup {content}]
  /\ job' = IF job.reading = f THEN [job EXCEPT !.changed = TRUE] ELSE job
  /\ UNCHANGED <<adopted, backup, fresh, target, foreign, temporary, told, copies, crashes>>

(* Another program takes the chosen name, or replaces what is there.       *)
Occupy ==
  /\ edits < MaxEdits /\ edits' = edits + 1
  /\ target # Another /\ target' = Another /\ foreign' = TRUE
  /\ UNCHANGED <<home, adopted, job, backup, fresh, temporary, had, told, copies, crashes>>

(* The user approves a folder or dataset, or revokes the last one.         *)
Approve ==
  /\ job = Idle /\ adopted
  /\ home' = [home EXCEPT !.approvals = ~@]
  /\ UNCHANGED <<adopted, job, backup, fresh, target, foreign, temporary, had, told, edits, copies, crashes>>

-----------------------------------------------------------------------------
(* validateProfileDomainRoot: every known store that is there has its      *)
(* schema.                                                                 *)
HasSchema(content) == content # Malformed
Valid(files) == \A f \in Stores \cap DOMAIN files : HasSchema(files[f])

Listed == {f \in Files : home.files[f] # Absent}

(* backupProfile validates before it reads; a migration inventories first. *)
Begin(kind) ==
  /\ job = Idle /\ copies < MaxCopies /\ copies' = copies + 1
  /\ kind = "backup" => adopted /\ Valid(home.files)
  /\ kind = "migrate" => ~adopted /\ fresh = None
  /\ job' = [Idle EXCEPT !.kind = kind, !.at = "reading", !.todo = Listed]
  /\ had' = [f \in Files |-> {home.files[f]}]
  /\ backup' = None /\ told' = FALSE
  /\ UNCHANGED <<home, adopted, fresh, target, foreign, temporary, edits, crashes>>

Fail == job' = Idle
Rest == <<home, adopted, target, foreign, temporary, had, told, edits, copies, crashes>>

(* lstat, then the bytes: a file that is gone ends the copy.               *)
Look(f) ==
  /\ job.at = "reading" /\ job.reading = None /\ f \in job.todo
  /\ IF home.files[f] = Absent THEN Fail
     ELSE job' = [job EXCEPT !.reading = f, !.changed = FALSE]
  /\ UNCHANGED <<backup, fresh, Rest>>

(* Variant: the file is not looked at again after its bytes were read.     *)
TakeUnchecked ==
  /\ job.at = "reading" /\ job.reading # None
  /\ job' = [job EXCEPT !.todo = @ \ {job.reading}, !.reading = None,
              !.taken = [f \in DOMAIN @ \cup {job.reading} |->
                          IF f # job.reading THEN @[f]
                          ELSE IF job.changed THEN Torn ELSE home.files[f]]]
  /\ UNCHANGED <<backup, fresh, Rest>>

(* lstat again: a file that changed meanwhile ends the copy.               *)
Take ==
  /\ job.at = "reading" /\ job.reading # None
  /\ IF job.changed THEN Fail
     ELSE job' = [job EXCEPT !.todo = @ \ {job.reading}, !.reading = None,
                   !.taken = [f \in DOMAIN @ \cup {job.reading} |->
                               IF f = job.reading THEN home.files[f] ELSE @[f]]]
  /\ UNCHANGED <<backup, fresh, Rest>>

AllTaken == job.at = "reading" /\ job.todo = {} /\ job.reading = None

(* The envelope, inspected by its own maker; approvals become references.  *)
(* A file of references that an earlier restore wrote is an ordinary file. *)
Deliver ==
  /\ AllTaken /\ job.kind = "backup"
  /\ backup' = [files |-> job.taken, carries |-> home.references, references |-> home.approvals]
  /\ job' = Idle
  /\ UNCHANGED <<fresh, Rest>>

-----------------------------------------------------------------------------
(* A migration copies what it inventoried, file by file.                   *)
StartCopy ==
  /\ AllTaken /\ job.kind = "migrate"
  /\ job' = [job EXCEPT !.at = "copying", !.todo = DOMAIN job.taken]
  /\ UNCHANGED <<backup, fresh, Rest>>

(* copyVerifiedFile                                                        *)
Copy(f) ==
  /\ job.at = "copying" /\ f \in job.todo
  /\ IF home.files[f] # job.taken[f] THEN Fail
     ELSE job' = [job EXCEPT !.todo = @ \ {f},
                   !.staged = [x \in DOMAIN @ \cup {f} |-> IF x = f THEN home.files[f] ELSE @[x]]]
  /\ UNCHANGED <<backup, fresh, Rest>>

(* The stage is inventoried again, validated and published; the registry   *)
(* names it.  A failure before that removes it.                            *)
Activate ==
  /\ job.at = "copying" /\ job.todo = {}
  /\ job' = Idle
  /\ fresh' = IF job.staged = job.taken /\ Valid(job.staged)
              THEN [files |-> job.staged, approvals |-> home.approvals, references |-> FALSE, of |-> None]
              ELSE fresh
  /\ UNCHANGED <<backup, Rest>>

(* inspectProfileBackup: the file the user chose is a backup.              *)
Inspects(b) == b \notin {None, Another}

(* restoreProfileBackup: each path is created anew, so a path written      *)
(* twice ends the restore.                                                 *)
PathsDiffer(b) == ~(b.carries /\ b.references)

(* Nobody else knows the stage: the restore is one step that succeeds or   *)
(* leaves nothing.                                                         *)
Restore(b) ==
  /\ job = Idle /\ adopted /\ fresh = None
  /\ Inspects(b) /\ PathsDiffer(b) /\ Valid(b.files)
  /\ fresh' = [files |-> b.files, approvals |-> FALSE,
               references |-> b.carries \/ b.references, of |-> b]
  /\ UNCHANGED <<job, backup, Rest>>

(* The user goes on in the new profile.                                    *)
Continue ==
  /\ job = Idle /\ fresh # None
  /\ home' = [files |-> [f \in Files |-> IF f \in DOMAIN fresh.files THEN fresh.files[f] ELSE Absent],
              approvals |-> fresh.approvals, references |-> fresh.references]
  /\ adopted' = TRUE /\ fresh' = None
  /\ had' = [f \in Files |-> {home'.files[f]}]
  /\ backup' = IF adopted THEN backup ELSE None
  /\ UNCHANGED <<job, target, foreign, temporary, told, edits, copies, crashes>>

-----------------------------------------------------------------------------
(* The desktop app saves the backup under the name the user chose: a       *)
(* temporary file beside it is written and checked, then linked to a name  *)
(* that must be free.                                                      *)
BeginSave ==
  /\ job = Idle /\ backup # None /\ ~told
  /\ job' = [Idle EXCEPT !.kind = "save", !.at = "written"]
  /\ temporary' = TRUE
  /\ UNCHANGED <<home, adopted, backup, fresh, target, foreign, had, told, edits, copies, crashes>>

Link ==
  /\ job.at = "written"
  /\ IF target = None THEN target' = backup /\ job' = [job EXCEPT !.at = "linked"] /\ UNCHANGED temporary
     ELSE Fail /\ temporary' = FALSE /\ UNCHANGED target
  /\ UNCHANGED <<home, adopted, backup, fresh, foreign, had, told, edits, copies, crashes>>

(* The temporary name goes, the chosen one is read back: told, or removed  *)
(* again when it cannot be relied on.                                      *)
FinishSave ==
  /\ job.at = "linked"
  /\ job' = Idle /\ temporary' = FALSE
  /\ \/ target = backup /\ told' = TRUE /\ UNCHANGED target
     \/ told' = FALSE /\ target' = IF target = Another THEN target ELSE None
  /\ UNCHANGED <<home, adopted, backup, fresh, foreign, had, edits, copies, crashes>>

Crash ==
  /\ crashes < MaxCrashes /\ crashes' = crashes + 1
  /\ job' = Idle /\ backup' = None /\ told' = FALSE
  /\ UNCHANGED <<home, adopted, fresh, target, foreign, temporary, had, edits, copies>>

TransferNext ==
  \/ \E f \in Files : \/ \E content \in Present \cup {Absent} : Edit(f, content)
                      \/ Look(f) \/ Copy(f)
  \/ Occupy \/ Approve \/ Begin("backup") \/ Begin("migrate") \/ Take \/ Deliver
  \/ StartCopy \/ Activate \/ Continue
  \/ \E b \in {backup, target} : Restore(b)
  \/ BeginSave \/ Link \/ FinishSave \/ Crash

TransferSpec == TransferInit /\ [][TransferNext]_transferVars

-----------------------------------------------------------------------------
(* Whatever a copy took of a file, the file held as a whole at some moment *)
(* of the copy: nothing is torn, mixed or stale (createProfileBackup,      *)
(* inventoryLegacyProfileData).                                            *)
CopiesAreWhole ==
  /\ job.kind \in {"backup", "migrate"} =>
       \A f \in DOMAIN job.taken : job.taken[f] \in had[f] \ {Absent}
  /\ job = Idle /\ backup # None /\ fresh = None =>
       \A f \in DOMAIN backup.files : backup.files[f] # Torn

(* A profile made from a copy has valid stores and every file of the copy. *)
(* A restored one has no active approval, and knows every reference.       *)
NewProfilesAreExact ==
  fresh # None =>
    /\ Valid(fresh.files)
    /\ fresh.of # None => /\ fresh.files = fresh.of.files /\ ~fresh.approvals
                          /\ fresh.references <=> fresh.of.references \/ fresh.of.carries

(* A backup the page calls saved is in its file, and a file that another   *)
(* program has put under that name is neither replaced nor removed.        *)
SavesAreExact ==
  /\ told /\ ~foreign => target = backup
  /\ foreign => target = Another

TransferInv ==
  /\ home \in Tree
  /\ CopiesAreWhole /\ NewProfilesAreExact /\ SavesAreExact

(* A delivered backup can be restored (the deletion dialog of              *)
(* profile-manager.tsx: back up first if you may need this profile later). *)
EveryBackupRestores == backup # None => PathsDiffer(backup)
=============================================================================
