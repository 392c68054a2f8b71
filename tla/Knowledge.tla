------------------------------ MODULE Knowledge ------------------------------
(***************************************************************************)
(* The Knowledge vault: knowledge.ts, knowledge-import.ts,                 *)
(* knowledge-backups.ts and the commands ingest-knowledge.ts and           *)
(* knowledge-cli.ts.                                                       *)
(*                                                                         *)
(* The user puts documents into the inbox; a command reads them into an    *)
(* SQLite index, builds the vector index, backs the index up or rolls it   *)
(* back; the application imports documents, and searches.  The application *)
(* and a command never run together: both hold the runtime lease           *)
(* (RuntimeLease), and a command its maintenance binding                   *)
(* (profile-maintenance.ts).  A command may die at any point.              *)
(***************************************************************************)
EXTENDS Naturals, Sequences, FiniteSets, SequencesExt

CONSTANTS
    Paths,        \* the names a document may have in the inbox
    Contents,     \* what a file may hold
    Extracted,    \* [Contents -> {"full", "short", "none"}]: the text found in it
    Retention,    \* how many backups are kept
    MaxEdits,     \* how often the user changes the inbox
    MaxJobs,      \* how many commands and imports are run
    MaxMishaps,   \* how much goes wrong in a behaviour
    None

ASSUME KnowledgeAssumption ==
    /\ Extracted \in [Contents -> {"full", "short", "none"}]
    /\ Retention \in Nat \ {0, 1}
    /\ {MaxEdits, MaxJobs, MaxMishaps} \subseteq Nat
    /\ None \notin Paths \cup Contents

VARIABLES
    inbox,     \* what each name of the inbox holds
    file,      \* the index on disk: the database file, and its write-ahead log
    backups,   \* the backups in the order of their names, which is that of time
    holder,    \* who holds the runtime lease
    job,       \* the command or the import that runs, and the result of the last
    bounds     \* [edits, jobs, mishaps]: what the configuration bounds

knowledgeVars == <<inbox, file, backups, holder, job, bounds>>

(* An index: the path each content is indexed under (the hash of a document *)
(* is unique by the relinking, its path by the table), which of them have   *)
(* embeddings, the recorded source issues, and the vector index: the        *)
(* contents whose vectors it holds, or None. skipped: documents have changed *)
(* since it was built in a process that could not drop it.                  *)
Index == [path : [Contents -> Paths \cup {None}], embedded : SUBSET Contents,
          issue : [Paths -> Contents \cup {None}], vectors : SUBSET Contents \cup {None},
          skipped : BOOLEAN]

Empty == [path |-> [c \in Contents |-> None], embedded |-> {},
          issue |-> [p \in Paths |-> None], vectors |-> None, skipped |-> FALSE]

(* What a connection sees: the log over the file.  Removing the log takes   *)
(* back what was not yet copied into the file.                              *)
Live == IF file.log = None THEN file.main ELSE file.log
Write(i) == file' = [file EXCEPT !.log = i]
Checkpointed == [main |-> Live, log |-> None]     \* the last connection closes

(* native: sqlite-vec was loaded when the process opened the index.         *)
Idle == [op |-> "none", pc |-> "idle", native |-> TRUE, listed |-> {}, todo |-> {}, path |-> None,
         read |-> [p \in Paths |-> None], vector |-> FALSE, plan |-> [p \in {} |-> None],
         copied |-> {}, staged |-> None, recovery |-> 0, before |-> None]

Init ==
    /\ inbox = [p \in Paths |-> None]
    /\ file = [main |-> Empty, log |-> None]
    /\ backups = <<>> /\ holder = "none" /\ job = Idle
    /\ bounds = [edits |-> 0, jobs |-> 0, mishaps |-> 0]

Mishap == bounds.mishaps < MaxMishaps /\ bounds' = [bounds EXCEPT !.mishaps = @ + 1]
Calm == UNCHANGED bounds
At(op, pc) == job.op = op /\ job.pc = pc
Go(pc) == job' = [job EXCEPT !.pc = pc]

(* The command ends and releases the lease (the exit handler does, when it *)
(* throws); its connection closes.                                         *)
Finish(result) ==
    /\ holder' = "none" /\ file' = Checkpointed /\ Go(result)

Indexed(p) == {c \in Contents : Live.path[c] = p}    \* at most one

-----------------------------------------------------------------------------
(* The user and the application.                                           *)

(* The user saves, moves in or deletes a file; not a copy in the making.   *)
Edit(p, c) ==
    /\ bounds.edits < MaxEdits /\ bounds' = [bounds EXCEPT !.edits = @ + 1]
    /\ c # inbox[p] /\ p \notin job.copied
    /\ inbox' = [inbox EXCEPT ![p] = c]
    /\ UNCHANGED <<file, backups, holder, job>>

(* mv p q: the content moves, over what q held.                            *)
Move(p, q) ==
    /\ bounds.edits < MaxEdits /\ bounds' = [bounds EXCEPT !.edits = @ + 1]
    /\ p # q /\ inbox[p] # None /\ {p, q} \cap job.copied = {}
    /\ inbox' = [inbox EXCEPT ![q] = inbox[p], ![p] = None]
    /\ UNCHANGED <<file, backups, holder, job>>

Resting == job.pc \in {"idle", "done", "failed", "broken", "crashed"}

StartApp ==
    /\ holder = "none" /\ holder' = "app"
    /\ UNCHANGED <<inbox, file, backups, job, bounds>>

(* It stops, or dies: its lease is then stale, and the next one takes it.  *)
StopApp ==
    /\ holder = "app" /\ Resting /\ holder' = "none" /\ file' = Checkpointed
    /\ UNCHANGED <<inbox, backups, job, bounds>>

(* A new job of the application or of a command; that sqlite-vec does not  *)
(* load is a mishap.                                                       *)
Start(op, j) ==
    LET mishap == IF j.native THEN 0 ELSE 1
    IN
    /\ Resting
    /\ bounds.jobs < MaxJobs /\ bounds.mishaps + mishap <= MaxMishaps
    /\ bounds' = [bounds EXCEPT !.jobs = @ + 1, !.mishaps = @ + mishap]
    /\ job' = [j EXCEPT !.op = op]

(* POST /api/knowledge/import: no name chosen may exist in the inbox yet.  *)
Import(plan) ==
    /\ holder = "app" /\ \A p \in DOMAIN plan : inbox[p] = None
    /\ Start("import", [Idle EXCEPT !.pc = "copy", !.plan = plan])
    /\ UNCHANGED <<inbox, file, backups, holder>>

Copy(p) ==
    /\ At("import", "copy") /\ p \in DOMAIN job.plan \ job.copied /\ Calm
    /\ IF inbox[p] # None                            \* it appeared meanwhile
       THEN Go("undo") /\ UNCHANGED inbox
       ELSE /\ inbox' = [inbox EXCEPT ![p] = job.plan[p]]
            /\ job' = [job EXCEPT !.copied = @ \cup {p}]
    /\ UNCHANGED <<file, backups, holder>>

CopyFails ==
    /\ At("import", "copy") /\ DOMAIN job.plan # job.copied /\ Mishap
    /\ Go("undo")
    /\ UNCHANGED <<inbox, file, backups, holder>>

(* The copies made so far are removed.                                     *)
UndoCopies ==
    /\ At("import", "undo") /\ Calm
    /\ inbox' = [p \in Paths |-> IF p \in job.copied THEN None ELSE inbox[p]]
    /\ job' = [job EXCEPT !.pc = "failed", !.copied = {}]
    /\ UNCHANGED <<file, backups, holder>>

(* All are copied, and ingestKnowledge asks for a maintenance binding of   *)
(* its own: the application itself holds the lease, so it is refused.      *)
(* The import reports that the copies were retained.                       *)
IngestRefused ==
    /\ At("import", "copy") /\ DOMAIN job.plan = job.copied /\ holder = "app" /\ Calm
    /\ job' = [job EXCEPT !.pc = "failed", !.copied = {}]
    /\ UNCHANGED <<inbox, file, backups, holder>>

-----------------------------------------------------------------------------
(* npm run knowledge:ingest                                                *)

(* A command binds itself to the profile: it takes the lease.              *)
Command(op, j) ==
    /\ holder = "none" /\ holder' = "command" /\ Start(op, j)
    /\ UNCHANGED <<inbox, file, backups>>

Files == {p \in Paths : inbox[p] # None}

Ingest(native) ==
    Command("ingest", [Idle EXCEPT !.pc = "next", !.native = native,
                                   !.listed = Files, !.todo = Files])

Next1(i) == /\ Write(i) /\ Calm
            /\ UNCHANGED <<inbox, backups, holder>>
Cleared(i, p) == [i EXCEPT !.issue[p] = None]
Read(p) == [job EXCEPT !.todo = @ \ {p}, !.read[p] = inbox[p], !.path = p]

(* The next file is gone, or would exceed the budget: the command ends.    *)
ReadFails(p) ==
    /\ At("ingest", "next") /\ p \in job.todo
    /\ IF inbox[p] = None THEN Calm ELSE Mishap
    /\ Finish("failed")
    /\ UNCHANGED <<inbox, backups>>

(* It is unchanged: a full text is indexed under its path.                 *)
Unchanged(p) == Live.path[inbox[p]] = p /\ Extracted[inbox[p]] = "full"

Skip(p) ==
    /\ At("ingest", "next") /\ p \in job.todo /\ inbox[p] # None /\ Unchanged(p)
    /\ Next1(Cleared(Live, p)) /\ job' = Read(p)

(* relinkKnowledgeDocumentByHash: the content is indexed under another     *)
(* path, which is set to this one; a text that is too short is extracted   *)
(* again all the same.  The table refuses it when another content is       *)
(* indexed under this path, and the command ends.                          *)
Relinked(p) == Live.path[inbox[p]] \notin {None, p}

Relink(p) ==
    LET c == inbox[p]
        i == [Live EXCEPT !.path[c] = p]
    IN  /\ At("ingest", "next") /\ p \in job.todo /\ c # None /\ Relinked(p)
        /\ Indexed(p) = {}
        /\ IF Extracted[c] = "full"
           THEN Next1(Cleared(i, p)) /\ job' = Read(p)
           ELSE Next1(i) /\ job' = [Read(p) EXCEPT !.pc = "extract"]

RelinkRefused(p) ==
    /\ At("ingest", "next") /\ p \in job.todo /\ inbox[p] # None /\ Relinked(p)
    /\ Indexed(p) # {} /\ Calm
    /\ Finish("failed")
    /\ UNCHANGED <<inbox, backups>>

Take(p) ==
    /\ At("ingest", "next") /\ p \in job.todo /\ inbox[p] # None
    /\ ~Unchanged(p) /\ ~Relinked(p) /\ Calm
    /\ job' = [Read(p) EXCEPT !.pc = "extract"]
    /\ UNCHANGED <<inbox, file, backups, holder>>

Content == job.read[job.path]       \* of the file at hand

Unindexed(i, cs) == [i EXCEPT !.path = [c \in Contents |-> IF c \in cs THEN None ELSE @[c]],
                              !.embedded = @ \ cs]
Invalidated(i) == [i EXCEPT !.vectors = None, !.skipped = FALSE]

(* Documents are about to change: a process without sqlite-vec cannot drop *)
(* the vector index, and leaves it.                                        *)
Outdated(i) == IF job.native THEN Invalidated(i) ELSE [i EXCEPT !.skipped = i.vectors # None]

(* Too little text: what was indexed under the path goes, and the issue is *)
(* recorded.                                                               *)
RecordIssue ==
    /\ At("ingest", "extract") /\ Extracted[Content] = "none"
    /\ LET i == IF Indexed(job.path) = {} THEN Live
                ELSE Outdated(Unindexed(Live, Indexed(job.path)))
       IN  Next1([i EXCEPT !.issue[job.path] = Content])
    /\ Go("next")

(* Variant: the vector index stays.                                        *)
EmbedKeeping(v) ==
    /\ At("ingest", "extract") /\ Extracted[Content] # "none"
    /\ Next1(Live)
    /\ job' = [job EXCEPT !.pc = "save", !.vector = v]

(* The embeddings are there, or the model is not: the passages can then be *)
(* found by keyword only.  The vector index is dropped, if it can be,      *)
(* before the transaction that replaces the document.                      *)
Embed(v) ==
    /\ At("ingest", "extract") /\ Extracted[Content] # "none"
    /\ Next1(Outdated(Live))
    /\ job' = [job EXCEPT !.pc = "save", !.vector = v]

Saved(i, p, c, v) ==
    LET j == Unindexed(i, {d \in Contents : i.path[d] = p})
    IN  [j EXCEPT !.path[c] = p, !.embedded = IF v THEN @ \cup {c} ELSE @ \ {c}]

Save == /\ At("ingest", "save") /\ Go("clear")
        /\ Next1(Saved(Live, job.path, Content, job.vector))

ClearIssue == /\ At("ingest", "clear") /\ Go("next")
              /\ Next1(Cleared(Live, job.path))

(* At the end, what is not among the files listed at the start goes.       *)
Stale == {c \in Contents : Live.path[c] \notin job.listed \cup {None}}

RemoveStale ==
    /\ At("ingest", "next") /\ job.todo = {} /\ Go("issues")
    /\ Next1(IF Stale = {} THEN Live ELSE Outdated(Unindexed(Live, Stale)))

RemoveIssues ==
    /\ At("ingest", "issues") /\ Calm
    /\ holder' = "none" /\ Go("done")
    /\ file' = [main |-> [Live EXCEPT !.issue = [p \in Paths |->
                              IF p \in job.listed THEN @[p] ELSE None]],
                log |-> None]
    /\ UNCHANGED <<inbox, backups>>

-----------------------------------------------------------------------------
(* npm run knowledge:vector-index                                          *)

Rebuild(native) ==
    Live.embedded # {} /\ Command("vectors", [Idle EXCEPT !.pc = "drop", !.native = native])

(* Without sqlite-vec nothing is rebuilt, nor dropped.                     *)
Unavailable == /\ At("vectors", "drop") /\ ~job.native /\ Calm /\ Finish("failed")
               /\ UNCHANGED <<inbox, backups>>

Drop == /\ At("vectors", "drop") /\ job.native /\ Go("fill") /\ Next1(Invalidated(Live))

Fill == /\ At("vectors", "fill") /\ Calm
        /\ holder' = "none" /\ Go("done")
        /\ file' = [main |-> [Live EXCEPT !.vectors = Live.embedded], log |-> None]
        /\ UNCHANGED <<inbox, backups>>

FillFails == /\ At("vectors", "fill") /\ Mishap /\ Finish("failed")
             /\ UNCHANGED <<inbox, backups>>

(* hasCurrentNativeVectorIndex: a search, of a process with sqlite-vec,    *)
(* uses the vector index as long as it has as many vectors as there are    *)
(* embeddings.                                                             *)
Usable(i) == i.vectors # None /\ Cardinality(i.vectors) = Cardinality(i.embedded)

-----------------------------------------------------------------------------
(* npm run knowledge:backup, knowledge:rollback                            *)

Backup == Command("backup", [Idle EXCEPT !.pc = "backup"])

Writing == job.op \in {"backup", "rollback"}

(* The online copy of what a connection sees is validated, and gets its    *)
(* name; then its checksum is written, and older backups are pruned.       *)
CopyIndex ==
    /\ Writing /\ job.pc = "backup" /\ Calm
    /\ backups' = Append(backups, [id |-> bounds.jobs, index |-> Live, sealed |-> FALSE])
    /\ job' = [job EXCEPT !.pc = "seal", !.recovery = bounds.jobs]
    /\ UNCHANGED <<inbox, file, holder>>

Seal ==
    /\ Writing /\ job.pc = "seal" /\ Calm
    /\ backups' = [backups EXCEPT ![Len(backups)].sealed = TRUE]
    /\ Go("prune")
    /\ UNCHANGED <<inbox, file, holder>>

Kept(bs) == IF Len(bs) > Retention
            THEN SubSeq(bs, Len(bs) - Retention + 1, Len(bs)) ELSE bs

Prune ==
    /\ Writing /\ job.pc = "prune" /\ Calm
    /\ backups' = Kept(backups)
    /\ IF job.op = "backup" THEN holder' = "none" /\ Go("done")
       ELSE Go("swap") /\ UNCHANGED holder
    /\ UNCHANGED <<inbox, file>>

(* It fails: the new backup is removed, the older ones that went stay gone.*)
BackupFails ==
    /\ Writing /\ job.pc \in {"backup", "seal", "prune"} /\ Mishap
    /\ backups' = SelectSeq(IF job.pc = "prune" THEN Kept(backups) ELSE backups,
                            LAMBDA b : b.id # job.recovery)
    /\ holder' = "none" /\ Go("failed")
    /\ UNCHANGED <<inbox, file>>

(* The latest backup is validated and copied beside the index; then the    *)
(* index that it will replace is backed up.                                *)
Rollback ==
    /\ backups # <<>>
    /\ Command("rollback", [Idle EXCEPT !.pc = "backup", !.staged = Last(backups).index,
                                        !.before = Live])

RemoveLog ==
    /\ At("rollback", "swap") /\ Calm
    /\ file' = [file EXCEPT !.log = None] /\ Go("rename")
    /\ UNCHANGED <<inbox, backups, holder>>

Rename ==
    /\ At("rollback", "rename") /\ Calm
    /\ file' = [file EXCEPT !.main = job.staged] /\ Go("check")
    /\ UNCHANGED <<inbox, backups, holder>>

Restored ==
    /\ At("rollback", "check") /\ Calm
    /\ holder' = "none" /\ Go("done")
    /\ UNCHANGED <<inbox, file, backups>>

RestoreFails ==
    /\ job.op = "rollback" /\ job.pc \in {"swap", "rename", "check"} /\ Mishap
    /\ Go("revert")
    /\ UNCHANGED <<inbox, file, backups, holder>>

(* The recovery copy takes the place of whatever is there.                 *)
Revert ==
    /\ At("rollback", "revert") /\ Calm
    /\ file' = [main |-> (CHOOSE b \in Range(backups) : b.id = job.recovery).index,
                log |-> None]
    /\ holder' = "none" /\ Go("failed")
    /\ UNCHANGED <<inbox, backups>>

(* That too may fail, of the same cause: the command says so.              *)
RevertFails ==
    /\ At("rollback", "revert") /\ Calm
    /\ holder' = "none" /\ Go("broken")
    /\ UNCHANGED <<inbox, file, backups>>

(* The process that runs the job dies: the lease it leaves is stale, and   *)
(* an open connection leaves its log.                                      *)
Crash ==
    /\ ~Resting /\ Mishap
    /\ holder' = "none" /\ job' = [job EXCEPT !.pc = "crashed", !.copied = {}]
    /\ UNCHANGED <<inbox, file, backups>>

-----------------------------------------------------------------------------
KnowledgeNext ==
    \/ \E p \in Paths, c \in Contents \cup {None} : Edit(p, c)
    \/ \E p, q \in Paths : Move(p, q)
    \/ StartApp \/ StopApp
    \/ \E ps \in SUBSET Paths \ {{}} : \E plan \in [ps -> Contents] : Import(plan)
    \/ \E p \in Paths : Copy(p)
    \/ CopyFails \/ UndoCopies \/ IngestRefused
    \/ \E native \in BOOLEAN : Ingest(native) \/ Rebuild(native)
    \/ \E p \in Paths : ReadFails(p) \/ Skip(p) \/ Relink(p) \/ RelinkRefused(p) \/ Take(p)
    \/ RecordIssue \/ \E v \in BOOLEAN : Embed(v)
    \/ Save \/ ClearIssue \/ RemoveStale \/ RemoveIssues
    \/ Unavailable \/ Drop \/ Fill \/ FillFails
    \/ Backup \/ CopyIndex \/ Seal \/ Prune \/ BackupFails
    \/ Rollback \/ RemoveLog \/ Rename \/ Restored \/ RestoreFails \/ Revert \/ RevertFails
    \/ Crash

KnowledgeSpec == Init /\ [][KnowledgeNext]_knowledgeVars

-----------------------------------------------------------------------------
KnowledgeTypeOK ==
    /\ inbox \in [Paths -> Contents \cup {None}]
    /\ file.main \in Index /\ file.log \in Index \cup {None}
    /\ Len(backups) <= MaxJobs
    /\ holder \in {"none", "app", "command"}
    /\ (holder = "command") => ~Resting

(* After an ingestion that did not fail, every file it listed can be found *)
(* by the content it read there, or has an issue recorded for that content;*)
(* and the index holds nothing else: no other content under one of their   *)
(* paths, no other path, no outdated issue (ingest-knowledge.ts).  Two     *)
(* files with one content share one entry, under either path.              *)
IngestionFinds ==
    At("ingest", "done") =>
      /\ \A p \in job.listed :
            LET c == job.read[p]
            IN  IF Extracted[c] = "none" THEN Live.issue[p] = c /\ Indexed(p) = {}
                ELSE /\ Live.path[c] \in job.listed /\ Live.issue[p] = None
                     /\ Indexed(p) \subseteq {c}
      /\ \A c \in Contents : Live.path[c] \in job.listed \cup {None}
      /\ \A p \in Paths \ job.listed : Live.issue[p] = None

(* A search never uses vectors of other passages than those of the index   *)
(* (knowledge.ts, hasCurrentNativeVectorIndex): the code does not ensure   *)
(* it, for a document replaced without sqlite-vec, by one of as many       *)
(* passages, leaves a vector index with the right number of vectors.       *)
VectorsNeverStale == Usable(Live) => Live.vectors = Live.embedded

(* So it is whichever command died at whichever point, or was rolled back, *)
(* unless documents changed without sqlite-vec since the vector index was  *)
(* built (knowledge.ts:265, 285, 362).                                     *)
VectorsCurrent == Live.skipped \/ VectorsNeverStale

(* A rollback loses nothing: from its start, and wherever it dies, the     *)
(* index it replaces is in place or is one of the backups, what was only   *)
(* in its write-ahead log included (knowledge-backups.ts).                 *)
ReplacedIsKept ==
    job.op = "rollback" => \/ job.before = Live
                           \/ \E b \in Range(backups) : b.index = job.before

(* A rollback that fails leaves the index it found.                        *)
FailedRollbackUndone == At("rollback", "failed") => Live = job.before

KnowledgeInv ==
    /\ KnowledgeTypeOK /\ IngestionFinds /\ VectorsCurrent
    /\ ReplacedIsKept /\ FailedRollbackUndone
=============================================================================
