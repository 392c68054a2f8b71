# Rangabot: specifications, model checks and proofs

Rangabot is a local assistant: a Next.js server on one machine, a language model behind a local
HTTP port, SQLite databases and JSON files in a private directory, and a desktop shell around them.
The server is one event loop, but it is not alone. Several windows talk to it from copies of its
state that may be old, a second launcher or tool may open the same directory, answers take minutes,
users press Stop, replies are lost, and processes die between two writes. The commands that package
a release and decide whether it may ship work on trees that change beside them. This directory
specifies what the program keeps right under all of that, in TLA+: specifications translated from
the source, TLC runs on small instances, and TLAPS proofs for every instance.

`PROJECT.json` has the map from each definition to the lines it stands for, the runs with their
properties, a mutant of the code for every property, the hazards, the findings and the theorems.

## Inventory

| Part | Source | What is hard | What makes it correct |
|---|---|---|---|
| Turn ledger | `lib/conversation-turns.ts`, `lib/conversation-mutation-guards.ts` | old copies, resent requests, late answers, restarts, turn ids met again | history is the imported transcript and the completed turns; an answer follows what its window showed; one open turn; a terminal receipt stands |
| Chat execution | `app/api/chat/route.ts`, `lib/chat-turn-lifecycle.ts`, `lib/profile-operations.ts` | four ways to end race for one turn; writes fail; a machine sleeps | every end gives the operation back and leaves a document only with an answer |
| Word documents | `lib/word-documents.ts`, `lib/conversation-artifacts.ts` | a deletion spans files and a transaction | an answer keeps its document |
| Chat page, turn recovery | `app/page.tsx`, `lib/turn-recovery*.ts` | handlers suspend at every request; the user opens, stops and sends meanwhile; replies are lost | the composer is never locked for good; an answered question is not offered again; what is shown is of the open conversation |
| Model gate | `lib/model-generation-gate.ts`, `lib/providers/ollama.ts` | idle queues are dropped and made again, and a lease of an old one is released twice | bounded, first come first served, nobody forgotten |
| SQL workspace | `lib/sql-*.ts`, `lib/datasets.ts`, `lib/dataset-semantic-contexts.ts`, `app/components/sql-analysis-panel.tsx` | a file anybody may edit; approvals withdrawn during a query; late replies | a query runs once, as previewed, on the previewed bytes; a panel unlocks |
| Profile registry | `lib/profile-registry.ts` | several processes; two renames per mutation; torn files; a lock of hard links | a reader sees a snapshot that was current; a crash needs no repair; the writer holds the lock |
| Profile lifecycle | `lib/profile-lifecycle.ts`, `profile-recovery.ts`, `profile-migration.ts`, `profile-backup.ts` | a crash or failure between any two writes, also inside Recovery | each request happens once or not at all; a tree goes only after the registry agreed |
| Profile copies | `lib/profile-backup.ts`, `profile-migration.ts`, `desktop/electron/profile-backup-save.ts` | other programs write beside a copy | backups are whole, restored trees exact |
| Profile access | `proxy.ts`, `lib/profile-context.ts`, `lib/profile-request.ts`, `app/components/profile-manager.tsx` | a request is admitted, then the profile changes, then it is handled | work is done in the profile its window shows |
| Runtime lease | `lib/runtime-lease.ts`, `scripts/start-server.ts` | system calls of launchers interleave; launchers and servers die apart | one writer at a time |
| Desktop supervisor | `desktop/electron/*.ts` | readiness, exit, quit and timeout race; the main process dies | one registered server; the lease outlives it; quitting ends and leaves nothing running |
| Knowledge vault | `lib/knowledge*.ts`, `scripts/ingest-knowledge.ts` | files and index written in an order, crashes in between, pruning of backups | the index tells the truth about the inbox a command read; a kept backup can be restored |
| Setup, preferences, models | `app/components/first-run-setup.tsx`, `lib/onboarding-state.ts`, `lib/desktop-preferences.ts`, `lib/model-manager.ts` | windows with old copies, lost requests | no window undoes what it did not touch; a dialog shows the saved step |
| Ratings | `lib/response-feedback*.ts` | reads and writes arrive in any order, a conversation is opened again | when all has arrived the page shows what is stored |
| Memories | `lib/memories.ts`, `app/components/memory-panel.tsx` | an import is reviewed, then applied to a store that moved | an import, sent twice, brings nothing twice |
| Packaging and verification | `scripts/prepare-desktop.ts`, `forge.config.ts`, `lib/windows-msix*.ts`, `lib/macos-mas-pkg.ts`, `lib/desktop-artifact-identity.ts` | sources, stage and application change between commands, commands die | a package is verified only as the commit it was built from; an undisturbed release is not refused |
| Conversation gate | `scripts/evaluate-conversation.ts`, `scripts/conversation-human-review.ts`, `scripts/check-conversation-release.ts` | source, model and ratings change beside the runs; files of different runs are combined | it passes what was tested and reviewed, and only that |
| Repositories, expert packs, projects | `lib/repositories.ts`, `lib/expert-packs.ts`, ... | little: a registry written in one piece | not modelled |
| Planners, answer checks, routing, prompts | `lib/*analytical*`, `lib/*-plan*.ts`, `lib/capability-router.ts` | pure functions of natural language | not modelled |

How they interact. A page begins a turn, which the ledger admits, and posts it to the chat route, which
claims it, holds a *profile operation* and an entry in the *registry of running turns*, waits for a
*lease of the model gate*, streams, and settles the row. A profile can be changed only while no operation
is held and no turn is pending in any profile; requests are bound to its identity and registry
generation, and lifecycle calls commit through the registry. All of this is only safe if one process owns
the directory, which the runtime lease is for: the server, the ingest command and the evaluation commands
take it. The desktop application takes it for the server it forks.

## Modules

| Module | What it is |
|---|---|
| `TurnLedger` | The rows and every handler that writes them. One action is one handler: sweep, checks and its `BEGIN IMMEDIATE` transaction |
| `TurnTimeline` | `getConversationTimeline` as a function of the rows, kept apart because only TLC evaluates it |
| `ChatHistory` | Abstract: a log that grows by question and answer, one open question. `TurnLedger` implements it |
| `ChatExecution` | Handlers, signals, documents, the quarantine, operations, profile changes; a row is reduced to its status |
| `ChatPage` | The page's thread between its requests, over what `TurnLedger` promises of the server |
| `GenerationGate`, `FifoGate` | The queue objects; the bounded line they implement |
| `SqlAnalysis` | Panels, routes, approvals, confirmations, snapshots and contexts, and a file that is not the server's |
| `ProfileRegistry`, `RegistryHistory` | Two files, a lock and processes; the single snapshot they implement |
| `RegistryLock` | The registry's lock, one file-system call per action |
| `ProfileLifecycle`, `ProfileStore` | Journaled calls as sequences of durable writes; the store of profiles they implement |
| `ProfileTransfer` | Backup, restore, migration and saving, beside programs that edit |
| `ProfileAccess` | Cookie, pinned documents, gate and handlers around profile changes |
| `RuntimeLease` | The lease, one file-system call per action |
| `Desktop` | Launches, their asynchronous startup, shutdown and stop, servers, workers, the model runtime |
| `Knowledge`, `Setup`, `Feedback`, `Memories` | One module per record the application keeps beside the chat |
| `Release`, `ReleaseEvidence` | The packaging commands; the conversation gate and its evidence |
| `MC*` | Instances for TLC. `MCParts` follows one of nine parts that share no state, per behaviour |
| `StoreProofs` (of `TurnLedger` and `ProfileLifecycle`), `ChatServerProofs` (of `ChatExecution` and `GenerationGate`), `ChatPageProofs`, `ProfileRegistryProofs`, `RuntimeProofs` (of `RuntimeLease` and `Desktop`), `SqlAnalysisProofs`, `PartsProofs` (of `ProfileAccess`, `ProfileTransfer`, `RegistryLock`, `Setup` and `Feedback`), `ReleaseProofs` (of `Release` and `ReleaseEvidence`) | Inductive invariants and theorems |

### Correspondence

**TurnLedger.** `conversations` and `turns` are the two tables. `executing` is the set of claimed turns
whose generation runs. `copies` are what windows hold, or what a travelling request was made from; only
the binding and message count of a copy travel, as in `expectedConversationBinding`. `prompt` and `seen`
are history variables: what the model was given and what the user was looking at. Title changes,
timestamps and receipt texts are abstracted; age is the flag `stale`, which `TurnExpires` sets. A turn id
is free again when its conversation is deleted, as the primary key is, but always names the same
conversation (`Home`), because the page makes it for one request.

**ChatExecution.** An action is what runs before the event loop turns to something else. The first await
of `handleVersionedChat` comes after operation, claim and registration, so `Claim` is all three. A
completion that throws gives back the operation first and writes the failure in the same microtask drain,
so it is one step. `settle` keeps one terminal promise, so the first end wins. `createWordArtifact` checks
the signal after its last await, so an answer with a document is never returned under an aborted signal,
while `draft` can be in place for long. `Fails` is a write that throws and is rolled back.

**ChatPage.** `page` is the state of the component with the refs its handlers compare after an await;
handlers suspended at a request are records of their own. A request and its reply are one step: what the
page does in between is covered by the outcomes in which the server acted and the page does not know.
`wire` holds starts the page gave up on and the server may still receive. Cancelled and failed turns are
both "unanswered". The poll of 480 attempts counts as unbounded. Two fields of `page` are history, for what
`PageInv` has to except: `taken` (a request under way lost the slot to another, finding 12) and `left` (the
spinners on display when a conversation was opened, which stay when the opening fails, finding 13).

**GenerationGate.** A generation that finds no queue names the object it makes, so objects need no
counter. An aborted signal and the run of its listener are two steps (`Abort`, `OnAbort`), which is what
`#release` guards against when it looks at the signal again.

**SqlAnalysis.** A call of a panel is a record; the server works on it in steps separated where its code
awaits, the reply comes later or never, and a panel closed meanwhile ignores it. `file` is edited by
anybody between two steps. Expiry of a confirmation is a refusal at any time. Approving or revoking, with
the reply and the list that follows, is one step. The worker's first event wins, abstracted to its result.

**ProfileRegistry.** `inspect` reads two files, in two actions. A mutation is load, keep (the recovery
copy), write (the primary), release. `WriteFails` may fail before or after the rename. Damage makes one
copy missing or invalid, one at a time. The lock is taken in one step; **RegistryLock** has its links.
There, `stolen` marks the moment the protocol leaves open (finding 1), and `rivals` how many processes may
be taking or releasing at once. A crash between the link of a new lock and the unlink of its temporary
name leaves a second link that blocks mutations.

**ProfileLifecycle.** `call` holds the durable writes a call still has to do, so a crash may fall between
any two, in a removal too, and a step may fail. Recovery is itself such a call, with the plan its checks
choose (`Resolves`), and may crash. The registry is one atomic cell here, justified by
`ImplementsRegistryHistory`. **ProfileTransfer** has what the copies hold: a tree is files whose versions
other programs raise between and during the reads of a copy; `told` and `had` remember what a caller was
told and what was there. Leftovers of a crash are resolved at once there, and in detail here.

**ProfileAccess.** A binding is a profile and a registry generation. Browser windows share one cookie,
documents pin the binding they first used. A request passes the gate and is handled later; a handler's
check and what follows to its next await is one step. `change` stands for create, restore, reset, delete
and rename. A restarted server has another secret, so old cookies die. One request per window.

**RuntimeLease.** Every look at the lease is a step apart from the link, unlink or rename that relies on
it: a registration checks (`Register`) and then renames (`RenameRecord`), a publisher that fails looks
(`Retract`) and then unlinks (`Withdraw`), and claims are removed one at a time. Records are immutable and
names of claims and temporary files are never reused, so a read of one of those and the comparison after it
are one step. Process ids are not reused.

**Desktop.** Host and data root are chosen at the start. `app[l]` is one record per launch: its startup,
shutdown and stop, three asynchronous functions that interleave. Server, worker and model runtime outlive
a main process that dies. The lease is one cell. Another program on the port is a server that never
becomes ready. Mishaps (crashes, failed forks and registrations, processes that survive TERM) are bounded.
On Windows the stop of the model runtime throws when its process tree outlives the forced `taskkill`, and
the shutdown goes on (`StopModel`, excuse `outlived`); on a Mac it waits for the exit after SIGKILL.

**Knowledge.** Every write goes to the WAL; a checkpoint happens at the last close. A document has one
vector, its content hash is unique, the order of `readdir` is free, an import is its preflight and then
its copies, and a command may die at any point. A blown budget is a mishap like any other, and so is a
command whose sqlite-vec does not load: it cannot drop the vector index and leaves it (`Outdated`), which
`skipped` remembers until it is dropped or built again. The application and the commands exclude each other
by the lease.

**Setup, Feedback, Memories.** Each store is one file or table whose writes name a revision, or do not.
Windows hold copies, have requests under way, and lose them: a lost request either never arrives, or was
served and its reply is lost (`lost` counts both); one that is served only after its window has given it up
is not modelled. Setup's five steps are three. `refused` marks a page that took over the revision of
preferences it does not show. In Memories a panel's request may be sent twice, since the approve button
stays enabled, a review that fails clears the one on the panel, and the order of updates is the order of the
list.

**Release.** Contents are the version of the source they were built from, archives are pinned or torn.
Commands come in any order, and each is as many steps as there are moments at which something beside it
can matter. `due` and `refused` follow a release that nobody disturbed; `slipped` names the five moments no
check covers (build, staging, shell, signing, bundle), after which the properties do not hold.

**ReleaseEvidence.** Commands exclude each other by the lease; a run is one case after another, and
commit, tree, model and ratings change between. Results are never edited, which the review protocol asks
of the maintainer; any choice of files may be given to prepare and to the gate. The suite has three cases
of two capabilities with thresholds two and one in place of 54 of 60 and 4 of 5; three rating sheets stand
for good, failing and flagged. One case is answered by the program itself and not by the model (`direct`). `steady` names the moments the commands read only once.

## Runs

| Run | Instance | Distinct states | Shows |
|---|---|---|---|
| `ledger` | 1 conversation, 3 turns, 2 windows | 153,311 | history, answers, timeline, receipts; implements `ChatHistory` |
| `chat` | 2 turns in 2 profiles, 3 requests, 2 failing writes, 1 crash | 116,430 | documents, operations and rows agree; profile changes always become possible again |
| `page` | 2 conversations, 2 sends, 1 failure, 1 opening, 1 rebinding | 870,131 | sending has an owner and ends; drafts put back are unanswered |
| `gate` | 2 models of one slot, a line of 2, 5 generations | 126,511 | capacity, reachability, answers for all who wait; implements `FifoGate` |
| `sql` | 1 window, 2 queries, 3 calls, 2 approvals, 1 write, 1 each of lost, failed, crashed | 815,203 | one execution per confirmation, as previewed; snapshots have owners; panels unlock |
| `registry` | 2 processes, 3 profiles, at most 2 at a time, generation 4, 1 damage | 437,236 | current reads, crashes without repair; implements `RegistryHistory` |
| `profiles` | 3 profiles, generation 6, every operation | 6,023 | storage, leftovers, bound work; implements `ProfileStore` |
| `lease` | 3 mortal launchers, one or two at a time | 3,891,600 | a holder and a registered server keep the lease, at most one claimant passes, a lease is lost only to a rival that acts on an earlier look |
| `desktop` | 2 launches, 2 mishaps, both systems and kinds | 297,870 | one registered server, the lease outlives it, quitting ends, the second launch sees the window |
| `parts` | nine parts, see below | about 1,766,000 | vault, records, profiles and releases |
| `lease_race` | 2 of 3 launchers at a time | violated | finding 1 |
| `profiles_recovery` | every operation | violated | finding 2 |

The runs that are violated are described under Findings. `parts` is one run because its nine parts share
no state: the states are the sum, not the product. Its invariants are: `VaultInv`, the index agrees with
the inbox its command read, no search uses vectors of passages that are gone unless documents changed without
sqlite-vec, a backup that counts restores, and an import of memories brings nothing twice;
`RecordsInv`, the setup dialog shows the saved step and a completion has its receipt, ratings shown are
ratings stored (and, as `UndoneOnlyAfterRefusal`, what a window saved of the preferences is undone only from the
dialog of a page that was refused for it); `ProfilesInv`, work is done where its window shows, what an interrupted change needs is in reach,
copies are whole and saved where the page says, a writer of the registry holds its lock unless it was
stolen; `ReleaseInv`, a package is verified only as its commit, an undisturbed release is not refused, and
the gate passes what was tested and reviewed.

**Why the bounds are enough.** A turn interferes with another of its conversation through the one pending
slot, and a third is needed for an answer that comes after a sweep and a new question; two windows hold
two different copies. The second request of `chat` for a turn is the one that is replayed; two failures
are what a completion and the failure it is turned into need; the second profile is where a pending turn
could be stranded. A queue object must be dropped, made again and met by a holder of the old one, which
takes five generations with a line of two. Two copies of the registry differ by one generation, so four
generations contain every order of two mutations and a recovery. Three launchers are a dead one and two
that compete. In `page` the second send and the second conversation are what a late receipt of the first
can meet, one saved and one new. In `sql` three calls are a preview, its execution and one that overlaps;
a revocation and a second approval are what makes an old confirmation dangerous. Two desktop launches are
the one that runs and the one that finds it, two mishaps a failure during the handling of a failure. In
`parts` two windows, two contents and one crash or loss are the competing pairs; five release commands are
prepare, package, make, verify and one repeated; three runs of the suite are a full one and its two
repetitions. The lock was also run with two takes and two deaths, the evidence with two changes, by hand.

`CHECK_DEADLOCK FALSE` is said where the instance ends by its bounds: every generation is used, the last
generation of the registry is reached, every launcher has ended, every call was made. Symmetry is used in
`ledger`, `registry` and `parts`, which check no liveness. `MC*` modules exist where constants need a
definition; `RuntimeLease`, `Desktop`, `ProfileLifecycle` and `ChatPage` are checked as they are.

**Fairness.**
- The gate: listeners of aborted signals run, and holders release, because `ollama.ts` does so on every exit
  of a generation, and a generation has a deadline. Users who abort are not fair.
- Chat: the deadline fires (`AbortSignal.timeout`), an aborted generation returns, its failure is recorded,
  the pages that list conversations open the database, and the sweep they run reaches rows without an
  execution. Neither answers, nor Stop, nor deletions, nor profile changes are assumed to happen. Writes
  that fail are bounded by `MaxFailures`, crashes by `MaxCrashes`.
- Page: a suspended handler goes on (`Working`): requests end in a reply or in an error. Sends are not fair.
- SQL: the server works on each call, its reply arrives or is lost, and a panel's first list is read.
- Desktop: startup and shutdown functions go on, a forked server reports or exits, a user who must quit
  does, processes sent SIGKILL die. TERM promises nothing. `loadURL` is assumed to settle.

## Proofs

`StoreProofs` (3,820 obligations) is about the two stores. Of `TurnLedger` it proves, for any sets of
conversations, turns, windows, requests, contexts and answers and any `MaxImported`, from `LedgerAssumption`
alone:

- `LedgerInvHolds`: `LedgerInv` is inductive. The properties are not inductive alone. That an answer
  follows what its window saw holds at completion because while a turn is pending its conversation does
  not move (`PendingIsCurrent`), which holds because no other turn of it can be pending (`OnePending`) and
  guarded mutations refuse. That an execution which outlives its row cannot answer a later turn of the same
  id needs `ExecutionsKnowTheirTurn`. Admission compares counts only, and that is enough because a copy is
  a prefix of a live conversation (`CopiesArePrefixes`).
- `TypeOKHolds`, `HistoryIsAnswersHolds`, `AnsweredFromSeenHolds`: its conjuncts, as theorems of `Spec`.
- `ReceiptsStandHolds`: a terminal row changes only by the one late partial of a Stop, or with its conversation.
- `ImplementsChatHistoryHolds`: the refinement of `ChatHistory`, one conversation at a time. Most steps keep a
  conversation (`Keeps`: its messages and its rows stay, and at most its open turn ends), which is a stutter or a
  withdrawal; admission, completion, import and deletion have a lemma each. That the open question of the
  abstraction is well defined is `OnePending`, that a conversation which is not live has none is `RowsHaveHomes`.

`ChatServerProofs` (2,116 obligations) proves from `ChatAssumption`, for any turns, requests, profiles and
bounds, that `ChatInv` is inductive, and so `TypeOK`, `PendingIsReachable`, `DocumentsBelong` and
`AnswersKeepDocuments`. The key lemma is `SettledKeeps`: every way an execution ends does one of two
things, saves its answer with its document or drops the document, and always gives back operation and
entry. `OwnersExecute` is needed because a duplicate request must not be able to drop the document of an
answer that was saved, `StreamsAreWhole` because a draft must not become part of one.

The same module proves from `GateAssumption`, for any generations, models and limits:

- `GateInvHolds`. A model's limit is about all of its queue objects, the code counts one. The inductive
  invariant says why that is enough: an object with a lease is the one in the map (`Object`), so all leases
  and waiters of a model are of one object; a line is of different waiters, and there is none while there is
  room.
- `ImplementsFifoGateHolds`: an object that is dropped or made has no line, so `FifoGate` sees neither. An
  abort, a hand-over and a freed slot have one shape (`Shrinks`), from which invariant and refinement follow.

`ChatPageProofs` (3,693 obligations) proves from `PageConstants`, for any conversations, any number of sends,
reopenings, rebindings and failing requests, with and without an impatient user:

- `PageInvHolds`. The invariant is not inductive by itself. `PageIInv` says what every handler carries over
  its awaits and why that is still true after them (`Memory`: the server as the handlers remember it; `Types`),
  and, as long as nobody was overtaken, who has the one slot of the page: a send, an adopted turn, or a Stop
  of this epoch, and what each may display (`Slot`). Handlers of an earlier epoch change nothing that is
  displayed, which is what the comparisons after each await are for.
- `DraftsAreUnansweredHolds`: without any exception. A turn whose text comes back was never claimed and its
  send is over, or it has ended without an answer.
- `PageRemembers`: the part of the invariant about what the page knows of the server.

`ProfileRegistryProofs` (1,058 obligations) proves from `RegistryAssumption` and `NoneIsNoSnapshot`, for any
processes, profiles, names and any number of mutations and damages:

- `RegistryInvHolds`. The inductive invariant says where the two files stand to the newest snapshot and the
  one before (`Copies`: one of them is readable, the recovery copy is at most one mutation behind), what the
  owner of the lock is about to write (`Promised`), and that what anybody remembers is of the past
  (`Remembers`), without which a generation would not name one snapshot.
- `ReadsAreCurrentHolds`: needs `Finds`, what a reader that is between its two reads would find now.
- `ImplementsRegistryHistoryHolds`: the refinement. Writes before the rename of the primary are stutters, the
  rename is the mutation, and damage takes the history back by one mutation at most.

Of `ProfileLifecycle`, `StoreProofs` proves, for any profiles and any bound on the generation, under
`LifecycleAssumption` and `Staleness = 0` (see Left out):

- `LifecycleInvHolds`, `WorkStaysHomeHolds`. The inductive invariant ties the journal to the registry
  (`JournalAgrees`), says what the trees of its profile may be wherever a call stopped (`Evidence`), that all
  other profiles are clean (`OthersClean`), and that what a running call still has to write finds the trees as
  it needs them (`CallFollows`, `Ready`). The scripts of an operation and of its recovery are written out, so
  each write is one case.
- `KeptUntilCommittedHolds`: no step before the registry took a reset or a deletion destroys what the profile
  held, and `ImplementsProfileStoreHolds`: the registration is the one step the abstract store sees.

`RuntimeProofs` (1,938 obligations) proves from `LeaseAssumption`, for any launchers and any mortality:

- `LeaseInvHolds`, from `InspectedIsOwnOrRetired` (what a reclaimer inspected belongs to nobody who could
  come back) and `ClaimantsDiffer`; for launches nobody competes with, from `Alone`.
- `LostOnlyToPassedCheckHolds`: however many launchers compete, a holder loses its lease only to a rival that
  acts on an earlier look: one that had passed its check of another record, one that had published, found its
  record and failed, or one that had found its own lease and registers its server. The second and third have
  lost their own lease before. This bounds findings 1 and 14 for every number of launchers.
- `ServerKeepsLeaseHolds`: for launches nobody competes with, a registered server keeps the lease.

and from `DesktopAssumption`, for any number of launches and mishaps:

- `DesktopInvHolds`, `NothingLeftRunningHolds`: what a startup has is what its place in the code says
  (`StartupHas`), a server is told to stop once (`StopsOnce`), and what each stage of the stop and of the
  close has reached (`StopReaches`, `ClosesWhole`). The last two are needed because `stopRuntime` may find a
  startup that failed at any of its awaits. The second theorem excuses what the code lets live: what could not
  be killed in the time given, on Windows the model runtime among it, the model runtime of a launch that
  failed to be composed, and what a second quit cuts short.
- `LeaseOutlivesServerHolds`: an action property, from the same invariant.

`SqlAnalysisProofs` (2,269 obligations) proves from `SqlConstants` and `NoneIsNoRecord`, for any windows,
queries and contents and any bounds, also for the several windows the run has no room for:

- `SqlInvHolds`, `RunsAsPreviewedHolds`. The inductive invariant adds that an approval which was given up
  never comes back (`Older`), that a confirmation is of an answered preview, which makes no second one, and
  is used by one execution (`Previewed`, `UsedOnce`), and what a panel that still listens may be told
  (`Listens`). Without the last, a late reply could show a panel the preview of another query. The proof is
  in two halves: what any step does to the calls, the confirmations and the snapshots has one of a few shapes
  (`StepShape`), and so has what it does to file, approval and context (`WorldStep`); the parts of the
  invariant are kept by shapes, not by actions.
- `SavesOverSeenHolds`: an action property. An editor knows the newest context of its approval or an earlier
  one (`Sound`), so equal revisions mean the same save.

`PartsProofs` (3,963 obligations) proves `ProfilesInvHolds`, `RecordsInvHolds` and
`UndoneOnlyAfterRefusalHolds`, from the assumption that `MCParts` names for each part. A step of `parts` is
one of the part that is followed, so each part has an invariant of its own, and TLC checked the five on the
run before they were proved:

- Copies (`TransferIInv`), for any files and number of edits: whatever is in a tree, or was taken of it, was
  there in the time the copy looks at (`Observed`), and a save is told of only as long as no newer copy is made.
- Access (`AccessIInv`), for any windows, profiles and generations: what a document, its view and its request
  under way know of each other, why a window's binding is current when the registry moved (the desktop
  application has one window, and unless an answer was lost whatever moves the binding is its own), and that a
  change of the registry and bound work exclude each other.
- The registry's lock (`LockIInv`), for any processes: the arguments of `RuntimeLease`, with the temporary
  names of dead publishers, and for calls that do not overlap what the one that works finds at each step
  (`Alone`), which is what makes the link count of a stripped lock the right one.
- Setup and preferences (`SetupIInv`), for any windows, values, steps and losses: every copy a window holds is
  of the past of its store (`CopyOf`), a dialog shows what the user did not touch as its page has it
  (`DialogOK`), and so a request at the current revision carries it unchanged (`Untouched`), unless it is sent
  from the dialog of a page that was refused. `UndoneOnlyAfterRefusalHolds` follows without an assumption about
  what users do; finding 8 is the case it leaves.
- Ratings (`FeedbackIInv`), for any turns, ratings, reads, openings and failures: a rating under way knows what
  is stored before and after it (`KnowsStored`), and a turn that is not shown has a read on its way which also
  comes after every read that would hide it (`Arrives`). That is why a read may be dropped by its number alone.

`ReleaseProofs` (3,298 obligations) proves `ReleaseInvHolds`, from `ReleaseAssumption` and
`EvidenceAssumption` of `MCParts`, for any commits, commands, disturbances, suites, thresholds and runs:

- The packaging commands (`ReleaseIInv`). Whatever a command holds or left behind was built from the commit its
  manifest names, but for the moments that slipped (`Traced`, and `Building`, `Staged`, `Packaging` and
  `Shipping` for what is on its way between two steps), and each step of verify adds one of the facts a
  verified package has (`OnWindows`, `OnMac`). For a release that nothing disturbed, `Undisturbed` says of each
  command what it finds, which is why none of its checks refuses.
- The gate (`EvidenceIInv`). A run that stood still has the commit it loaded and the model it measured in every
  answer (`Runs`), and only reviews of complete runs are filed, with the verdict of the sheet that was scored
  (`Filed`). The gate judges the results again, so that is all it needs to know of them.

What stays with TLC. Liveness under fairness is out of the reach of TLAPS: `WaitersAreAnswered`,
`ProfileChangesResume`, `Unlocks`, `PanelUnlocks`, `QuitEnds`, `SecondLaunchSeesWindow`. So is
`TimelineShowsHistory`: what flattening, sorting and selecting make of a history is induction over data. So
is `VaultInv` of `parts`: the index and the memories are sequences that are filtered, folded and sorted by
recursive library operators. These two are the only invariants that no theorem states.

## Findings

Refuted by a run:

1. **A live lease can be unlinked** (`lease_race`, `lib/runtime-lease.ts:305`). The comment at lines 266-269
   argues with the link count that no other pathname than the inspected one is unlinked. Another launcher may
   remove the claim after the count was taken, reclaim, and publish its own lease, which is then removed.
   `LostOnlyToPassedCheck` bounds the damage; finding 14 is what may follow from it. The lock of the registry has the same code
   (`lib/profile-registry.ts:728`).
2. **Three journals no Recovery accepts** (`profiles_recovery`): a crash in the rollback of a reset or a
   deletion (`lib/profile-lifecycle.ts:436`), a crash between making a restore stage and sealing it
   (`lib/profile-backup.ts:399`), a failing rename in Default setup (`lib/profile-migration.ts:281`).

Refuted by a configuration that is kept beside the runs (see Running):

3. **A registry lock is left behind by its living owner** (`lib/profile-registry.ts:578`): `RegistryLockLeft.cfg`.
4. **Recovery is not offered to the window that needs it** (`app/components/profile-manager.tsx:137`):
   `ProfileAccessRecovery.cfg`.
5. **A backup of a restored profile cannot be restored** (`lib/profile-backup.ts:67`): `ProfileTransferRestore.cfg`.
6. **A memory import does what was not reviewed** (`lib/memories.ts:397`): `MCMemories.cfg`.
7. **The desktop shell is in no manifest** between compile and package
   (`lib/desktop-staged-resource-integrity.ts:30`): `ReleaseShell.cfg`.
8. **A second Save of preferences undoes another window's** (`app/page.tsx:2134`): `SetupRetry.cfg`.
9. **Send is possible while a turn's state is unknown** (`app/page.tsx:901`): `ChatPageStop.cfg`.
10. **A context revision is met again after a new approval** (`lib/dataset-semantic-contexts.ts:143`):
    `MCSqlContext.cfg`.
11. **A model pulled during an evaluation is recorded under the digest read before**
    (`scripts/evaluate-conversation.ts:83`): `AnswersAreOfModel` of `MCParts`.
12. **A Stop that ends late takes the slot from the next send** (`app/page.tsx:1892`): `StartsKeepTheSlot` of
    `ChatPage`, in ten steps. Found by the proof of `PageInv`, which is false without the exception: two sends
    at once can then display turns of two conversations in one.
13. **A failed opening leaves a spinner nobody follows** (`app/page.tsx:948`): `PageInv` without
    `t \in page.left` in `Followed`, with `MaxFailures = 2`.
14. **A registration or a failed publish removes another's live lease** (`lib/runtime-lease.ts:416`, 352): between
    the look and the rename or unlink a reclaimer (finding 1) puts its own in the place: `TouchesOnlyOwn` of
    `RuntimeLease`.
15. **A search answers from stale vectors** (`lib/knowledge.ts:362`, 285, 265) after documents were replaced by a
    command whose sqlite-vec did not load, by as many passages as before: `SearchesStayCurrent` of `MCParts`.

Read in the code while modelling and not checked:

- Knowledge: the ingest an import in the application starts is refused by the lease the application holds
  (`scripts/ingest-knowledge.ts:85`, `lib/knowledge.ts:324`). Renaming one indexed file over another violates
  `UNIQUE(path)` at each later run (`lib/knowledge.ts:244`). The vector index is not built by the first search, as
  the comment at `lib/knowledge.ts:519` says, though the README of the repository says it is.
- Desktop: when the root process exits by itself its descendants are not stopped before the lease is released
  (`process-supervisor.ts:214-223`). A second quit during the shutdown returns without `preventDefault`
  (`main.ts:346-347`).
- Release: an edit undone during a build passes; evidence is published before the last look at what it is
  about (`verify-windows-msix.ts:136-146`); evidence of an earlier build is not removed by prepare.
- Conversation gate: preparing a packet again blanks finished ratings; rating it again leaves the older score
  valid.
- Access: with tombstones left and no journal both Recovery endpoints answer 409; a late answer of an earlier
  Recovery sets the cookie back.
- Backup: references with names above 120 characters, and files with non-ASCII names, are refused.
- Memories: creating is not idempotent when its reply is lost; an update carries no revision.

## Left out, and known limits

- A crash leaves the directory of a document that was being made; nothing sweeps it. `DocumentsBelong` exempts
  turns whose execution died in a crash (`lost`). Deleting several documents at once, half-way failures of
  moving them, and rendering are not modelled.
- After a damaged primary and an explicit recovery the next mutation reuses a generation number, so
  `GenerationNamesSnapshot` is stated for an undamaged registry. A reader may also be told `recovery` as
  source when two writes fall between its two reads; the snapshot is still a current one. After two damages
  with a Recovery between them a reader may find neither copy and report an empty registry, so
  `ReadsAreCurrent` speaks of at most one damage.
- A lifecycle request whose body names another generation than its session header passes the route. The page
  always sends both alike, so `Staleness` is 0 in the configurations and in the theorems. With 1, a reset of
  one generation behind makes Recovery take the registry for committed and purge the tombstone.
- The server is spawned before it is registered in the lease; `ServerKeepsLease` speaks of registered ones.
- Conversation store: search, pinning, renaming, export and schema upgrades are not modelled. Page: typing,
  deletion, pins and imports are not.
- SQL: text and results, more than one window in the run, `recordDatasetSemanticUsage`.
- Desktop: session guards, file pickers and their bookmarks, the diagnostics of the model runtime.
- Knowledge: ranking, briefs, doctor, updates from sources. Setup: palette, welcome mode, pickers, downloads.
- Access: a damaged registry; more than one desktop window. Copies: size limits and store schemas, which are
  reduced to whole or torn; permissions, symbolic links and the durability of directory entries.
- Release: what certificates, licenses and archive fields contain is good or bad. Gate: how an answer is
  scored, who reviews, fingerprints of the host, baselines.
- Planners, answer checks, routing and prompt assembly are pure functions of natural language: a small domain
  would say nothing about them. Repositories, expert packs and projects write one file in one piece;
  `ContextDrifts` of `TurnLedger` has what the chat can notice of them.

## Running

    tlc -workers 4 -config MCTurnLedger.cfg MCTurnLedger.tla
    tlc -workers 4 -config MCParts.cfg MCParts.tla
    tlapm StoreProofs.tla
    tlapm ChatServerProofs.tla
    tlapm ChatPageProofs.tla
    tlapm ProfileRegistryProofs.tla
    tlapm RuntimeProofs.tla
    tlapm SqlAnalysisProofs.tla
    tlapm PartsProofs.tla
    tlapm ReleaseProofs.tla

The configurations of findings 3 to 10 check one property each, on the module alone, and are expected to
find it violated:

    tlc -config RegistryLockLeft.cfg RegistryLock          # GivenBack
    tlc -config ProfileAccessRecovery.cfg ProfileAccess    # RecoveryIsOffered
    tlc -config ProfileTransferRestore.cfg ProfileTransfer # EveryBackupRestores
    tlc -config MCMemories.cfg MCMemories                  # OnlyReviewedIsImported
    tlc -config ReleaseShell.cfg Release                   # ShellIsOfCommit
    tlc -config SetupRetry.cfg Setup                       # SavesUndoNothing
    tlc -config ChatPageStop.cfg ChatPage                  # UnknownBlocksSend
    tlc -config MCSqlContext.cfg MCSqlAnalysis             # ContextSavesAreSeen

For findings 11 and 15 give `MCParts.cfg` the invariant `AnswersAreOfModel` or `SearchesStayCurrent` in place of
its own, for finding 12 `ChatPage.cfg` the invariant `StartsKeepTheSlot`, and for finding 14
`RuntimeLeaseRace.cfg` the property `TouchesOnlyOwn`.
