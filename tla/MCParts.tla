------------------------------- MODULE MCParts -------------------------------
(* The parts of the program that share no state with one another: a        *)
(* behaviour follows one of them, named by part, and the others are        *)
(* absent.  The names u and v serve as windows, paths, turns and processes, *)
(* x and y as values, ratings and profiles, and f and g as documents and   *)
(* as files of a profile, since the parts never meet.                      *)
EXTENDS Knowledge

CONSTANTS
    u, v, w, x, y, f, g, s,
    Windows, Values, Ready, MaxWrites, MaxLost,
    Turns, Ratings, MaxRatings, MaxReads, MaxOpens, MaxFailures, Unrated, NoRow,
    c1, c2, Commits, Edited, Altered, MaxCommands, MaxDisturbances,
    MaxGeneration, MaxAccidents,
    Absent, Malformed, Torn, Another, MaxChanges, MaxCopies, MaxCrashes, TreeFiles, TreeStores,
    MaxMemories, MaxCalls,
    Processes, Rivalry, MaxTakes, MaxDeaths,
    Suite, Sheets, MinimumPasses, CapabilityPasses, Repeats, MaxRuns

VARIABLES
    part,
    progress, prefs, model, page, wizard, dialog, call, lost,
    stored, ui, saving, reads, opening, excused, spent,
    target, wanted, head, files, cache, shell, staged, app, mapping, pkg, evidence,
    command, touched, due, refused, slipped, commands, disturbances,
    desktop, registry, journal, linkUsed, cookie, document, request, missed, accidents,
    home, adopted, copy, backup, fresh, saveAs, foreign, temporary, had, told, edits, copies, crashes,
    store, made, typed, panel, calls, sent,
    lock, claim, temp, at, own, seen, glance, alive, rivals, stolen,
    tested, tree, digest, run, results, ratings, reviews, deciding, released, changes, faults

(* What a copy of a tree may meet is told apart from the contents of files. *)
ASSUME TransferAssumption ==
    /\ MaxChanges \in Nat
    /\ Absent # Malformed /\ Torn # Malformed /\ Torn # Absent
    /\ {Absent, Malformed, Torn} \cap Nat = {}
    /\ None # Another /\ None \notin TreeFiles

brief == "brief"
long == "long"
plain == "plain"
MCTexts == {brief, long, plain}
MCSubject == [t \in MCTexts |-> IF t = plain THEN None ELSE "length"]
Item(source, text, kind) == [source |-> source, text |-> text, kind |-> kind]
MCImports == {<<Item(9, brief, "fact"), Item(8, plain, "fact")>>,
              <<Item(1, plain, "preference"), Item(9, long, "fact")>>}
Case(n, capability, critical, direct) ==
    [id |-> n, capability |-> capability, critical |-> critical, direct |-> direct]
MCSuite == <<Case(1, "use", FALSE, FALSE), Case(2, "use", FALSE, TRUE), Case(3, "trust", TRUE, FALSE)>>
Sheet(rating, flagged) == [rating |-> rating, flagged |-> flagged]
MCSheets == {Sheet(<<3, 5, 4, 4>>, FALSE), Sheet(<<5, 3, 5, 5>>, FALSE), Sheet(<<5, 4, 4, 4>>, TRUE)}

S == INSTANCE Setup
F == INSTANCE Feedback
R == INSTANCE Release WITH job <- command, mishaps <- disturbances, MaxMishaps <- MaxDisturbances
A == INSTANCE ProfileAccess WITH Profiles <- Values, page <- document, call <- request, lost <- missed,
         mishaps <- accidents, MaxMishaps <- MaxAccidents
T == INSTANCE ProfileTransfer WITH job <- copy, target <- saveAs, MaxEdits <- MaxChanges,
         Files <- TreeFiles, Stores <- TreeStores
L == INSTANCE RegistryLock
M == INSTANCE Memories WITH Windows <- {w}, Texts <- MCTexts, Kinds <- {"fact", "preference"},
         Subject <- MCSubject, Exports <- MCImports
E == INSTANCE ReleaseEvidence WITH Models <- Values, MaxChanges <- MaxDisturbances,
         MaxFaults <- MaxCrashes, head <- tested, model <- digest

(* What windows hold and send is told apart from nothing.                  *)
ASSUME AccessAssumption ==
    /\ MaxGeneration \in Nat \ {0} /\ MaxAccidents \in Nat
    /\ A!Legacy \notin Values
    /\ None \notin A!Binding \cup A!Views \cup A!Calls

(* Processes are counted, and told apart from nobody.                      *)
ASSUME LockAssumption ==
    IsFiniteSet(Processes) /\ None \notin Processes /\ MaxTakes \in Nat

(* A setup has at least the steps you, model and the last.                 *)
ASSUME SetupAssumption ==
    /\ Ready \in Nat /\ Ready >= 3 /\ MaxWrites \in Nat
    /\ None \notin Values \cup S!Wizards \cup S!Dialogs \cup S!Calls

(* A rating under way, and a turn without a row, are told apart from the rest. *)
ASSUME FeedbackAssumption ==
    NoRow \notin F!Shown /\ None \notin F!Savings

(* A critical case is answered in so many runs beside the complete one.    *)
ASSUME EvidenceAssumption == Repeats \in Nat

(* What is built is told apart from nothing and from what is spoilt.       *)
ASSUME ReleaseAssumption ==
    /\ Altered \notin Commits \cup {Edited, "raw", "hardened"}
    /\ None \notin R!Manifests \cup R!Stages \cup R!Apps \cup R!Packages \cup R!Builds
    /\ None \notin R!PrepareSteps \cup R!PackageSteps \cup R!MakeSteps \cup R!VerifySteps
    /\ None \notin R!InstallerFlaws \cup R!MsixFlaws \cup DOMAIN R!FirstStep \cup {"pinned"}

setupState == <<progress, prefs, model, page, wizard, dialog, call, lost>>
feedbackState == <<stored, ui, saving, reads, opening, excused, spent>>
releaseState == <<target, wanted, head, files, cache, shell, staged, app, mapping, pkg, evidence,
                  command, touched, due, refused, slipped, commands, disturbances>>
accessState == <<desktop, registry, journal, linkUsed, cookie, document, request, missed, accidents>>
transferState == <<home, adopted, copy, backup, fresh, saveAs, foreign, temporary, had, told, edits, copies, crashes>>
memoryState == <<store, made, typed, panel, calls, sent>>
recordsState == <<setupState, feedbackState, memoryState>>
lockState == <<lock, claim, temp, at, own, seen, glance, alive, rivals, stolen>>
evidenceState == <<tested, tree, digest, run, results, ratings, reviews, deciding, released, changes, faults>>
releasesState == <<releaseState, evidenceState>>
profilesState == <<accessState, transferState, lockState>>

MCExtracted == (f :> "full") @@ (g :> "short") @@ (s :> "none")
Alike == Permutations({u, v}) \cup Permutations({x, y})

(* A part that is not followed is absent: its variables are None.          *)
NoKnowledge ==
    /\ inbox = None /\ file = None /\ backups = None /\ holder = None
    /\ job = None /\ bounds = None
NoSetup ==
    /\ progress = None /\ prefs = None /\ model = None /\ page = None
    /\ wizard = None /\ dialog = None /\ call = None /\ lost = None
NoFeedback ==
    /\ stored = None /\ ui = None /\ saving = None /\ reads = None
    /\ opening = None /\ excused = None /\ spent = None
NoMemories ==
    /\ store = None /\ made = None /\ typed = None /\ panel = None
    /\ calls = None /\ sent = None
NoAccess ==
    /\ desktop = None /\ registry = None /\ journal = None /\ linkUsed = None
    /\ cookie = None /\ document = None /\ request = None /\ missed = None
    /\ accidents = None
NoTransfer ==
    /\ home = None /\ adopted = None /\ copy = None /\ backup = None
    /\ fresh = None /\ saveAs = None /\ foreign = None /\ temporary = None
    /\ had = None /\ told = None /\ edits = None /\ copies = None
    /\ crashes = None
NoLocking ==
    /\ lock = None /\ claim = None /\ temp = None /\ at = None /\ own = None
    /\ seen = None /\ glance = None /\ alive = None /\ rivals = None
    /\ stolen = None
NoEvidence ==
    /\ tested = None /\ tree = None /\ digest = None /\ run = None
    /\ results = None /\ ratings = None /\ reviews = None /\ deciding = None
    /\ released = None /\ changes = None /\ faults = None
NoRelease ==
    /\ target = None /\ wanted = None /\ head = None /\ files = None
    /\ cache = None /\ shell = None /\ staged = None /\ app = None
    /\ mapping = None /\ pkg = None /\ evidence = None /\ command = None
    /\ touched = None /\ due = None /\ refused = None /\ slipped = None
    /\ commands = None /\ disturbances = None

(* A pending setup is an available one without its invitation: the run     *)
(* starts from the second, and from a setup left at the model step, which  *)
(* leads to the others.  The release is of c1, and c2 is another commit. *)
PartsInit ==
    /\ part \in {"knowledge", "setup", "feedback", "memories", "access", "transfer", "lock", "release", "evidence"}
    /\ \/ part = "knowledge" /\ Init
       \/ part # "knowledge" /\ NoKnowledge
    /\ \/ part = "setup" /\ S!SetupInit /\ progress.status # "pending"
                            /\ (progress.status = "available" \/ progress.step = 2)
       \/ part # "setup" /\ NoSetup
    /\ \/ part = "feedback" /\ F!FeedbackInit
       \/ part # "feedback" /\ NoFeedback
    /\ \/ part = "memories" /\ M!MemoriesInit
       \/ part # "memories" /\ NoMemories
    /\ \/ part = "access" /\ A!AccessInit
       \/ part # "access" /\ NoAccess
    /\ \/ part = "transfer" /\ T!TransferInit
       \/ part # "transfer" /\ NoTransfer
    /\ \/ part = "lock" /\ L!LockInit
       \/ part # "lock" /\ NoLocking
    /\ \/ part = "release" /\ R!ReleaseInit /\ wanted = c1
       \/ part # "release" /\ NoRelease
    /\ \/ part = "evidence" /\ E!EvidenceInit /\ tested = c1
       \/ part # "evidence" /\ NoEvidence

PartsNext ==
    \/ /\ part = "knowledge" /\ KnowledgeNext
       /\ UNCHANGED <<part, recordsState, profilesState, releasesState>>
    \/ /\ part = "setup" /\ S!SetupNext
       /\ UNCHANGED <<part, knowledgeVars, feedbackState, memoryState, profilesState, releasesState>>
    \/ /\ part = "feedback" /\ F!FeedbackNext
       /\ UNCHANGED <<part, knowledgeVars, setupState, memoryState, profilesState, releasesState>>
    \/ /\ part = "memories" /\ M!MemoriesNext
       /\ UNCHANGED <<part, knowledgeVars, setupState, feedbackState, profilesState, releasesState>>
    \/ /\ part = "access" /\ A!AccessNext
       /\ UNCHANGED <<part, knowledgeVars, recordsState, transferState, lockState, releasesState>>
    \/ /\ part = "transfer" /\ T!TransferNext
       /\ UNCHANGED <<part, knowledgeVars, recordsState, accessState, lockState, releasesState>>
    \/ /\ part = "lock" /\ L!LockNext
       /\ UNCHANGED <<part, knowledgeVars, recordsState, accessState, transferState, releasesState>>
    \/ /\ part = "release" /\ R!ReleaseNext
       /\ UNCHANGED <<part, knowledgeVars, recordsState, profilesState, evidenceState>>
    \/ /\ part = "evidence" /\ E!EvidenceNext
       /\ UNCHANGED <<part, knowledgeVars, recordsState, profilesState, releaseState>>

partsVars == <<part, knowledgeVars, recordsState, profilesState, releasesState>>

PartsSpec == PartsInit /\ [][PartsNext]_partsVars

(* Knowledge: the index is consistent with what its commands read, and a   *)
(* backup that counts can be restored.                                     *)
(* Memories: an import brings nothing twice, however often it is sent.     *)
VaultInv ==
    /\ part = "knowledge" => KnowledgeInv
    /\ part = "memories" => M!MemoriesInv

(* Setup: a dialog shows the saved step, and a completion has its receipt. *)
(* Feedback: once all has arrived the page shows what is stored.           *)
RecordsInv ==
    /\ part = "setup" => S!SetupInv
    /\ part = "feedback" => F!FeedbackInv

(* Setup: what another window saved is undone only by the dialog of a page *)
(* that was refused for it.                                                *)
UndoneOnlyAfterRefusal == [][part = "setup" => S!UndoesOnlyRefused]_prefs

(* Access: work is done in the profile its window shows, and what an       *)
(* interrupted change needs stays within reach.                            *)
(* Transfer: copies of a profile are whole, restored ones exact, and saved *)
(* ones where the page says.                                               *)
(* Lock: who changes the registry holds its lock, unless it was stolen at  *)
(* the one moment the protocol leaves open, and a lone caller returns it.  *)
ProfilesInv ==
    /\ part = "access" => A!AccessInv
    /\ part = "transfer" => T!TransferInv
    /\ part = "lock" => L!LockInv

(* Release: a package is verified only as the commit it was built from,    *)
(* and an undisturbed release of a clean commit is never refused.          *)
(* Evidence: the gate passes what was tested and reviewed, and only that.  *)
ReleaseInv ==
    /\ part = "release" => R!ReleaseInv
    /\ part = "evidence" => E!EvidenceInv

(* Knowledge: no search uses vectors of passages the index has not;        *)
(* refuted by a document replaced without sqlite-vec.                      *)
SearchesStayCurrent == part = "knowledge" => VectorsNeverStale

(* Evidence: each answer the gate relies on is of the model it names, as   *)
(* the review protocol says; refuted by a model pulled during a run.       *)
AnswersAreOfModel == part = "evidence" => E!AnswersAreOfModel
=============================================================================
