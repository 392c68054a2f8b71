------------------------------- MODULE Release -------------------------------
(* The release pipeline: prepare binds a clean commit and stages what it    *)
(* builds, package copies the stage into an application and seals it, make  *)
(* wraps the application, verify publishes the evidence of what was         *)
(* shipped.  The commands are run by hand or by CI, in any order, while     *)
(* files, checkouts and outputs may change under them and any step may die. *)
(* A content is the version of the source it was built from.                *)
EXTENDS Naturals, FiniteSets

CONSTANTS
    Commits, Edited, Altered, None,  \* versions of the source, and spoilt bytes
    MaxCommands, MaxMishaps          \* bounds on commands run, and on mishaps

VARIABLES
    target,     \* "windows" (MSIX), "mas" (App Store) or "adhoc" (a Mac build)
    wanted,     \* RANGABOT_EXPECTED_SOURCE_SHA
    head,       \* the commit checked out
    files,      \* what the working files hold
    cache,      \* the archives of electron and of the model runtime
    shell,      \* desktop/out/electron-app, the compiled main process
    staged,     \* packaged-resources: what was built, and its manifest
    app,        \* the packaged application
    mapping,    \* whether AppxMapping.txt lies in the output directory
    pkg,        \* the MSIX or the installer package
    evidence,   \* the evidence files under desktop/out
    job,        \* the command that runs, its step and what it remembers
    touched,    \* what others changed since the command took its snapshots
    due,        \* the command due in an undisturbed release, None once disturbed
    refused,    \* the last command ended in a refusal
    slipped,    \* the moments at which a change goes unseen (see Slips)
    commands, mishaps

sourceVars == <<target, wanted, head, files, cache>>
outputVars == <<shell, staged, app, mapping, pkg, evidence>>
releaseVars == <<sourceVars, outputVars, job, touched, due, refused, slipped, commands, mishaps>>

Versions == Commits \cup {Edited}
Idle == [command |-> None, step |-> None, note |-> None]
Mac == target # "windows"
Clean == files = head

Commands == IF target = "adhoc" THEN {"prepare", "package"} ELSE {"prepare", "package", "make", "verify"}
FirstStep == [prepare |-> "bind", package |-> "copy", make |-> "preflight", verify |-> "open"]
Successor == [prepare |-> "package", package |-> "make", make |-> "verify", verify |-> None]

ReleaseInit ==
    /\ target \in {"windows", "mas", "adhoc"}
    /\ wanted \in Commits /\ head = wanted /\ files = wanted
    /\ cache = [archive \in {"electron", "runtime"} |-> None]
    /\ shell = None /\ staged = None /\ app = None /\ mapping = FALSE /\ pkg = None
    /\ evidence = [artifact |-> None, build |-> None, package |-> None]
    /\ job = Idle /\ touched = {} /\ due = None /\ refused = FALSE /\ slipped = {}
    /\ commands = 0 /\ mishaps = 0

-----------------------------------------------------------------------------
(* The script.                                                             *)

At(step) == job.step = step
Remember(step, note) == job' = [job EXCEPT !.step = step, !.note = note] /\ UNCHANGED <<due, refused>>
Continue(step) == Remember(step, job.note)
Finish == job' = Idle /\ due' = (IF due = None THEN None ELSE Successor[job.command]) /\ UNCHANGED refused
Refuse == job' = Idle /\ refused' = TRUE /\ UNCHANGED due
Ledger == <<touched, slipped, commands, mishaps>>

Start(command) ==
    /\ job = Idle /\ commands < MaxCommands /\ command \in Commands
    /\ job' = [command |-> command, step |-> FirstStep[command], note |-> None]
    /\ due' = IF command = "prepare"
              THEN IF Clean /\ head = wanted THEN command ELSE None
              ELSE IF due = command THEN due ELSE None
    /\ refused' = FALSE /\ commands' = commands + 1
    /\ UNCHANGED <<sourceVars, outputVars, touched, slipped, mishaps>>

-----------------------------------------------------------------------------
(* prepare-desktop.ts: the source before and after, with the build between. *)

BindSource ==
    /\ At("bind")
    /\ IF Clean THEN Remember("zip", [head |-> head, ui |-> None]) ELSE Refuse
    /\ UNCHANGED <<sourceVars, outputVars, Ledger>>

(* A cached archive that is not the pinned one is fetched again.           *)
Fetched(archive) == cache' = [cache EXCEPT ![archive] = "pinned"]

FetchElectron ==
    /\ At("zip") /\ Fetched("electron") /\ Continue("clear")
    /\ UNCHANGED <<target, wanted, head, files, outputVars, Ledger>>

ClearOutputs ==
    /\ At("clear")
    /\ staged' = None /\ app' = None
    /\ mapping' = (mapping /\ Mac)
    /\ pkg' = IF Mac THEN pkg ELSE None
    /\ Continue("build")
    /\ UNCHANGED <<sourceVars, shell, evidence, Ledger>>

BuildStandalone ==
    /\ At("build")
    /\ Remember("compile", [job.note EXCEPT !.ui = files])
    /\ UNCHANGED <<sourceVars, outputVars, Ledger>>

CompileShell ==
    /\ At("compile") /\ shell' = files /\ Continue("stage")
    /\ UNCHANGED <<sourceVars, staged, app, mapping, pkg, evidence, Ledger>>

StageResources ==
    /\ At("stage")
    /\ Fetched("runtime")
    /\ staged' = [ui |-> job.note.ui, manifest |-> None]
    /\ Continue("collect")
    /\ UNCHANGED <<target, wanted, head, files, shell, app, mapping, pkg, evidence, Ledger>>

CollectStaged ==
    /\ At("collect")
    /\ Remember("confirm", [job.note EXCEPT !.ui = staged.ui])
    /\ UNCHANGED <<sourceVars, outputVars, Ledger>>

StagedManifest(commit, ui) ==
    [commit |-> commit, ui |-> ui, shell |-> None, bundle |-> None, signed |-> FALSE, final |-> FALSE]

ConfirmSource ==
    /\ At("confirm")
    /\ IF Clean /\ head = job.note.head
       THEN staged' = [staged EXCEPT !.manifest = StagedManifest(head, job.note.ui)] /\ Finish
       ELSE Refuse /\ UNCHANGED staged
    /\ UNCHANGED <<sourceVars, shell, app, mapping, pkg, evidence, Ledger>>

-----------------------------------------------------------------------------
(* What an application holds, and the checks of desktop-artifact-identity. *)

Collected(a) == [ui |-> a.ui, shell |-> a.shell, bundle |-> a.bundle, signed |-> a.signed]
Bound(m) == [ui |-> m.ui, shell |-> m.shell, bundle |-> m.bundle, signed |-> m.signed]
FusesHold(a) == a.bundle # "raw"
Identified(a) == a.manifest # None /\ a.manifest.final /\ Bound(a.manifest) = Collected(a)
SealHolds(a) == a.sealed = [contents |-> Collected(a), manifest |-> a.manifest]

CopiedAsStaged(a) == a.manifest # None /\ ~a.manifest.final /\ a.manifest.ui = a.ui

-----------------------------------------------------------------------------
(* forge and finalize-desktop-package.ts.                                  *)

CopyStaged ==
    /\ At("copy")
    /\ IF staged = None THEN Refuse /\ UNCHANGED app
       ELSE /\ app' = [ui |-> staged.ui, shell |-> shell,
                       bundle |-> IF cache["electron"] = "pinned" THEN "raw" ELSE Altered,
                       signed |-> FALSE, sealed |-> None, manifest |-> staged.manifest]
            /\ Continue("harden")
    /\ UNCHANGED <<sourceVars, shell, staged, mapping, pkg, evidence, Ledger>>

(* Variant: the fuses are left as Electron ships them.                     *)
HardenNothing ==
    /\ At("harden") /\ Continue("reconcile")
    /\ UNCHANGED <<sourceVars, outputVars, Ledger>>

Harden ==
    /\ At("harden")
    /\ app' = [app EXCEPT !.bundle = IF @ = "raw" THEN "hardened" ELSE @]
    /\ Continue("reconcile")
    /\ UNCHANGED <<sourceVars, shell, staged, mapping, pkg, evidence, Ledger>>

Reconcile ==
    /\ At("reconcile")
    /\ IF CopiedAsStaged(app) /\ FusesHold(app) THEN Remember("recheck", Collected(app)) ELSE Refuse
    /\ UNCHANGED <<sourceVars, outputVars, Ledger>>

Recheck ==
    /\ At("recheck")
    /\ IF ~CopiedAsStaged(app) THEN Refuse
       ELSE IF Mac THEN Continue("sign")
       ELSE Remember("write", [Collected(app) EXCEPT !.bundle = job.note.bundle])
    /\ UNCHANGED <<sourceVars, outputVars, Ledger>>

SignNested ==
    /\ At("sign")
    /\ app' = [app EXCEPT !.signed = TRUE]
    /\ Continue("gather")
    /\ UNCHANGED <<sourceVars, shell, staged, mapping, pkg, evidence, Ledger>>

GatherSigned ==
    /\ At("gather")
    /\ IF FusesHold(app) THEN Remember("write", Collected(app)) ELSE Refuse
    /\ UNCHANGED <<sourceVars, outputVars, Ledger>>

WriteManifest ==
    /\ At("write")
    /\ LET n == job.note IN
       app' = [app EXCEPT !.manifest = [commit |-> app.manifest.commit, ui |-> n.ui, shell |-> n.shell,
                                        bundle |-> n.bundle, signed |-> n.signed, final |-> TRUE]]
    /\ Continue(IF Mac THEN "seal" ELSE "inspect")
    /\ UNCHANGED <<sourceVars, shell, staged, mapping, pkg, evidence, Ledger>>

SealOuter ==
    /\ At("seal")
    /\ app' = [app EXCEPT !.sealed = [contents |-> Collected(app), manifest |-> app.manifest]]
    /\ Continue("inspect")
    /\ UNCHANGED <<sourceVars, shell, staged, mapping, pkg, evidence, Ledger>>

InspectSealed ==
    /\ At("inspect")
    /\ IF Identified(app) /\ (Mac => SealHolds(app)) THEN Remember("record", app.manifest) ELSE Refuse
    /\ UNCHANGED <<sourceVars, outputVars, Ledger>>

RecordArtifact ==
    /\ At("record")
    /\ evidence' = [evidence EXCEPT !.artifact = job.note]
    /\ Finish
    /\ UNCHANGED <<sourceVars, shell, staged, app, mapping, pkg, Ledger>>

-----------------------------------------------------------------------------
(* build-windows-msix.ts, and the PKG maker of forge.                      *)

(* The application is final, of the checked-out commit, the one wanted.    *)
FinalizedHere(a) == Identified(a) /\ a.manifest.commit = head /\ head = wanted

Preflight ==
    /\ At("preflight")
    /\ ~Mac
    /\ IF pkg = None /\ ~mapping /\ app # None /\ FinalizedHere(app)
       THEN mapping' = TRUE /\ touched' = {} /\ Remember("pack", app.manifest)
       ELSE Refuse /\ UNCHANGED <<mapping, touched>>
    /\ UNCHANGED <<sourceVars, shell, staged, app, pkg, evidence, slipped, commands, mishaps>>

Package(a) == [holds |-> a, flaw |-> None]

MakeAppx ==
    /\ At("pack")
    /\ pkg' = Package(app) /\ Continue("built")
    /\ UNCHANGED <<sourceVars, shell, staged, app, mapping, evidence, Ledger>>

RecordBuild ==
    /\ At("built")
    /\ IF "app" \in touched THEN Refuse /\ UNCHANGED evidence
       ELSE /\ evidence' = [evidence EXCEPT !.build = [commit |-> job.note.commit, artifact |-> job.note, package |-> pkg]]
            /\ Finish
    /\ UNCHANGED <<sourceVars, shell, staged, app, mapping, pkg, Ledger>>

MakeInstaller ==
    /\ At("preflight")
    /\ Mac
    /\ IF app = None THEN Refuse /\ UNCHANGED pkg ELSE pkg' = Package(app) /\ Finish
    /\ UNCHANGED <<sourceVars, shell, staged, app, mapping, evidence, Ledger>>

-----------------------------------------------------------------------------
(* verify-windows-msix.ts and verify-macos-mas-pkg.ts.  A package may be   *)
(* flawed in its outer form; each check finds the flaws of its own part.   *)

InstallerFlaws == {"signature", "topology", "metadata", "bom"}
MsixFlaws == {"envelope", "types", "blocks", "entries"}
Flaws == IF Mac THEN InstallerFlaws ELSE MsixFlaws

EnvelopeHolds(p) == p.flaw # "envelope"
TypesHold(p) == p.flaw # "types"
BlocksHold(p) == p.flaw # "blocks"
EntriesHold(p, a) == p.flaw # "entries" /\ p.holds = a
InstallerSigned(p) == p.flaw # "signature"
TopologyHolds(p) == p.flaw # "topology"
MetadataHolds(p) == p.flaw # "metadata"
BomHolds(p) == p.flaw # "bom"

OpenMsix ==
    /\ At("open") /\ ~Mac
    /\ IF pkg # None /\ evidence.build # None /\ app # None /\ FinalizedHere(app)
       THEN touched' = {} /\ Remember("outside", [app |-> app, pkg |-> pkg, build |-> evidence.build, head |-> head])
       ELSE Refuse /\ UNCHANGED touched
    /\ UNCHANGED <<sourceVars, outputVars, slipped, commands, mishaps>>

CheckMsixMetadata ==
    /\ At("outside") /\ ~Mac
    /\ IF EnvelopeHolds(pkg) /\ TypesHold(pkg) /\ BlocksHold(pkg) THEN Continue("inside") ELSE Refuse
    /\ UNCHANGED <<sourceVars, outputVars, Ledger>>

CheckMsixEntries ==
    /\ At("inside") /\ ~Mac
    /\ IF EntriesHold(pkg, job.note.app) THEN Continue("settle") ELSE Refuse
    /\ UNCHANGED <<sourceVars, outputVars, Ledger>>

MsixSettled == {"app", "pkg"} \cap touched = {}

SettleMsix ==
    /\ At("settle") /\ ~Mac
    /\ IF MsixSettled /\ job.note.build.package = job.note.pkg /\ job.note.build.commit = job.note.head
       THEN Continue("publish") ELSE Refuse
    /\ UNCHANGED <<sourceVars, outputVars, Ledger>>

(* The installer is expanded once: what is checked is the copy.            *)
OpenInstaller ==
    /\ At("open") /\ Mac
    /\ IF pkg # None /\ Clean /\ InstallerSigned(pkg)
       THEN touched' = {} /\ Remember("outside", [expanded |-> pkg, head |-> head])
       ELSE Refuse /\ UNCHANGED touched
    /\ UNCHANGED <<sourceVars, outputVars, slipped, commands, mishaps>>

CheckInstallerMetadata ==
    /\ At("outside") /\ Mac
    /\ LET p == job.note.expanded IN
       IF TopologyHolds(p) /\ MetadataHolds(p) /\ BomHolds(p) THEN Continue("inside") ELSE Refuse
    /\ UNCHANGED <<sourceVars, outputVars, Ledger>>

CheckInstalledApp ==
    /\ At("inside") /\ Mac
    /\ LET a == job.note.expanded.holds IN
       IF SealHolds(a) /\ Identified(a) /\ a.manifest.commit = job.note.head THEN Continue("settle") ELSE Refuse
    /\ UNCHANGED <<sourceVars, outputVars, Ledger>>

SettleInstaller ==
    /\ At("settle") /\ Mac
    /\ IF "pkg" \notin touched /\ Clean /\ head = job.note.head THEN Continue("publish") ELSE Refuse
    /\ UNCHANGED <<sourceVars, outputVars, Ledger>>

(* The evidence is published by a rename before the package is looked at   *)
(* for the last time: a refusal after it leaves the evidence in place.     *)
Publish ==
    /\ At("publish")
    /\ evidence' = [evidence EXCEPT !.package =
           [commit |-> job.note.head,
            package |-> IF Mac THEN job.note.expanded ELSE job.note.pkg]]
    /\ Continue("last")
    /\ UNCHANGED <<sourceVars, shell, staged, app, mapping, pkg, Ledger>>

LastLook ==
    /\ At("last")
    /\ IF Mac /\ "pkg" \in touched THEN Refuse ELSE Finish
    /\ UNCHANGED <<sourceVars, outputVars, Ledger>>

-----------------------------------------------------------------------------
(* What happens beside the commands.  Slips names the moments at which no  *)
(* check compares a change with the commit: the sources while they are     *)
(* built, when they are put back before the confirmation; the stage before *)
(* its files are collected; the shell after it is compiled; resources      *)
(* while nested code is signed; the bundle before the manifest binds it.   *)

Mishap == mishaps < MaxMishaps /\ mishaps' = mishaps + 1 /\ due' = None
Unchecked(moment, change) ==
    CASE moment = "build" -> change = "files" /\ job.command = "prepare"
      [] moment = "staging" -> change = "staged" /\ At("collect")
      [] moment = "shell" -> change = "shell"
      [] moment = "signing" -> change = "ui" /\ (At("sign") \/ At("gather"))
      [] moment = "bundle" -> change = "bundle" /\ ~app.manifest.final
Moments == {"build", "staging", "shell", "signing", "bundle"}
Slips(change) == slipped' = slipped \cup {moment \in Moments : Unchecked(moment, change)}

Edit ==
    /\ Mishap /\ Clean /\ files' = Edited /\ Slips("files")
    /\ UNCHANGED <<target, wanted, head, cache, outputVars, job, touched, refused, commands>>

Revert ==
    /\ ~Clean /\ files' = head
    /\ UNCHANGED <<target, wanted, head, cache, outputVars, job, touched, due, refused, slipped, commands, mishaps>>

Checkout(commit) ==
    /\ Mishap /\ Clean /\ commit # head /\ head' = commit /\ files' = commit /\ Slips("files")
    /\ UNCHANGED <<target, wanted, cache, outputVars, job, touched, refused, commands>>

CompileBeside ==
    /\ Mishap /\ shell # None /\ shell # files /\ shell' = files /\ Slips("shell")
    /\ UNCHANGED <<sourceVars, staged, app, mapping, pkg, evidence, job, touched, refused, commands>>

AlterStaged ==
    /\ Mishap /\ staged # None /\ staged.ui # Altered /\ staged' = [staged EXCEPT !.ui = Altered]
    /\ Slips("staged")
    /\ UNCHANGED <<sourceVars, shell, app, mapping, pkg, evidence, job, touched, refused, commands>>

AlterApp(part) ==
    /\ Mishap /\ app # None /\ app.manifest # None /\ app[part] # Altered /\ app' = [app EXCEPT ![part] = Altered]
    /\ touched' = touched \cup {"app"} /\ Slips(part)
    /\ UNCHANGED <<sourceVars, shell, staged, mapping, pkg, evidence, job, refused, commands>>

Damage(flaw) ==
    /\ Mishap /\ pkg # None /\ pkg.flaw = None /\ flaw \in Flaws /\ pkg' = [pkg EXCEPT !.flaw = flaw]
    /\ touched' = touched \cup {"pkg"}
    /\ UNCHANGED <<sourceVars, shell, staged, app, mapping, evidence, job, refused, slipped, commands>>

(* A command dies; a download that was under way leaves a torn archive.    *)
Die ==
    /\ Mishap /\ job # Idle /\ job' = Idle
    /\ LET torn == IF At("zip") THEN "electron" ELSE "runtime" IN
       cache' = IF job.step \in {"zip", "stage"} /\ cache[torn] = None THEN [cache EXCEPT ![torn] = "torn"] ELSE cache
    /\ UNCHANGED <<target, wanted, head, files, outputVars, touched, refused, slipped, commands>>

Prepare == BindSource \/ FetchElectron \/ ClearOutputs \/ BuildStandalone \/ CompileShell
              \/ StageResources \/ CollectStaged \/ ConfirmSource
Finalize == CopyStaged \/ Harden \/ Reconcile \/ Recheck \/ SignNested \/ GatherSigned
              \/ WriteManifest \/ SealOuter \/ InspectSealed \/ RecordArtifact
Make == Preflight \/ MakeAppx \/ RecordBuild \/ MakeInstaller
Verify == OpenMsix \/ CheckMsixMetadata \/ CheckMsixEntries \/ SettleMsix
              \/ OpenInstaller \/ CheckInstallerMetadata \/ CheckInstalledApp \/ SettleInstaller
              \/ Publish \/ LastLook

ReleaseNext ==
    \/ \E command \in {"prepare", "package", "make", "verify"} : Start(command)
    \/ Prepare \/ Finalize \/ Make \/ Verify
    \/ Edit \/ Revert \/ (\E commit \in Commits : Checkout(commit)) \/ CompileBeside
    \/ AlterStaged \/ (\E part \in {"ui", "bundle"} : AlterApp(part)) \/ (\E flaw \in Flaws : Damage(flaw)) \/ Die

ReleaseSpec == ReleaseInit /\ [][ReleaseNext]_releaseVars

-----------------------------------------------------------------------------
PrepareSteps == {"bind", "zip", "clear", "build", "compile", "stage", "collect", "confirm"}
PackageSteps == {"copy", "harden", "reconcile", "recheck", "sign", "gather", "write", "seal", "inspect", "record"}
MakeSteps == {"preflight", "pack", "built"}
VerifySteps == {"open", "outside", "inside", "settle", "publish", "last"}

Holdings == Versions \cup {Altered}
Manifests == [commit : Commits, ui : Holdings, shell : Versions \cup {None},
              bundle : {"raw", "hardened", Altered, None}, signed : BOOLEAN, final : BOOLEAN]
Stages == [ui : Holdings, manifest : Manifests \cup {None}]
Collections == [ui : Holdings, shell : Versions \cup {None}, bundle : {"raw", "hardened", Altered}, signed : BOOLEAN]
Seals == [contents : Collections, manifest : Manifests \cup {None}]
Apps == [ui : Holdings, shell : Versions \cup {None}, bundle : {"raw", "hardened", Altered}, signed : BOOLEAN,
         sealed : Seals \cup {None}, manifest : Manifests \cup {None}]
Packages == [holds : Apps, flaw : InstallerFlaws \cup MsixFlaws \cup {None}]
Builds == [commit : Commits, artifact : Manifests, package : Packages]

ReleaseTypeOK ==
    /\ head \in Commits /\ files \in Versions /\ shell \in Versions \cup {None}
    /\ staged \in Stages \cup {None} /\ app \in Apps \cup {None} /\ mapping \in BOOLEAN
    /\ pkg \in Packages \cup {None} /\ evidence.build \in Builds \cup {None}
    /\ slipped \subseteq Moments
    /\ \/ job = Idle
       \/ job.command = "prepare" /\ job.step \in PrepareSteps
       \/ job.command = "package" /\ job.step \in PackageSteps
       \/ job.command = "make" /\ job.step \in MakeSteps
       \/ job.command = "verify" /\ job.step \in VerifySteps

(* The evidence of a package names one commit, whose manifest the package  *)
(* carries and binds exactly; what it ships was built from that commit     *)
(* unless it changed at a moment no check covers.  Nothing left over from  *)
(* another commit, a refused or dead command, or a change under a check    *)
(* gets through (verify-windows-msix.ts:103, verify-macos-mas-pkg.ts:333).  *)
VerifiedAsCommitted ==
    evidence.package # None =>
        LET p == evidence.package.package
            commit == evidence.package.commit IN
        /\ p.flaw = None
        /\ Identified(p.holds) /\ p.holds.manifest.commit = commit
        /\ target = "windows" => commit = wanted
        /\ p.holds.ui \in Versions \ {commit} => "build" \in slipped
        /\ p.holds.ui = Altered => "staging" \in slipped \/ (Mac /\ "signing" \in slipped)
        /\ p.holds.shell # commit => slipped \cap {"build", "shell"} # {}
        /\ p.holds.bundle = Altered => "bundle" \in slipped

(* A release from a clean commit, its commands in order and nothing        *)
(* disturbed, is never refused: whatever earlier commands left behind is   *)
(* cleared or overwritten (prepare-desktop.ts:527).                        *)
CleanReleasePasses == refused => due = None

(* Where the checks end: with nothing slipped in the build, a verified      *)
(* package's shell is the commit's as well.  One compiled beside the        *)
(* pipeline is not.                                                         *)
ShellIsOfCommit ==
    evidence.package # None /\ "build" \notin slipped =>
        evidence.package.package.holds.shell = evidence.package.commit

ReleaseInv == ReleaseTypeOK /\ VerifiedAsCommitted /\ CleanReleasePasses
=============================================================================
