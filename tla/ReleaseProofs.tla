----------------------------- MODULE ReleaseProofs -----------------------------
(***************************************************************************)
(* Proofs about the two parts of MCParts that lead to a release, for any   *)
(* commits, commands, disturbances, suites and runs: the packaging         *)
(* commands, with ReleaseIInv, and the conversation gate, with             *)
(* EvidenceIInv.  ReleaseInv is their visible part.                        *)
(*                                                                         *)
(* ReleaseIInv traces every output to the commit of its manifest, but for  *)
(* the moments that slipped (Traced, Building, Staged, Packaging,          *)
(* Shipping), and for a release that nothing disturbed says what each      *)
(* command finds (Undisturbed).  EvidenceIInv says of runs, results and    *)
(* filed reviews what they were made of (Runs, Filed).                     *)
(***************************************************************************)
EXTENDS MCParts, FiniteSetTheorems, TLAPS

-----------------------------------------------------------------------------
(* The release pipeline (Release).                                           *)
CommandIs == command = [command |-> command.command, step |-> command.step, note |-> command.note]

Archives == /\ cache = [archive \in {"electron", "runtime"} |-> cache[archive]]
            /\ staged # None => cache["electron"] = "pinned"

ReleaseTypes ==
  /\ R!ReleaseTypeOK /\ target \in {"windows", "mas", "adhoc"} /\ wanted \in Commits
  /\ evidence = [artifact |-> evidence.artifact, build |-> evidence.build, package |-> evidence.package]
  /\ CommandIs

(* What a command remembers, once it does.                                   *)
BuildNotes == [head : Commits, ui : R!Holdings \cup {None}]
Openings == [app : R!Apps, pkg : R!Packages, build : R!Builds, head : Commits]
Expansions == [expanded : R!Packages, head : Commits]

(* What was built from a commit, but for a moment no check covers: of the     *)
(* user interface as it is staged and as an application has it, of the shell *)
(* and of the bundle.                                                        *)
UiOf(commit, held, slips) ==
  /\ held \in R!Versions \ {commit} => "build" \in slips
  /\ held = Altered => "staging" \in slips
UiIn(commit, held, slips, t) ==
  /\ held \in R!Versions \ {commit} => "build" \in slips
  /\ held = Altered => "staging" \in slips \/ (t # "windows" /\ "signing" \in slips)
ShellOf(commit, held, slips) == held # commit => "build" \in slips \/ "shell" \in slips
BundleOf(held, slips) == held = Altered => "bundle" \in slips

(* An application is of the commit its manifest names: as it was staged,     *)
(* until its manifest is final, and from then on as the manifest says.       *)
Traced(a, slips, t) ==
  a.manifest # None =>
    IF a.manifest.final
    THEN /\ UiIn(a.manifest.commit, a.manifest.ui, slips, t)
         /\ ShellOf(a.manifest.commit, a.manifest.shell, slips) /\ BundleOf(a.manifest.bundle, slips)
    ELSE /\ UiOf(a.manifest.commit, a.manifest.ui, slips)
         /\ ShellOf(a.manifest.commit, a.shell, slips) /\ BundleOf(a.bundle, slips)

Unfinished(m) == m \in R!Manifests /\ ~m.final

(* prepare: from the second step the sources are those of its commit.        *)
Building ==
  LET step == command.step
      n == command.note IN
  /\ step \in R!PrepareSteps \ {"bind"} =>
       n \in BuildNotes /\ ("build" \notin slipped => files = head /\ head = n.head)
  /\ step \in R!PrepareSteps \ {"bind", "zip"} => cache["electron"] = "pinned"
  /\ step \in {"build", "compile", "stage"} => staged = None
  /\ step \in {"compile", "stage"} => n.ui \in R!Versions /\ UiOf(n.head, n.ui, slipped)
  /\ step \in {"stage", "collect", "confirm"} => ShellOf(n.head, shell, slipped)
  /\ step \in {"collect", "confirm"} => staged \in R!Stages /\ staged.manifest = None
  /\ step = "collect" => UiOf(n.head, staged.ui, slipped)
  /\ step = "confirm" => n.ui \in R!Holdings /\ UiOf(n.head, n.ui, slipped)

Staged ==
  staged # None /\ staged.manifest # None =>
    /\ ~staged.manifest.final
    /\ UiOf(staged.manifest.commit, staged.manifest.ui, slipped) /\ ShellOf(staged.manifest.commit, shell, slipped)

(* package: what is collected of the application is what the manifest will   *)
(* say of it.                                                                *)
Packaging ==
  LET step == command.step
      n == command.note IN
  /\ app # None => Traced(app, slipped, target)
  /\ step \in R!PackageSteps \ {"copy", "record"} => app \in R!Apps
  /\ step \in {"recheck", "sign", "gather", "write"} => n \in R!Collections /\ Unfinished(app.manifest)
  /\ step \in {"recheck", "write"} => BundleOf(n.bundle, slipped)
  /\ step \in {"sign", "gather"} => R!Mac /\ UiIn(app.manifest.commit, app.ui, slipped, target)
  /\ step = "write" => UiIn(app.manifest.commit, n.ui, slipped, target) /\ ShellOf(app.manifest.commit, n.shell, slipped)
  /\ step = "record" => n \in R!Manifests

(* make and verify: what a package holds, and what was found of it.          *)
Shipping ==
  LET step == command.step
      n == command.note IN
  /\ pkg # None => Traced(pkg.holds, slipped, target)
  /\ step = "pack" => app \in R!Apps
  /\ step \in {"pack", "built"} => n \in R!Manifests
  /\ step = "built" => pkg \in R!Packages
Outside == R!MsixFlaws \ {"entries"}
OnWindows ==
  LET step == command.step
      n == command.note IN
  ~R!Mac /\ step \in {"outside", "inside", "settle", "publish"} =>
    /\ n \in Openings /\ R!Identified(n.app) /\ n.app.manifest.commit = n.head /\ n.head = wanted
    /\ n.pkg.flaw \in R!MsixFlaws \cup {None} /\ Traced(n.pkg.holds, slipped, target)
    /\ "pkg" \notin touched \/ step = "publish" =>
         /\ step # "publish" => pkg = n.pkg
         /\ step # "outside" => n.pkg.flaw \notin Outside
         /\ step \in {"settle", "publish"} => n.pkg.flaw = None /\ n.pkg.holds = n.app
OnMac ==
  LET step == command.step
      n == command.note IN
  R!Mac /\ step \in {"outside", "inside", "settle", "publish"} =>
    /\ n \in Expansions /\ Traced(n.expanded.holds, slipped, target)
    /\ n.expanded.flaw \in R!InstallerFlaws \cup {None} /\ n.expanded.flaw # "signature"
    /\ step # "outside" => n.expanded.flaw = None
    /\ step \in {"settle", "publish"} =>
         R!Identified(n.expanded.holds) /\ n.expanded.holds.manifest.commit = n.head
Flawed == pkg # None => pkg.flaw \in R!Flaws \cup {None}

(* A release nothing disturbed: the sources are those of its commit, and     *)
(* each command finds what the one before it left.                           *)
Shippable(a) == R!Identified(a) /\ a.manifest.commit = head /\ (R!Mac => R!SealHolds(a))
Room == ~R!Mac => pkg = None /\ ~mapping
StageReady == /\ staged \in R!Stages /\ Unfinished(staged.manifest)
              /\ staged.manifest.commit = head /\ staged.manifest.ui = staged.ui
Preparing ==
  LET step == command.step
      n == command.note IN
  /\ step # None
  /\ step # "bind" => n.head = head
  /\ step \notin {"bind", "zip", "clear"} => Room
  /\ step = "confirm" => n.ui = staged.ui
PackagingOn ==
  LET step == command.step
      n == command.note IN
  /\ Room
  /\ step \in {None, "copy"} => StageReady
  /\ step \notin {None, "copy"} => app \in R!Apps /\ app.manifest # None /\ app.manifest.commit = head
  /\ step \in {"harden", "reconcile", "recheck", "sign"} => R!CopiedAsStaged(app)
  /\ step \in {"reconcile", "recheck", "sign", "gather"} => R!FusesHold(app)
  /\ step \in {"recheck", "write"} => n = R!Collected(app)
  /\ step = "seal" => R!Identified(app)
  /\ step \in {"inspect", "record"} => Shippable(app)
Making ==
  LET step == command.step
      n == command.note IN
  /\ app \in R!Apps /\ Shippable(app)
  /\ step \in {None, "preflight"} => Room
  /\ step \in {"pack", "built"} => "app" \notin touched /\ n = app.manifest
  /\ step = "built" => pkg = R!Package(app)
Verifying ==
  LET step == command.step
      n == command.note IN
  /\ app \in R!Apps /\ Shippable(app) /\ pkg = R!Package(app)
  /\ ~R!Mac => /\ evidence.build \in R!Builds /\ evidence.build.package = pkg
               /\ evidence.build.commit = head
  /\ step \notin {None, "open"} => touched = {}
  /\ step \in {"outside", "inside", "settle", "publish"} =>
       n = IF R!Mac THEN [expanded |-> pkg, head |-> head]
                    ELSE [app |-> app, pkg |-> pkg, build |-> evidence.build, head |-> head]
Undisturbed ==
  due # None =>
    /\ files = head /\ head = wanted
    /\ command.step = None \/ command.command = due
    /\ \/ due = "prepare" /\ Preparing
       \/ due = "package" /\ PackagingOn
       \/ due = "make" /\ Making
       \/ due = "verify" /\ Verifying

ReleaseIInv ==
  /\ ReleaseTypes /\ Archives /\ Building /\ Staged /\ Packaging /\ Shipping /\ OnWindows /\ OnMac /\ Flawed
  /\ Undisturbed /\ R!VerifiedAsCommitted /\ R!CleanReleasePasses

-----------------------------------------------------------------------------
(* What slipped stays slipped: what was traced stays traced.                 *)
LEMMA TracesStay ==
  ASSUME NEW slips, NEW more, slips \subseteq more
  PROVE  /\ \A c, h : UiOf(c, h, slips) => UiOf(c, h, more)
         /\ \A c, h, t : UiIn(c, h, slips, t) => UiIn(c, h, more, t)
         /\ \A c, h : ShellOf(c, h, slips) => ShellOf(c, h, more)
         /\ \A h : BundleOf(h, slips) => BundleOf(h, more)
         /\ \A a, t : Traced(a, slips, t) => Traced(a, more, t)
<1>1. \A c, h : UiOf(c, h, slips) => UiOf(c, h, more)
  BY DEF UiOf
<1>2. \A c, h, t : UiIn(c, h, slips, t) => UiIn(c, h, more, t)
  BY DEF UiIn
<1>3. \A c, h : ShellOf(c, h, slips) => ShellOf(c, h, more)
  BY DEF ShellOf
<1>4. \A h : BundleOf(h, slips) => BundleOf(h, more)
  BY DEF BundleOf
<1>5. \A a, t : Traced(a, slips, t) => Traced(a, more, t)
  BY <1>1, <1>2, <1>3, <1>4 DEF Traced
<1> QED  BY <1>1, <1>2, <1>3, <1>4, <1>5

(* The script: a command goes on to its next step, ends, or refuses.         *)
LEMMA GoesOn ==
  ASSUME CommandIs
  PROVE  /\ \A st, n : R!Remember(st, n) =>
              /\ command' = [command |-> command.command, step |-> st, note |-> n]
              /\ due' = due /\ refused' = refused
         /\ \A st : R!Continue(st) =>
              /\ command' = [command |-> command.command, step |-> st, note |-> command.note]
              /\ due' = due /\ refused' = refused
BY DEF CommandIs, R!Remember, R!Continue

LEMMA NoneIsNoStep == None \notin R!PrepareSteps \cup R!PackageSteps \cup R!MakeSteps \cup R!VerifySteps
BY ReleaseAssumption

(* A state that differs only in that a command refused: it was disturbed.    *)
unrefused == <<target, wanted, head, files, cache, shell, staged, app, mapping, pkg, evidence, slipped>>

LEMMA PackagingElsewhere ==
  ASSUME ReleaseIInv, target' = target, slipped \subseteq slipped', app' = app \/ app' = None,
         command'.step \notin R!PackageSteps
  PROVE  Packaging'
BY TracesStay DEF ReleaseIInv, Packaging, R!PackageSteps

LEMMA ShippingElsewhere ==
  ASSUME ReleaseIInv, target' = target, slipped \subseteq slipped', pkg' = pkg \/ pkg' = None,
         command'.step \notin R!MakeSteps \cup R!VerifySteps
  PROVE  Shipping' /\ OnWindows' /\ OnMac' /\ Flawed'
<1>1. Shipping'
  BY TracesStay DEF ReleaseIInv, Shipping, R!MakeSteps
<1>2. OnWindows' /\ OnMac'
  BY DEF OnWindows, OnMac, R!VerifySteps
<1>3. Flawed'
  BY DEF ReleaseIInv, Flawed, R!Flaws, R!Mac
<1> QED  BY <1>1, <1>2, <1>3

LEMMA BuildingElsewhere ==
  ASSUME ReleaseIInv, UNCHANGED <<cache, staged, shell>>, slipped \subseteq slipped',
         command'.step \notin R!PrepareSteps
  PROVE  Archives' /\ Building' /\ Staged'
<1>1. Archives'
  BY DEF ReleaseIInv, Archives
<1>2. Building'
  BY DEF Building, R!PrepareSteps
<1>3. Staged'
  BY TracesStay DEF ReleaseIInv, Staged
<1> QED  BY <1>1, <1>2, <1>3

LEMMA VerifiedStays ==
  ASSUME ReleaseIInv, target' = target, wanted' = wanted, slipped \subseteq slipped',
         evidence'.package = evidence.package
  PROVE  R!VerifiedAsCommitted'
BY DEF ReleaseIInv, R!VerifiedAsCommitted, R!Identified, R!Collected, R!Bound, R!Mac

LEMMA Refuses ==
  ASSUME ReleaseIInv, UNCHANGED unrefused, R!Refuse, due = None
  PROVE  ReleaseIInv'
<1>1. command' = R!Idle /\ due' = None /\ UNCHANGED <<target, wanted, head, files, cache, shell, staged, app,
                                                     mapping, pkg, evidence, slipped>>
  BY DEF R!Refuse, unrefused
<1>2. command'.step = None
  BY <1>1 DEF R!Idle
<1>3. None \notin R!PrepareSteps \cup R!PackageSteps \cup R!MakeSteps \cup R!VerifySteps
  BY NoneIsNoStep
<1>4. ReleaseTypes'
  BY <1>1 DEF ReleaseIInv, ReleaseTypes, R!ReleaseTypeOK, CommandIs, R!Idle
<1>5. Archives' /\ Building' /\ Staged'
  BY <1>1, <1>2, <1>3, BuildingElsewhere
<1>6. Packaging'
  BY <1>1, <1>2, <1>3, PackagingElsewhere
<1>7. Shipping' /\ OnWindows' /\ OnMac' /\ Flawed'
  BY <1>1, <1>2, <1>3, ShippingElsewhere
<1>8. R!VerifiedAsCommitted'
  BY <1>1, VerifiedStays
<1>9. Undisturbed' /\ R!CleanReleasePasses'
  BY <1>1 DEF Undisturbed, R!CleanReleasePasses
<1> QED  BY <1>4, <1>5, <1>6, <1>7, <1>8, <1>9 DEF ReleaseIInv

(* The command a step is of, and what it finds in an undisturbed release.    *)
LEMMA StepIsOf ==
  ASSUME ReleaseIInv
  PROVE  /\ CommandIs
         /\ command.step \in R!PrepareSteps =>
              command.command = "prepare" /\ (due # None => due = "prepare" /\ Preparing)
         /\ command.step \in R!PackageSteps =>
              command.command = "package" /\ (due # None => due = "package" /\ PackagingOn)
         /\ command.step \in R!MakeSteps =>
              command.command = "make" /\ (due # None => due = "make" /\ Making)
         /\ command.step \in R!VerifySteps =>
              command.command = "verify" /\ (due # None => due = "verify" /\ Verifying)
         /\ due # None => files = head /\ head = wanted
<1>1. /\ CommandIs
      /\ command.step \in R!PrepareSteps => command.command = "prepare"
      /\ command.step \in R!PackageSteps => command.command = "package"
      /\ command.step \in R!MakeSteps => command.command = "make"
      /\ command.step \in R!VerifySteps => command.command = "verify"
  BY NoneIsNoStep DEF ReleaseIInv, ReleaseTypes, R!ReleaseTypeOK, R!Idle,
     R!PrepareSteps, R!PackageSteps, R!MakeSteps, R!VerifySteps
<1> QED  BY <1>1, NoneIsNoStep DEF ReleaseIInv, Undisturbed

-----------------------------------------------------------------------------
(* prepare: what was packaged and shipped before is cleared or kept.         *)
LEMMA PrepareGoesOn ==
  ASSUME ReleaseIInv, command'.step \in R!PrepareSteps \cup {None},
         UNCHANGED <<target, wanted, evidence, slipped, refused>>, due = None => due' = None,
         app' = app \/ app' = None, pkg' = pkg \/ pkg' = None,
         ReleaseTypes', Archives', Building', Staged', Undisturbed'
  PROVE  ReleaseIInv'
<1>1. command'.step \notin R!PackageSteps \cup R!MakeSteps \cup R!VerifySteps
  BY NoneIsNoStep DEF R!PrepareSteps, R!PackageSteps, R!MakeSteps, R!VerifySteps
<1>2. Packaging'
  BY <1>1, PackagingElsewhere
<1>3. Shipping' /\ OnWindows' /\ OnMac' /\ Flawed'
  BY <1>1, ShippingElsewhere
<1>4. R!VerifiedAsCommitted'
  BY VerifiedStays
<1>5. R!CleanReleasePasses'
  BY DEF ReleaseIInv, R!CleanReleasePasses
<1> QED  BY <1>2, <1>3, <1>4, <1>5 DEF ReleaseIInv

LEMMA BindsSource ==
  ASSUME ReleaseIInv, R!BindSource
  PROVE  ReleaseIInv'
<1>1. command.step = "bind" /\ UNCHANGED <<target, wanted, head, files, cache, shell, staged, app, mapping, pkg,
                                           evidence, touched, slipped>>
  BY DEF R!BindSource, R!At, R!sourceVars, R!outputVars, R!Ledger
<1>2. /\ CommandIs /\ command.command = "prepare" /\ ReleaseTypes
      /\ due # None => due = "prepare" /\ Preparing /\ files = head /\ head = wanted
  BY <1>1, StepIsOf DEF ReleaseIInv, R!PrepareSteps
<1>3. CASE files # head
  <2>1. due = None
    BY <1>2, <1>3
  <2> QED  BY <1>1, <1>3, <2>1, Refuses DEF R!BindSource, R!Clean, unrefused
<1>4. CASE files = head
  <2>1. /\ command' = [command |-> "prepare", step |-> "zip", note |-> [head |-> head, ui |-> None]]
        /\ due' = due /\ refused' = refused
    BY <1>2, <1>4, GoesOn DEF R!BindSource, R!Clean
  <2>2. ReleaseTypes'
    BY <1>1, <1>2, <2>1 DEF ReleaseTypes, R!ReleaseTypeOK, CommandIs, R!PrepareSteps
  <2>3. Archives' /\ Staged'
    BY <1>1 DEF ReleaseIInv, Archives, Staged
  <2>4. Building'
    BY <1>1, <1>2, <1>4, <2>1 DEF Building, BuildNotes, ReleaseTypes, R!ReleaseTypeOK
  <2>5. Undisturbed'
    BY <1>1, <1>2, <2>1, NoneIsNoStep DEF Undisturbed, Preparing, R!PrepareSteps
  <2> QED  BY <1>1, <2>1, <2>2, <2>3, <2>4, <2>5, PrepareGoesOn DEF R!PrepareSteps
<1> QED  BY <1>3, <1>4

(* A step of prepare that refuses nothing, and what it finds.                *)
LEMMA Preparation ==
  ASSUME ReleaseIInv, command.step \in R!PrepareSteps
  PROVE  /\ CommandIs /\ command.command = "prepare" /\ ReleaseTypes /\ Archives /\ Building /\ Staged
         /\ due # None => due = "prepare" /\ Preparing /\ files = head /\ head = wanted
BY StepIsOf DEF ReleaseIInv

LEMMA FetchesElectron ==
  ASSUME ReleaseIInv, R!FetchElectron
  PROVE  ReleaseIInv'
<1>1. /\ command.step = "zip" /\ command.step \in R!PrepareSteps /\ cache' = [cache EXCEPT !["electron"] = "pinned"]
      /\ UNCHANGED <<target, wanted, head, files, shell, staged, app, mapping, pkg, evidence, touched, slipped>>
  BY DEF R!FetchElectron, R!At, R!Fetched, R!outputVars, R!Ledger, R!PrepareSteps
<1>2. /\ CommandIs /\ command.command = "prepare" /\ ReleaseTypes /\ Archives /\ Building /\ Staged
      /\ due # None => due = "prepare" /\ Preparing /\ files = head /\ head = wanted
  BY <1>1, Preparation
<1>3. /\ command' = [command |-> "prepare", step |-> "clear", note |-> command.note]
      /\ due' = due /\ refused' = refused
  BY <1>2, GoesOn DEF R!FetchElectron
<1>4. ReleaseTypes'
  BY <1>1, <1>2, <1>3 DEF ReleaseTypes, R!ReleaseTypeOK, CommandIs, R!PrepareSteps
<1>5. Archives' /\ Staged'
  BY <1>1, <1>2 DEF Archives, Staged
<1>6. Building'
  BY <1>1, <1>2, <1>3 DEF Building, Archives, R!PrepareSteps
<1>7. Undisturbed'
  BY <1>1, <1>2, <1>3, NoneIsNoStep DEF Undisturbed, Preparing, R!PrepareSteps
<1> QED  BY <1>1, <1>3, <1>4, <1>5, <1>6, <1>7, PrepareGoesOn DEF R!PrepareSteps

LEMMA ClearsOutputs ==
  ASSUME ReleaseIInv, R!ClearOutputs
  PROVE  ReleaseIInv'
<1>1. /\ command.step = "clear" /\ command.step \in R!PrepareSteps
      /\ staged' = None /\ app' = None /\ mapping' = (mapping /\ R!Mac) /\ pkg' = (IF R!Mac THEN pkg ELSE None)
      /\ UNCHANGED <<target, wanted, head, files, cache, shell, evidence, touched, slipped>>
  BY DEF R!ClearOutputs, R!At, R!sourceVars, R!Ledger, R!PrepareSteps
<1>2. /\ CommandIs /\ command.command = "prepare" /\ ReleaseTypes /\ Archives /\ Building /\ Staged
      /\ due # None => due = "prepare" /\ Preparing /\ files = head /\ head = wanted
  BY <1>1, Preparation
<1>3. /\ command' = [command |-> "prepare", step |-> "build", note |-> command.note]
      /\ due' = due /\ refused' = refused
  BY <1>2, GoesOn DEF R!ClearOutputs
<1>4. ReleaseTypes'
  BY <1>1, <1>2, <1>3 DEF ReleaseTypes, R!ReleaseTypeOK, CommandIs, R!PrepareSteps
<1>5. Archives' /\ Staged'
  BY <1>1, <1>2 DEF Archives, Staged
<1>6. Building'
  BY <1>1, <1>2, <1>3 DEF Building, R!PrepareSteps
<1>7. Room'
  BY <1>1 DEF Room, R!Mac
<1>8. Undisturbed'
  BY <1>1, <1>2, <1>3, <1>7, NoneIsNoStep DEF Undisturbed, Preparing, R!PrepareSteps
<1> QED  BY <1>1, <1>3, <1>4, <1>5, <1>6, <1>8, PrepareGoesOn DEF R!PrepareSteps

LEMMA BuildsStandalone ==
  ASSUME ReleaseIInv, R!BuildStandalone
  PROVE  ReleaseIInv'
<1>1. /\ command.step = "build" /\ command.step \in R!PrepareSteps
      /\ UNCHANGED <<target, wanted, head, files, cache, shell, staged, app, mapping, pkg, evidence, touched, slipped>>
  BY DEF R!BuildStandalone, R!At, R!sourceVars, R!outputVars, R!Ledger, R!PrepareSteps
<1>2. /\ CommandIs /\ command.command = "prepare" /\ ReleaseTypes /\ Archives /\ Building /\ Staged
      /\ due # None => due = "prepare" /\ Preparing /\ files = head /\ head = wanted
  BY <1>1, Preparation
<1>3. command.note \in BuildNotes /\ ("build" \notin slipped => files = head /\ head = command.note.head)
  BY <1>1, <1>2 DEF Building, R!PrepareSteps
<1>4. /\ command' = [command |-> "prepare", step |-> "compile", note |-> [command.note EXCEPT !.ui = files]]
      /\ due' = due /\ refused' = refused
  BY <1>2, GoesOn DEF R!BuildStandalone
<1>5. command'.note = [head |-> command.note.head, ui |-> files]
  BY <1>3, <1>4 DEF BuildNotes
<1>6. files \in R!Versions /\ files # Altered
  BY <1>2, ReleaseAssumption DEF ReleaseTypes, R!ReleaseTypeOK, R!Versions
<1>7. ReleaseTypes'
  BY <1>1, <1>2, <1>4 DEF ReleaseTypes, R!ReleaseTypeOK, CommandIs, R!PrepareSteps
<1>8. Archives' /\ Staged'
  BY <1>1, <1>2 DEF Archives, Staged
<1>9. Building'
  BY <1>1, <1>2, <1>3, <1>4, <1>5, <1>6 DEF Building, BuildNotes, UiOf, R!Holdings, R!PrepareSteps
<1>10. Undisturbed'
  BY <1>1, <1>2, <1>3, <1>4, <1>5, NoneIsNoStep DEF Undisturbed, Preparing, Room, R!Mac, R!PrepareSteps
<1> QED  BY <1>1, <1>4, <1>7, <1>8, <1>9, <1>10, PrepareGoesOn DEF R!PrepareSteps

LEMMA CompilesShell ==
  ASSUME ReleaseIInv, R!CompileShell
  PROVE  ReleaseIInv'
<1>1. /\ command.step = "compile" /\ command.step \in R!PrepareSteps /\ shell' = files
      /\ UNCHANGED <<target, wanted, head, files, cache, staged, app, mapping, pkg, evidence, touched, slipped>>
  BY DEF R!CompileShell, R!At, R!sourceVars, R!outputVars, R!Ledger, R!PrepareSteps
<1>2. /\ CommandIs /\ command.command = "prepare" /\ ReleaseTypes /\ Archives /\ Building /\ Staged
      /\ due # None => due = "prepare" /\ Preparing /\ files = head /\ head = wanted
  BY <1>1, Preparation
<1>3. /\ command' = [command |-> "prepare", step |-> "stage", note |-> command.note]
      /\ due' = due /\ refused' = refused
  BY <1>2, GoesOn DEF R!CompileShell
<1>4. ReleaseTypes'
  BY <1>1, <1>2, <1>3 DEF ReleaseTypes, R!ReleaseTypeOK, CommandIs, R!PrepareSteps
<1>5. Archives' /\ Staged' /\ staged = None
  BY <1>1, <1>2 DEF Archives, Staged, Building
<1>6. Building'
  BY <1>1, <1>2, <1>3, <1>5 DEF Building, ShellOf, R!PrepareSteps
<1>7. Undisturbed'
  BY <1>1, <1>2, <1>3, NoneIsNoStep DEF Undisturbed, Preparing, Room, R!Mac, R!PrepareSteps
<1> QED  BY <1>1, <1>3, <1>4, <1>5, <1>6, <1>7, PrepareGoesOn DEF R!PrepareSteps

LEMMA StagesResources ==
  ASSUME ReleaseIInv, R!StageResources
  PROVE  ReleaseIInv'
<1>1. /\ command.step = "stage" /\ command.step \in R!PrepareSteps /\ cache' = [cache EXCEPT !["runtime"] = "pinned"]
      /\ staged' = [ui |-> command.note.ui, manifest |-> None]
      /\ UNCHANGED <<target, wanted, head, files, shell, app, mapping, pkg, evidence, touched, slipped>>
  BY DEF R!StageResources, R!At, R!Fetched, R!Ledger, R!PrepareSteps
<1>2. /\ CommandIs /\ command.command = "prepare" /\ ReleaseTypes /\ Archives /\ Building /\ Staged
      /\ due # None => due = "prepare" /\ Preparing /\ files = head /\ head = wanted
  BY <1>1, Preparation
<1>3. /\ command' = [command |-> "prepare", step |-> "collect", note |-> command.note]
      /\ due' = due /\ refused' = refused
  BY <1>2, GoesOn DEF R!StageResources
<1>4. /\ command.note.ui \in R!Holdings /\ UiOf(command.note.head, command.note.ui, slipped)
      /\ ShellOf(command.note.head, shell, slipped) /\ cache["electron"] = "pinned"
  BY <1>1, <1>2 DEF Building, R!Holdings, R!PrepareSteps
<1>5. staged' \in R!Stages /\ staged'.manifest = None /\ staged'.ui = command.note.ui
  BY <1>1, <1>4 DEF R!Stages
<1>6. ReleaseTypes'
  BY <1>1, <1>2, <1>3, <1>5 DEF ReleaseTypes, R!ReleaseTypeOK, CommandIs, R!PrepareSteps
<1>7. Archives' /\ Staged'
  BY <1>1, <1>2, <1>4, <1>5 DEF Archives, Staged
<1>8. Building'
  BY <1>1, <1>2, <1>3, <1>4, <1>5, <1>7 DEF Building, Archives, R!PrepareSteps
<1>9. Undisturbed'
  BY <1>1, <1>2, <1>3, NoneIsNoStep DEF Undisturbed, Preparing, Room, R!Mac, R!PrepareSteps
<1> QED  BY <1>1, <1>3, <1>6, <1>7, <1>8, <1>9, PrepareGoesOn DEF R!PrepareSteps

LEMMA CollectsStaged ==
  ASSUME ReleaseIInv, R!CollectStaged
  PROVE  ReleaseIInv'
<1>1. /\ command.step = "collect" /\ command.step \in R!PrepareSteps
      /\ UNCHANGED <<target, wanted, head, files, cache, shell, staged, app, mapping, pkg, evidence, touched, slipped>>
  BY DEF R!CollectStaged, R!At, R!sourceVars, R!outputVars, R!Ledger, R!PrepareSteps
<1>2. /\ CommandIs /\ command.command = "prepare" /\ ReleaseTypes /\ Archives /\ Building /\ Staged
      /\ due # None => due = "prepare" /\ Preparing /\ files = head /\ head = wanted
  BY <1>1, Preparation
<1>3. /\ command.note \in BuildNotes /\ ("build" \notin slipped => files = head /\ head = command.note.head)
      /\ staged \in R!Stages /\ staged.manifest = None /\ UiOf(command.note.head, staged.ui, slipped)
      /\ ShellOf(command.note.head, shell, slipped) /\ cache["electron"] = "pinned"
  BY <1>1, <1>2 DEF Building, R!PrepareSteps
<1>4. /\ command' = [command |-> "prepare", step |-> "confirm", note |-> [command.note EXCEPT !.ui = staged.ui]]
      /\ due' = due /\ refused' = refused
  BY <1>2, GoesOn DEF R!CollectStaged
<1>5. command'.note = [head |-> command.note.head, ui |-> staged.ui] /\ staged.ui \in R!Holdings
  BY <1>3, <1>4 DEF BuildNotes, R!Stages
<1>6. command'.note \in BuildNotes
  BY <1>3, <1>5 DEF BuildNotes
<1>7. ReleaseTypes'
  BY <1>1, <1>2, <1>4 DEF ReleaseTypes, R!ReleaseTypeOK, CommandIs, R!PrepareSteps
<1>8. Archives' /\ Staged'
  BY <1>1, <1>2 DEF Archives, Staged
<1>9. Building'
  BY <1>1, <1>3, <1>4, <1>5, <1>6 DEF Building, R!PrepareSteps
<1>10. Undisturbed'
  BY <1>1, <1>2, <1>3, <1>4, <1>5, NoneIsNoStep DEF Undisturbed, Preparing, Room, R!Mac, R!PrepareSteps
<1> QED  BY <1>1, <1>4, <1>7, <1>8, <1>9, <1>10, PrepareGoesOn DEF R!PrepareSteps

LEMMA ConfirmsSource ==
  ASSUME ReleaseIInv, R!ConfirmSource
  PROVE  ReleaseIInv'
<1> DEFINE m == R!StagedManifest(head, command.note.ui)
<1>1. /\ command.step = "confirm" /\ command.step \in R!PrepareSteps
      /\ UNCHANGED <<target, wanted, head, files, cache, shell, app, mapping, pkg, evidence, touched, slipped>>
      /\ \/ /\ files = head /\ head = command.note.head
            /\ staged' = [staged EXCEPT !.manifest = m] /\ R!Finish
         \/ ~(files = head /\ head = command.note.head) /\ R!Refuse /\ UNCHANGED staged
  BY DEF R!ConfirmSource, R!At, R!sourceVars, R!Ledger, R!PrepareSteps, R!Clean
<1>2. /\ CommandIs /\ command.command = "prepare" /\ ReleaseTypes /\ Archives /\ Building /\ Staged
      /\ due # None => due = "prepare" /\ Preparing /\ files = head /\ head = wanted
  BY <1>1, Preparation
<1>3. /\ command.note \in BuildNotes /\ command.note.ui \in R!Holdings
      /\ staged \in R!Stages /\ staged.manifest = None /\ UiOf(command.note.head, command.note.ui, slipped)
      /\ ShellOf(command.note.head, shell, slipped) /\ cache["electron"] = "pinned"
  BY <1>1, <1>2 DEF Building, R!PrepareSteps
<1>4. due # None => command.note.head = head
  BY <1>1, <1>2 DEF Preparing
<1>5. CASE ~(files = head /\ head = command.note.head)
  <2>1. due = None /\ R!Refuse /\ UNCHANGED staged
    BY <1>1, <1>2, <1>4, <1>5
  <2> QED  BY <1>1, <2>1, Refuses DEF unrefused
<1>6. CASE files = head /\ head = command.note.head
  <2>1. /\ command' = R!Idle /\ refused' = refused
        /\ due = None => due' = None
        /\ due # None => due' = "package"
    BY <1>1, <1>2, <1>6 DEF R!Finish, R!Successor
  <2>2. m = [commit |-> head, ui |-> command.note.ui, shell |-> None, bundle |-> None, signed |-> FALSE, final |-> FALSE]
    BY DEF R!StagedManifest
  <2>3. m \in R!Manifests /\ m.commit = head /\ m.ui = command.note.ui /\ m.final = FALSE
    BY <1>2, <1>3, <2>2 DEF R!Manifests, ReleaseTypes, R!ReleaseTypeOK
  <2>4. staged' = [ui |-> staged.ui, manifest |-> m]
    BY <1>1, <1>3, <1>6 DEF R!Stages
  <2> HIDE DEF m
  <2>5. staged' \in R!Stages /\ staged'.manifest = m /\ staged'.ui = staged.ui
    BY <1>3, <2>3, <2>4 DEF R!Stages
  <2>6. command'.step = None
    BY <2>1 DEF R!Idle
  <2>7. ReleaseTypes'
    BY <1>1, <1>2, <2>1, <2>5 DEF ReleaseTypes, R!ReleaseTypeOK, CommandIs, R!Idle
  <2>8. Archives' /\ Staged'
    BY <1>1, <1>2, <1>3, <1>6, <2>3, <2>5 DEF Archives, Staged
  <2>9. Building'
    BY <2>6, NoneIsNoStep DEF Building, R!PrepareSteps
  <2>10. due # None => Room /\ command.note.ui = staged.ui
    BY <1>1, <1>2, NoneIsNoStep DEF Preparing, R!PrepareSteps
  <2>11. due # None => PackagingOn'
    <3>1. Room' <=> Room
      BY <1>1 DEF Room, R!Mac
    <3>2. due # None => StageReady'
      BY <1>1, <2>3, <2>5, <2>10 DEF StageReady, Unfinished
    <3> QED  BY <2>6, <2>10, <3>1, <3>2, NoneIsNoStep DEF PackagingOn, R!PackageSteps
  <2>12. Undisturbed'
    BY <1>1, <1>2, <2>1, <2>6, <2>11 DEF Undisturbed
  <2> QED  BY <1>1, <2>1, <2>6, <2>7, <2>8, <2>9, <2>12, PrepareGoesOn DEF ReleaseIInv, R!CleanReleasePasses
<1> QED  BY <1>5, <1>6

-----------------------------------------------------------------------------
(* package: what was staged and what was shipped is kept.                    *)
LEMMA AppHas ==
  ASSUME NEW a \in R!Apps
  PROVE  /\ a.ui \in R!Holdings /\ a.shell \in R!Versions \cup {None} /\ a.bundle \in {"raw", "hardened", Altered}
         /\ a.signed \in BOOLEAN /\ a.sealed \in R!Seals \cup {None} /\ a.manifest \in R!Manifests \cup {None}
         /\ a # None
         /\ R!Collected(a) = [ui |-> a.ui, shell |-> a.shell, bundle |-> a.bundle, signed |-> a.signed]
         /\ R!Collected(a) \in R!Collections
<1>1. /\ a.ui \in R!Holdings /\ a.shell \in R!Versions \cup {None} /\ a.bundle \in {"raw", "hardened", Altered}
      /\ a.signed \in BOOLEAN /\ a.sealed \in R!Seals \cup {None} /\ a.manifest \in R!Manifests \cup {None}
  BY DEF R!Apps
<1>2. R!Collected(a) = [ui |-> a.ui, shell |-> a.shell, bundle |-> a.bundle, signed |-> a.signed]
  BY DEF R!Collected
<1>3. R!Collected(a) \in R!Collections
  BY <1>1, <1>2 DEF R!Collections
<1> QED  BY <1>1, <1>2, <1>3, ReleaseAssumption

(* An application with one part changed, part by part.                       *)
LEMMA AppWith ==
  ASSUME NEW a \in R!Apps, NEW h
  PROVE  /\ [a EXCEPT !.ui = h] = [ui |-> h, shell |-> a.shell, bundle |-> a.bundle, signed |-> a.signed,
                                   sealed |-> a.sealed, manifest |-> a.manifest]
         /\ [a EXCEPT !.bundle = h] = [ui |-> a.ui, shell |-> a.shell, bundle |-> h, signed |-> a.signed,
                                       sealed |-> a.sealed, manifest |-> a.manifest]
         /\ [a EXCEPT !.signed = h] = [ui |-> a.ui, shell |-> a.shell, bundle |-> a.bundle, signed |-> h,
                                       sealed |-> a.sealed, manifest |-> a.manifest]
         /\ [a EXCEPT !.sealed = h] = [ui |-> a.ui, shell |-> a.shell, bundle |-> a.bundle, signed |-> a.signed,
                                       sealed |-> h, manifest |-> a.manifest]
         /\ [a EXCEPT !.manifest = h] = [ui |-> a.ui, shell |-> a.shell, bundle |-> a.bundle, signed |-> a.signed,
                                         sealed |-> a.sealed, manifest |-> h]
BY DEF R!Apps

LEMMA IsApp ==
  ASSUME NEW a1 \in R!Holdings, NEW a2 \in R!Versions \cup {None}, NEW a3 \in {"raw", "hardened", Altered},
         NEW a4 \in BOOLEAN, NEW a5 \in R!Seals \cup {None}, NEW a6 \in R!Manifests \cup {None}
  PROVE  [ui |-> a1, shell |-> a2, bundle |-> a3, signed |-> a4, sealed |-> a5, manifest |-> a6] \in R!Apps
BY DEF R!Apps

LEMMA PackageGoesOn ==
  ASSUME ReleaseIInv, command'.step \in R!PackageSteps \cup {None},
         UNCHANGED <<target, wanted, cache, shell, staged, pkg, slipped, refused>>, due = None => due' = None,
         evidence'.package = evidence.package, ReleaseTypes', Packaging', Undisturbed'
  PROVE  ReleaseIInv'
<1>1. command'.step \notin R!PrepareSteps \cup R!MakeSteps \cup R!VerifySteps
  BY NoneIsNoStep DEF R!PrepareSteps, R!PackageSteps, R!MakeSteps, R!VerifySteps
<1>2. Archives' /\ Building' /\ Staged'
  BY <1>1, BuildingElsewhere
<1>3. Shipping' /\ OnWindows' /\ OnMac' /\ Flawed'
  BY <1>1, ShippingElsewhere
<1>4. R!VerifiedAsCommitted'
  BY VerifiedStays
<1>5. R!CleanReleasePasses'
  BY DEF ReleaseIInv, R!CleanReleasePasses
<1> QED  BY <1>2, <1>3, <1>4, <1>5 DEF ReleaseIInv

(* A step of package, and what it finds.                                     *)
LEMMA Finalization ==
  ASSUME ReleaseIInv, command.step \in R!PackageSteps
  PROVE  /\ CommandIs /\ command.command = "package" /\ ReleaseTypes /\ Archives /\ Staged /\ Packaging
         /\ due # None => due = "package" /\ PackagingOn /\ files = head /\ head = wanted /\ Room
         /\ command.step # "copy" /\ command.step # "record" => app \in R!Apps /\ Traced(app, slipped, target)
         /\ due # None /\ command.step # "copy" => app \in R!Apps /\ app.manifest # None /\ app.manifest.commit = head
<1>1. /\ CommandIs /\ command.command = "package" /\ ReleaseTypes /\ Archives /\ Staged /\ Packaging
      /\ due # None => due = "package" /\ PackagingOn /\ files = head /\ head = wanted
  BY StepIsOf DEF ReleaseIInv
<1>2. command.step # "copy" /\ command.step # "record" => app \in R!Apps /\ Traced(app, slipped, target)
  BY <1>1, ReleaseAssumption DEF Packaging
<1> QED  BY <1>1, <1>2, NoneIsNoStep DEF PackagingOn

LEMMA CopiesStaged ==
  ASSUME ReleaseIInv, R!CopyStaged
  PROVE  ReleaseIInv'
<1>1. /\ command.step = "copy" /\ command.step \in R!PackageSteps
      /\ UNCHANGED <<target, wanted, head, files, cache, shell, staged, mapping, pkg, evidence, touched, slipped>>
  BY DEF R!CopyStaged, R!At, R!sourceVars, R!Ledger, R!PackageSteps
<1>2. /\ CommandIs /\ command.command = "package" /\ ReleaseTypes /\ Archives /\ Staged
      /\ due # None => due = "package" /\ PackagingOn /\ files = head /\ head = wanted /\ Room
  BY <1>1, Finalization
<1>3. due # None => StageReady
  BY <1>1, <1>2 DEF PackagingOn
<1>4. CASE staged = None
  <2>1. due = None
    BY <1>3, <1>4, ReleaseAssumption DEF StageReady
  <2>2. R!Refuse /\ UNCHANGED app
    BY <1>4 DEF R!CopyStaged
  <2> QED  BY <1>1, <2>1, <2>2, Refuses DEF unrefused
<1>5. CASE staged # None
  <2>1. /\ command' = [command |-> "package", step |-> "harden", note |-> command.note]
        /\ due' = due /\ refused' = refused
    BY <1>2, <1>5, GoesOn DEF R!CopyStaged
  <2>2. cache["electron"] = "pinned"
    BY <1>2, <1>5 DEF Archives
  <2>3. app' = [ui |-> staged.ui, shell |-> shell, bundle |-> "raw", signed |-> FALSE, sealed |-> None,
                manifest |-> staged.manifest]
    BY <1>5, <2>2 DEF R!CopyStaged
  <2>4. staged \in R!Stages /\ staged.ui \in R!Holdings /\ staged.manifest \in R!Manifests \cup {None}
        /\ shell \in R!Versions \cup {None}
    BY <1>2, <1>5 DEF ReleaseTypes, R!ReleaseTypeOK, R!Stages
  <2>5. app' \in R!Apps
    BY <2>3, <2>4, IsApp
  <2>6. Traced(app', slipped, target)
    BY <1>2, <1>5, <2>3, ReleaseAssumption DEF Traced, Staged, BundleOf
  <2>7. ReleaseTypes'
    BY <1>1, <1>2, <2>1, <2>5 DEF ReleaseTypes, R!ReleaseTypeOK, CommandIs, R!PackageSteps
  <2>8. Packaging'
    BY <1>1, <2>1, <2>5, <2>6 DEF Packaging, R!PackageSteps
  <2>9. due # None => PackagingOn'
    <3>1. Room' <=> Room
      BY <1>1 DEF Room, R!Mac
    <3>2. due # None => app'.manifest # None /\ app'.manifest.commit = head
      BY <1>3, <2>3, ReleaseAssumption DEF StageReady, Unfinished
    <3>3. due # None => R!CopiedAsStaged(app)'
      BY <1>3, <2>3, <3>2 DEF StageReady, Unfinished, R!CopiedAsStaged
    <3> QED  BY <1>1, <1>2, <2>1, <2>5, <3>1, <3>2, <3>3, NoneIsNoStep DEF PackagingOn, R!PackageSteps
  <2>10. Undisturbed'
    BY <1>1, <1>2, <2>1, <2>9 DEF Undisturbed
  <2> QED  BY <1>1, <2>1, <2>7, <2>8, <2>10, PackageGoesOn DEF R!PackageSteps
<1> QED  BY <1>4, <1>5

LEMMA Hardens ==
  ASSUME ReleaseIInv, R!Harden
  PROVE  ReleaseIInv'
<1>1. /\ command.step = "harden" /\ command.step \in R!PackageSteps
      /\ app' = [app EXCEPT !.bundle = IF app.bundle = "raw" THEN "hardened" ELSE app.bundle]
      /\ UNCHANGED <<target, wanted, head, files, cache, shell, staged, mapping, pkg, evidence, touched, slipped>>
  BY DEF R!Harden, R!At, R!sourceVars, R!Ledger, R!PackageSteps
<1>2. /\ CommandIs /\ command.command = "package" /\ ReleaseTypes /\ Archives /\ Staged
      /\ due # None => due = "package" /\ PackagingOn /\ files = head /\ head = wanted /\ Room
      /\ app \in R!Apps /\ Traced(app, slipped, target)
      /\ due # None => app.manifest # None /\ app.manifest.commit = head
  BY <1>1, Finalization
<1>3. /\ command' = [command |-> "package", step |-> "reconcile", note |-> command.note]
      /\ due' = due /\ refused' = refused
  BY <1>2, GoesOn DEF R!Harden
<1>4. PICK h : h = IF app.bundle = "raw" THEN "hardened" ELSE app.bundle
  OBVIOUS
<1>5. h \in {"raw", "hardened", Altered} /\ h # "raw" /\ (h = Altered => app.bundle = Altered)
  BY <1>2, <1>4, AppHas, ReleaseAssumption
<1>6. app' = [ui |-> app.ui, shell |-> app.shell, bundle |-> h, signed |-> app.signed,
              sealed |-> app.sealed, manifest |-> app.manifest]
  BY <1>1, <1>2, <1>4, AppWith
<1>7. app' \in R!Apps
  BY <1>2, <1>5, <1>6, AppHas, IsApp
<1>8. Traced(app', slipped, target)
  BY <1>2, <1>5, <1>6 DEF Traced, BundleOf
<1>9. ReleaseTypes'
  BY <1>1, <1>2, <1>3, <1>7 DEF ReleaseTypes, R!ReleaseTypeOK, CommandIs, R!PackageSteps
<1>10. Packaging'
  BY <1>1, <1>3, <1>7, <1>8 DEF Packaging, R!PackageSteps
<1>11. due # None => PackagingOn'
  <2>1. Room' <=> Room
    BY <1>1 DEF Room, R!Mac
  <2>2. due # None => R!CopiedAsStaged(app)'
    BY <1>1, <1>2, <1>6 DEF PackagingOn, R!CopiedAsStaged
  <2>3. R!FusesHold(app)'
    BY <1>5, <1>6 DEF R!FusesHold
  <2> QED  BY <1>1, <1>2, <1>3, <1>6, <1>7, <2>1, <2>2, <2>3, NoneIsNoStep DEF PackagingOn, R!PackageSteps
<1>12. Undisturbed'
  BY <1>1, <1>2, <1>3, <1>11 DEF Undisturbed
<1> QED  BY <1>1, <1>3, <1>9, <1>10, <1>12, PackageGoesOn DEF R!PackageSteps

LEMMA ReconcilesApp ==
  ASSUME ReleaseIInv, R!Reconcile
  PROVE  ReleaseIInv'
<1>1. /\ command.step = "reconcile" /\ command.step \in R!PackageSteps
      /\ UNCHANGED <<target, wanted, head, files, cache, shell, staged, app, mapping, pkg, evidence, touched, slipped>>
  BY DEF R!Reconcile, R!At, R!sourceVars, R!outputVars, R!Ledger, R!PackageSteps
<1>2. /\ CommandIs /\ command.command = "package" /\ ReleaseTypes
      /\ due # None => due = "package" /\ PackagingOn /\ files = head /\ head = wanted /\ Room
      /\ app \in R!Apps /\ Traced(app, slipped, target)
      /\ due # None => app.manifest # None /\ app.manifest.commit = head
  BY <1>1, Finalization
<1>3. due # None => R!CopiedAsStaged(app) /\ R!FusesHold(app)
  BY <1>1, <1>2 DEF PackagingOn
<1>4. CASE ~(R!CopiedAsStaged(app) /\ R!FusesHold(app))
  BY <1>1, <1>3, <1>4, Refuses DEF R!Reconcile, unrefused
<1>5. CASE R!CopiedAsStaged(app) /\ R!FusesHold(app)
  <2>1. /\ command' = [command |-> "package", step |-> "recheck", note |-> R!Collected(app)]
        /\ due' = due /\ refused' = refused
    BY <1>2, <1>5, GoesOn DEF R!Reconcile
  <2>2. Unfinished(app.manifest) /\ app.manifest # None /\ R!Collected(app) \in R!Collections
    BY <1>2, <1>5, AppHas DEF R!CopiedAsStaged, Unfinished
  <2>3. BundleOf(R!Collected(app).bundle, slipped)
    BY <1>2, <2>2, AppHas DEF Traced, Unfinished
  <2>4. ReleaseTypes'
    BY <1>1, <1>2, <2>1 DEF ReleaseTypes, R!ReleaseTypeOK, CommandIs, R!PackageSteps
  <2>5. Packaging'
    BY <1>1, <1>2, <2>1, <2>2, <2>3 DEF Packaging, R!PackageSteps
  <2>6. due # None => PackagingOn'
    BY <1>1, <1>2, <1>5, <2>1, NoneIsNoStep DEF PackagingOn, Room, R!Mac, R!CopiedAsStaged, R!FusesHold,
       R!Collected, R!PackageSteps
  <2>7. Undisturbed'
    BY <1>1, <1>2, <2>1, <2>6 DEF Undisturbed
  <2> QED  BY <1>1, <2>1, <2>4, <2>5, <2>7, PackageGoesOn DEF R!PackageSteps
<1> QED  BY <1>4, <1>5

LEMMA Rechecks ==
  ASSUME ReleaseIInv, R!Recheck
  PROVE  ReleaseIInv'
<1>1. /\ command.step = "recheck" /\ command.step \in R!PackageSteps
      /\ UNCHANGED <<target, wanted, head, files, cache, shell, staged, app, mapping, pkg, evidence, touched, slipped>>
  BY DEF R!Recheck, R!At, R!sourceVars, R!outputVars, R!Ledger, R!PackageSteps
<1>2. /\ CommandIs /\ command.command = "package" /\ ReleaseTypes /\ Packaging
      /\ due # None => due = "package" /\ PackagingOn /\ files = head /\ head = wanted /\ Room
      /\ app \in R!Apps /\ Traced(app, slipped, target)
      /\ due # None => app.manifest # None /\ app.manifest.commit = head
  BY <1>1, Finalization
<1>3. due # None => R!CopiedAsStaged(app) /\ R!FusesHold(app) /\ command.note = R!Collected(app)
  BY <1>1, <1>2 DEF PackagingOn
<1>4. /\ command.note \in R!Collections /\ Unfinished(app.manifest) /\ app.manifest # None
      /\ BundleOf(command.note.bundle, slipped)
  BY <1>1, <1>2, ReleaseAssumption DEF Packaging, Unfinished
<1>5. CASE ~R!CopiedAsStaged(app)
  BY <1>1, <1>3, <1>5, Refuses DEF R!Recheck, unrefused
<1>6. CASE R!CopiedAsStaged(app)
  <2>1. UiIn(app.manifest.commit, app.ui, slipped, target) /\ ShellOf(app.manifest.commit, app.shell, slipped)
    BY <1>2, <1>4, <1>6 DEF Traced, Unfinished, R!CopiedAsStaged, UiOf, UiIn
  <2>2. CASE R!Mac
    <3>1. /\ command' = [command |-> "package", step |-> "sign", note |-> command.note]
          /\ due' = due /\ refused' = refused
      BY <1>2, <1>6, <2>2, GoesOn DEF R!Recheck
    <3>2. ReleaseTypes'
      BY <1>1, <1>2, <3>1 DEF ReleaseTypes, R!ReleaseTypeOK, CommandIs, R!PackageSteps
    <3>3. Packaging'
      BY <1>1, <1>2, <1>4, <2>1, <2>2, <3>1 DEF Packaging, R!Mac, R!PackageSteps
    <3>4. due # None => PackagingOn'
      BY <1>1, <1>2, <1>3, <3>1, NoneIsNoStep DEF PackagingOn, Room, R!Mac, R!CopiedAsStaged, R!FusesHold,
         R!Collected, R!PackageSteps
    <3>5. Undisturbed'
      BY <1>1, <1>2, <3>1, <3>4 DEF Undisturbed
    <3> QED  BY <1>1, <3>1, <3>2, <3>3, <3>5, PackageGoesOn DEF R!PackageSteps
  <2>3. CASE ~R!Mac
    <3>1. /\ command' = [command |-> "package", step |-> "write",
                         note |-> [R!Collected(app) EXCEPT !.bundle = command.note.bundle]]
          /\ due' = due /\ refused' = refused
      BY <1>2, <1>6, <2>3, GoesOn DEF R!Recheck
    <3>2. command'.note = [ui |-> app.ui, shell |-> app.shell, bundle |-> command.note.bundle, signed |-> app.signed]
      BY <1>2, <3>1, AppHas
    <3>3. command'.note \in R!Collections
      BY <1>2, <1>4, <3>2, AppHas DEF R!Collections
    <3>4. due # None => command'.note = R!Collected(app)
      BY <1>2, <1>3, <3>2, AppHas
    <3>5. ReleaseTypes'
      BY <1>1, <1>2, <3>1 DEF ReleaseTypes, R!ReleaseTypeOK, CommandIs, R!PackageSteps
    <3>6. Packaging'
      BY <1>1, <1>2, <1>4, <2>1, <3>1, <3>2, <3>3 DEF Packaging, R!PackageSteps
    <3>7. due # None => PackagingOn'
      BY <1>1, <1>2, <1>3, <3>1, <3>4, NoneIsNoStep DEF PackagingOn, Room, R!Mac, R!Collected, R!PackageSteps
    <3>8. Undisturbed'
      BY <1>1, <1>2, <3>1, <3>7 DEF Undisturbed
    <3> QED  BY <1>1, <3>1, <3>5, <3>6, <3>8, PackageGoesOn DEF R!PackageSteps
  <2> QED  BY <2>2, <2>3
<1> QED  BY <1>5, <1>6

LEMMA SignsNested ==
  ASSUME ReleaseIInv, R!SignNested
  PROVE  ReleaseIInv'
<1>1. /\ command.step = "sign" /\ command.step \in R!PackageSteps /\ app' = [app EXCEPT !.signed = TRUE]
      /\ UNCHANGED <<target, wanted, head, files, cache, shell, staged, mapping, pkg, evidence, touched, slipped>>
  BY DEF R!SignNested, R!At, R!sourceVars, R!Ledger, R!PackageSteps
<1>2. /\ CommandIs /\ command.command = "package" /\ ReleaseTypes /\ Packaging
      /\ due # None => due = "package" /\ PackagingOn /\ files = head /\ head = wanted /\ Room
      /\ app \in R!Apps /\ Traced(app, slipped, target)
      /\ due # None => app.manifest # None /\ app.manifest.commit = head
  BY <1>1, Finalization
<1>3. /\ command' = [command |-> "package", step |-> "gather", note |-> command.note]
      /\ due' = due /\ refused' = refused
  BY <1>2, GoesOn DEF R!SignNested
<1>4. app' = [ui |-> app.ui, shell |-> app.shell, bundle |-> app.bundle, signed |-> TRUE,
              sealed |-> app.sealed, manifest |-> app.manifest]
  BY <1>1, <1>2, AppWith
<1>5. app' \in R!Apps
  BY <1>2, <1>4, AppHas, IsApp
<1>6. Traced(app', slipped, target)
  BY <1>2, <1>4 DEF Traced
<1>7. ReleaseTypes'
  BY <1>1, <1>2, <1>3, <1>5 DEF ReleaseTypes, R!ReleaseTypeOK, CommandIs, R!PackageSteps
<1>8. Packaging'
  BY <1>1, <1>2, <1>3, <1>4, <1>5, <1>6 DEF Packaging, R!Mac, R!PackageSteps
<1>9. due # None => PackagingOn'
  BY <1>1, <1>2, <1>3, <1>4, <1>5, NoneIsNoStep DEF PackagingOn, Room, R!Mac, R!FusesHold, R!PackageSteps
<1>10. Undisturbed'
  BY <1>1, <1>2, <1>3, <1>9 DEF Undisturbed
<1> QED  BY <1>1, <1>3, <1>7, <1>8, <1>10, PackageGoesOn DEF R!PackageSteps

LEMMA GathersSigned ==
  ASSUME ReleaseIInv, R!GatherSigned
  PROVE  ReleaseIInv'
<1>1. /\ command.step = "gather" /\ command.step \in R!PackageSteps
      /\ UNCHANGED <<target, wanted, head, files, cache, shell, staged, app, mapping, pkg, evidence, touched, slipped>>
  BY DEF R!GatherSigned, R!At, R!sourceVars, R!outputVars, R!Ledger, R!PackageSteps
<1>2. /\ CommandIs /\ command.command = "package" /\ ReleaseTypes /\ Packaging
      /\ due # None => due = "package" /\ PackagingOn /\ files = head /\ head = wanted /\ Room
      /\ app \in R!Apps /\ Traced(app, slipped, target)
      /\ due # None => app.manifest # None /\ app.manifest.commit = head
  BY <1>1, Finalization
<1>3. due # None => R!FusesHold(app)
  BY <1>1, <1>2 DEF PackagingOn
<1>4. Unfinished(app.manifest) /\ app.manifest # None /\ UiIn(app.manifest.commit, app.ui, slipped, target)
  BY <1>1, <1>2, ReleaseAssumption DEF Packaging, Unfinished
<1>5. CASE ~R!FusesHold(app)
  BY <1>1, <1>3, <1>5, Refuses DEF R!GatherSigned, unrefused
<1>6. CASE R!FusesHold(app)
  <2>1. /\ command' = [command |-> "package", step |-> "write", note |-> R!Collected(app)]
        /\ due' = due /\ refused' = refused
    BY <1>2, <1>6, GoesOn DEF R!GatherSigned
  <2>2. /\ R!Collected(app) \in R!Collections /\ R!Collected(app).ui = app.ui
        /\ R!Collected(app).shell = app.shell /\ R!Collected(app).bundle = app.bundle
    BY <1>2, AppHas
  <2>3. ShellOf(app.manifest.commit, app.shell, slipped) /\ BundleOf(app.bundle, slipped)
    BY <1>2, <1>4 DEF Traced, Unfinished
  <2>4. ReleaseTypes'
    BY <1>1, <1>2, <2>1 DEF ReleaseTypes, R!ReleaseTypeOK, CommandIs, R!PackageSteps
  <2>5. Packaging'
    BY <1>1, <1>2, <1>4, <2>1, <2>2, <2>3 DEF Packaging, R!PackageSteps
  <2>6. due # None => PackagingOn'
    BY <1>1, <1>2, <2>1, NoneIsNoStep DEF PackagingOn, Room, R!Mac, R!Collected, R!PackageSteps
  <2>7. Undisturbed'
    BY <1>1, <1>2, <2>1, <2>6 DEF Undisturbed
  <2> QED  BY <1>1, <2>1, <2>4, <2>5, <2>7, PackageGoesOn DEF R!PackageSteps
<1> QED  BY <1>5, <1>6

LEMMA WritesManifest ==
  ASSUME ReleaseIInv, R!WriteManifest
  PROVE  ReleaseIInv'
<1> DEFINE m == [commit |-> app.manifest.commit, ui |-> command.note.ui, shell |-> command.note.shell,
                 bundle |-> command.note.bundle, signed |-> command.note.signed, final |-> TRUE]
<1>1. /\ command.step = "write" /\ command.step \in R!PackageSteps /\ app' = [app EXCEPT !.manifest = m]
      /\ UNCHANGED <<target, wanted, head, files, cache, shell, staged, mapping, pkg, evidence, touched, slipped>>
  BY DEF R!WriteManifest, R!At, R!sourceVars, R!Ledger, R!PackageSteps
<1>2. /\ CommandIs /\ command.command = "package" /\ ReleaseTypes /\ Packaging
      /\ due # None => due = "package" /\ PackagingOn /\ files = head /\ head = wanted /\ Room
      /\ app \in R!Apps
      /\ due # None => app.manifest # None /\ app.manifest.commit = head
  BY <1>1, Finalization
<1>3. due # None => command.note = R!Collected(app)
  BY <1>1, <1>2 DEF PackagingOn
<1>4. /\ command.note \in R!Collections /\ Unfinished(app.manifest) /\ BundleOf(command.note.bundle, slipped)
      /\ UiIn(app.manifest.commit, command.note.ui, slipped, target)
      /\ ShellOf(app.manifest.commit, command.note.shell, slipped)
  BY <1>1, <1>2 DEF Packaging
<1>5. m \in R!Manifests
  <2>1. app.manifest.commit \in Commits
    BY <1>4 DEF Unfinished, R!Manifests
  <2> QED  BY <1>4, <2>1 DEF R!Manifests, R!Collections
<1>6. app' = [ui |-> app.ui, shell |-> app.shell, bundle |-> app.bundle, signed |-> app.signed,
              sealed |-> app.sealed, manifest |-> m]
  BY <1>1, <1>2, AppWith
<1>7. app' \in R!Apps
  BY <1>2, <1>5, <1>6, AppHas, IsApp
<1>8. Traced(app', slipped, target)
  BY <1>4, <1>6 DEF Traced
<1>9. due # None => R!Identified(app') /\ app'.manifest.commit = head
  <2>1. app'.manifest = m /\ m # None
    BY <1>5, <1>6, ReleaseAssumption
  <2>2. R!Bound(m) = R!Collected(app') <=> command.note = R!Collected(app)
    <3>1. command.note = [ui |-> command.note.ui, shell |-> command.note.shell, bundle |-> command.note.bundle,
                          signed |-> command.note.signed]
      BY <1>4 DEF R!Collections
    <3>2. R!Bound(m) = command.note
      BY <3>1 DEF R!Bound
    <3>3. R!Collected(app') = R!Collected(app)
      BY <1>6 DEF R!Collected
    <3> QED  BY <3>2, <3>3
  <2>3. m.final = TRUE /\ m.commit = app.manifest.commit
    OBVIOUS
  <2> HIDE DEF m
  <2> QED  BY <1>2, <1>3, <2>1, <2>2, <2>3 DEF R!Identified
<1>10. \E st \in {"seal", "inspect"} :
         /\ command' = [command |-> "package", step |-> st, note |-> command.note]
         /\ st = "inspect" => ~R!Mac
         /\ due' = due /\ refused' = refused
  BY <1>2, GoesOn DEF R!WriteManifest
<1> HIDE DEF m
<1>11. ReleaseTypes'
  BY <1>1, <1>2, <1>7, <1>10 DEF ReleaseTypes, R!ReleaseTypeOK, CommandIs, R!PackageSteps
<1>12. Packaging'
  BY <1>1, <1>7, <1>8, <1>10 DEF Packaging, R!PackageSteps
<1>13. due # None => PackagingOn'
  <2>1. Room' <=> Room
    BY <1>1 DEF Room, R!Mac
  <2>2. due # None => app'.manifest # None
    BY <1>9 DEF R!Identified
  <2>3. due # None => R!Identified(app)'
    BY <1>9 DEF R!Identified, R!Bound, R!Collected
  <2> QED  BY <1>1, <1>2, <1>7, <1>9, <1>10, <2>1, <2>2, <2>3, NoneIsNoStep DEF PackagingOn, Shippable, R!Mac, R!PackageSteps
<1>14. Undisturbed'
  BY <1>1, <1>2, <1>10, <1>13 DEF Undisturbed
<1> QED  BY <1>1, <1>10, <1>11, <1>12, <1>14, PackageGoesOn DEF R!PackageSteps

LEMMA SealsOuter ==
  ASSUME ReleaseIInv, R!SealOuter
  PROVE  ReleaseIInv'
<1> DEFINE h == [contents |-> R!Collected(app), manifest |-> app.manifest]
<1>1. /\ command.step = "seal" /\ command.step \in R!PackageSteps /\ app' = [app EXCEPT !.sealed = h]
      /\ UNCHANGED <<target, wanted, head, files, cache, shell, staged, mapping, pkg, evidence, touched, slipped>>
  BY DEF R!SealOuter, R!At, R!sourceVars, R!Ledger, R!PackageSteps
<1>2. /\ CommandIs /\ command.command = "package" /\ ReleaseTypes /\ Packaging
      /\ due # None => due = "package" /\ PackagingOn /\ files = head /\ head = wanted /\ Room
      /\ app \in R!Apps /\ Traced(app, slipped, target)
      /\ due # None => app.manifest # None /\ app.manifest.commit = head
  BY <1>1, Finalization
<1>3. /\ command' = [command |-> "package", step |-> "inspect", note |-> command.note]
      /\ due' = due /\ refused' = refused
  BY <1>2, GoesOn DEF R!SealOuter
<1>4. due # None => R!Identified(app)
  BY <1>1, <1>2 DEF PackagingOn
<1>5. h \in R!Seals
  BY <1>2, AppHas DEF R!Seals
<1>6. app' = [ui |-> app.ui, shell |-> app.shell, bundle |-> app.bundle, signed |-> app.signed,
              sealed |-> h, manifest |-> app.manifest]
  BY <1>1, <1>2, AppWith
<1>7. app' \in R!Apps
  BY <1>2, <1>5, <1>6, AppHas, IsApp
<1>8. Traced(app', slipped, target)
  BY <1>2, <1>6 DEF Traced
<1>9. due # None => Shippable(app)'
  <2>1. R!Collected(app') = R!Collected(app) /\ app'.manifest = app.manifest /\ app'.sealed = h
    BY <1>6 DEF R!Collected
  <2>2. R!Identified(app') <=> R!Identified(app)
    BY <2>1 DEF R!Identified
  <2>3. R!SealHolds(app')
    BY <2>1 DEF R!SealHolds
  <2> QED  BY <1>1, <1>2, <1>4, <2>1, <2>2, <2>3 DEF Shippable
<1> HIDE DEF h
<1>10. ReleaseTypes'
  BY <1>1, <1>2, <1>3, <1>7 DEF ReleaseTypes, R!ReleaseTypeOK, CommandIs, R!PackageSteps
<1>11. Packaging'
  BY <1>1, <1>3, <1>7, <1>8 DEF Packaging, R!PackageSteps
<1>12. due # None => PackagingOn'
  BY <1>1, <1>2, <1>3, <1>6, <1>7, <1>9, NoneIsNoStep DEF PackagingOn, Room, R!Mac, R!PackageSteps
<1>13. Undisturbed'
  BY <1>1, <1>2, <1>3, <1>12 DEF Undisturbed
<1> QED  BY <1>1, <1>3, <1>10, <1>11, <1>13, PackageGoesOn DEF R!PackageSteps

LEMMA InspectsSealed ==
  ASSUME ReleaseIInv, R!InspectSealed
  PROVE  ReleaseIInv'
<1>1. /\ command.step = "inspect" /\ command.step \in R!PackageSteps
      /\ UNCHANGED <<target, wanted, head, files, cache, shell, staged, app, mapping, pkg, evidence, touched, slipped>>
  BY DEF R!InspectSealed, R!At, R!sourceVars, R!outputVars, R!Ledger, R!PackageSteps
<1>2. /\ CommandIs /\ command.command = "package" /\ ReleaseTypes
      /\ due # None => due = "package" /\ PackagingOn /\ files = head /\ head = wanted /\ Room
      /\ app \in R!Apps /\ Traced(app, slipped, target)
      /\ due # None => app.manifest # None /\ app.manifest.commit = head
  BY <1>1, Finalization
<1>3. due # None => Shippable(app)
  BY <1>1, <1>2 DEF PackagingOn
<1>4. CASE ~(R!Identified(app) /\ (R!Mac => R!SealHolds(app)))
  BY <1>1, <1>3, <1>4, Refuses DEF R!InspectSealed, Shippable, unrefused
<1>5. CASE R!Identified(app) /\ (R!Mac => R!SealHolds(app))
  <2>1. /\ command' = [command |-> "package", step |-> "record", note |-> app.manifest]
        /\ due' = due /\ refused' = refused
    BY <1>2, <1>5, GoesOn DEF R!InspectSealed
  <2>2. app.manifest \in R!Manifests
    BY <1>2, <1>5, AppHas DEF R!Identified
  <2>3. ReleaseTypes'
    BY <1>1, <1>2, <2>1 DEF ReleaseTypes, R!ReleaseTypeOK, CommandIs, R!PackageSteps
  <2>4. Packaging'
    BY <1>1, <1>2, <2>1, <2>2 DEF Packaging, R!PackageSteps
  <2>5. Shippable(app)' <=> Shippable(app)
    BY <1>1 DEF Shippable, R!Identified, R!Bound, R!Collected, R!SealHolds, R!Mac
  <2>6. due # None => PackagingOn'
    BY <1>1, <1>2, <1>3, <2>1, <2>5, NoneIsNoStep DEF PackagingOn, Room, R!Mac, R!PackageSteps
  <2>7. Undisturbed'
    BY <1>1, <1>2, <2>1, <2>6 DEF Undisturbed
  <2> QED  BY <1>1, <2>1, <2>3, <2>4, <2>7, PackageGoesOn DEF R!PackageSteps
<1> QED  BY <1>4, <1>5

LEMMA RecordsArtifact ==
  ASSUME ReleaseIInv, R!RecordArtifact
  PROVE  ReleaseIInv'
<1>1. /\ command.step = "record" /\ command.step \in R!PackageSteps
      /\ evidence' = [evidence EXCEPT !.artifact = command.note]
      /\ UNCHANGED <<target, wanted, head, files, cache, shell, staged, app, mapping, pkg, touched, slipped>>
  BY DEF R!RecordArtifact, R!At, R!sourceVars, R!Ledger, R!PackageSteps
<1>2. /\ CommandIs /\ command.command = "package" /\ ReleaseTypes /\ Packaging
      /\ due # None => due = "package" /\ PackagingOn /\ files = head /\ head = wanted /\ Room
      /\ due # None => app \in R!Apps
  BY <1>1, Finalization
<1>3. due # None => Shippable(app)
  BY <1>1, <1>2 DEF PackagingOn
<1>4. /\ command' = R!Idle /\ command'.step = None /\ refused' = refused
      /\ due = None => due' = None
      /\ due # None => due' = "make"
  BY <1>2 DEF R!RecordArtifact, R!Finish, R!Successor, R!Idle
<1>5. evidence' = [artifact |-> command.note, build |-> evidence.build, package |-> evidence.package]
  BY <1>1, <1>2 DEF ReleaseTypes
<1>6. ReleaseTypes'
  BY <1>1, <1>2, <1>4, <1>5 DEF ReleaseTypes, R!ReleaseTypeOK, CommandIs, R!Idle
<1>7. Packaging'
  BY <1>1, <1>2, <1>4, NoneIsNoStep DEF Packaging, R!PackageSteps
<1>8. Shippable(app)' <=> Shippable(app)
  BY <1>1 DEF Shippable, R!Identified, R!Bound, R!Collected, R!SealHolds, R!Mac
<1>9. due # None => Making'
  BY <1>1, <1>2, <1>3, <1>4, <1>8, NoneIsNoStep DEF Making, Room, R!Mac, R!MakeSteps
<1>10. Undisturbed'
  BY <1>1, <1>2, <1>4, <1>9 DEF Undisturbed
<1> QED  BY <1>1, <1>4, <1>5, <1>6, <1>7, <1>10, PackageGoesOn

-----------------------------------------------------------------------------
(* make and verify: what was staged and what was packaged is kept.           *)
LEMMA ShippingGoesOn ==
  ASSUME ReleaseIInv, command'.step \in R!MakeSteps \cup R!VerifySteps \cup {None},
         UNCHANGED <<target, wanted, cache, shell, staged, app, slipped, refused>>, due = None => due' = None,
         ReleaseTypes', Shipping', OnWindows', OnMac', Flawed', Undisturbed', R!VerifiedAsCommitted'
  PROVE  ReleaseIInv'
<1>1. command'.step \notin R!PrepareSteps \cup R!PackageSteps
  BY NoneIsNoStep DEF R!PrepareSteps, R!PackageSteps, R!MakeSteps, R!VerifySteps
<1>2. Archives' /\ Building' /\ Staged'
  BY <1>1, BuildingElsewhere
<1>3. Packaging'
  BY <1>1, PackagingElsewhere
<1>4. R!CleanReleasePasses'
  BY DEF ReleaseIInv, R!CleanReleasePasses
<1> QED  BY <1>2, <1>3, <1>4 DEF ReleaseIInv

(* A step of make, and what it finds.                                        *)
LEMMA Manufacture ==
  ASSUME ReleaseIInv, command.step \in R!MakeSteps
  PROVE  /\ CommandIs /\ command.command = "make" /\ ReleaseTypes /\ Packaging /\ Shipping /\ Flawed
         /\ due # None => due = "make" /\ Making /\ files = head /\ head = wanted /\ app \in R!Apps /\ Shippable(app)
         /\ app # None => app \in R!Apps /\ Traced(app, slipped, target)
<1>1. /\ CommandIs /\ command.command = "make" /\ ReleaseTypes /\ Packaging /\ Shipping /\ Flawed
      /\ due # None => due = "make" /\ Making /\ files = head /\ head = wanted
  BY StepIsOf DEF ReleaseIInv
<1>2. app # None => app \in R!Apps /\ Traced(app, slipped, target)
  BY <1>1 DEF Packaging, ReleaseTypes, R!ReleaseTypeOK
<1> QED  BY <1>1, <1>2 DEF Making

(* What was found of a package does not count for the steps of make.         *)
LEMMA NotVerifying ==
  ASSUME command'.step \in R!MakeSteps \cup {None}
  PROVE  OnWindows' /\ OnMac'
BY NoneIsNoStep DEF OnWindows, OnMac, R!MakeSteps, R!VerifySteps

LEMMA ShippableStays ==
  ASSUME UNCHANGED <<app, head, target>>
  PROVE  Shippable(app)' <=> Shippable(app)
BY DEF Shippable, R!Identified, R!Bound, R!Collected, R!SealHolds, R!Mac

LEMMA Preflights ==
  ASSUME ReleaseIInv, R!Preflight
  PROVE  ReleaseIInv'
<1>1. /\ command.step = "preflight" /\ command.step \in R!MakeSteps /\ ~R!Mac
      /\ UNCHANGED <<target, wanted, head, files, cache, shell, staged, app, pkg, evidence, slipped>>
  BY DEF R!Preflight, R!At, R!sourceVars, R!MakeSteps
<1>2. /\ CommandIs /\ command.command = "make" /\ ReleaseTypes /\ Packaging /\ Shipping /\ Flawed
      /\ due # None => due = "make" /\ Making /\ files = head /\ head = wanted /\ app \in R!Apps /\ Shippable(app)
      /\ app # None => app \in R!Apps /\ Traced(app, slipped, target)
  BY <1>1, Manufacture
<1> DEFINE Passes == pkg = None /\ ~mapping /\ app # None /\ R!FinalizedHere(app)
<1>3. due # None => Passes
  BY <1>1, <1>2, ReleaseAssumption DEF Making, Room, Shippable, R!FinalizedHere
<1>4. CASE ~Passes
  <2>1. R!Refuse /\ UNCHANGED mapping
    BY <1>4 DEF R!Preflight
  <2> QED  BY <1>1, <1>3, <1>4, <2>1, Refuses DEF unrefused
<1>5. CASE Passes
  <2>1. /\ command' = [command |-> "make", step |-> "pack", note |-> app.manifest]
        /\ due' = due /\ refused' = refused /\ touched' = {} /\ mapping' = TRUE
    BY <1>2, <1>5, GoesOn DEF R!Preflight
  <2>2. app \in R!Apps /\ app.manifest \in R!Manifests
    BY <1>2, <1>5, AppHas DEF R!FinalizedHere, R!Identified
  <2>3. ReleaseTypes'
    BY <1>1, <1>2, <2>1 DEF ReleaseTypes, R!ReleaseTypeOK, CommandIs, R!MakeSteps
  <2>4. Shipping' /\ Flawed'
    BY <1>1, <1>2, <2>1, <2>2 DEF Shipping, Flawed, R!Flaws, R!Mac
  <2>5. due # None => Making'
    BY <1>1, <1>2, <2>1, <2>2, ShippableStays, NoneIsNoStep DEF Making, R!MakeSteps
  <2>6. Undisturbed'
    BY <1>1, <1>2, <2>1, <2>5 DEF Undisturbed
  <2>7. OnWindows' /\ OnMac'
    BY <2>1, NotVerifying DEF R!MakeSteps
  <2>8. R!VerifiedAsCommitted'
    BY <1>1, VerifiedStays
  <2> HIDE DEF Passes
  <2> QED  BY <1>1, <2>1, <2>3, <2>4, <2>6, <2>7, <2>8, ShippingGoesOn DEF R!MakeSteps
<1> QED  BY <1>4, <1>5

LEMMA IsPackage ==
  ASSUME NEW a \in R!Apps
  PROVE  /\ R!Package(a) \in R!Packages /\ R!Package(a).holds = a /\ R!Package(a).flaw = None
         /\ R!Package(a) # None
<1>1. R!Package(a) = [holds |-> a, flaw |-> None]
  BY DEF R!Package
<1>2. R!Package(a) \in R!Packages
  BY <1>1 DEF R!Packages
<1> QED  BY <1>1, <1>2, ReleaseAssumption

LEMMA MakesAppx ==
  ASSUME ReleaseIInv, R!MakeAppx
  PROVE  ReleaseIInv'
<1>1. /\ command.step = "pack" /\ command.step \in R!MakeSteps /\ pkg' = R!Package(app)
      /\ UNCHANGED <<target, wanted, head, files, cache, shell, staged, app, mapping, evidence, touched, slipped>>
  BY DEF R!MakeAppx, R!At, R!sourceVars, R!Ledger, R!MakeSteps
<1>2. /\ CommandIs /\ command.command = "make" /\ ReleaseTypes /\ Packaging /\ Shipping /\ Flawed
      /\ due # None => due = "make" /\ Making /\ files = head /\ head = wanted /\ app \in R!Apps /\ Shippable(app)
      /\ app # None => app \in R!Apps /\ Traced(app, slipped, target)
  BY <1>1, Manufacture
<1>3. app \in R!Apps /\ Traced(app, slipped, target) /\ command.note \in R!Manifests
  BY <1>1, <1>2, ReleaseAssumption DEF Shipping
<1>4. /\ command' = [command |-> "make", step |-> "built", note |-> command.note]
      /\ due' = due /\ refused' = refused
  BY <1>2, GoesOn DEF R!MakeAppx
<1>5. pkg' \in R!Packages /\ pkg'.holds = app /\ pkg'.flaw = None
  BY <1>1, <1>3, IsPackage
<1>6. ReleaseTypes'
  BY <1>1, <1>2, <1>4, <1>5 DEF ReleaseTypes, R!ReleaseTypeOK, CommandIs, R!MakeSteps
<1>7. Shipping' /\ Flawed'
  BY <1>1, <1>3, <1>4, <1>5 DEF Shipping, Flawed
<1>8. due # None => Making'
  <2>1. R!Package(app)' = R!Package(app)
    BY <1>1 DEF R!Package
  <2> QED  BY <1>1, <1>2, <1>4, <2>1, ShippableStays, NoneIsNoStep DEF Making, R!MakeSteps
<1>9. Undisturbed'
  BY <1>1, <1>2, <1>4, <1>8 DEF Undisturbed
<1>10. OnWindows' /\ OnMac'
  BY <1>4, NotVerifying DEF R!MakeSteps
<1>11. R!VerifiedAsCommitted'
  BY <1>1, VerifiedStays
<1> QED  BY <1>1, <1>4, <1>6, <1>7, <1>9, <1>10, <1>11, ShippingGoesOn DEF R!MakeSteps

LEMMA RecordsBuild ==
  ASSUME ReleaseIInv, R!RecordBuild
  PROVE  ReleaseIInv'
<1> DEFINE b == [commit |-> command.note.commit, artifact |-> command.note, package |-> pkg]
<1>1. /\ command.step = "built" /\ command.step \in R!MakeSteps
      /\ UNCHANGED <<target, wanted, head, files, cache, shell, staged, app, mapping, pkg, touched, slipped>>
      /\ \/ "app" \in touched /\ R!Refuse /\ UNCHANGED evidence
         \/ "app" \notin touched /\ evidence' = [evidence EXCEPT !.build = b] /\ R!Finish
  BY DEF R!RecordBuild, R!At, R!sourceVars, R!Ledger, R!MakeSteps
<1>2. /\ CommandIs /\ command.command = "make" /\ ReleaseTypes /\ Packaging /\ Shipping /\ Flawed
      /\ due # None => due = "make" /\ Making /\ files = head /\ head = wanted /\ app \in R!Apps /\ Shippable(app)
  BY <1>1, Manufacture
<1>3. command.note \in R!Manifests /\ pkg \in R!Packages
  BY <1>1, <1>2 DEF Shipping
<1>4. due # None => /\ "app" \notin touched /\ command.note = app.manifest /\ pkg = R!Package(app)
  BY <1>1, <1>2 DEF Making
<1>5. CASE "app" \in touched
  BY <1>1, <1>4, <1>5, Refuses DEF unrefused
<1>6. CASE "app" \notin touched
  <2>1. /\ command' = R!Idle /\ command'.step = None /\ refused' = refused
        /\ due = None => due' = None
        /\ due # None => due' = "verify"
    BY <1>1, <1>2, <1>6 DEF R!Finish, R!Successor, R!Idle
  <2>2. evidence' = [artifact |-> evidence.artifact, build |-> b, package |-> evidence.package]
    BY <1>1, <1>2, <1>6 DEF ReleaseTypes
  <2>3. b \in R!Builds
    <3>1. command.note.commit \in Commits
      BY <1>3 DEF R!Manifests
    <3> QED  BY <1>3, <3>1 DEF R!Builds
  <2>4. b.package = pkg /\ b.commit = command.note.commit
    OBVIOUS
  <2> HIDE DEF b
  <2>5. ReleaseTypes'
    BY <1>1, <1>2, <2>1, <2>2, <2>3 DEF ReleaseTypes, R!ReleaseTypeOK, CommandIs, R!Idle
  <2>6. Shipping' /\ Flawed'
    BY <1>1, <1>2, <2>1, NoneIsNoStep DEF Shipping, Flawed, R!Flaws, R!Mac, R!MakeSteps
  <2>7. due # None => Verifying'
    <3>1. R!Package(app)' = R!Package(app)
      BY <1>1 DEF R!Package
    <3>2. Shippable(app)' <=> Shippable(app)
      BY <1>1, ShippableStays
    <3>3. due # None => b.commit = head
      BY <1>2, <1>4, <2>4 DEF Shippable
    <3> QED  BY <1>1, <1>2, <1>4, <2>1, <2>2, <2>3, <2>4, <3>1, <3>2, <3>3, NoneIsNoStep DEF Verifying, R!VerifySteps
  <2>8. Undisturbed'
    BY <1>1, <1>2, <2>1, <2>7 DEF Undisturbed
  <2>9. OnWindows' /\ OnMac'
    BY <2>1, NotVerifying
  <2>10. R!VerifiedAsCommitted'
    BY <1>1, <2>2, VerifiedStays
  <2> QED  BY <1>1, <2>1, <2>5, <2>6, <2>8, <2>9, <2>10, ShippingGoesOn
<1> QED  BY <1>5, <1>6

LEMMA MakesInstaller ==
  ASSUME ReleaseIInv, R!MakeInstaller
  PROVE  ReleaseIInv'
<1>1. /\ command.step = "preflight" /\ command.step \in R!MakeSteps /\ R!Mac
      /\ UNCHANGED <<target, wanted, head, files, cache, shell, staged, app, mapping, evidence, touched, slipped>>
  BY DEF R!MakeInstaller, R!At, R!sourceVars, R!Ledger, R!MakeSteps
<1>2. /\ CommandIs /\ command.command = "make" /\ ReleaseTypes /\ Packaging /\ Shipping /\ Flawed
      /\ due # None => due = "make" /\ Making /\ files = head /\ head = wanted /\ app \in R!Apps /\ Shippable(app)
      /\ app # None => app \in R!Apps /\ Traced(app, slipped, target)
  BY <1>1, Manufacture
<1>3. CASE app = None
  <2>1. due = None /\ R!Refuse /\ UNCHANGED pkg
    BY <1>2, <1>3, ReleaseAssumption DEF R!MakeInstaller
  <2> QED  BY <1>1, <2>1, Refuses DEF unrefused
<1>4. CASE app # None
  <2>1. /\ command' = R!Idle /\ command'.step = None /\ refused' = refused
        /\ due = None => due' = None
        /\ due # None => due' = "verify"
    BY <1>2, <1>4 DEF R!MakeInstaller, R!Finish, R!Successor, R!Idle
  <2>2. pkg' = R!Package(app) /\ pkg' \in R!Packages /\ pkg'.holds = app /\ pkg'.flaw = None
    BY <1>2, <1>4, IsPackage DEF R!MakeInstaller
  <2>3. ReleaseTypes'
    BY <1>1, <1>2, <2>1, <2>2 DEF ReleaseTypes, R!ReleaseTypeOK, CommandIs, R!Idle
  <2>4. Shipping' /\ Flawed'
    BY <1>1, <1>2, <1>4, <2>1, <2>2, NoneIsNoStep DEF Shipping, Flawed, R!MakeSteps
  <2>5. due # None => Verifying'
    <3>1. R!Package(app)' = R!Package(app)
      BY <1>1 DEF R!Package
    <3>2. Shippable(app)' <=> Shippable(app)
      BY <1>1, ShippableStays
    <3> QED  BY <1>1, <1>2, <2>1, <2>2, <3>1, <3>2, NoneIsNoStep DEF Verifying, R!Mac, R!VerifySteps
  <2>6. Undisturbed'
    BY <1>1, <1>2, <2>1, <2>5 DEF Undisturbed
  <2>7. OnWindows' /\ OnMac'
    BY <2>1, NotVerifying
  <2>8. R!VerifiedAsCommitted'
    BY <1>1, VerifiedStays
  <2> QED  BY <1>1, <2>1, <2>3, <2>4, <2>6, <2>7, <2>8, ShippingGoesOn
<1> QED  BY <1>3, <1>4

(* A step of verify, and what it finds.                                      *)
LEMMA Verification ==
  ASSUME ReleaseIInv, command.step \in R!VerifySteps
  PROVE  /\ CommandIs /\ command.command = "verify" /\ ReleaseTypes /\ Packaging /\ Shipping /\ Flawed
         /\ OnWindows /\ OnMac /\ R!VerifiedAsCommitted
         /\ due # None => /\ due = "verify" /\ Verifying /\ files = head /\ head = wanted
                          /\ app \in R!Apps /\ Shippable(app)
                          /\ pkg = R!Package(app) /\ pkg \in R!Packages /\ pkg.flaw = None /\ pkg.holds = app
<1>1. /\ CommandIs /\ command.command = "verify" /\ ReleaseTypes /\ Packaging /\ Shipping /\ Flawed
      /\ OnWindows /\ OnMac /\ R!VerifiedAsCommitted
      /\ due # None => due = "verify" /\ Verifying /\ files = head /\ head = wanted
  BY StepIsOf DEF ReleaseIInv
<1>2. due # None => app \in R!Apps /\ Shippable(app) /\ pkg = R!Package(app)
  BY <1>1 DEF Verifying
<1> QED  BY <1>1, <1>2, IsPackage

(* A check that passes, or a look, changes nothing else.                     *)
looked == <<target, wanted, head, files, cache, shell, staged, app, mapping, pkg, evidence, slipped>>

LEMMA LooksOn ==
  ASSUME ReleaseIInv, UNCHANGED looked, command' = [command |-> "verify", step |-> command'.step, note |-> command'.note],
         command'.step \in {"outside", "inside", "settle", "publish", "last"},
         UNCHANGED <<due, refused>>, due # None => due = "verify" /\ Verifying', OnWindows', OnMac'
  PROVE  ReleaseIInv'
<1>1. /\ UNCHANGED <<target, wanted, head, files, cache, shell, staged, app, mapping, pkg, evidence, slipped>>
      /\ command'.command = "verify" /\ command'.step \in R!VerifySteps
  BY DEF looked, R!VerifySteps
<1>2. ReleaseTypes /\ Shipping /\ Flawed /\ R!VerifiedAsCommitted /\ Undisturbed
  BY DEF ReleaseIInv
<1>3. ReleaseTypes'
  BY <1>1, <1>2 DEF ReleaseTypes, R!ReleaseTypeOK, CommandIs
<1>4. Shipping' /\ Flawed'
  BY <1>1, <1>2 DEF Shipping, Flawed, R!Flaws, R!Mac, R!VerifySteps
<1>5. Undisturbed'
  BY <1>1, <1>2 DEF Undisturbed
<1>6. R!VerifiedAsCommitted'
  BY <1>1, VerifiedStays
<1> QED  BY <1>1, <1>3, <1>4, <1>5, <1>6, ShippingGoesOn

LEMMA OpensMsix ==
  ASSUME ReleaseIInv, R!OpenMsix
  PROVE  ReleaseIInv'
<1> DEFINE Passes == pkg # None /\ evidence.build # None /\ app # None /\ R!FinalizedHere(app)
           n == [app |-> app, pkg |-> pkg, build |-> evidence.build, head |-> head]
<1>1. /\ command.step = "open" /\ command.step \in R!VerifySteps /\ ~R!Mac
      /\ UNCHANGED <<target, wanted, head, files, cache, shell, staged, app, mapping, pkg, evidence, slipped>>
  BY DEF R!OpenMsix, R!At, R!sourceVars, R!outputVars, R!VerifySteps
<1>2. /\ CommandIs /\ command.command = "verify" /\ ReleaseTypes /\ Packaging /\ Shipping /\ Flawed
      /\ due # None => /\ due = "verify" /\ Verifying /\ files = head /\ head = wanted
                       /\ app \in R!Apps /\ Shippable(app)
                       /\ pkg = R!Package(app) /\ pkg \in R!Packages
  BY <1>1, Verification
<1>3. due # None => Passes
  BY <1>1, <1>2, ReleaseAssumption DEF Verifying, Shippable, R!FinalizedHere
<1>4. CASE ~Passes
  <2>1. R!Refuse
    BY <1>4 DEF R!OpenMsix
  <2> HIDE DEF n
  <2> QED  BY <1>1, <1>3, <1>4, <2>1, Refuses DEF unrefused
<1>5. CASE Passes
  <2>1. /\ command' = [command |-> "verify", step |-> "outside", note |-> n]
        /\ due' = due /\ refused' = refused /\ touched' = {}
    BY <1>2, <1>5, GoesOn DEF R!OpenMsix
  <2>2. /\ app \in R!Apps /\ pkg \in R!Packages /\ evidence.build \in R!Builds /\ head \in Commits
        /\ R!Identified(app) /\ app.manifest.commit = head /\ head = wanted
    BY <1>2, <1>5 DEF ReleaseTypes, R!ReleaseTypeOK, R!FinalizedHere
  <2>3. n \in Openings /\ n.app = app /\ n.pkg = pkg /\ n.head = head
    BY <2>2 DEF Openings
  <2>4. Traced(pkg.holds, slipped, target) /\ pkg.flaw \in R!MsixFlaws \cup {None}
    BY <1>1, <1>2, <1>5 DEF Shipping, Flawed, R!Flaws
  <2>5. OnWindows'
    <3> HIDE DEF n
    <3>1. R!Identified(app)' = R!Identified(app)
      BY <1>1 DEF R!Identified, R!Bound, R!Collected
    <3> QED  BY <1>1, <2>1, <2>2, <2>3, <2>4, <3>1 DEF OnWindows
  <2>6. OnMac'
    BY <1>1 DEF OnMac, R!Mac
  <2>7. due # None => Verifying'
    <3>1. R!Package(app)' = R!Package(app)
      BY <1>1 DEF R!Package
    <3>2. Shippable(app)' <=> Shippable(app)
      BY <1>1, ShippableStays
    <3> QED  BY <1>1, <1>2, <2>1, <3>1, <3>2 DEF Verifying, R!Mac
  <2> HIDE DEF n, Passes
  <2> QED  BY <1>1, <1>2, <2>1, <2>5, <2>6, <2>7, LooksOn DEF looked
<1> QED  BY <1>4, <1>5

(* A check of verify that passed leaves what the release found.              *)
LEMMA StillVerifies ==
  ASSUME UNCHANGED looked, touched' = touched, Verifying,
         command.step \in {"outside", "inside", "settle", "publish"},
         command'.step \in {"inside", "settle", "publish", "last"}, command'.note = command.note
  PROVE  Verifying'
<1>1. UNCHANGED <<target, wanted, head, files, cache, shell, staged, app, mapping, pkg, evidence, slipped>>
  BY DEF looked
<1>2. R!Package(app)' = R!Package(app)
  BY <1>1 DEF R!Package
<1>3. Shippable(app)' <=> Shippable(app)
  BY <1>1, ShippableStays
<1> QED  BY <1>1, <1>2, <1>3, NoneIsNoStep DEF Verifying, R!Mac, R!VerifySteps

LEMMA ChecksMsixMetadata ==
  ASSUME ReleaseIInv, R!CheckMsixMetadata
  PROVE  ReleaseIInv'
<1> DEFINE Passes == R!EnvelopeHolds(pkg) /\ R!TypesHold(pkg) /\ R!BlocksHold(pkg)
<1>1. /\ command.step = "outside" /\ command.step \in R!VerifySteps /\ ~R!Mac /\ touched' = touched
      /\ UNCHANGED <<target, wanted, head, files, cache, shell, staged, app, mapping, pkg, evidence, slipped>>
  BY DEF R!CheckMsixMetadata, R!At, R!sourceVars, R!outputVars, R!Ledger, R!VerifySteps
<1>2. /\ CommandIs /\ command.command = "verify" /\ OnWindows
      /\ due # None => due = "verify" /\ Verifying /\ pkg.flaw = None
  BY <1>1, Verification
<1>3. due # None => Passes
  BY <1>2, ReleaseAssumption DEF R!EnvelopeHolds, R!TypesHold, R!BlocksHold, R!MsixFlaws
<1>4. CASE ~Passes
  BY <1>1, <1>3, <1>4, Refuses DEF R!CheckMsixMetadata, unrefused
<1>5. CASE Passes
  <2>1. /\ command' = [command |-> "verify", step |-> "inside", note |-> command.note]
        /\ due' = due /\ refused' = refused
    BY <1>2, <1>5, GoesOn DEF R!CheckMsixMetadata
  <2>2. pkg.flaw \notin Outside
    BY <1>5 DEF Outside, R!MsixFlaws, R!EnvelopeHolds, R!TypesHold, R!BlocksHold
  <2> HIDE DEF Passes
  <2>3. OnWindows'
    BY <1>1, <1>2, <2>1, <2>2 DEF OnWindows, R!Identified, R!Bound, R!Collected, R!Mac
  <2>4. OnMac'
    BY <1>1 DEF OnMac, R!Mac
  <2>5. due # None => Verifying'
    BY <1>1, <1>2, <2>1, StillVerifies DEF looked
  <2> QED  BY <1>1, <1>2, <2>1, <2>3, <2>4, <2>5, LooksOn DEF looked
<1> QED  BY <1>4, <1>5

LEMMA ChecksMsixEntries ==
  ASSUME ReleaseIInv, R!CheckMsixEntries
  PROVE  ReleaseIInv'
<1>1. /\ command.step = "inside" /\ command.step \in R!VerifySteps /\ ~R!Mac /\ touched' = touched
      /\ UNCHANGED <<target, wanted, head, files, cache, shell, staged, app, mapping, pkg, evidence, slipped>>
  BY DEF R!CheckMsixEntries, R!At, R!sourceVars, R!outputVars, R!Ledger, R!VerifySteps
<1>2. /\ CommandIs /\ command.command = "verify" /\ OnWindows
      /\ due # None => due = "verify" /\ Verifying /\ pkg.flaw = None /\ pkg.holds = app
  BY <1>1, Verification
<1>3. due # None => R!EntriesHold(pkg, command.note.app)
  BY <1>1, <1>2, ReleaseAssumption DEF Verifying, R!EntriesHold, R!MsixFlaws
<1>4. CASE ~R!EntriesHold(pkg, command.note.app)
  BY <1>1, <1>3, <1>4, Refuses DEF R!CheckMsixEntries, unrefused
<1>5. CASE R!EntriesHold(pkg, command.note.app)
  <2>1. /\ command' = [command |-> "verify", step |-> "settle", note |-> command.note]
        /\ due' = due /\ refused' = refused
    BY <1>2, <1>5, GoesOn DEF R!CheckMsixEntries
  <2>2. pkg.flaw # "entries" /\ pkg.holds = command.note.app
    BY <1>5 DEF R!EntriesHold
  <2>3. OnWindows'
    BY <1>1, <1>2, <2>1, <2>2 DEF OnWindows, Outside, R!Identified, R!Bound, R!Collected, R!Mac
  <2>4. OnMac'
    BY <1>1 DEF OnMac, R!Mac
  <2>5. due # None => Verifying'
    BY <1>1, <1>2, <2>1, StillVerifies DEF looked
  <2> QED  BY <1>1, <1>2, <2>1, <2>3, <2>4, <2>5, LooksOn DEF looked
<1> QED  BY <1>4, <1>5

LEMMA SettlesMsix ==
  ASSUME ReleaseIInv, R!SettleMsix
  PROVE  ReleaseIInv'
<1> DEFINE Passes == /\ R!MsixSettled /\ command.note.build.package = command.note.pkg
                     /\ command.note.build.commit = command.note.head
<1>1. /\ command.step = "settle" /\ command.step \in R!VerifySteps /\ ~R!Mac /\ touched' = touched
      /\ UNCHANGED <<target, wanted, head, files, cache, shell, staged, app, mapping, pkg, evidence, slipped>>
  BY DEF R!SettleMsix, R!At, R!sourceVars, R!outputVars, R!Ledger, R!VerifySteps
<1>2. /\ CommandIs /\ command.command = "verify" /\ OnWindows
      /\ due # None => due = "verify" /\ Verifying
  BY <1>1, Verification
<1>3. due # None => Passes
  <2>1. due # None => /\ touched = {} /\ evidence.build.package = pkg /\ evidence.build.commit = head
                      /\ command.note = [app |-> app, pkg |-> pkg, build |-> evidence.build, head |-> head]
    BY <1>1, <1>2, NoneIsNoStep DEF Verifying, R!VerifySteps
  <2> QED  BY <2>1 DEF R!MsixSettled
<1>4. CASE ~Passes
  BY <1>1, <1>3, <1>4, Refuses DEF R!SettleMsix, unrefused
<1>5. CASE Passes
  <2>1. /\ command' = [command |-> "verify", step |-> "publish", note |-> command.note]
        /\ due' = due /\ refused' = refused
    BY <1>2, <1>5, GoesOn DEF R!SettleMsix
  <2>2. "pkg" \notin touched
    BY <1>5 DEF R!MsixSettled
  <2> HIDE DEF Passes
  <2>3. OnWindows'
    BY <1>1, <1>2, <2>1, <2>2 DEF OnWindows, R!Identified, R!Bound, R!Collected, R!Mac
  <2>4. OnMac'
    BY <1>1 DEF OnMac, R!Mac
  <2>5. due # None => Verifying'
    BY <1>1, <1>2, <2>1, StillVerifies DEF looked
  <2> QED  BY <1>1, <1>2, <2>1, <2>3, <2>4, <2>5, LooksOn DEF looked
<1> QED  BY <1>4, <1>5

LEMMA OpensInstaller ==
  ASSUME ReleaseIInv, R!OpenInstaller
  PROVE  ReleaseIInv'
<1> DEFINE Passes == pkg # None /\ files = head /\ R!InstallerSigned(pkg)
           n == [expanded |-> pkg, head |-> head]
<1>1. /\ command.step = "open" /\ command.step \in R!VerifySteps /\ R!Mac
      /\ UNCHANGED <<target, wanted, head, files, cache, shell, staged, app, mapping, pkg, evidence, slipped>>
  BY DEF R!OpenInstaller, R!At, R!sourceVars, R!outputVars, R!VerifySteps
<1>2. /\ CommandIs /\ command.command = "verify" /\ ReleaseTypes /\ Packaging /\ Shipping /\ Flawed
      /\ due # None => /\ due = "verify" /\ Verifying /\ files = head /\ head = wanted
                       /\ pkg \in R!Packages /\ pkg.flaw = None
  BY <1>1, Verification
<1>3. due # None => Passes
  BY <1>1, <1>2, ReleaseAssumption DEF R!InstallerSigned, R!InstallerFlaws
<1>4. CASE ~Passes
  <2>1. R!Refuse
    BY <1>4 DEF R!OpenInstaller, R!Clean
  <2> HIDE DEF n
  <2> QED  BY <1>1, <1>3, <1>4, <2>1, Refuses DEF unrefused
<1>5. CASE Passes
  <2>1. /\ command' = [command |-> "verify", step |-> "outside", note |-> n]
        /\ due' = due /\ refused' = refused /\ touched' = {}
    BY <1>2, <1>5, GoesOn DEF R!OpenInstaller, R!Clean
  <2>2. pkg \in R!Packages /\ head \in Commits
    BY <1>2, <1>5 DEF ReleaseTypes, R!ReleaseTypeOK
  <2>3. n \in Expansions /\ n.expanded = pkg /\ n.head = head
    BY <2>2 DEF Expansions
  <2>4. Traced(pkg.holds, slipped, target) /\ pkg.flaw \in R!InstallerFlaws \cup {None} /\ pkg.flaw # "signature"
    BY <1>1, <1>2, <1>5 DEF Shipping, Flawed, R!Flaws, R!InstallerSigned
  <2>5. OnMac'
    <3> HIDE DEF n
    <3> QED  BY <1>1, <2>1, <2>3, <2>4 DEF OnMac
  <2>6. OnWindows'
    BY <1>1 DEF OnWindows, R!Mac
  <2>7. due # None => Verifying'
    <3>1. R!Package(app)' = R!Package(app)
      BY <1>1 DEF R!Package
    <3>2. Shippable(app)' <=> Shippable(app)
      BY <1>1, ShippableStays
    <3> QED  BY <1>1, <1>2, <2>1, <3>1, <3>2 DEF Verifying, R!Mac
  <2> HIDE DEF n, Passes
  <2> QED  BY <1>1, <1>2, <2>1, <2>5, <2>6, <2>7, LooksOn DEF looked
<1> QED  BY <1>4, <1>5

LEMMA ChecksInstallerMetadata ==
  ASSUME ReleaseIInv, R!CheckInstallerMetadata
  PROVE  ReleaseIInv'
<1> DEFINE p == command.note.expanded
           Passes == R!TopologyHolds(p) /\ R!MetadataHolds(p) /\ R!BomHolds(p)
<1>1. /\ command.step = "outside" /\ command.step \in R!VerifySteps /\ R!Mac /\ touched' = touched
      /\ UNCHANGED <<target, wanted, head, files, cache, shell, staged, app, mapping, pkg, evidence, slipped>>
  BY DEF R!CheckInstallerMetadata, R!At, R!sourceVars, R!outputVars, R!Ledger, R!VerifySteps
<1>2. /\ CommandIs /\ command.command = "verify" /\ OnMac
      /\ due # None => due = "verify" /\ Verifying /\ pkg.flaw = None
  BY <1>1, Verification
<1>3. due # None => Passes
  <2>1. due # None => p = pkg
    BY <1>1, <1>2 DEF Verifying
  <2> QED  BY <1>2, <2>1, ReleaseAssumption DEF R!TopologyHolds, R!MetadataHolds, R!BomHolds, R!InstallerFlaws
<1>4. CASE ~Passes
  BY <1>1, <1>3, <1>4, Refuses DEF R!CheckInstallerMetadata, unrefused
<1>5. CASE Passes
  <2>1. /\ command' = [command |-> "verify", step |-> "inside", note |-> command.note]
        /\ due' = due /\ refused' = refused
    BY <1>2, <1>5, GoesOn DEF R!CheckInstallerMetadata
  <2>2. p.flaw \notin {"topology", "metadata", "bom"}
    BY <1>5 DEF R!TopologyHolds, R!MetadataHolds, R!BomHolds
  <2> HIDE DEF Passes
  <2>3. OnMac'
    BY <1>1, <1>2, <2>1, <2>2 DEF OnMac, R!InstallerFlaws, R!Mac
  <2>4. OnWindows'
    BY <1>1 DEF OnWindows, R!Mac
  <2>5. due # None => Verifying'
    BY <1>1, <1>2, <2>1, StillVerifies DEF looked
  <2> QED  BY <1>1, <1>2, <2>1, <2>3, <2>4, <2>5, LooksOn DEF looked
<1> QED  BY <1>4, <1>5

LEMMA ChecksInstalledApp ==
  ASSUME ReleaseIInv, R!CheckInstalledApp
  PROVE  ReleaseIInv'
<1> DEFINE a == command.note.expanded.holds
           Passes == R!SealHolds(a) /\ R!Identified(a) /\ a.manifest.commit = command.note.head
<1>1. /\ command.step = "inside" /\ command.step \in R!VerifySteps /\ R!Mac /\ touched' = touched
      /\ UNCHANGED <<target, wanted, head, files, cache, shell, staged, app, mapping, pkg, evidence, slipped>>
  BY DEF R!CheckInstalledApp, R!At, R!sourceVars, R!outputVars, R!Ledger, R!VerifySteps
<1>2. /\ CommandIs /\ command.command = "verify" /\ OnMac
      /\ due # None => due = "verify" /\ Verifying /\ Shippable(app) /\ pkg.holds = app
  BY <1>1, Verification
<1>3. due # None => Passes
  <2>1. due # None => a = app /\ command.note.head = head
    BY <1>1, <1>2 DEF Verifying
  <2> QED  BY <1>1, <1>2, <2>1 DEF Shippable
<1>4. CASE ~Passes
  BY <1>1, <1>3, <1>4, Refuses DEF R!CheckInstalledApp, unrefused
<1>5. CASE Passes
  <2>1. /\ command' = [command |-> "verify", step |-> "settle", note |-> command.note]
        /\ due' = due /\ refused' = refused
    BY <1>2, <1>5, GoesOn DEF R!CheckInstalledApp
  <2>2. R!Identified(a) /\ a.manifest.commit = command.note.head
    BY <1>5
  <2>3. OnMac'
    <3>1. R!Identified(command'.note.expanded.holds)
      BY <2>1, <2>2
    <3> QED  BY <1>1, <1>2, <2>1, <2>2, <3>1 DEF OnMac, R!Identified, R!Bound, R!Collected, R!Mac
  <2> HIDE DEF Passes
  <2>4. OnWindows'
    BY <1>1 DEF OnWindows, R!Mac
  <2>5. due # None => Verifying'
    BY <1>1, <1>2, <2>1, StillVerifies DEF looked
  <2> QED  BY <1>1, <1>2, <2>1, <2>3, <2>4, <2>5, LooksOn DEF looked
<1> QED  BY <1>4, <1>5

LEMMA SettlesInstaller ==
  ASSUME ReleaseIInv, R!SettleInstaller
  PROVE  ReleaseIInv'
<1> DEFINE Passes == "pkg" \notin touched /\ files = head /\ head = command.note.head
<1>1. /\ command.step = "settle" /\ command.step \in R!VerifySteps /\ R!Mac /\ touched' = touched
      /\ UNCHANGED <<target, wanted, head, files, cache, shell, staged, app, mapping, pkg, evidence, slipped>>
  BY DEF R!SettleInstaller, R!At, R!sourceVars, R!outputVars, R!Ledger, R!VerifySteps
<1>2. /\ CommandIs /\ command.command = "verify" /\ OnMac
      /\ due # None => due = "verify" /\ Verifying /\ files = head
  BY <1>1, Verification
<1>3. due # None => Passes
  BY <1>1, <1>2, NoneIsNoStep DEF Verifying, R!VerifySteps
<1>4. CASE ~Passes
  BY <1>1, <1>3, <1>4, Refuses DEF R!SettleInstaller, R!Clean, unrefused
<1>5. CASE Passes
  <2>1. /\ command' = [command |-> "verify", step |-> "publish", note |-> command.note]
        /\ due' = due /\ refused' = refused
    BY <1>2, <1>5, GoesOn DEF R!SettleInstaller, R!Clean
  <2> HIDE DEF Passes
  <2>2. OnMac'
    BY <1>1, <1>2, <2>1 DEF OnMac, R!Identified, R!Bound, R!Collected, R!Mac
  <2>3. OnWindows'
    BY <1>1 DEF OnWindows, R!Mac
  <2>4. due # None => Verifying'
    BY <1>1, <1>2, <2>1, StillVerifies DEF looked
  <2> QED  BY <1>1, <1>2, <2>1, <2>2, <2>3, <2>4, LooksOn DEF looked
<1> QED  BY <1>4, <1>5

(* What a package that passed all checks says of its commit.                 *)
Proven(p, commit) ==
  /\ p.flaw = None /\ R!Identified(p.holds) /\ p.holds.manifest.commit = commit
  /\ Traced(p.holds, slipped, target)

LEMMA ProvenIsAsCommitted ==
  ASSUME NEW p, NEW commit, Proven(p, commit), ~R!Mac => commit = wanted, target \in {"windows", "mas", "adhoc"},
         ReleaseTypes, UNCHANGED <<target, wanted, slipped>>,
         evidence'.package = [commit |-> commit, package |-> p]
  PROVE  R!VerifiedAsCommitted'
<1> DEFINE a == p.holds
<1>1. a.manifest # None /\ a.manifest.final /\ R!Bound(a.manifest) = R!Collected(a) /\ a.manifest.commit = commit
  BY DEF Proven, R!Identified
<1>2. a.manifest.ui = a.ui /\ a.manifest.shell = a.shell /\ a.manifest.bundle = a.bundle
  BY <1>1 DEF R!Bound, R!Collected
<1>3. UiIn(commit, a.ui, slipped, target) /\ ShellOf(commit, a.shell, slipped) /\ BundleOf(a.bundle, slipped)
  BY <1>1, <1>2 DEF Proven, Traced
<1>4. evidence'.package.package = p /\ evidence'.package.commit = commit
  OBVIOUS
<1>5. R!Identified(p.holds)' = R!Identified(p.holds)
  BY DEF R!Identified, R!Bound, R!Collected
<1> QED  BY <1>1, <1>3, <1>4, <1>5 DEF R!VerifiedAsCommitted, Proven, UiIn, ShellOf, BundleOf, R!Mac, R!Identified,
            R!Bound, R!Collected, R!Versions

LEMMA Publishes ==
  ASSUME ReleaseIInv, R!Publish
  PROVE  ReleaseIInv'
<1> DEFINE p == IF R!Mac THEN command.note.expanded ELSE command.note.pkg
           r == [commit |-> command.note.head, package |-> p]
<1>1. /\ command.step = "publish" /\ command.step \in R!VerifySteps /\ touched' = touched
      /\ evidence' = [evidence EXCEPT !.package = r]
      /\ UNCHANGED <<target, wanted, head, files, cache, shell, staged, app, mapping, pkg, slipped>>
  BY DEF R!Publish, R!At, R!sourceVars, R!Ledger, R!VerifySteps
<1>2. /\ CommandIs /\ command.command = "verify" /\ ReleaseTypes /\ Shipping /\ Flawed /\ OnMac /\ OnWindows
      /\ due # None => due = "verify" /\ Verifying /\ files = head /\ head = wanted
  BY <1>1, Verification
<1>3. /\ command' = [command |-> "verify", step |-> "last", note |-> command.note]
      /\ due' = due /\ refused' = refused
  BY <1>2, GoesOn DEF R!Publish
<1>4. evidence' = [artifact |-> evidence.artifact, build |-> evidence.build, package |-> r]
  BY <1>1, <1>2 DEF ReleaseTypes
<1>5. Proven(p, command.note.head) /\ (~R!Mac => command.note.head = wanted)
  <2>1. CASE R!Mac
    BY <1>1, <1>2, <2>1 DEF OnMac, Proven
  <2>2. CASE ~R!Mac
    BY <1>1, <1>2, <2>2 DEF OnWindows, Proven
  <2> QED  BY <2>1, <2>2
<1> HIDE DEF p
<1>6. R!VerifiedAsCommitted'
  BY <1>1, <1>2, <1>4, <1>5, ProvenIsAsCommitted DEF ReleaseTypes
<1> HIDE DEF r
<1>7. ReleaseTypes'
  BY <1>1, <1>2, <1>3, <1>4 DEF ReleaseTypes, R!ReleaseTypeOK, CommandIs, R!VerifySteps
<1>8. Shipping' /\ Flawed'
  BY <1>1, <1>2, <1>3 DEF Shipping, Flawed, R!Flaws, R!Mac
<1>9. OnWindows' /\ OnMac'
  BY <1>3 DEF OnWindows, OnMac
<1>10. due # None => Verifying'
  <2>1. R!Package(app)' = R!Package(app)
    BY <1>1 DEF R!Package
  <2>2. Shippable(app)' <=> Shippable(app)
    BY <1>1, ShippableStays
  <2> QED  BY <1>1, <1>2, <1>3, <1>4, <2>1, <2>2, NoneIsNoStep DEF Verifying, R!Mac, R!VerifySteps
<1>11. Undisturbed'
  BY <1>1, <1>2, <1>3, <1>10 DEF Undisturbed
<1> QED  BY <1>1, <1>3, <1>6, <1>7, <1>8, <1>9, <1>11, ShippingGoesOn DEF R!VerifySteps

LEMMA LooksLast ==
  ASSUME ReleaseIInv, R!LastLook
  PROVE  ReleaseIInv'
<1>1. /\ command.step = "last" /\ command.step \in R!VerifySteps
      /\ UNCHANGED <<target, wanted, head, files, cache, shell, staged, app, mapping, pkg, evidence, slipped>>
  BY DEF R!LastLook, R!At, R!sourceVars, R!outputVars, R!Ledger, R!VerifySteps
<1>2. /\ CommandIs /\ command.command = "verify" /\ ReleaseTypes /\ Shipping /\ Flawed
      /\ due # None => due = "verify" /\ Verifying
  BY <1>1, Verification
<1>3. CASE R!Mac /\ "pkg" \in touched
  <2>1. due = None
    BY <1>1, <1>2, <1>3, NoneIsNoStep DEF Verifying, R!VerifySteps
  <2> QED  BY <1>1, <1>3, <2>1, Refuses DEF R!LastLook, unrefused
<1>4. CASE ~(R!Mac /\ "pkg" \in touched)
  <2>1. command' = R!Idle /\ command'.step = None /\ refused' = refused /\ due' = None
    BY <1>2, <1>4 DEF R!LastLook, R!Finish, R!Successor, R!Idle
  <2>2. ReleaseTypes'
    BY <1>1, <1>2, <2>1 DEF ReleaseTypes, R!ReleaseTypeOK, CommandIs, R!Idle
  <2>3. Shipping' /\ Flawed'
    BY <1>1, <1>2, <2>1, NoneIsNoStep DEF Shipping, Flawed, R!Flaws, R!Mac, R!MakeSteps
  <2>4. OnWindows' /\ OnMac'
    BY <2>1, NotVerifying
  <2>5. Undisturbed'
    BY <2>1 DEF Undisturbed
  <2>6. R!VerifiedAsCommitted'
    BY <1>1, VerifiedStays
  <2> QED  BY <1>1, <2>1, <2>2, <2>3, <2>4, <2>5, <2>6, ShippingGoesOn
<1> QED  BY <1>3, <1>4

-----------------------------------------------------------------------------
(* What happens beside the commands: what none of it touches is kept.        *)
LEMMA BuildingKept ==
  ASSUME ReleaseIInv, UNCHANGED <<head, files, cache, staged, shell, command>>, slipped \subseteq slipped'
  PROVE  Archives' /\ Building' /\ Staged'
<1>1. Archives'
  BY DEF ReleaseIInv, Archives
<1>2. Building'
  BY TracesStay DEF ReleaseIInv, Building
<1>3. Staged'
  BY TracesStay DEF ReleaseIInv, Staged
<1> QED  BY <1>1, <1>2, <1>3

LEMMA PackagingKept ==
  ASSUME ReleaseIInv, UNCHANGED <<target, app, command>>, slipped \subseteq slipped'
  PROVE  Packaging'
BY TracesStay DEF ReleaseIInv, Packaging, R!Mac

LEMMA ShippingKept ==
  ASSUME ReleaseIInv, UNCHANGED <<target, wanted, pkg, command>>, slipped \subseteq slipped', touched \subseteq touched',
         app \in R!Apps => app' \in R!Apps
  PROVE  Shipping' /\ OnWindows' /\ OnMac' /\ Flawed'
<1>1. Shipping'
  BY TracesStay DEF ReleaseIInv, Shipping
<1>2. OnWindows'
  BY TracesStay DEF ReleaseIInv, OnWindows, R!Identified, R!Bound, R!Collected, R!Mac
<1>3. OnMac'
  BY TracesStay DEF ReleaseIInv, OnMac, R!Identified, R!Bound, R!Collected, R!Mac
<1>4. Flawed'
  BY DEF ReleaseIInv, Flawed, R!Flaws, R!Mac
<1> QED  BY <1>1, <1>2, <1>3, <1>4

(* A change that goes unseen is written down.                                *)
LEMMA Slipping ==
  ASSUME ReleaseTypes, NEW change, R!Slips(change)
  PROVE  /\ slipped \subseteq slipped' /\ slipped' \subseteq R!Moments
         /\ change = "files" /\ command.command = "prepare" => "build" \in slipped'
         /\ change = "staged" /\ command.step = "collect" => "staging" \in slipped'
         /\ change = "shell" => "shell" \in slipped'
         /\ change = "ui" /\ command.step \in {"sign", "gather"} => "signing" \in slipped'
         /\ change = "bundle" /\ ~app.manifest.final => "bundle" \in slipped'
<1>1. slipped' = slipped \cup {moment \in R!Moments : R!Unchecked(moment, change)}
  BY DEF R!Slips
<1>2. slipped \subseteq R!Moments
  BY DEF ReleaseTypes, R!ReleaseTypeOK
<1>3. /\ change = "files" /\ command.command = "prepare" => R!Unchecked("build", change)
      /\ change = "staged" /\ command.step = "collect" => R!Unchecked("staging", change)
      /\ change = "shell" => R!Unchecked("shell", change)
      /\ change = "ui" /\ command.step \in {"sign", "gather"} => R!Unchecked("signing", change)
      /\ change = "bundle" /\ ~app.manifest.final => R!Unchecked("bundle", change)
  BY DEF R!Unchecked, R!At
<1> QED  BY <1>1, <1>2, <1>3 DEF R!Moments

(* After a mishap nothing is due: only what the checks rely on counts.       *)
LEMMA Disturbs ==
  ASSUME ReleaseIInv, due' = None, UNCHANGED <<target, wanted>>, evidence' = evidence, slipped \subseteq slipped',
         ReleaseTypes', Archives', Building', Staged', Packaging', Shipping', OnWindows', OnMac', Flawed'
  PROVE  ReleaseIInv'
<1>1. R!VerifiedAsCommitted'
  BY VerifiedStays
<1>2. Undisturbed' /\ R!CleanReleasePasses'
  BY DEF Undisturbed, R!CleanReleasePasses
<1> QED  BY <1>1, <1>2 DEF ReleaseIInv

(* The sources change: while they are built, nothing notices.                *)
LEMMA SourcesChange ==
  ASSUME ReleaseIInv, due' = None, R!Slips("files"), head' \in Commits, files' \in R!Versions,
         UNCHANGED <<target, wanted, cache, R!outputVars, command, touched>>
  PROVE  ReleaseIInv'
<1>1. UNCHANGED <<target, wanted, cache, shell, staged, app, mapping, pkg, evidence, command, touched>>
  BY DEF R!outputVars
<1>2. ReleaseTypes /\ Archives /\ Building /\ Staged
  BY DEF ReleaseIInv
<1>3. slipped \subseteq slipped' /\ slipped' \subseteq R!Moments /\ (command.command = "prepare" => "build" \in slipped')
  BY <1>2, Slipping
<1>4. command.step \in R!PrepareSteps => "build" \in slipped'
  BY <1>3, StepIsOf
<1>5. ReleaseTypes'
  BY <1>1, <1>2, <1>3 DEF ReleaseTypes, R!ReleaseTypeOK, CommandIs, R!Idle
<1>6. Archives' /\ Staged'
  BY <1>1, <1>2, <1>3, TracesStay DEF Archives, Staged
<1>7. Building'
  <2>1. \A c, h : UiOf(c, h, slipped) => UiOf(c, h, slipped')
    BY <1>3, TracesStay
  <2>2. \A c, h : ShellOf(c, h, slipped) => ShellOf(c, h, slipped')
    BY <1>3, TracesStay
  <2> QED  BY <1>1, <1>2, <1>4, <2>1, <2>2 DEF Building
<1>8. Packaging'
  BY <1>1, <1>3, PackagingKept
<1>9. Shipping' /\ OnWindows' /\ OnMac' /\ Flawed'
  BY <1>1, <1>3, ShippingKept
<1> QED  BY <1>1, <1>3, <1>5, <1>6, <1>7, <1>8, <1>9, Disturbs

LEMMA Reverts ==
  ASSUME ReleaseIInv, R!Revert
  PROVE  ReleaseIInv'
<1>1. /\ files # head /\ files' = head
      /\ UNCHANGED <<target, wanted, head, cache, shell, staged, app, mapping, pkg, evidence, command, touched, due,
                     refused, slipped>>
  BY DEF R!Revert, R!Clean, R!outputVars
<1>2. ReleaseTypes /\ Archives /\ Building /\ Staged /\ (due # None => files = head)
  BY DEF ReleaseIInv, Undisturbed
<1>3. ReleaseTypes'
  BY <1>1, <1>2 DEF ReleaseTypes, R!ReleaseTypeOK, CommandIs, R!Idle, R!Versions
<1>4. Archives' /\ Staged'
  BY <1>1, <1>2 DEF Archives, Staged
<1>5. Building'
  BY <1>1, <1>2 DEF Building
<1>6. Packaging'
  BY <1>1, PackagingKept
<1>7. Shipping' /\ OnWindows' /\ OnMac' /\ Flawed'
  BY <1>1, ShippingKept
<1> QED  BY <1>1, <1>2, <1>3, <1>4, <1>5, <1>6, <1>7, Disturbs

LEMMA CompilesBeside ==
  ASSUME ReleaseIInv, R!CompileBeside
  PROVE  ReleaseIInv'
<1>1. /\ shell' = files /\ due' = None /\ R!Slips("shell")
      /\ UNCHANGED <<target, wanted, head, files, cache, staged, app, mapping, pkg, evidence, command, touched>>
  BY DEF R!CompileBeside, R!Mishap, R!sourceVars
<1>2. ReleaseTypes /\ Archives /\ Building /\ Staged
  BY DEF ReleaseIInv
<1>3. slipped \subseteq slipped' /\ slipped' \subseteq R!Moments /\ "shell" \in slipped'
  BY <1>1, <1>2, Slipping
<1>4. ReleaseTypes'
  BY <1>1, <1>2, <1>3 DEF ReleaseTypes, R!ReleaseTypeOK, CommandIs, R!Idle
<1>5. \A c, h : /\ ShellOf(c, h, slipped')
                /\ UiOf(c, h, slipped) => UiOf(c, h, slipped')
  BY <1>3, TracesStay DEF ShellOf
<1>6. Archives' /\ Staged'
  BY <1>1, <1>2, <1>5 DEF Archives, Staged
<1>7. Building'
  BY <1>1, <1>2, <1>3, <1>5 DEF Building
<1>8. Packaging'
  BY <1>1, <1>3, PackagingKept
<1>9. Shipping' /\ OnWindows' /\ OnMac' /\ Flawed'
  BY <1>1, <1>3, ShippingKept
<1> QED  BY <1>1, <1>3, <1>4, <1>6, <1>7, <1>8, <1>9, Disturbs

LEMMA AltersStaged ==
  ASSUME ReleaseIInv, R!AlterStaged
  PROVE  ReleaseIInv'
<1>1. /\ staged # None /\ staged' = [staged EXCEPT !.ui = Altered] /\ due' = None /\ R!Slips("staged")
      /\ UNCHANGED <<target, wanted, head, files, cache, shell, app, mapping, pkg, evidence, command, touched>>
  BY DEF R!AlterStaged, R!Mishap, R!sourceVars
<1>2. ReleaseTypes /\ Archives /\ Building /\ Staged
  BY DEF ReleaseIInv
<1>3. /\ slipped \subseteq slipped' /\ slipped' \subseteq R!Moments
      /\ command.step = "collect" => "staging" \in slipped'
  BY <1>1, <1>2, Slipping
<1>4. staged \in R!Stages
  BY <1>1, <1>2 DEF ReleaseTypes, R!ReleaseTypeOK
<1>5. staged' = [ui |-> Altered, manifest |-> staged.manifest]
  BY <1>1, <1>4 DEF R!Stages
<1>6. staged' \in R!Stages
  BY <1>4, <1>5 DEF R!Stages, R!Holdings
<1>7. ReleaseTypes'
  BY <1>1, <1>2, <1>3, <1>6 DEF ReleaseTypes, R!ReleaseTypeOK, CommandIs, R!Idle
<1>8. \A c, h : /\ ShellOf(c, h, slipped) => ShellOf(c, h, slipped')
                /\ UiOf(c, h, slipped) => UiOf(c, h, slipped')
  BY <1>3, TracesStay
<1>9. Archives' /\ Staged'
  BY <1>1, <1>2, <1>5, <1>8 DEF Archives, Staged
<1>10. command.step = "collect" => \A c : UiOf(c, Altered, slipped')
  BY <1>3, ReleaseAssumption DEF UiOf, R!Versions
<1>11. Building'
  BY <1>1, <1>2, <1>3, <1>5, <1>6, <1>8, <1>10 DEF Building
<1>12. Packaging'
  BY <1>1, <1>3, PackagingKept
<1>13. Shipping' /\ OnWindows' /\ OnMac' /\ Flawed'
  BY <1>1, <1>3, ShippingKept
<1> QED  BY <1>1, <1>3, <1>7, <1>9, <1>11, <1>12, <1>13, Disturbs

LEMMA AltersApp ==
  ASSUME ReleaseIInv, R!AlterApp("ui") \/ R!AlterApp("bundle")
  PROVE  ReleaseIInv'
<1>1. /\ app # None /\ app.manifest # None /\ due' = None /\ touched \subseteq touched'
      /\ \/ app' = [app EXCEPT !.ui = Altered] /\ R!Slips("ui")
         \/ app' = [app EXCEPT !.bundle = Altered] /\ R!Slips("bundle")
      /\ UNCHANGED <<target, wanted, head, files, cache, shell, staged, mapping, pkg, evidence, command>>
  BY DEF R!AlterApp, R!Mishap, R!sourceVars
<1>2. ReleaseTypes /\ Packaging
  BY DEF ReleaseIInv
<1>3. app \in R!Apps /\ Traced(app, slipped, target)
  BY <1>1, <1>2 DEF ReleaseTypes, R!ReleaseTypeOK, Packaging
<1>4. slipped \subseteq slipped' /\ slipped' \subseteq R!Moments
  BY <1>1, <1>2, Slipping
<1>5. \/ /\ app' = [ui |-> Altered, shell |-> app.shell, bundle |-> app.bundle, signed |-> app.signed,
                    sealed |-> app.sealed, manifest |-> app.manifest]
         /\ command.step \in {"sign", "gather"} => "signing" \in slipped'
      \/ /\ app' = [ui |-> app.ui, shell |-> app.shell, bundle |-> Altered, signed |-> app.signed,
                    sealed |-> app.sealed, manifest |-> app.manifest]
         /\ ~app.manifest.final => "bundle" \in slipped'
  BY <1>1, <1>2, <1>3, Slipping, AppWith
<1>6. app' \in R!Apps
  BY <1>3, <1>5, AppHas, IsApp DEF R!Holdings
<1>7. Traced(app, slipped', target)
  BY <1>3, <1>4, TracesStay
<1>8. Traced(app', slipped', target)
  BY <1>5, <1>7 DEF Traced, BundleOf
<1>9. ReleaseTypes'
  BY <1>1, <1>2, <1>4, <1>6 DEF ReleaseTypes, R!ReleaseTypeOK, CommandIs, R!Idle
<1>10. Archives' /\ Building' /\ Staged'
  BY <1>1, <1>4, BuildingKept
<1>11. Packaging'
  <2>1. command.step \in {"sign", "gather"} => R!Mac /\ UiIn(app.manifest.commit, app.ui, slipped', target)
    BY <1>2, <1>4, TracesStay DEF Packaging
  <2>2. command.step \in {"sign", "gather"} => UiIn(app'.manifest.commit, app'.ui, slipped', target)
    BY <1>5, <2>1, ReleaseAssumption DEF UiIn, R!Mac, R!Versions
  <2>3. app'.manifest = app.manifest
    BY <1>5
  <2> QED  BY <1>1, <1>2, <1>4, <1>6, <1>8, <2>1, <2>2, <2>3, TracesStay DEF Packaging, R!Mac
<1>12. Shipping' /\ OnWindows' /\ OnMac' /\ Flawed'
  BY <1>1, <1>4, <1>6, ShippingKept
<1> QED  BY <1>1, <1>4, <1>9, <1>10, <1>11, <1>12, Disturbs

LEMMA Damages ==
  ASSUME ReleaseIInv, NEW flaw \in R!Flaws, R!Damage(flaw)
  PROVE  ReleaseIInv'
<1>1. /\ pkg # None /\ pkg' = [pkg EXCEPT !.flaw = flaw] /\ due' = None /\ touched' = touched \cup {"pkg"}
      /\ UNCHANGED <<target, wanted, head, files, cache, shell, staged, app, mapping, evidence, command, slipped>>
  BY DEF R!Damage, R!Mishap, R!sourceVars
<1>2. ReleaseTypes /\ Shipping /\ OnWindows /\ OnMac
  BY DEF ReleaseIInv
<1>3. pkg \in R!Packages /\ flaw \in R!InstallerFlaws \cup R!MsixFlaws
  BY <1>1, <1>2 DEF ReleaseTypes, R!ReleaseTypeOK, R!Flaws
<1>4. pkg' = [holds |-> pkg.holds, flaw |-> flaw]
  BY <1>1, <1>3 DEF R!Packages
<1>5. pkg' \in R!Packages
  BY <1>3, <1>4 DEF R!Packages
<1>6. ReleaseTypes'
  BY <1>1, <1>2, <1>5 DEF ReleaseTypes, R!ReleaseTypeOK, CommandIs, R!Idle
<1>7. Archives' /\ Building' /\ Staged'
  BY <1>1, BuildingKept
<1>8. Packaging'
  BY <1>1, PackagingKept
<1>9. Shipping'
  BY <1>1, <1>2, <1>4, <1>5 DEF Shipping
<1>10. OnWindows' /\ OnMac'
  BY <1>1, <1>2 DEF OnWindows, OnMac, R!Identified, R!Bound, R!Collected, R!Mac
<1>11. Flawed'
  BY <1>1, <1>4 DEF Flawed, R!Flaws, R!Mac
<1> QED  BY <1>1, <1>6, <1>7, <1>8, <1>9, <1>10, <1>11, Disturbs

LEMMA Dies ==
  ASSUME ReleaseIInv, R!Die
  PROVE  ReleaseIInv'
<1> DEFINE torn == IF command.step = "zip" THEN "electron" ELSE "runtime"
<1>1. /\ command' = R!Idle /\ command'.step = None /\ due' = None
      /\ cache' = cache \/ (cache[torn] = None /\ cache' = [cache EXCEPT ![torn] = "torn"])
      /\ UNCHANGED <<target, wanted, head, files, shell, staged, app, mapping, pkg, evidence, touched, slipped>>
  BY DEF R!Die, R!Mishap, R!outputVars, R!At, R!Idle
<1>2. ReleaseTypes /\ Archives /\ Staged
  BY DEF ReleaseIInv
<1>3. None \notin R!PrepareSteps \cup R!PackageSteps \cup R!MakeSteps \cup R!VerifySteps
  BY NoneIsNoStep
<1>4. ReleaseTypes'
  BY <1>1, <1>2 DEF ReleaseTypes, R!ReleaseTypeOK, CommandIs, R!Idle
<1>5. Archives'
  <2>1. torn \in {"electron", "runtime"}
    OBVIOUS
  <2>2. None # "pinned"
    BY ReleaseAssumption
  <2> HIDE DEF torn
  <2> QED  BY <1>1, <1>2, <2>1, <2>2 DEF Archives
<1>6. Building'
  BY <1>1, <1>3 DEF Building, R!PrepareSteps
<1>7. Staged'
  BY <1>1, <1>2 DEF Staged
<1>8. Packaging'
  BY <1>1, <1>3, PackagingElsewhere
<1>9. Shipping' /\ OnWindows' /\ OnMac' /\ Flawed'
  BY <1>1, <1>3, ShippingElsewhere
<1> QED  BY <1>1, <1>4, <1>5, <1>6, <1>7, <1>8, <1>9, Disturbs

(* A command begins: out of its turn, no release is under way any more.      *)
LEMMA Starts ==
  ASSUME ReleaseIInv, NEW c \in {"prepare", "package", "make", "verify"}, R!Start(c)
  PROVE  ReleaseIInv'
<1>1. /\ command = R!Idle /\ command.step = None
      /\ command' = [command |-> c, step |-> R!FirstStep[c], note |-> None]
      /\ due' = (IF c = "prepare" THEN IF files = head /\ head = wanted THEN c ELSE None
                                  ELSE IF due = c THEN due ELSE None)
      /\ refused' = FALSE
      /\ UNCHANGED <<target, wanted, head, files, cache, shell, staged, app, mapping, pkg, evidence, touched, slipped>>
  BY DEF R!Start, R!Clean, R!Idle, R!sourceVars, R!outputVars
<1>2. command'.step = R!FirstStep[c] /\ command'.command = c /\ command'.note = None
  BY <1>1
<1>3. /\ R!FirstStep["prepare"] = "bind" /\ R!FirstStep["package"] = "copy"
      /\ R!FirstStep["make"] = "preflight" /\ R!FirstStep["verify"] = "open"
  BY DEF R!FirstStep
<1>4. \/ c = "prepare" /\ command'.step = "bind"
      \/ c = "package" /\ command'.step = "copy"
      \/ c = "make" /\ command'.step = "preflight"
      \/ c = "verify" /\ command'.step = "open"
  BY <1>2, <1>3
<1>5. ReleaseTypes /\ Archives /\ Staged /\ Packaging /\ Shipping /\ Flawed /\ Undisturbed
  BY DEF ReleaseIInv
<1>6. ReleaseTypes'
  BY <1>1, <1>2, <1>4, <1>5 DEF ReleaseTypes, R!ReleaseTypeOK, CommandIs,
     R!PrepareSteps, R!PackageSteps, R!MakeSteps, R!VerifySteps
<1>7. Archives' /\ Staged'
  BY <1>1, <1>5 DEF Archives, Staged
<1>8. Building'
  BY <1>4 DEF Building, R!PrepareSteps
<1>9. Packaging'
  BY <1>1, <1>4, <1>5 DEF Packaging, R!PackageSteps
<1>10. Shipping' /\ Flawed'
  BY <1>1, <1>4, <1>5 DEF Shipping, Flawed, R!Flaws, R!Mac
<1>11. OnWindows' /\ OnMac'
  BY <1>4 DEF OnWindows, OnMac
<1>12. Undisturbed'
  <2>1. Room' <=> Room
    BY <1>1 DEF Room, R!Mac
  <2>2. Shippable(app)' <=> Shippable(app)
    BY <1>1, ShippableStays
  <2>3. CASE c = "prepare"
    BY <1>1, <1>4, <2>3, NoneIsNoStep DEF Undisturbed, Preparing, R!PrepareSteps
  <2>4. CASE c = "package"
    BY <1>1, <1>4, <1>5, <2>1, <2>4, NoneIsNoStep DEF Undisturbed, PackagingOn, StageReady, R!PackageSteps
  <2>5. CASE c = "make"
    BY <1>1, <1>4, <1>5, <2>1, <2>2, <2>5, NoneIsNoStep DEF Undisturbed, Making, R!MakeSteps
  <2>6. CASE c = "verify"
    <3>1. R!Package(app)' = R!Package(app)
      BY <1>1 DEF R!Package
    <3> QED  BY <1>1, <1>4, <1>5, <2>2, <2>6, <3>1, NoneIsNoStep DEF Undisturbed, Verifying, R!Mac, R!VerifySteps
  <2> QED  BY <2>3, <2>4, <2>5, <2>6
<1>13. R!VerifiedAsCommitted'
  BY <1>1, VerifiedStays
<1>14. R!CleanReleasePasses'
  BY <1>1 DEF R!CleanReleasePasses
<1> QED  BY <1>6, <1>7, <1>8, <1>9, <1>10, <1>11, <1>12, <1>13, <1>14 DEF ReleaseIInv

LEMMA ReleaseImplies == ReleaseIInv => R!ReleaseInv
BY DEF ReleaseIInv, ReleaseTypes, R!ReleaseInv

LEMMA ReleaseInitial == R!ReleaseInit => ReleaseIInv
<1> SUFFICES ASSUME R!ReleaseInit PROVE ReleaseIInv
  OBVIOUS
<1>1. /\ target \in {"windows", "mas", "adhoc"} /\ wanted \in Commits /\ head = wanted /\ files = wanted
      /\ cache = [archive \in {"electron", "runtime"} |-> None]
      /\ shell = None /\ staged = None /\ app = None /\ mapping = FALSE /\ pkg = None
      /\ evidence = [artifact |-> None, build |-> None, package |-> None]
      /\ command = R!Idle /\ touched = {} /\ due = None /\ refused = FALSE /\ slipped = {}
  BY DEF R!ReleaseInit
<1>2. command.step = None
  BY <1>1 DEF R!Idle
<1>3. ReleaseTypes
  BY <1>1 DEF ReleaseTypes, R!ReleaseTypeOK, CommandIs, R!Idle, R!Versions
<1>4. Archives /\ Staged
  BY <1>1 DEF Archives, Staged
<1>5. Building
  BY <1>2, NoneIsNoStep DEF Building, R!PrepareSteps
<1>6. Packaging
  BY <1>1, <1>2, NoneIsNoStep DEF Packaging, R!PackageSteps
<1>7. Shipping /\ Flawed
  BY <1>1, <1>2, NoneIsNoStep DEF Shipping, Flawed, R!MakeSteps
<1>8. OnWindows /\ OnMac
  BY <1>2, NoneIsNoStep DEF OnWindows, OnMac, R!VerifySteps
<1>9. Undisturbed /\ R!CleanReleasePasses /\ R!VerifiedAsCommitted
  BY <1>1 DEF Undisturbed, R!CleanReleasePasses, R!VerifiedAsCommitted
<1> QED  BY <1>3, <1>4, <1>5, <1>6, <1>7, <1>8, <1>9 DEF ReleaseIInv

LEMMA ReleaseStays == ReleaseIInv /\ R!ReleaseNext => ReleaseIInv'
<1> SUFFICES ASSUME ReleaseIInv, R!ReleaseNext PROVE ReleaseIInv'
  OBVIOUS
<1>1. CASE \E c \in {"prepare", "package", "make", "verify"} : R!Start(c)
  BY <1>1, Starts
<1>2. CASE R!Prepare
  BY <1>2, BindsSource, FetchesElectron, ClearsOutputs, BuildsStandalone, CompilesShell, StagesResources,
     CollectsStaged, ConfirmsSource DEF R!Prepare
<1>3. CASE R!Finalize
  BY <1>3, CopiesStaged, Hardens, ReconcilesApp, Rechecks, SignsNested, GathersSigned, WritesManifest, SealsOuter,
     InspectsSealed, RecordsArtifact DEF R!Finalize
<1>4. CASE R!Make
  BY <1>4, Preflights, MakesAppx, RecordsBuild, MakesInstaller DEF R!Make
<1>5. CASE R!Verify
  BY <1>5, OpensMsix, ChecksMsixMetadata, ChecksMsixEntries, SettlesMsix, OpensInstaller, ChecksInstallerMetadata,
     ChecksInstalledApp, SettlesInstaller, Publishes, LooksLast DEF R!Verify
<1>6. CASE R!Edit \/ \E c \in Commits : R!Checkout(c)
  <2>1. ReleaseTypes
    BY DEF ReleaseIInv
  <2>2. /\ due' = None /\ R!Slips("files") /\ head' \in Commits /\ files' \in R!Versions
        /\ UNCHANGED <<target, wanted, cache, R!outputVars, command, touched>>
    BY <1>6, <2>1 DEF R!Edit, R!Checkout, R!Mishap, R!Versions, ReleaseTypes, R!ReleaseTypeOK
  <2> QED  BY <2>2, SourcesChange
<1>7. CASE \E p \in {"ui", "bundle"} : R!AlterApp(p)
  BY <1>7, AltersApp
<1>8. CASE R!Revert \/ R!CompileBeside \/ R!AlterStaged \/ R!Die \/ \E flaw \in R!Flaws : R!Damage(flaw)
  BY <1>8, Reverts, CompilesBeside, AltersStaged, Dies, Damages
<1> QED  BY <1>1, <1>2, <1>3, <1>4, <1>5, <1>6, <1>7, <1>8 DEF R!ReleaseNext

LEMMA ReleaseStutters == ReleaseIInv /\ UNCHANGED releaseState => ReleaseIInv'
<1> SUFFICES ASSUME ReleaseIInv, UNCHANGED releaseState PROVE ReleaseIInv'
  OBVIOUS
<1>1. UNCHANGED <<target, wanted, head, files, cache, shell, staged, app, mapping, pkg, evidence, command, touched,
                  due, refused, slipped>>
  BY DEF releaseState
<1>2. ReleaseTypes'
  BY <1>1 DEF ReleaseIInv, ReleaseTypes, R!ReleaseTypeOK, CommandIs, R!Idle
<1>3. Archives' /\ Building' /\ Staged'
  BY <1>1, BuildingKept
<1>4. Packaging'
  BY <1>1, PackagingKept
<1>5. Shipping' /\ OnWindows' /\ OnMac' /\ Flawed'
  BY <1>1, ShippingKept
<1>6. Undisturbed'
  BY <1>1 DEF ReleaseIInv, Undisturbed, Preparing, PackagingOn, Making, Verifying, Room, StageReady, Shippable,
     R!Identified, R!Bound, R!Collected, R!SealHolds, R!CopiedAsStaged, R!FusesHold, R!Package, R!Mac
<1>7. R!VerifiedAsCommitted'
  BY <1>1, VerifiedStays
<1>8. R!CleanReleasePasses'
  BY <1>1 DEF ReleaseIInv, R!CleanReleasePasses
<1> QED  BY <1>2, <1>3, <1>4, <1>5, <1>6, <1>7, <1>8 DEF ReleaseIInv

-----------------------------------------------------------------------------
(* The evidence of a release (ReleaseEvidence).                              *)
Sources == Commits \cup {Edited}
Outcomes == [case : {Suite[i] : i \in DOMAIN Suite}, outcome : {"passed", "failed", "error"},
             by : Values \cup {None}]
AnswerMaps == UNION {[D -> Outcomes] : D \in SUBSET DOMAIN Suite}
Measures == [pc : {"measure"}, kind : {"full", "critical"}, loaded : Sources, steady : BOOLEAN]
SuiteRuns == [pc : {"answer"}, kind : {"full", "critical"}, loaded : Sources, steady : BOOLEAN,
              git : [commit : Commits, dirty : BOOLEAN], model : Values, answers : AnswerMaps]

EvidenceTypes ==
  /\ tested \in Commits /\ tree \in Sources /\ digest \in Values
  /\ run \in {E!Idle} \cup Measures \cup SuiteRuns /\ results \in Seq(SuiteRuns)
  /\ deciding \in [commit : Commits, steady : BOOLEAN] \cup {None}

(* What a run says of itself: its answers are to the cases it was to ask, of *)
(* the program or the model it measured and the commit it loaded, if both    *)
(* stood still.                                                              *)
RunIs(r) ==
  /\ \A i \in DOMAIN r.answers : i \in E!Selected(r.kind) /\ r.answers[i].case = Suite[i]
                                 /\ (r.steady => r.answers[i].by \in {None, r.model})
  /\ r.steady /\ ~r.git.dirty => r.loaded = r.git.commit
ResultIs(r) == RunIs(r) /\ E!Selected(r.kind) \subseteq DOMAIN r.answers

Reviewables == {p \in E!Packets : E!Reviewable(p)}

(* One command at a time, and none once a release has passed.                *)
OneCommand ==
  /\ released # None => run = E!Idle /\ deciding = None
  /\ deciding # None => run = E!Idle /\ (deciding.steady => deciding.commit = tested)

Runs ==
  /\ run.pc = "measure" /\ run.steady => run.loaded = tree
  /\ run.pc = "answer" => RunIs(run) /\ (run.steady => run.model = digest)
  /\ \A i \in DOMAIN results : ResultIs(results[i])

Filed ==
  /\ DOMAIN ratings \subseteq Reviewables /\ DOMAIN reviews \subseteq Reviewables
  /\ \A p \in DOMAIN reviews : reviews[p].passed <=> E!Approves(reviews[p].sheet)

EvidenceIInv == EvidenceTypes /\ OneCommand /\ Runs /\ Filed /\ E!ReleasedAsTested /\ E!ReleasedAsReviewed

-----------------------------------------------------------------------------
(* A finished run of the whole suite, or of the critical cases, asked them.  *)
LEMMA ResultAsked ==
  ASSUME NEW r \in SuiteRuns, ResultIs(r)
  PROVE  /\ r.kind = "full" => E!CasesOf(r) = E!ToSet(Suite)
         /\ r.kind = "critical" => E!CasesOf(r) = {c \in E!ToSet(Suite) : c.critical}
<1>1. \A i \in DOMAIN r.answers : i \in E!Selected(r.kind) /\ r.answers[i].case = Suite[i]
  BY DEF ResultIs, RunIs
<1>2. E!Selected(r.kind) \subseteq DOMAIN r.answers
  BY DEF ResultIs
<1>3. E!CasesOf(r) = {r.answers[i].case : i \in DOMAIN r.answers}
  BY DEF E!CasesOf, E!Answers
<1>4. E!CasesOf(r) = {Suite[i] : i \in E!Selected(r.kind)}
  BY <1>1, <1>2, <1>3
<1>5. CASE r.kind = "full"
  BY <1>4, <1>5 DEF E!Selected, E!ToSet
<1>6. CASE r.kind = "critical"
  BY <1>4, <1>6 DEF E!Selected, E!ToSet
<1> QED  BY <1>5, <1>6

(* The evaluator and the gate judge a finished run alike.                    *)
LEMMA JudgedAlike ==
  ASSUME NEW r \in SuiteRuns, ResultIs(r)
  PROVE  E!Assessed(r) <=> \/ r.kind = "full" /\ E!FullHolds(r)
                           \/ r.kind = "critical" /\ \A a \in E!Answers(r) : a.outcome = "passed"
<1>1. r.kind \in {"full", "critical"}
  BY DEF SuiteRuns
<1>2. CASE r.kind = "full"
  <2>1. \A k : {a \in E!Passed(r) : a.case.capability = k}
               = {a \in E!Answers(r) : a.case.capability = k /\ a.outcome = "passed"}
    BY DEF E!Passed
  <2> QED  BY <1>2, <2>1, ResultAsked DEF E!Assessed, E!FullHolds
<1>3. CASE r.kind = "critical"
  <2>1. E!Passed(r) = E!Answers(r) <=> \A a \in E!Answers(r) : a.outcome = "passed"
    BY DEF E!Passed
  <2> QED  BY <1>3, <2>1 DEF E!Assessed, E!Complete
<1> QED  BY <1>1, <1>2, <1>3

LEMMA EvidenceImplies == EvidenceIInv => E!EvidenceInv
<1> SUFFICES ASSUME EvidenceIInv PROVE E!EvidenceInv
  OBVIOUS
<1>1. \A i \in DOMAIN results : results[i] \in SuiteRuns /\ ResultIs(results[i])
  BY DEF EvidenceIInv, EvidenceTypes, Runs
<1>2. E!OnePolicy
  BY <1>1, JudgedAlike DEF E!OnePolicy
<1>3. E!ApprovedIsReleased
  <2> SUFFICES ASSUME deciding # None, tree = tested, NEW p \in DOMAIN reviews, reviews[p].passed,
                      E!Full(p).git.commit = deciding.commit,
                      \A i \in E!Slots : E!Assessed(results[p[i]]) /\ results[p[i]].model = E!Full(p).model
               PROVE  E!Passes(p, p, deciding.commit)
    BY DEF E!ApprovedIsReleased
  <2>1. p \in [E!Slots -> DOMAIN results] /\ E!Reviewable(p) /\ E!Approves(reviews[p].sheet)
    BY DEF EvidenceIInv, Filed, Reviewables, E!Packets
  <2>2. 1 \in E!Slots
    BY EvidenceAssumption DEF E!Slots
  <2>3. \A i \in E!Slots : results[p[i]] \in SuiteRuns /\ ResultIs(results[p[i]])
    BY <1>1, <2>1
  <2>4. E!Full(p) = results[p[1]]
    BY DEF E!Full
  <2>5. E!Intact(E!Full(p), deciding.commit)
    BY <2>1, <2>2, <2>3, <2>4 DEF E!Reviewable, E!CompleteRun, E!Clean, E!Intact, SuiteRuns
  <2>6. \A i \in E!Slots \ {1} : /\ E!Intact(results[p[i]], deciding.commit)
                                 /\ results[p[i]].kind = "critical"
    BY <2>1 DEF E!Reviewable, E!CriticalRuns, E!Repetitions, E!Intact
  <2>7. E!Full(p).kind = "full" /\ E!FullHolds(E!Full(p)) /\ E!CasesOf(E!Full(p)) = E!ToSet(Suite)
    BY <2>1, <2>2, <2>3, <2>4, JudgedAlike, ResultAsked DEF E!Reviewable, E!CompleteRun
  <2>8. ASSUME NEW i \in E!Slots \ {1}
        PROVE  E!CriticalHolds(results[p[i]], E!Full(p)) /\ E!SameRuntime(results[p[i]], E!Full(p))
    <3>1. \A a \in E!Answers(results[p[i]]) : a.outcome = "passed"
      BY <2>3, <2>6, JudgedAlike
    <3>2. E!CasesOf(results[p[i]]) = {c \in E!ToSet(Suite) : c.critical}
      BY <2>3, <2>6, ResultAsked
    <3> QED  BY <2>6, <2>7, <3>1, <3>2 DEF E!CriticalHolds, E!SameRuntime, E!Complete
  <2>9. \A i \in E!Slots : E!Intact(results[p[i]], deciding.commit)
    BY <2>4, <2>5, <2>6
  <2> QED  BY <2>1, <2>7, <2>8, <2>9 DEF E!Passes, E!Repetitions, E!ReviewHolds
<1> QED  BY <1>2, <1>3 DEF EvidenceIInv, E!EvidenceInv

LEMMA EvidenceInitial == E!EvidenceInit => EvidenceIInv
<1> SUFFICES ASSUME E!EvidenceInit PROVE EvidenceIInv
  OBVIOUS
<1>1. E!Idle.pc = "idle"
  BY DEF E!Idle
<1>2. EvidenceTypes
  BY DEF E!EvidenceInit, EvidenceTypes, Sources
<1>3. OneCommand /\ Runs /\ Filed
  BY <1>1 DEF E!EvidenceInit, OneCommand, Runs, Filed
<1> QED  BY <1>2, <1>3 DEF E!EvidenceInit, EvidenceIInv, E!ReleasedAsTested, E!ReleasedAsReviewed

(* The results of a packet stay what they are when another is recorded.      *)
LEMMA PacketsStay ==
  ASSUME DOMAIN results \subseteq DOMAIN results', \A i \in DOMAIN results : results'[i] = results[i]
  PROVE  Reviewables \subseteq Reviewables'
<1> SUFFICES ASSUME NEW p \in Reviewables PROVE p \in Reviewables'
  OBVIOUS
<1>1. p \in [E!Slots -> DOMAIN results] /\ E!Reviewable(p)
  BY DEF Reviewables, E!Packets
<1>2. p \in [E!Slots -> DOMAIN results']
  BY <1>1
<1>3. 1 \in E!Slots
  BY EvidenceAssumption DEF E!Slots
<1>4. \A i \in E!Slots : results'[p[i]] = results[p[i]]
  BY <1>1
<1>5. E!Full(p)' = E!Full(p) /\ E!Repetitions(p)' = E!Repetitions(p)
  BY <1>3, <1>4 DEF E!Full, E!Repetitions
<1>6. E!Reviewable(p)'
  BY <1>1, <1>5 DEF E!Reviewable, E!CompleteRun, E!CriticalRuns, E!Clean, E!Complete, E!Answers
<1> QED  BY <1>2, <1>6 DEF Reviewables, E!Packets, E!Slots

(* The same before a release and after: nothing to say of one.               *)
LEMMA Unreleased ==
  ASSUME EvidenceTypes', OneCommand', Runs', Filed', released' = None
  PROVE  EvidenceIInv'
BY DEF EvidenceIInv, E!ReleasedAsTested, E!ReleasedAsReviewed

(* What is filed stays good when only runs go on.                            *)
LEMMA FiledStays ==
  ASSUME Filed, UNCHANGED <<ratings, reviews>>, results' = results
  PROVE  Filed'
<1>1. Reviewables \subseteq Reviewables'
  BY PacketsStay
<1> QED  BY <1>1 DEF Filed

LEMMA SourceMoved ==
  ASSUME EvidenceIInv, released = None, E!SourceMoves, tested' \in Commits, tree' \in Sources
  PROVE  EvidenceIInv'
<1>1. /\ UNCHANGED <<digest, results, ratings, reviews, released>>
      /\ run' = E!Unsteady(run, run.pc = "measure") /\ deciding' = E!Unsteady(deciding, deciding # None)
  BY DEF E!SourceMoves, E!Unrecorded, E!filed
<1>2. EvidenceTypes /\ OneCommand /\ Runs /\ Filed
  BY DEF EvidenceIInv
<1>3. E!Idle.pc = "idle"
  BY DEF E!Idle
<1>4. \/ run' = run /\ run.pc # "measure"
      \/ run \in Measures /\ run' \in Measures /\ ~run'.steady
  <2>1. CASE run.pc = "measure"
    <3>1. run \in Measures
      BY <1>2, <1>3, <2>1 DEF EvidenceTypes, SuiteRuns
    <3>2. run' = [run EXCEPT !.steady = FALSE]
      BY <1>1, <2>1 DEF E!Unsteady
    <3>3. run' = [pc |-> "measure", kind |-> run.kind, loaded |-> run.loaded, steady |-> FALSE]
      BY <3>1, <3>2 DEF Measures
    <3> QED  BY <3>1, <3>3 DEF Measures
  <2>2. CASE run.pc # "measure"
    BY <1>1, <2>2 DEF E!Unsteady
  <2> QED  BY <2>1, <2>2
<1>5. \/ deciding = None /\ deciding' = None
      \/ deciding # None /\ deciding' \in [commit : Commits, steady : BOOLEAN] /\ ~deciding'.steady
  <2>1. CASE deciding # None
    <3>1. deciding' = [deciding EXCEPT !.steady = FALSE] /\ deciding \in [commit : Commits, steady : BOOLEAN]
      BY <1>1, <1>2, <2>1 DEF E!Unsteady, EvidenceTypes
    <3>2. deciding' = [commit |-> deciding.commit, steady |-> FALSE]
      BY <3>1
    <3> QED  BY <2>1, <3>1, <3>2
  <2>2. CASE deciding = None
    BY <1>1, <2>2 DEF E!Unsteady
  <2> QED  BY <2>1, <2>2
<1>6. EvidenceTypes'
  BY <1>1, <1>2, <1>4, <1>5 DEF EvidenceTypes
<1>7. run = E!Idle => run' = E!Idle
  BY <1>3, <1>4 DEF Measures
<1>8. OneCommand'
  BY <1>1, <1>2, <1>5, <1>7 DEF OneCommand, E!Idle
<1>9. Runs'
  BY <1>1, <1>2, <1>4 DEF Runs, RunIs, ResultIs, E!Selected, Measures
<1>10. Filed'
  BY <1>1, <1>2, FiledStays
<1> QED  BY <1>1, <1>6, <1>8, <1>9, <1>10, Unreleased

LEMMA Pulls ==
  ASSUME EvidenceIInv, NEW m \in Values, E!Pull(m)
  PROVE  EvidenceIInv'
<1>1. /\ UNCHANGED <<tested, tree, results, ratings, reviews, deciding, released>> /\ released = None
      /\ digest' = m /\ run' = E!Unsteady(run, run.pc = "answer")
  BY DEF E!Pull, E!Changing, E!Answering, E!filed
<1>2. EvidenceTypes /\ OneCommand /\ Runs /\ Filed
  BY DEF EvidenceIInv
<1>3. E!Idle.pc = "idle"
  BY DEF E!Idle
<1>4. \/ run' = run /\ run.pc # "answer"
      \/ /\ run \in SuiteRuns /\ run' \in SuiteRuns /\ ~run'.steady /\ run'.kind = run.kind
         /\ run'.answers = run.answers
  <2>1. CASE run.pc = "answer"
    <3>1. run \in SuiteRuns
      BY <1>2, <1>3, <2>1 DEF EvidenceTypes, Measures
    <3>2. run' = [run EXCEPT !.steady = FALSE]
      BY <1>1, <2>1 DEF E!Unsteady
    <3>3. run' = [pc |-> "answer", kind |-> run.kind, loaded |-> run.loaded, steady |-> FALSE,
                  git |-> run.git, model |-> run.model, answers |-> run.answers]
      BY <3>1, <3>2 DEF SuiteRuns
    <3> QED  BY <3>1, <3>3 DEF SuiteRuns
  <2>2. CASE run.pc # "answer"
    BY <1>1, <2>2 DEF E!Unsteady
  <2> QED  BY <2>1, <2>2
<1>5. EvidenceTypes'
  BY <1>1, <1>2, <1>4 DEF EvidenceTypes
<1>6. run = E!Idle => run' = E!Idle
  BY <1>3, <1>4 DEF SuiteRuns
<1>7. OneCommand'
  BY <1>1, <1>2, <1>6 DEF OneCommand, E!Idle
<1>8. Runs'
  BY <1>1, <1>2, <1>4 DEF Runs, RunIs, ResultIs, E!Selected, SuiteRuns
<1>9. Filed'
  BY <1>1, <1>2, FiledStays
<1> QED  BY <1>1, <1>5, <1>7, <1>8, <1>9, Unreleased

LEMMA StartsRun ==
  ASSUME EvidenceIInv, NEW kind \in {"full", "critical"}, E!StartRun(kind)
  PROVE  EvidenceIInv'
<1>1. /\ UNCHANGED <<tested, tree, digest, results, ratings, reviews, deciding, released>>
      /\ released = None /\ deciding = None
      /\ run' = [pc |-> "measure", kind |-> kind, loaded |-> tree, steady |-> TRUE]
  BY DEF E!StartRun, E!Free, E!outside, E!filed
<1>2. EvidenceTypes /\ OneCommand /\ Runs /\ Filed
  BY DEF EvidenceIInv
<1>3. run' \in Measures /\ run'.pc = "measure" /\ run'.loaded = tree
  BY <1>1, <1>2 DEF Measures, EvidenceTypes
<1>4. EvidenceTypes'
  BY <1>1, <1>2, <1>3 DEF EvidenceTypes
<1>5. OneCommand'
  BY <1>1 DEF OneCommand
<1>6. Runs'
  BY <1>1, <1>2, <1>3 DEF Runs, RunIs, ResultIs, E!Selected
<1>7. Filed'
  BY <1>1, <1>2, FiledStays
<1> QED  BY <1>1, <1>4, <1>5, <1>6, <1>7, Unreleased

LEMMA Measured ==
  ASSUME EvidenceIInv, E!Measure
  PROVE  EvidenceIInv'
<1>1. /\ UNCHANGED <<tested, tree, digest, results, ratings, reviews, deciding, released>>
      /\ run.pc = "measure"
      /\ run' = [pc |-> "answer", kind |-> run.kind, loaded |-> run.loaded, steady |-> run.steady,
                 git |-> [commit |-> tested, dirty |-> tree # tested], model |-> digest,
                 answers |-> [i \in {} |-> None]]
  BY DEF E!Measure, E!Candidate, E!NoAnswers, E!outside, E!filed
<1>2. EvidenceTypes /\ OneCommand /\ Runs /\ Filed
  BY DEF EvidenceIInv
<1>3. E!Idle.pc = "idle"
  BY DEF E!Idle
<1>4. run \in Measures /\ released = None /\ deciding = None
  BY <1>1, <1>2, <1>3 DEF EvidenceTypes, SuiteRuns, OneCommand
<1>5. [i \in {} |-> None] \in AnswerMaps
  <2>1. [i \in {} |-> None] \in [{} -> Outcomes] /\ {} \in SUBSET DOMAIN Suite
    OBVIOUS
  <2> QED  BY <2>1 DEF AnswerMaps
<1>6. run' \in SuiteRuns
  <2>1. [commit |-> tested, dirty |-> tree # tested] \in [commit : Commits, dirty : BOOLEAN]
    BY <1>2 DEF EvidenceTypes
  <2>2. run.kind \in {"full", "critical"} /\ run.loaded \in Sources /\ run.steady \in BOOLEAN /\ digest \in Values
    BY <1>2, <1>4 DEF Measures, EvidenceTypes
  <2> HIDE DEF AnswerMaps
  <2> QED  BY <1>1, <1>5, <2>1, <2>2 DEF SuiteRuns
<1>7. RunIs(run') /\ run'.model = digest /\ run'.pc = "answer"
  BY <1>1, <1>2 DEF RunIs, Runs
<1>8. EvidenceTypes'
  BY <1>1, <1>2, <1>6 DEF EvidenceTypes
<1>9. OneCommand'
  BY <1>1, <1>4 DEF OneCommand
<1>10. Runs'
  BY <1>1, <1>2, <1>7 DEF Runs, RunIs, ResultIs, E!Selected
<1>11. Filed'
  BY <1>1, <1>2, FiledStays
<1> QED  BY <1>1, <1>4, <1>8, <1>9, <1>10, <1>11, Unreleased

LEMMA AnswersCase ==
  ASSUME EvidenceIInv, NEW i \in DOMAIN Suite, NEW outcome \in {"passed", "failed", "error"},
         E!AnswerCase(i, outcome)
  PROVE  EvidenceIInv'
<1> DEFINE a == [case |-> Suite[i], outcome |-> outcome, by |-> IF Suite[i].direct THEN None ELSE digest]
<1>1. /\ UNCHANGED <<tested, tree, digest, results, ratings, reviews, deciding, released>>
      /\ run.pc = "answer" /\ i \in E!Selected(run.kind)
      /\ run' = [run EXCEPT !.answers = E!With(run.answers, i, a)]
  BY DEF E!AnswerCase, E!Answering, E!Left, E!outside, E!filed
<1>2. EvidenceTypes /\ OneCommand /\ Runs /\ Filed
  BY DEF EvidenceIInv
<1>3. E!Idle.pc = "idle"
  BY DEF E!Idle
<1>4. run \in SuiteRuns /\ released = None /\ deciding = None
  BY <1>1, <1>2, <1>3 DEF EvidenceTypes, Measures, OneCommand
<1>5. a \in Outcomes /\ a.case = Suite[i] /\ a.by \in {None, digest}
  BY <1>2 DEF Outcomes, EvidenceTypes
<1> HIDE DEF a
<1>6. PICK m : m = E!With(run.answers, i, a)
  OBVIOUS
<1>7. DOMAIN m = DOMAIN run.answers \cup {i} /\ m[i] = a /\ \A j \in DOMAIN run.answers : j # i => m[j] = run.answers[j]
  BY <1>6 DEF E!With
<1>8. m \in AnswerMaps
  <2>1. PICK D \in SUBSET DOMAIN Suite : run.answers \in [D -> Outcomes]
    BY <1>4 DEF SuiteRuns, AnswerMaps
  <2>2. m \in [D \cup {i} -> Outcomes]
    BY <1>5, <1>6, <2>1 DEF E!With
  <2>3. D \cup {i} \in SUBSET DOMAIN Suite
    BY <2>1
  <2> QED  BY <2>2, <2>3 DEF AnswerMaps
<1>9. /\ run' \in SuiteRuns /\ run'.answers = m /\ run'.kind = run.kind /\ run'.steady = run.steady
      /\ run'.model = run.model /\ run'.git = run.git /\ run'.loaded = run.loaded /\ run'.pc = "answer"
  <2>1. run' = [run EXCEPT !.answers = m]
    BY <1>1, <1>6
  <2> HIDE DEF AnswerMaps
  <2>2. run' = [pc |-> "answer", kind |-> run.kind, loaded |-> run.loaded, steady |-> run.steady,
                git |-> run.git, model |-> run.model, answers |-> m]
    BY <1>4, <2>1 DEF SuiteRuns
  <2> QED  BY <1>4, <1>8, <2>2 DEF SuiteRuns
<1>10. RunIs(run) /\ (run.steady => run.model = digest)
  BY <1>1, <1>2 DEF Runs
<1>11. RunIs(run')
  <2>1. ASSUME NEW j \in DOMAIN m
        PROVE  j \in E!Selected(run.kind) /\ m[j].case = Suite[j] /\ (run.steady => m[j].by \in {None, run.model})
    BY <1>1, <1>5, <1>7, <1>10 DEF RunIs
  <2> QED  BY <1>9, <1>10, <2>1 DEF RunIs
<1>12. EvidenceTypes'
  BY <1>1, <1>2, <1>9 DEF EvidenceTypes
<1>13. OneCommand'
  BY <1>1, <1>4 DEF OneCommand
<1>14. Runs'
  BY <1>1, <1>2, <1>9, <1>10, <1>11 DEF Runs, RunIs, ResultIs, E!Selected
<1>15. Filed'
  BY <1>1, <1>2, FiledStays
<1> QED  BY <1>1, <1>4, <1>12, <1>13, <1>14, <1>15, Unreleased

LEMMA WritesResult ==
  ASSUME EvidenceIInv, E!WriteResult
  PROVE  EvidenceIInv'
<1>1. /\ UNCHANGED <<tested, tree, digest, ratings, reviews, deciding, released>>
      /\ run.pc = "answer" /\ E!Selected(run.kind) \ DOMAIN run.answers = {}
      /\ results' = Append(results, run) /\ run' = E!Idle
  BY DEF E!WriteResult, E!Answering, E!Left, E!outside, E!filed
<1>2. EvidenceTypes /\ OneCommand /\ Runs /\ Filed
  BY DEF EvidenceIInv
<1>3. E!Idle.pc = "idle"
  BY DEF E!Idle
<1>4. run \in SuiteRuns /\ released = None /\ deciding = None
  BY <1>1, <1>2, <1>3 DEF EvidenceTypes, Measures, OneCommand
<1>5. /\ results' \in Seq(SuiteRuns) /\ DOMAIN results \subseteq DOMAIN results'
      /\ \A i \in DOMAIN results : results'[i] = results[i]
      /\ \A i \in DOMAIN results' : i \in DOMAIN results \/ results'[i] = run
  BY <1>1, <1>2, <1>4 DEF EvidenceTypes
<1>6. ResultIs(run)
  BY <1>1, <1>2 DEF Runs, ResultIs
<1>7. EvidenceTypes'
  BY <1>1, <1>2, <1>5 DEF EvidenceTypes
<1>8. OneCommand'
  BY <1>1, <1>4 DEF OneCommand
<1>9. Runs'
  <2>1. \A i \in DOMAIN results' : ResultIs(results'[i])
    BY <1>2, <1>5, <1>6 DEF Runs
  <2> QED  BY <1>1, <1>3, <2>1 DEF Runs, RunIs, ResultIs, E!Selected, E!Idle
<1>10. Filed'
  BY <1>1, <1>2, <1>5, PacketsStay DEF Filed
<1> QED  BY <1>1, <1>4, <1>7, <1>8, <1>9, <1>10, Unreleased

LEMMA Abandons ==
  ASSUME EvidenceIInv, E!Abandon
  PROVE  EvidenceIInv'
<1>1. /\ UNCHANGED <<tested, tree, digest, results, ratings, reviews, deciding, released>>
      /\ run # E!Idle /\ run' = E!Idle
  BY DEF E!Abandon, E!filed
<1>2. EvidenceTypes /\ OneCommand /\ Runs /\ Filed
  BY DEF EvidenceIInv
<1>3. E!Idle.pc = "idle"
  BY DEF E!Idle
<1>4. released = None /\ deciding = None
  BY <1>1, <1>2 DEF OneCommand
<1>5. EvidenceTypes' /\ OneCommand'
  BY <1>1, <1>2, <1>4 DEF EvidenceTypes, OneCommand
<1>6. Runs'
  BY <1>1, <1>2, <1>3 DEF Runs, RunIs, ResultIs, E!Selected, E!Idle
<1>7. Filed'
  BY <1>1, <1>2, FiledStays
<1> QED  BY <1>1, <1>4, <1>5, <1>6, <1>7, Unreleased

(* A packet is prepared, rated or scored while nothing else changes.         *)
LEMMA Reviews ==
  ASSUME EvidenceIInv, released = None, Filed',
         UNCHANGED <<tested, tree, digest, run, results, deciding, released>>
  PROVE  EvidenceIInv'
<1>1. EvidenceTypes /\ OneCommand /\ Runs
  BY DEF EvidenceIInv
<1>2. EvidenceTypes' /\ OneCommand'
  BY <1>1 DEF EvidenceTypes, OneCommand, E!Idle
<1>3. Runs'
  BY <1>1 DEF Runs, RunIs, ResultIs, E!Selected
<1> QED  BY <1>2, <1>3, Unreleased

LEMMA Prepares ==
  ASSUME EvidenceIInv, NEW p \in E!Packets, E!Prepare(p)
  PROVE  EvidenceIInv'
<1>1. /\ UNCHANGED <<tested, tree, digest, run, results, reviews, deciding, released>> /\ released = None
      /\ p \in Reviewables /\ ratings' = E!With(ratings, p, E!Blank)
  BY DEF E!Prepare, E!Free, E!outside, Reviewables
<1>2. DOMAIN ratings' = DOMAIN ratings \cup {p}
  BY <1>1 DEF E!With
<1>3. Reviewables \subseteq Reviewables'
  BY <1>1, PacketsStay
<1>4. Filed'
  BY <1>1, <1>2, <1>3 DEF EvidenceIInv, Filed
<1> QED  BY <1>1, <1>4, Reviews

LEMMA RatesPacket ==
  ASSUME EvidenceIInv, NEW p \in DOMAIN ratings, NEW sheet \in Sheets, E!Rate(p, sheet)
  PROVE  EvidenceIInv'
<1>1. /\ UNCHANGED <<tested, tree, digest, run, results, reviews, deciding, released>> /\ released = None
      /\ ratings' = [ratings EXCEPT ![p] = sheet]
  BY DEF E!Rate, E!outside
<1>2. DOMAIN ratings' = DOMAIN ratings
  BY <1>1
<1>3. Reviewables \subseteq Reviewables'
  BY <1>1, PacketsStay
<1>4. Filed'
  BY <1>1, <1>2, <1>3 DEF EvidenceIInv, Filed
<1> QED  BY <1>1, <1>4, Reviews

LEMMA ScoresPacket ==
  ASSUME EvidenceIInv, NEW p \in DOMAIN ratings, E!Score(p)
  PROVE  EvidenceIInv'
<1>1. /\ UNCHANGED <<tested, tree, digest, run, results, ratings, deciding, released>> /\ released = None
  BY DEF E!Score, E!Free, E!outside
<1>2. PICK c : c = [sheet |-> ratings[p], passed |-> E!Approves(ratings[p])]
  OBVIOUS
<1>3. c.sheet = ratings[p] /\ (c.passed <=> E!Approves(ratings[p])) /\ reviews' = E!With(reviews, p, c)
  BY <1>2 DEF E!Score
<1>4. DOMAIN reviews' = DOMAIN reviews \cup {p} /\ reviews'[p] = c
      /\ \A q \in DOMAIN reviews : q # p => reviews'[q] = reviews[q]
  BY <1>3 DEF E!With
<1>5. Reviewables \subseteq Reviewables'
  BY <1>1, PacketsStay
<1>6. \A q \in DOMAIN reviews' : reviews'[q].passed <=> E!Approves(reviews'[q].sheet)
  BY <1>3, <1>4 DEF EvidenceIInv, Filed
<1>7. Filed'
  BY <1>1, <1>4, <1>5, <1>6 DEF EvidenceIInv, Filed
<1> QED  BY <1>1, <1>7, Reviews

LEMMA StartsDecision ==
  ASSUME EvidenceIInv, E!StartDecision
  PROVE  EvidenceIInv'
<1>1. /\ UNCHANGED <<tested, tree, digest, run, results, ratings, reviews, released>>
      /\ released = None /\ run = E!Idle /\ deciding' = [commit |-> tested, steady |-> TRUE]
  BY DEF E!StartDecision, E!Free, E!outside, E!filed
<1>2. EvidenceTypes /\ OneCommand /\ Runs /\ Filed
  BY DEF EvidenceIInv
<1>3. EvidenceTypes'
  BY <1>1, <1>2 DEF EvidenceTypes
<1>4. OneCommand'
  BY <1>1 DEF OneCommand, E!Idle
<1>5. Runs'
  BY <1>1, <1>2 DEF Runs, RunIs, ResultIs, E!Selected
<1>6. Filed'
  BY <1>1, <1>2, FiledStays
<1> QED  BY <1>1, <1>3, <1>4, <1>5, <1>6, Unreleased

(* The runs of a packet are as many as the policy asks for.                  *)
LEMMA AllDifferent ==
  ASSUME NEW n \in Nat, NEW D \in SUBSET Nat, NEW p \in [1..n -> D], \A i, j \in 1..n : i < j => p[i] < p[j]
  PROVE  E!Cardinality({i \in D : \E j \in 1..n : p[j] = i}) = n
<1> DEFINE Img == {i \in D : \E j \in 1..n : p[j] = i}
<1>1. p \in [1..n -> Img]
  OBVIOUS
<1>2. \A i, j \in 1..n : p[i] = p[j] => i = j
  <2> SUFFICES ASSUME NEW i \in 1..n, NEW j \in 1..n, p[i] = p[j] PROVE i = j
    OBVIOUS
  <2>1. p[i] \in Nat /\ p[j] \in Nat
    OBVIOUS
  <2> QED  BY <2>1
<1>3. p \in Injection(1..n, Img)
  BY <1>1, <1>2 DEF Injection, IsInjective
<1>4. p \in Surjection(1..n, Img)
  BY <1>1 DEF Surjection
<1>5. ExistsBijection(1..n, Img)
  BY <1>3, <1>4 DEF ExistsBijection, Bijection
<1>6. IsFiniteSet(1..n) /\ Cardinality(1..n) = n
  BY FS_Interval
<1>7. Cardinality(Img) = n
  BY <1>5, <1>6, FS_Bijection
<1>8. E!Cardinality(Img) = Cardinality(Img)
  BY DEF E!Cardinality, Cardinality
<1> QED  BY <1>7, <1>8

LEMMA Decides ==
  ASSUME EvidenceIInv, NEW p \in E!Packets, NEW q \in DOMAIN reviews, E!Decide(p, q)
  PROVE  EvidenceIInv'
<1>1. /\ UNCHANGED <<tested, tree, digest, run, results, ratings, reviews>> /\ deciding # None /\ deciding' = None
      /\ released' = IF E!Passes(p, q, deciding.commit)
                     THEN [commit |-> deciding.commit, steady |-> deciding.steady, runs |-> p] ELSE None
  BY DEF E!Decide, E!outside, E!filed
<1>2. EvidenceTypes /\ OneCommand /\ Runs /\ Filed
  BY DEF EvidenceIInv
<1>3. EvidenceTypes' /\ OneCommand'
  BY <1>1, <1>2 DEF EvidenceTypes, OneCommand, E!Idle
<1>4. Runs'
  BY <1>1, <1>2 DEF Runs, RunIs, ResultIs, E!Selected
<1>5. Filed'
  BY <1>1, <1>2, FiledStays
<1>6. CASE ~E!Passes(p, q, deciding.commit)
  BY <1>1, <1>3, <1>4, <1>5, <1>6, Unreleased
<1>7. CASE E!Passes(p, q, deciding.commit)
  <2>1. released'.commit = deciding.commit /\ released'.steady = deciding.steady /\ released'.runs = p
    BY <1>1, <1>7
  <2>2. /\ tree = tested /\ E!Reviewable(p) /\ E!FullHolds(results[p[1]]) /\ q = p /\ E!Approves(reviews[p].sheet)
        /\ \A i \in E!Slots : results[p[i]].git = [commit |-> deciding.commit, dirty |-> FALSE]
        /\ \A i \in E!Slots \ {1} : /\ E!CriticalHolds(results[p[i]], results[p[1]])
                                    /\ results[p[i]].model = results[p[1]].model
    BY <1>7 DEF E!Passes, E!Full, E!Repetitions, E!Intact, E!SameRuntime, E!ReviewHolds
  <2>3. p \in [E!Slots -> DOMAIN results]
    BY DEF E!Packets
  <2>4. E!ReleasedAsTested'
    <3>1. deciding.steady => tested = deciding.commit
      BY <1>1, <1>2 DEF OneCommand
    <3>2. ASSUME NEW i \in E!Slots, results[p[i]].steady
          PROVE  /\ results[p[i]].loaded = deciding.commit
                 /\ \A a \in E!Answers(results[p[i]]) : a.by \in {None, results[p[1]].model}
      <4>1. RunIs(results[p[i]])
        BY <1>2, <2>3 DEF Runs, ResultIs
      <4>2. results[p[i]].model = results[p[1]].model
        BY <2>2
      <4> QED  BY <2>2, <3>2, <4>1, <4>2 DEF RunIs, E!Answers
    <3> QED  BY <1>1, <2>1, <2>2, <3>1, <3>2 DEF E!ReleasedAsTested, E!Released, E!Slots, E!Answers
  <2>5. E!ReleasedAsReviewed'
    <3>1. E!Cardinality({i \in DOMAIN results : \E j \in E!Slots : p[j] = i}) = Repeats + 1
      <4>1. DOMAIN results \in SUBSET Nat /\ Repeats + 1 \in Nat
        BY <1>2, EvidenceAssumption DEF EvidenceTypes
      <4>2. \A i, j \in E!Slots : i < j => p[i] < p[j]
        BY <2>2 DEF E!Reviewable, E!CriticalRuns
      <4> QED  BY <2>3, <4>1, <4>2, AllDifferent DEF E!Slots
    <3>2. ASSUME NEW i \in E!Slots, NEW c \in E!ToSet(Suite), c.critical
          PROVE  \E a \in E!Answers(results[p[i]]) : a.case = c /\ a.outcome = "passed"
      <4>1. c \in E!CasesOf(results[p[1]])
        BY <2>2 DEF E!FullHolds
      <4>2. CASE i = 1
        BY <2>2, <3>2, <4>1, <4>2 DEF E!FullHolds, E!CriticalPass, E!CasesOf, E!Passed
      <4>3. CASE i # 1
        <5>1. c \in E!CasesOf(results[p[i]]) /\ \A a \in E!Answers(results[p[i]]) : a.outcome = "passed"
          BY <2>2, <3>2, <4>1, <4>3 DEF E!CriticalHolds
        <5> QED  BY <5>1 DEF E!CasesOf
      <4> QED  BY <4>2, <4>3
    <3>3. E!Approves(reviews'[released'.runs].sheet)
      BY <1>1, <2>1, <2>2
    <3>4. E!Cardinality({i \in DOMAIN results' : \E j \in E!Slots : released'.runs[j] = i}) = Repeats + 1
      BY <1>1, <2>1, <3>1
    <3> QED  BY <1>1, <2>1, <3>2, <3>3, <3>4 DEF E!ReleasedAsReviewed, E!Released, E!Answers
  <2> QED  BY <1>3, <1>4, <1>5, <2>4, <2>5 DEF EvidenceIInv
<1> QED  BY <1>6, <1>7

LEMMA EvidenceStays == EvidenceIInv /\ E!EvidenceNext => EvidenceIInv'
<1> SUFFICES ASSUME EvidenceIInv, E!EvidenceNext PROVE EvidenceIInv'
  OBVIOUS
<1>1. tested \in Commits /\ tree \in Sources
  BY DEF EvidenceIInv, EvidenceTypes
<1>2. CASE E!Edit \/ E!Discard \/ \E c \in Commits : E!Checkout(c)
  <2>1. E!SourceMoves /\ released = None /\ tested' \in Commits /\ tree' \in Sources
    BY <1>1, <1>2 DEF E!Edit, E!Discard, E!Checkout, E!Changing, Sources
  <2> QED  BY <2>1, SourceMoved
<1>3. CASE ~(E!Edit \/ E!Discard \/ \E c \in Commits : E!Checkout(c))
  BY <1>3, Pulls, StartsRun, Measured, WritesResult, Abandons, StartsDecision, AnswersCase, Prepares,
     RatesPacket, ScoresPacket, Decides DEF E!EvidenceNext
<1> QED  BY <1>2, <1>3

LEMMA EvidenceStutters == EvidenceIInv /\ UNCHANGED evidenceState => EvidenceIInv'
<1> SUFFICES ASSUME EvidenceIInv, UNCHANGED evidenceState PROVE EvidenceIInv'
  OBVIOUS
<1>1. UNCHANGED <<tested, tree, digest, run, results, ratings, reviews, deciding, released>>
  BY DEF evidenceState
<1>2. EvidenceTypes /\ OneCommand /\ Runs /\ Filed /\ E!ReleasedAsTested /\ E!ReleasedAsReviewed
  BY DEF EvidenceIInv
<1>3. EvidenceTypes' /\ OneCommand'
  BY <1>1, <1>2 DEF EvidenceTypes, OneCommand, E!Idle
<1>4. Runs'
  BY <1>1, <1>2 DEF Runs, RunIs, ResultIs, E!Selected
<1>5. Filed'
  BY <1>1, <1>2, FiledStays
<1>6. E!ReleasedAsTested'
  BY <1>1, <1>2 DEF E!ReleasedAsTested, E!Released, E!Slots, E!Answers
<1>7. E!ReleasedAsReviewed'
  <2>1. \A i : E!Released(i)' = E!Released(i)
    BY <1>1 DEF E!Released
  <2> QED  BY <1>1, <1>2, <2>1 DEF E!ReleasedAsReviewed, E!Answers
<1> QED  BY <1>3, <1>4, <1>5, <1>6, <1>7 DEF EvidenceIInv

-----------------------------------------------------------------------------
(* Releases and their evidence.                                              *)
ReleasesIInv ==
  /\ part = "release" => ReleaseIInv
  /\ part = "evidence" => EvidenceIInv

LEMMA ReleasesInitial == PartsInit => ReleasesIInv
BY ReleaseInitial, EvidenceInitial DEF PartsInit, ReleasesIInv

LEMMA ReleasesStay == ReleasesIInv /\ [PartsNext]_partsVars => ReleasesIInv'
<1> SUFFICES ASSUME ReleasesIInv, [PartsNext]_partsVars PROVE ReleasesIInv'
  OBVIOUS
<1>1. part' = part
  BY DEF PartsNext, partsVars
<1>2. CASE part = "release"
  <2>1. R!ReleaseNext \/ UNCHANGED releaseState
    BY <1>2 DEF PartsNext, partsVars, releasesState
  <2> QED  BY <1>1, <1>2, <2>1, ReleaseStays, ReleaseStutters DEF ReleasesIInv
<1>3. CASE part = "evidence"
  <2>1. E!EvidenceNext \/ UNCHANGED evidenceState
    BY <1>3 DEF PartsNext, partsVars, releasesState
  <2> QED  BY <1>1, <1>3, <2>1, EvidenceStays, EvidenceStutters DEF ReleasesIInv
<1>4. CASE part \notin {"release", "evidence"}
  BY <1>1, <1>4 DEF ReleasesIInv
<1> QED  BY <1>2, <1>3, <1>4

(* A package is verified only as the commit its manifest names, and holds    *)
(* what was built from it but for the moments no check covers; a release of  *)
(* a clean commit that nothing disturbs is never refused                     *)
(* (verify-windows-msix.ts, verify-macos-mas-pkg.ts, prepare-desktop.ts);    *)
(* and the gate passes only what was tested and reviewed, and whatever was   *)
(* (check-conversation-release.ts).                                          *)
THEOREM ReleaseInvHolds == PartsSpec => []ReleaseInv
<1>1. ReleasesIInv => ReleaseInv
  BY ReleaseImplies, EvidenceImplies DEF ReleasesIInv, ReleaseInv
<1> QED  BY <1>1, ReleasesInitial, ReleasesStay, PTL DEF PartsSpec, partsVars
================================================================================
