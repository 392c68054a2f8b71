-------------------------------- MODULE Setup --------------------------------
(***************************************************************************)
(* First-run setup and the preferences it shares with the page:            *)
(* first-run-setup.tsx, the preferences dialog of page.tsx, and behind     *)
(* them onboarding-state.ts, desktop-preferences.ts and model-manager.ts   *)
(* with their routes.                                                      *)
(*                                                                         *)
(* Each store is one file with a revision, and a write names the revision  *)
(* it was made from.  Several windows show copies of the three files; each *)
(* has at most one request under way (busy), and requests and replies may  *)
(* be lost.                                                                *)
(***************************************************************************)
EXTENDS Naturals

CONSTANTS
    Windows,
    Values,        \* what a name, an appearance or a model may be
    Ready,         \* the last step: the first is You, the second ModelStep
    MaxWrites,     \* bounds the revisions of the three stores together
    MaxLost,       \* how many requests or replies are lost
    None

VARIABLES
    progress,      \* onboarding-state.json: [status, step, revision, receipt]
    prefs,         \* desktop-preferences.json: [revision, look, name]
    model,         \* model-preferences.json: [revision, choice]
    page,          \* what the page of each window keeps
    wizard,        \* the setup dialog of each window, or None
    dialog,        \* the preferences dialog of each window, or None
    call,          \* the request of each window under way, or None
    lost

setupVars == <<progress, prefs, model, page, wizard, dialog, call, lost>>

Steps == 1..Ready               \* you, model, welcome, context, ready
You == 1
ModelStep == 2
Waiting == {"pending", "available", "dismissed"}      \* onboardingNeedsStart

Progresses == [status : {"pending", "available", "in-progress", "dismissed", "completed"},
               step : Steps, revision : Nat, receipt : Values \cup {None}]
Preferences == [revision : Nat, look : Values, name : Values]
Choices == [revision : Nat, choice : Values]
Pages == [progress : Progresses, prefs : Preferences, revision : Nat, name : Values, refused : BOOLEAN]
Wizards == [progress : Progresses, prefs : Preferences, models : Choices \cup {None}, step : Steps,
            look : Values, name : Values, startFailed : BOOLEAN, canLeave : BOOLEAN]
Dialogs == [look : Values, name : Values, touched : SUBSET {"look", "name"}]
Calls == [kind : {"start", "advance", "dismiss", "complete", "prefs", "model"},
          at : {"sent", "done", "conflict", "refused"}, revision : Nat, step : Steps,
          look : Values \cup {None}, name : Values \cup {None}, touched : SUBSET {"look", "name"},
          then : {"stay", "turn", "close", "advance", "page", "dialog"}, receipt : Values \cup {None},
          answer : Progresses \cup Preferences \cup Choices \cup {None}]

(* A page just loaded.  It keeps the preferences, and beside them their    *)
(* revision and the name it greets with; refused: the revision is of later *)
(* preferences than those it keeps, by a save that met them.               *)
Loaded == [progress |-> progress, prefs |-> prefs, revision |-> prefs.revision,
           name |-> prefs.name, refused |-> FALSE]

(* A new profile, one that has data (and preferences) from before there    *)
(* was a setup, or one whose setup was left at some step.                  *)
SetupInit ==
    /\ \E v \in Values :
          /\ model = [revision |-> 0, choice |-> v]
          /\ \/ /\ progress = [status |-> "pending", step |-> You, revision |-> 0, receipt |-> None]
                /\ prefs = [revision |-> 0, look |-> v, name |-> v]
             \/ /\ progress = [status |-> "available", step |-> You, revision |-> 0, receipt |-> None]
                /\ prefs = [revision |-> 1, look |-> v, name |-> v]
             \/ \E s \in {"in-progress", "dismissed"}, k \in Steps :
                   /\ progress = [status |-> s, step |-> k, revision |-> 1, receipt |-> None]
                   /\ prefs = [revision |-> 0, look |-> v, name |-> v]
    /\ page = [w \in Windows |-> Loaded]
    /\ wizard = [w \in Windows |-> None] /\ dialog = [w \in Windows |-> None]
    /\ call = [w \in Windows |-> None] /\ lost = 0

Stores == <<progress, prefs, model>>
(* How much is written; setup left at some step has the revision 1.        *)
Writes == progress.revision + prefs.revision + model.revision
Free(w) == call[w] = None
Sent(w, c) == call' = [call EXCEPT ![w] = c]
Request(kind) == [kind |-> kind, at |-> "sent", revision |-> 0, step |-> You, look |-> None,
                  name |-> None, touched |-> {}, then |-> "stay", receipt |-> None, answer |-> None]

(* The window is reloaded, or opened again.  While a request is under way  *)
(* that is the loss of its reply, and a reload after it.                   *)
Reload(w) ==
    /\ Free(w) /\ page[w] # Loaded
    /\ page' = [page EXCEPT ![w] = Loaded]
    /\ wizard' = [wizard EXCEPT ![w] = None] /\ dialog' = [dialog EXCEPT ![w] = None]
    /\ UNCHANGED <<Stores, call, lost>>

-----------------------------------------------------------------------------
(* The setup dialog.                                                       *)

Mutation(z, kind, step, then) ==
    [Request(kind) EXCEPT !.revision = z.progress.revision, !.step = step, !.then = then]

(* It opens at the saved step; unless setup is in progress or completed    *)
(* its first effect starts it.                                             *)
OpenWizard(w) ==
    LET p == page[w].progress
        z == [progress |-> p, prefs |-> page[w].prefs, models |-> None,
              step |-> IF p.status = "completed" THEN Ready ELSE p.step,
              look |-> page[w].prefs.look, name |-> page[w].prefs.name,
              startFailed |-> FALSE, canLeave |-> FALSE]
    IN  /\ wizard[w] = None /\ Free(w)
        /\ wizard' = [wizard EXCEPT ![w] = z] /\ dialog' = [dialog EXCEPT ![w] = None]
        /\ IF p.status \in Waiting THEN Sent(w, Mutation(z, "start", p.step, "stay"))
                                   ELSE UNCHANGED call
        /\ UNCHANGED <<Stores, page, lost>>

Idle(w) == wizard[w] # None /\ Free(w)
Replay(w) == wizard[w].progress.status = "completed"
Turn(w, c) == Sent(w, c) /\ UNCHANGED <<Stores, page, wizard, dialog, lost>>
Close(w) == wizard' = [wizard EXCEPT ![w] = None]

RetryStart(w) ==
    /\ Idle(w) /\ wizard[w].startFailed
    /\ Turn(w, Mutation(wizard[w], "start", wizard[w].step, "stay"))

(* Skip, Continue and Back move one step; Save & continue first saves.     *)
Advance(w, to) ==
    /\ Idle(w) /\ ~Replay(w)
    /\ to \in Steps \cap {wizard[w].step - 1, wizard[w].step + 1}
    /\ Turn(w, Mutation(wizard[w], "advance", to, "turn"))

SaveAndContinue(w, f, v) ==
    LET z == [wizard[w] EXCEPT ![f] = v]
    IN  /\ Idle(w) /\ ~Replay(w) /\ z.step = You
        /\ wizard' = [wizard EXCEPT ![w] = z]
        /\ Sent(w, [Request("prefs") EXCEPT !.revision = z.prefs.revision, !.step = z.step + 1,
                       !.look = z.look, !.name = z.name, !.then = "advance",
                       !.touched = {g \in {"look", "name"} : z[g] # z.prefs[g]}])
        /\ UNCHANGED <<Stores, page, dialog, lost>>

(* The models are discovered once, and kept.                               *)
Discover(w) ==
    /\ wizard[w] # None /\ wizard[w].step = ModelStep /\ wizard[w].models = None
    /\ wizard' = [wizard EXCEPT ![w].models = model]
    /\ UNCHANGED <<Stores, page, dialog, call, lost>>

UseModel(w, v) ==
    LET z == wizard[w]
    IN  /\ Idle(w) /\ ~Replay(w) /\ z.step = ModelStep /\ z.models # None
        /\ IF z.models.choice = v                   \* it is selected already
           THEN Turn(w, Mutation(z, "advance", z.step + 1, "turn"))
           ELSE Turn(w, [Request("model") EXCEPT !.revision = z.models.revision, !.name = v,
                            !.step = z.step + 1, !.then = "advance"])

Dismiss(w) ==
    /\ Idle(w)
    /\ IF Replay(w)
       THEN Close(w) /\ UNCHANGED <<Stores, page, dialog, call, lost>>
       ELSE Turn(w, Mutation(wizard[w], "dismiss", wizard[w].step, "close"))

CloseWithoutSaving(w) ==
    /\ Idle(w) /\ wizard[w].canLeave
    /\ Close(w)
    /\ UNCHANGED <<Stores, page, dialog, call, lost>>

FinishSetup(w) ==
    /\ Idle(w) /\ wizard[w].step = Ready
    /\ IF Replay(w)
       THEN Close(w) /\ UNCHANGED <<Stores, page, dialog, call, lost>>
       ELSE Turn(w, Mutation(wizard[w], "complete", Ready, "stay"))

-----------------------------------------------------------------------------
(* The page: its invitation, the preferences dialog and the model manager. *)

DismissInvitation(w) ==
    /\ wizard[w] = None /\ Free(w) /\ page[w].progress.status = "available"
    /\ Turn(w, Mutation(page[w], "dismiss", page[w].progress.step, "page"))

(* The dialog starts from the preferences of the page, and from the name   *)
(* it greets with.                                                         *)
OpenDialog(w) ==
    /\ dialog[w] = None /\ wizard[w] = None /\ Free(w)
    /\ dialog' = [dialog EXCEPT ![w] = [look |-> page[w].prefs.look, name |-> page[w].name,
                                        touched |-> {}]]
    /\ UNCHANGED <<Stores, page, wizard, call, lost>>

CloseDialog(w) ==
    /\ dialog[w] # None /\ Free(w)
    /\ dialog' = [dialog EXCEPT ![w] = None]
    /\ UNCHANGED <<Stores, page, wizard, call, lost>>

(* It saves what the user changed, and the rest as it shows it.            *)
SavePreferences(w, f, v) ==
    /\ dialog[w] # None /\ Free(w) /\ v # dialog[w][f]
    /\ LET d == [dialog[w] EXCEPT ![f] = v, !.touched = @ \cup {f}]
       IN  /\ dialog' = [dialog EXCEPT ![w] = d]
           /\ Sent(w, [Request("prefs") EXCEPT !.revision = page[w].revision, !.look = d.look,
                          !.name = d.name, !.touched = d.touched, !.then = "dialog"])
    /\ UNCHANGED <<Stores, page, wizard, lost>>

ManageModel(v) ==
    /\ model.choice # v /\ Writes < MaxWrites
    /\ model' = [revision |-> model.revision + 1, choice |-> v]
    /\ UNCHANGED <<progress, prefs, page, wizard, dialog, call, lost>>

-----------------------------------------------------------------------------
(* The server.  An answer carries the store as it now is, when the request *)
(* succeeded or the revision had changed.                                  *)
Answer(w, result, store) == Sent(w, [call[w] EXCEPT !.at = result, !.answer = store])
Arrived(w, kinds) == call[w] # None /\ call[w].at = "sent" /\ call[w].kind \in kinds

Current(w) == call[w].revision = progress.revision

Allowed(c) ==
    CASE c.kind = "start"   -> progress.status \in Waiting /\ c.step = progress.step
      [] c.kind = "advance" -> /\ progress.status = "in-progress"
                               /\ c.step \in {progress.step - 1, progress.step + 1}
      [] c.kind = "dismiss" -> /\ progress.status \in {"pending", "available", "in-progress"}
                               /\ c.step = progress.step
      [] OTHER              -> progress.status = "in-progress" /\ progress.step = Ready

Moved(c) == [status |-> CASE c.kind = "dismiss" -> "dismissed"
                          [] c.kind = "complete" -> "completed"
                          [] OTHER -> "in-progress",
             step |-> c.step, revision |-> progress.revision + 1, receipt |-> c.receipt]

(* The receipt of a completion is made first: it names the model selected  *)
(* before the installed models are awaited.                                *)
MakeReceipt(w) ==
    /\ Arrived(w, {"complete"}) /\ call[w].receipt = None
    /\ Sent(w, [call[w] EXCEPT !.receipt = model.choice])
    /\ UNCHANGED <<Stores, page, wizard, dialog, lost>>

Move(w) ==
    LET c == call[w]
    IN  /\ Arrived(w, {"start", "advance", "dismiss", "complete"})
        /\ c.kind = "complete" => c.receipt # None
        /\ IF ~Current(w) THEN Answer(w, "conflict", progress) /\ UNCHANGED progress
           ELSE IF Allowed(c)
           THEN /\ Writes < MaxWrites
                /\ progress' = Moved(c) /\ Answer(w, "done", Moved(c))
           ELSE Answer(w, "refused", None) /\ UNCHANGED progress
        /\ UNCHANGED <<prefs, model, page, wizard, dialog, lost>>

(* Variant: the revision is not compared.                                  *)
StoreUnchecked(w) ==
    LET c == call[w]
        next == [revision |-> prefs.revision + 1, look |-> c.look, name |-> c.name]
    IN  /\ Arrived(w, {"prefs"})
        /\ Writes < MaxWrites /\ prefs' = next /\ Answer(w, "done", next)
        /\ UNCHANGED <<progress, model, page, wizard, dialog, lost>>

StorePreferences(w) ==
    LET c == call[w]
        next == [revision |-> prefs.revision + 1, look |-> c.look, name |-> c.name]
    IN  /\ Arrived(w, {"prefs"})
        /\ IF c.revision # prefs.revision THEN Answer(w, "conflict", prefs) /\ UNCHANGED prefs
           ELSE Writes < MaxWrites /\ prefs' = next /\ Answer(w, "done", next)
        /\ UNCHANGED <<progress, model, page, wizard, dialog, lost>>

StoreModel(w) ==
    LET c == call[w]
        next == [revision |-> model.revision + 1, choice |-> c.name]
    IN  /\ Arrived(w, {"model"})
        /\ IF c.revision # model.revision THEN Answer(w, "refused", None) /\ UNCHANGED model
           ELSE Writes < MaxWrites /\ model' = next /\ Answer(w, "done", next)
        /\ UNCHANGED <<progress, prefs, page, wizard, dialog, lost>>

Lose(w) ==
    /\ call[w] # None /\ lost < MaxLost /\ lost' = lost + 1
    /\ Answer(w, "refused", None)
    /\ UNCHANGED <<Stores, page, wizard, dialog>>

-----------------------------------------------------------------------------
(* Replies.                                                                *)
Replied(w, thens, results) ==
    call[w] # None /\ call[w].then \in thens /\ call[w].at \in results
Shown(w, p) == page' = [page EXCEPT ![w].progress = p]

(* mutateOnboarding succeeded: the dialog and the page keep what was saved.*)
Progressed(w) ==
    /\ Replied(w, {"stay", "turn", "close"}, {"done"})
    /\ Shown(w, call[w].answer) /\ Sent(w, None)
    /\ IF call[w].then = "close" THEN Close(w)
       ELSE wizard' = [wizard EXCEPT ![w].progress = call[w].answer, ![w].canLeave = FALSE,
                          ![w].step = IF call[w].then = "turn" THEN call[w].step ELSE @,
                          ![w].startFailed = @ /\ call[w].kind # "start"]
    /\ UNCHANGED <<Stores, dialog, lost>>

(* Another window was first: the dialog follows it, to its step.           *)
Refreshed(w) ==
    LET p == call[w].answer
    IN  /\ Replied(w, {"stay", "turn", "close"}, {"conflict"})
        /\ Shown(w, p) /\ Sent(w, None)
        /\ wizard' = [wizard EXCEPT ![w].progress = p, ![w].step = p.step,
                         ![w].startFailed = p.status \in Waiting,
                         ![w].canLeave = call[w].then = "close"]
        /\ UNCHANGED <<Stores, dialog, lost>>

(* It failed, for any other reason; a preference that the dialog could not *)
(* save, whatever the reason, is no different.                             *)
NotSaved(w) ==
    /\ \/ Replied(w, {"stay", "turn", "close", "advance"}, {"refused"})
       \/ Replied(w, {"advance"}, {"conflict"})
    /\ Sent(w, None)
    /\ wizard' = [wizard EXCEPT ![w].startFailed = @ \/ call[w].kind = "start",
                     ![w].canLeave = @ \/ call[w].kind \in {"start", "dismiss"}]
    /\ UNCHANGED <<Stores, page, dialog, lost>>

(* The preferences or the model are saved: now the step is.                *)
SavedThenAdvance(w) ==
    LET c == call[w]
    IN  /\ Replied(w, {"advance"}, {"done"})
        /\ IF c.kind = "prefs"
           THEN /\ wizard' = [wizard EXCEPT ![w].prefs = c.answer]
                /\ page' = [page EXCEPT ![w].prefs = c.answer, ![w].name = c.answer.name,
                                        ![w].refused = FALSE, ![w].revision = c.answer.revision]
           ELSE wizard' = [wizard EXCEPT ![w].models = c.answer] /\ UNCHANGED page
        /\ Sent(w, Mutation(wizard[w], "advance", c.step, "turn"))
        /\ UNCHANGED <<Stores, dialog, lost>>

InvitationDismissed(w) ==
    /\ Replied(w, {"page"}, {"done", "conflict", "refused"})
    /\ IF call[w].at = "done" THEN Shown(w, call[w].answer) ELSE UNCHANGED page
    /\ Sent(w, None)
    /\ UNCHANGED <<Stores, wizard, dialog, lost>>

PreferencesSaved(w) ==
    LET p == call[w].answer
    IN  /\ Replied(w, {"dialog"}, {"done"})
        /\ page' = [page EXCEPT ![w].prefs = p, ![w].name = p.name, ![w].refused = FALSE,
                                 ![w].revision = p.revision]
        /\ dialog' = [dialog EXCEPT ![w] = None] /\ Sent(w, None)
        /\ UNCHANGED <<Stores, wizard, lost>>

(* The dialog stays open as it is.  After a conflict the page greets with  *)
(* the name now stored, and takes over the revision, but nothing else.     *)
PreferencesRefused(w) ==
    /\ Replied(w, {"dialog"}, {"conflict", "refused"})
    /\ IF call[w].at = "conflict"
       THEN page' = [page EXCEPT ![w].name = call[w].answer.name, ![w].refused = TRUE,
                                 ![w].revision = call[w].answer.revision]
       ELSE UNCHANGED page
    /\ Sent(w, None)
    /\ UNCHANGED <<Stores, wizard, dialog, lost>>

-----------------------------------------------------------------------------
SetupNext ==
    \/ \E v \in Values : ManageModel(v)
    \/ \E w \in Windows :
          \/ Reload(w) \/ OpenWizard(w) \/ RetryStart(w) \/ Discover(w)
          \/ Dismiss(w) \/ CloseWithoutSaving(w) \/ FinishSetup(w) \/ DismissInvitation(w)
          \/ OpenDialog(w) \/ CloseDialog(w)
          \/ MakeReceipt(w) \/ Move(w) \/ StorePreferences(w) \/ StoreModel(w) \/ Lose(w)
          \/ Progressed(w) \/ Refreshed(w) \/ NotSaved(w) \/ SavedThenAdvance(w)
          \/ InvitationDismissed(w) \/ PreferencesSaved(w) \/ PreferencesRefused(w)
          \/ \E to \in Steps : Advance(w, to)
          \/ \E v \in Values : UseModel(w, v)
          \/ \E f \in {"look", "name"}, v \in Values :
                SavePreferences(w, f, v) \/ SaveAndContinue(w, f, v)

SetupSpec == SetupInit /\ [][SetupNext]_setupVars

-----------------------------------------------------------------------------
SetupTypeOK ==
    /\ progress \in Progresses /\ prefs \in Preferences /\ model \in Choices
    /\ Writes <= MaxWrites + 1
    /\ page \in [Windows -> Pages] /\ wizard \in [Windows -> Wizards \cup {None}]
    /\ dialog \in [Windows -> Dialogs \cup {None}] /\ call \in [Windows -> Calls \cup {None}]

(* A setup dialog that waits for nothing and knows the revision now stored *)
(* shows the step stored with it: whatever was lost, refused or saved by   *)
(* another window, the step never moves without being saved                *)
(* (first-run-setup.tsx, advance and mutateOnboarding).                    *)
ShowsSavedStep ==
    \A w \in Windows :
       (Idle(w) /\ wizard[w].progress.revision = progress.revision)
          => wizard[w].progress = progress /\ wizard[w].step = progress.step

(* Setup is completed with a receipt, from the last step, and only then.   *)
ReceiptIffCompleted ==
    /\ (progress.status = "completed") = (progress.receipt # None)
    /\ progress.status = "completed" => progress.step = Ready

SetupInv == SetupTypeOK /\ ShowsSavedStep /\ ReceiptIffCompleted

(* A save in window w overwrites a preference the user did not change in   *)
(* it with another value than the one stored.                              *)
Undoes(w) ==
    /\ StorePreferences(w) /\ prefs' # prefs
    /\ \E f \in {"look", "name"} \ call[w].touched : prefs'[f] # prefs[f]

(* Saving preferences changes only what the user changed in that window    *)
(* (desktop-preferences.ts, updateDesktopPreferences, and its callers):    *)
(* the code does not ensure it, for the dialog keeps its draft when a save *)
(* of it is refused, and the page takes over the revision (page.tsx:2145). *)
SavesUndoNothing == [][\A w \in Windows : ~Undoes(w)]_setupVars

(* What another window saved is undone only by the dialog of a page that   *)
(* was refused for it, and that still shows what it replaced: never by the *)
(* first save, by the setup dialog, or after a save that succeeded.        *)
UndoesOnlyRefused ==
    \A w \in Windows : Undoes(w) => page[w].refused /\ call[w].then = "dialog"

UndoneOnlyAfterRefusal == [][UndoesOnlyRefused]_setupVars
=============================================================================
