---------------------------- MODULE SqlAnalysis ----------------------------
(***************************************************************************)
(* The SQL workspace: panels (app/components/sql-analysis-panel.tsx), the  *)
(* routes they call, the approval of one data file (lib/datasets.ts), what *)
(* the user taught about it (lib/dataset-semantic-contexts.ts), one-use    *)
(* confirmations (lib/sql-confirmations.ts) and the private snapshot on    *)
(* which DuckDB runs (lib/sql-runtime.ts).                                 *)
(*                                                                         *)
(* A call of a panel is a record in `calls`. The server works on it in     *)
(* steps separated where its code awaits; the reply is delivered or lost   *)
(* later, and a panel that was closed meanwhile ignores it. The file is    *)
(* not the server's: anybody may write to it between two steps.            *)
(***************************************************************************)
EXTENDS Naturals, Sequences, FiniteSets

CONSTANTS Windows,       \* open windows of the page, each with a panel
          Queries,       \* read-only queries the user may type
          Contents,      \* what the data file may hold
          Most,          \* how many calls of each kind the panels make
          None,
          MaxWrites,     \* changes of the file
          MaxApprovals,  \* approvals of the file
          MaxCloses,     \* times a panel is closed
          MaxCalls,      \* calls of all panels together
          MaxFaults      \* kinds of faults that happen, each at most once

ASSUME SqlConstants ==
    /\ Most \in [{"preview", "execute", "context", "save"} -> Nat]
    /\ None \notin Queries \cup Contents \cup Nat
    /\ Queries # {} /\ Contents # {}
    /\ {MaxWrites, MaxApprovals, MaxCloses, MaxCalls, MaxFaults} \subseteq Nat

(* None is no approval and no context.                                     *)
ASSUME NoneIsNoRecord ==
    /\ None \notin [id : Nat, version : Nat, bytes : Contents]
    /\ None \notin [id : Nat, bytes : Contents, revision : Nat, by : Nat]

VARIABLES
    file,      \* the version and the content of the data file
    approval,  \* the entry of the allowlist for its path
    approvals, \* ids given to approvals so far
    memory,    \* the saved context of the dataset
    store,     \* the confirmations on disk
    dirs,      \* the calls whose private snapshot is on disk
    calls,     \* every call made, with what the server holds for it
    panel,     \* the state of each panel
    closes,    \* times a panel was closed
    faults     \* what went wrong so far

vars == <<file, approval, approvals, memory, store, dirs, calls, panel, closes, faults>>

Call(kind, w, id, query, from) ==
    [kind |-> kind, w |-> w, ears |-> "open", stage |-> "sent", id |-> id,
     query |-> query, from |-> from, approval |-> None, copy |-> <<>>, reply |-> None]

Closed(query) ==
    [open |-> FALSE, ready |-> FALSE, chosen |-> None, query |-> query,
     preview |-> None, result |-> None, editor |-> None, busy |-> FALSE]

Init ==
    /\ file = [version |-> 0, bytes |-> CHOOSE b \in Contents : TRUE]
    /\ approval = None /\ approvals = 0
    /\ memory = None /\ store = {} /\ dirs = {} /\ calls = <<>>
    /\ panel = [w \in Windows |-> Closed(CHOOSE q \in Queries : TRUE)]
    /\ closes = 0 /\ faults = {}

(* Something goes wrong, which the configuration bounds. *)
Goes(wrong) ==
    /\ wrong \notin faults /\ Cardinality(faults) < MaxFaults
    /\ faults' = faults \cup {wrong}

(* Another program writes the file, or replaces it by one with the same    *)
(* bytes: its change time, inode or size tells the two versions apart.     *)
WriteFile ==
    /\ file.version < MaxWrites
    /\ \E b \in Contents : file' = [version |-> file.version + 1, bytes |-> b]
    /\ UNCHANGED <<approval, approvals, memory, store, dirs, calls, panel, closes, faults>>

-----------------------------------------------------------------------------
(* The server.                                                             *)

Refuse(n) == calls' = [calls EXCEPT ![n].stage = "refused", ![n].copy = <<>>]

(* The approval the call is for, if the file is still the approved one.    *)
Approves(c) == approval # None /\ approval.id = c.id /\ approval.version = file.version

(* Opening the file, comparing its stable fields with the approval, making *)
(* the private directory and copying the first part.                       *)
OpenSnapshot(n) ==
    /\ calls' = [calls EXCEPT ![n].stage = "copying", ![n].approval = approval,
                              ![n].copy = <<file.bytes>>]
    /\ dirs' = dirs \cup {n}

Begin(n) ==
    /\ calls[n].stage = "sent" /\ calls[n].kind # "execute"
    /\ IF Approves(calls[n]) THEN OpenSnapshot(n)
                             ELSE Refuse(n) /\ UNCHANGED dirs
    /\ UNCHANGED <<file, approval, approvals, memory, store, panel, closes, faults>>

(* Variant: the confirmation is not removed. *)
ConsumedNone(c) == {}

(* executeConfirmedSql: the confirmation is removed before anything about  *)
(* the call is checked. It may have expired: no read of the store returns  *)
(* it after its five minutes.                                              *)
Consumed(c) == {s \in store : s.cid = c.from.cid}

Confirmed(c) == {s \in store : s.cid = c.from.cid /\ s.id = c.id /\ s.query = c.query}

BeginConfirmed(n) ==
    LET c == calls[n] IN
    /\ c.stage = "sent" /\ c.kind = "execute"
    /\ store' = store \ Consumed(c)
    /\ \/ Approves(c) /\ Confirmed(c) # {} /\ OpenSnapshot(n)
       \/ Refuse(n) /\ UNCHANGED dirs
    /\ UNCHANGED <<file, approval, approvals, memory, panel, closes, faults>>

(* The copy is complete: the file must not have changed since it was       *)
(* opened, and the copy must hash to what was approved and previewed.      *)
Exact(c, copy) ==
    /\ file.version = c.approval.version
    /\ copy = <<c.approval.bytes, c.approval.bytes>>
    /\ c.kind = "execute" => c.from.bytes = c.approval.bytes

CloseSnapshot(n) ==
    LET copy == Append(calls[n].copy, file.bytes) IN
    /\ calls[n].stage = "copying"
    /\ IF Exact(calls[n], copy)
         THEN /\ calls' = [calls EXCEPT ![n].stage = "verified", ![n].copy = copy]
              /\ UNCHANGED dirs
         ELSE Refuse(n) /\ dirs' = dirs \ {n}
    /\ UNCHANGED <<file, approval, approvals, memory, store, panel, closes, faults>>

(* An abort, the deadline, a failing read or write, a worker that fails,   *)
(* exits or exceeds a limit: whichever is first ends the call, and the     *)
(* snapshot is removed.                                                    *)
Fail(n) ==
    /\ calls[n].stage \in {"copying", "verified"}
    /\ Goes("work") /\ Refuse(n)
    /\ dirs' = dirs \ {n}
    /\ UNCHANGED <<file, approval, approvals, memory, store, panel, closes>>

Answer(n, reply) ==
    /\ calls' = [calls EXCEPT ![n].stage = "answered", ![n].reply = reply, ![n].copy = <<>>]
    /\ dirs' = dirs \ {n}

SavePreview(n) ==
    LET c == calls[n] IN
    /\ c.stage = "verified" /\ c.kind = "preview"
    /\ LET s == [cid |-> n, id |-> c.id, bytes |-> c.approval.bytes, query |-> c.query] IN
       /\ store' = store \cup {s}
       /\ Answer(n, s)
    /\ UNCHANGED <<file, approval, approvals, memory, panel, closes, faults>>

(* The worker ran the query on the snapshot. *)
RunQuery(n) ==
    LET c == calls[n] IN
    /\ c.stage = "verified" /\ c.kind = "execute"
    /\ Answer(n, [query |-> c.query, copy |-> c.copy])
    /\ UNCHANGED <<file, approval, approvals, memory, store, panel, closes, faults>>

(* The revision of the saved context that applies to an approval. *)
Context(a) ==
    IF memory # None /\ memory.id = a.id /\ memory.bytes = a.bytes
      THEN [revision |-> memory.revision, by |-> memory.by]
      ELSE [revision |-> 0, by |-> 0]

(* The schema is read from the snapshot, then the approval once more. *)
ReadContext(n) ==
    LET c == calls[n] IN
    /\ c.stage = "verified" /\ c.kind = "context"
    /\ IF approval = c.approval
         THEN Answer(n, [id |-> c.id, at |-> n, revision |-> Context(approval).revision,
                         by |-> Context(approval).by])
         ELSE Refuse(n) /\ dirs' = dirs \ {n}
    /\ UNCHANGED <<file, approval, approvals, memory, store, panel, closes, faults>>

(* Variant: the approval is not read again before the write. *)
SavesUnapproved(c) == Context(c.approval).revision = c.from.revision

(* Variant: the revision is not compared. *)
SavesAnyway(c) == approval = c.approval

(* saveDatasetSemanticMemory: revisions are counted per content of the     *)
(* file, and one context is kept per dataset.                              *)
Saves(c) == approval = c.approval /\ Context(approval).revision = c.from.revision

SaveContext(n) ==
    LET c == calls[n]
        a == c.approval
        m == [id |-> a.id, bytes |-> a.bytes, revision |-> Context(a).revision + 1, by |-> n] IN
    /\ c.stage = "verified" /\ c.kind = "save"
    /\ IF Saves(c) THEN memory' = m /\ Answer(n, m)
                   ELSE Refuse(n) /\ dirs' = dirs \ {n} /\ UNCHANGED memory
    /\ UNCHANGED <<file, approval, approvals, store, panel, closes, faults>>

(* Every call in progress ends without an answer, its snapshot stays.      *)
Crashed == [n \in DOMAIN calls |->
              IF calls[n].stage \in {"sent", "copying", "verified"}
                THEN [calls[n] EXCEPT !.stage = "dead"] ELSE calls[n]]

Crash ==
    /\ Goes("crash")
    /\ calls' = Crashed
    /\ UNCHANGED <<file, approval, approvals, memory, store, dirs, panel, closes>>

-----------------------------------------------------------------------------
(* The panel.                                                              *)

Asks(kind) ==
    /\ Len(calls) < MaxCalls
    /\ Cardinality({n \in DOMAIN calls : calls[n].kind = kind}) < Most[kind]

Ask(w, kind, id, query, from) ==
    /\ Asks(kind)
    /\ calls' = Append(calls, Call(kind, w, id, query, from))

(* The panel stops listening to its calls: a counter they captured moved.  *)
(* Its next list still waits for the saves among them.                     *)
Ignored(w) ==
    [n \in DOMAIN calls |->
       IF calls[n].w = w /\ calls[n].ears = "open"
         THEN [calls[n] EXCEPT !.ears = IF calls[n].kind = "save"
                                          THEN "waiting" ELSE "shut",
                               !.reply = None]
         ELSE calls[n]]

(* refresh: the panel takes the authoritative list, with entry `id` or     *)
(* none, or gives up the list it has.                                      *)
Listing(p, id) ==
    [p EXCEPT !.ready = TRUE, !.chosen = id, !.busy = FALSE]
Unlisted(p) ==
    [p EXCEPT !.ready = FALSE, !.chosen = None, !.busy = FALSE]
Forgotten(p) == [p EXCEPT !.preview = None, !.result = None, !.editor = None]

Refresh(w, p, id) ==
    \/ panel' = [panel EXCEPT ![w] = Listing(p, id)] /\ UNCHANGED faults
    \/ panel' = [panel EXCEPT ![w] = Unlisted(p)] /\ Goes("list")

ApprovedId == IF approval = None THEN None ELSE approval.id

OpenPanel(w) ==
    /\ ~panel[w].open
    /\ panel' = [panel EXCEPT ![w] = [Closed(@.query) EXCEPT !.open = TRUE, !.busy = TRUE]]
    /\ UNCHANGED <<file, approval, approvals, memory, store, dirs, calls, closes, faults>>

(* The first list waits for the saves this panel has under way. *)
FirstList(w) ==
    /\ panel[w].open /\ panel[w].busy /\ ~panel[w].ready
    /\ \A n \in DOMAIN calls : calls[n].w = w => calls[n].ears # "waiting"
    /\ Refresh(w, panel[w], ApprovedId)
    /\ UNCHANGED <<file, approval, approvals, memory, store, dirs, calls, closes>>

ClosePanel(w) ==
    /\ panel[w].open /\ closes < MaxCloses
    /\ closes' = closes + 1
    /\ panel' = [panel EXCEPT ![w] = [Closed(@.query) EXCEPT !.busy = panel[w].busy]]
    /\ calls' = Ignored(w)
    /\ UNCHANGED <<file, approval, approvals, memory, store, dirs, faults>>

(* The controls are enabled. *)
Usable(w) == panel[w].open /\ panel[w].ready /\ ~panel[w].busy

TypeQuery(w) ==
    /\ Usable(w)
    /\ \E q \in Queries \ {panel[w].query} :
         panel' = [panel EXCEPT ![w].query = q, ![w].preview = None, ![w].result = None]
    /\ UNCHANGED <<file, approval, approvals, memory, store, dirs, calls, closes, faults>>

(* approveDataset: the same id as long as the path stays in the list. *)
Approved ==
    CASE approval = None -> [id |-> approvals + 1, version |-> file.version, bytes |-> file.bytes]
      [] approval # None -> [approval EXCEPT !.version = file.version, !.bytes = file.bytes]

ApproveFile(w) ==
    /\ Usable(w) /\ approvals < MaxApprovals
    /\ approval' = Approved
    /\ approvals' = approvals + 1
    /\ \/ /\ panel' = [panel EXCEPT ![w] = [Listing(@, Approved.id) EXCEPT
                          !.preview = None, !.result = None, !.busy = Asks("context")]]
          /\ calls' = IF Asks("context")
                        THEN Append(calls, Call("context", w, Approved.id, None, None))
                        ELSE calls
          /\ UNCHANGED faults
       \/ Refresh(w, panel[w], Approved.id) /\ UNCHANGED calls
    /\ UNCHANGED <<file, memory, store, dirs, closes>>

(* revokeDataset: the entry, then what was taught about it. *)
Without(id) == IF memory # None /\ memory.id = id THEN None ELSE memory

RevokeFile(w) ==
    LET id == panel[w].chosen IN
    /\ Usable(w) /\ id # None /\ ApprovedId = id
    /\ approval' = None
    /\ memory' = Without(id)
    /\ Refresh(w, Forgotten(panel[w]), None)
    /\ UNCHANGED <<file, approvals, store, dirs, calls, closes>>

(* The server stops between the two writes. *)
RevokeCrashes(w) ==
    LET id == panel[w].chosen IN
    /\ Usable(w) /\ id # None /\ ApprovedId = id /\ Goes("crash")
    /\ approval' = None
    /\ calls' = Crashed
    /\ panel' = [panel EXCEPT ![w] = Unlisted(Forgotten(@))]
    /\ UNCHANGED <<file, approvals, memory, store, dirs, closes>>

AskPreview(w) ==
    /\ Usable(w) /\ panel[w].chosen # None
    /\ Ask(w, "preview", panel[w].chosen, panel[w].query, None)
    /\ panel' = [panel EXCEPT ![w].busy = TRUE, ![w].preview = None, ![w].result = None]
    /\ UNCHANGED <<file, approval, approvals, memory, store, dirs, closes, faults>>

RunOnce(w) ==
    /\ Usable(w) /\ panel[w].preview # None
    /\ LET p == panel[w].preview IN Ask(w, "execute", p.id, p.query, p)
    /\ panel' = [panel EXCEPT ![w].busy = TRUE]
    /\ UNCHANGED <<file, approval, approvals, memory, store, dirs, closes, faults>>

(* A request may be sent again below the page, on a connection that was    *)
(* reset: nobody listens to the copy.                                      *)
Resend ==
    /\ Asks("execute")
    /\ \E n \in DOMAIN calls :
         /\ calls[n].kind = "execute" /\ calls[n].ears = "open"
         /\ calls' = Append(calls, [Call("execute", calls[n].w, calls[n].id, calls[n].query,
                                         calls[n].from) EXCEPT !.ears = "shut"])
    /\ UNCHANGED <<file, approval, approvals, memory, store, dirs, panel, closes, faults>>

RejectPreview(w) ==
    /\ Usable(w) /\ panel[w].preview # None
    /\ panel' = [panel EXCEPT ![w].preview = None]
    /\ UNCHANGED <<file, approval, approvals, memory, store, dirs, calls, closes, faults>>

OpenContext(w) ==
    /\ Usable(w) /\ panel[w].chosen # None
    /\ Ask(w, "context", panel[w].chosen, None, None)
    /\ panel' = [panel EXCEPT ![w].busy = TRUE]
    /\ UNCHANGED <<file, approval, approvals, memory, store, dirs, closes, faults>>

SendContext(w) ==
    /\ Usable(w) /\ panel[w].editor # None
    /\ Ask(w, "save", panel[w].editor.id, None, panel[w].editor)
    /\ panel' = [panel EXCEPT ![w].busy = TRUE]
    /\ UNCHANGED <<file, approval, approvals, memory, store, dirs, closes, faults>>

CloseContext(w) ==
    /\ panel[w].editor # None /\ ~panel[w].busy
    /\ panel' = [panel EXCEPT ![w].editor = None]
    /\ UNCHANGED <<file, approval, approvals, memory, store, dirs, calls, closes, faults>>

(* What a panel does with a reply; a receipt of other bytes or of another  *)
(* query than the previewed ones is not accepted (isResult).               *)
Accepts(c) == c.reply.copy = <<c.from.bytes, c.from.bytes>> /\ c.reply.query = c.from.query

(* Variant: the panel keeps waiting after a refusal. *)
ShownIfAnswered(p, c) ==
    IF c.stage = "answered" THEN [p EXCEPT !.busy = FALSE] ELSE p

Shown(p, c) ==
    LET q == [p EXCEPT !.busy = FALSE]
        ok == c.stage = "answered" IN
    CASE c.kind = "preview" -> [q EXCEPT !.preview = IF ok THEN c.reply ELSE None]
      [] c.kind = "execute" -> [q EXCEPT !.preview = None,
                                         !.result = IF ok /\ Accepts(c) THEN c.reply ELSE None]
      [] c.kind = "context" -> [q EXCEPT !.editor = IF ok THEN c.reply ELSE @]
      [] c.kind = "save" -> [q EXCEPT !.editor = IF ok THEN None ELSE @]

Hears(c) == c.ears = "open"
Heard(n) == [calls EXCEPT ![n].ears = "shut", ![n].reply = None]

Reply(n) ==
    LET c == calls[n] IN
    /\ c.ears # "shut" /\ c.stage \in {"answered", "refused"}
    /\ panel' = IF Hears(c) THEN [panel EXCEPT ![c.w] = Shown(@, c)] ELSE panel
    /\ calls' = Heard(n)
    /\ UNCHANGED <<file, approval, approvals, memory, store, dirs, closes, faults>>

(* The reply is lost, before or after the server acted. *)
Lose(n) ==
    LET c == calls[n] IN
    /\ c.ears # "shut"
    /\ IF c.stage = "dead" THEN UNCHANGED faults ELSE Goes("reply")
    /\ calls' = Heard(n)
    /\ panel' = IF Hears(c)
                  THEN [panel EXCEPT ![c.w].busy = FALSE,
                          ![c.w].preview = IF c.kind = "execute" THEN None ELSE @,
                          ![c.w].result = IF c.kind = "execute" THEN None ELSE @]
                  ELSE panel
    /\ UNCHANGED <<file, approval, approvals, memory, store, dirs, closes>>

(* A panel that does not know whether its context was saved reads it again. *)
LoseSave(n) ==
    LET c == calls[n] IN
    /\ IF c.stage = "dead" THEN UNCHANGED faults ELSE Goes("reply")
    /\ Hears(c) /\ c.kind = "save" /\ Asks("context")
    /\ calls' = Append(Heard(n), Call("context", c.w, c.id, None, None))
    /\ UNCHANGED <<file, approval, approvals, memory, store, dirs, panel, closes>>

-----------------------------------------------------------------------------
ServerStep(n) ==
    \/ Begin(n) \/ BeginConfirmed(n) \/ CloseSnapshot(n) \/ Fail(n)
    \/ SavePreview(n) \/ RunQuery(n) \/ ReadContext(n) \/ SaveContext(n)

PanelStep(w) ==
    \/ OpenPanel(w) \/ FirstList(w) \/ ClosePanel(w) \/ TypeQuery(w)
    \/ ApproveFile(w) \/ RevokeFile(w) \/ RevokeCrashes(w)
    \/ AskPreview(w) \/ RunOnce(w) \/ RejectPreview(w)
    \/ OpenContext(w) \/ SendContext(w) \/ CloseContext(w)

Next ==
    \/ WriteFile \/ Crash \/ Resend
    \/ \E w \in Windows : PanelStep(w)
    \/ \E n \in DOMAIN calls : ServerStep(n) \/ Reply(n) \/ Lose(n) \/ LoseSave(n)

Spec == Init /\ [][Next]_vars

(* The server works off every call it has, the network delivers or fails,  *)
(* and an opened panel gets its first list.                                *)
FairSpec ==
    /\ Spec
    /\ \A n \in 1 .. MaxCalls :
         WF_vars(n \in DOMAIN calls /\ (ServerStep(n) \/ Reply(n) \/ Lose(n)))
    /\ \A w \in Windows : WF_vars(FirstList(w))

-----------------------------------------------------------------------------
TypeOK ==
    /\ file \in [version : 0 .. MaxWrites, bytes : Contents]
    /\ approvals \in 0 .. MaxApprovals
    /\ approval # None => approval.id \in 1 .. approvals /\ approval.version \in 0 .. file.version
    /\ memory # None => memory.id \in 1 .. approvals /\ memory.by \in DOMAIN calls
    /\ \A s \in store : s.cid \in DOMAIN calls /\ s.bytes \in Contents /\ s.query \in Queries
    /\ closes \in 0 .. MaxCloses /\ faults \subseteq {"crash", "work", "reply", "list"}

(* A private copy of the user's data is on disk exactly while its call     *)
(* uses it; only a crash of the server leaves one.                         *)
SnapshotsHaveOwners ==
    \A n \in DOMAIN calls :
      /\ n \in dirs => calls[n].stage \in {"copying", "verified", "dead"}
      /\ calls[n].stage \in {"copying", "verified"} => n \in dirs

(* A panel that listens to a call is open and waits, and listens to no     *)
(* other; what it shows is about the query in its text box.                *)
PanelsAgree ==
    /\ \A n \in DOMAIN calls : Hears(calls[n]) =>
         /\ panel[calls[n].w].open /\ panel[calls[n].w].busy
         /\ \A m \in DOMAIN calls : calls[m].w = calls[n].w /\ Hears(calls[m]) => m = n
    /\ \A w \in Windows :
         /\ panel[w].preview # None => panel[w].preview.query = panel[w].query
         /\ panel[w].result # None => panel[w].result.query = panel[w].query

(* What was taught about a dataset is gone when its approval is, whatever  *)
(* was being saved then; only a crash inside the revocation leaves it.     *)
TaughtIsApproved ==
    memory # None => "crash" \in faults \/ ApprovedId = memory.id

(* The SQL workspace is consistent. *)
SqlInv == TypeOK /\ SnapshotsHaveOwners /\ PanelsAgree /\ TaughtIsApproved

(* A confirmation starts at most one execution, however often its request  *)
(* arrives, and what runs is the previewed query on the previewed bytes of *)
(* the approved dataset, whatever happened to the file and its approval.   *)
RunsAsPreviewed ==
    \A n \in DOMAIN calls : LET c == calls[n] IN
      c.kind = "execute" /\ c.approval # None =>
        /\ \A m \in DOMAIN calls \ {n} :
             ~(calls[m].kind = "execute" /\ calls[m].from.cid = c.from.cid
               /\ calls[m].approval # None)
        /\ c.stage = "verified" =>
             /\ c.copy = <<c.from.bytes, c.from.bytes>>
             /\ c.query = c.from.query /\ c.approval.id = c.from.id

Commits(n) ==
    /\ n \in DOMAIN calls /\ calls[n].kind = "save"
    /\ calls[n].stage = "verified" /\ calls'[n].stage = "answered"

(* While the same approval stands, a save replaces only the context its    *)
(* editor was opened with: of two windows that save, one is refused.       *)
SavesOverSeen ==
    [][\A n \in 1 .. MaxCalls : Commits(n) =>
         LET f == calls[n].from IN
         approval = calls[f.at].approval => Context(approval).by = f.by]_vars

(* The same across approvals: "Dataset context changed in another local    *)
(* window. Reload it before saving." (DatasetSemanticMemoryConflictError). *)
ContextSavesAreSeen ==
    [][\A n \in 1 .. MaxCalls : Commits(n) =>
         Context(approval).by = calls[n].from.by]_vars

(* An open panel does not wait for ever, though replies are lost, the      *)
(* server crashes, and the panel is closed and opened under its calls.     *)
PanelUnlocks ==
    \A w \in Windows : panel[w].busy ~> ~panel[w].busy \/ ~panel[w].open
=============================================================================
