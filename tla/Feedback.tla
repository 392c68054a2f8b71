------------------------------- MODULE Feedback -------------------------------
(***************************************************************************)
(* The ratings of the answers of an open conversation:                     *)
(* response-feedback.ts and its routes in the server, and in the page      *)
(* response-feedback.tsx, response-feedback-client-state.ts and the        *)
(* bindings of page.tsx.                                                   *)
(*                                                                         *)
(* A rating is shown at once and sent; the reply confirms it, or puts the  *)
(* former one back.  Meanwhile reads of all the ratings arrive in any      *)
(* order, and the conversation may be opened again.                        *)
(***************************************************************************)
EXTENDS Naturals

CONSTANTS
    Turns,
    Ratings,
    MaxRatings, MaxReads, MaxOpens, MaxFailures,
    Unrated, NoRow, None

Shown == Ratings \cup {Unrated}

VARIABLES
    stored,     \* response_feedback: [Turns -> Shown \cup {NoRow}]
    ui,         \* the page: [shown, generation, operation, revision, requests, latest]
    saving,     \* the rating of each turn under way, or None
    reads,      \* the reads under way
    opening,    \* [at, rows]: the read that opens the conversation again
    excused,    \* the turns whose outcome a failure or the opening left unknown
    spent       \* [ratings, reads, opens, failures]

feedbackVars == <<stored, ui, saving, reads, opening, excused, spent>>

Rows == [Turns -> Shown \cup {NoRow}]
Savings == [previous : Shown, next : Shown, at : {"sent", "set"}, generation : Nat]
Reads == [generation : Nat, request : Nat, startedAt : Nat, at : {"sent", "read"}, rows : Rows]

NoRows == [t \in Turns |-> NoRow]
Closed == [at |-> "none", rows |-> NoRows]

FeedbackInit ==
    /\ stored = NoRows
    /\ ui = [shown |-> NoRows, generation |-> 1, operation |-> 1,
             revision |-> [t \in Turns |-> 0], requests |-> 1, latest |-> 1]
    /\ saving = [t \in Turns |-> None] /\ reads = {} /\ opening = Closed /\ excused = {}
    /\ spent = [ratings |-> 0, reads |-> 0, opens |-> 0, failures |-> 0]

Spend(what, most) == spent[what] < most /\ spent' = [spent EXCEPT ![what] = @ + 1]
Keep == UNCHANGED spent

(* What a read remembers of the page when it starts.                       *)
NewRead == [generation |-> ui.generation, request |-> ui.requests + 1,
            startedAt |-> ui.operation, at |-> "sent", rows |-> NoRows]

(* updateResponseFeedbackForConversation: for the generation it was for.   *)
Update(g, t, r) ==
    ui' = IF g # ui.generation THEN ui
          ELSE [ui EXCEPT !.operation = @ + 1, !.revision[t] = ui.operation + 1, !.shown[t] = r]

-----------------------------------------------------------------------------
(* A turn is completed, and gets its row in the same transaction; the page *)
(* then reads the ratings.                                                 *)
CompleteTurn(t) ==
    /\ stored[t] = NoRow /\ Spend("reads", MaxReads)
    /\ stored' = [stored EXCEPT ![t] = Unrated]
    /\ reads' = reads \cup {NewRead}
    /\ ui' = [ui EXCEPT !.requests = @ + 1]
    /\ UNCHANGED <<saving, opening, excused>>

(* Reconciling a turn reads the conversation with its ratings.             *)
Reconcile ==
    /\ Spend("reads", MaxReads)
    /\ reads' = reads \cup {NewRead}
    /\ ui' = [ui EXCEPT !.requests = @ + 1]
    /\ UNCHANGED <<stored, saving, opening, excused>>

(* The user activates a rating; activating it again clears it.             *)
Rate(t, r) ==
    LET next == IF ui.shown[t] = r THEN Unrated ELSE r
    IN  /\ ui.shown[t] # NoRow /\ saving[t] = None /\ Spend("ratings", MaxRatings)
        /\ saving' = [saving EXCEPT ![t] = [previous |-> ui.shown[t], next |-> next, at |-> "sent",
                                            generation |-> ui.generation]]
        /\ Update(ui.generation, t, next)
        /\ UNCHANGED <<stored, reads, opening, excused>>

SetFeedback(t) ==
    /\ saving[t] # None /\ saving[t].at = "sent" /\ Keep
    /\ stored' = [stored EXCEPT ![t] = saving[t].next]
    /\ saving' = [saving EXCEPT ![t].at = "set"]
    /\ UNCHANGED <<ui, reads, opening, excused>>

Confirm(t) ==
    /\ saving[t] # None /\ saving[t].at = "set" /\ Keep
    /\ Update(saving[t].generation, t, saving[t].next)
    /\ saving' = [saving EXCEPT ![t] = None]
    /\ UNCHANGED <<stored, reads, opening, excused>>

(* The request failed, or its reply was lost: nobody knows which.          *)
RateFails(t) ==
    /\ saving[t] # None /\ Spend("failures", MaxFailures)
    /\ Update(saving[t].generation, t, saving[t].previous)
    /\ saving' = [saving EXCEPT ![t] = None]
    /\ excused' = IF saving[t].at = "set" THEN excused \cup {t} ELSE excused
    /\ UNCHANGED <<stored, reads, opening>>

ServeRead(q) ==
    /\ q \in reads /\ q.at = "sent" /\ Keep
    /\ reads' = (reads \ {q}) \cup {[q EXCEPT !.at = "read", !.rows = stored]}
    /\ UNCHANGED <<stored, ui, saving, opening, excused>>

(* Without the revisions of what was rated here since.                     *)
RemoteOnly(q) == q.rows

(* mergeResponseFeedbackRead                                               *)
Merged(q) == [t \in Turns |-> IF ui.revision[t] > q.startedAt THEN ui.shown[t] ELSE q.rows[t]]

(* A read is applied unless the conversation was opened since, or a later  *)
(* read was applied.                                                       *)
ApplyRead(q) ==
    /\ q \in reads /\ q.at = "read" /\ Keep
    /\ reads' = reads \ {q}
    /\ ui' = IF q.generation # ui.generation \/ q.request < ui.latest THEN ui
             ELSE [ui EXCEPT !.latest = q.request, !.shown = Merged(q)]
    /\ UNCHANGED <<stored, saving, opening, excused>>

(* A read that fails leaves what is shown as it is: without the new turns, *)
(* and with what an earlier read, served late, made of the others.         *)
ReadFails(q) ==
    /\ q \in reads /\ Spend("failures", MaxFailures)
    /\ reads' = reads \ {q} /\ excused' = Turns
    /\ UNCHANGED <<stored, ui, saving, opening>>

-----------------------------------------------------------------------------
(* The conversation is opened again.                                       *)
Open ==
    /\ opening.at = "none" /\ Spend("opens", MaxOpens)
    /\ opening' = [Closed EXCEPT !.at = "sent"]
    /\ UNCHANGED <<stored, ui, saving, reads, excused>>

ServeOpen ==
    /\ opening.at = "sent" /\ Keep
    /\ opening' = [at |-> "read", rows |-> stored]
    /\ UNCHANGED <<stored, ui, saving, reads, excused>>

(* bindResponseFeedback: nothing that was under way counts any more.  What *)
(* was rated while it was read may be shown as it was before.              *)
Bind ==
    /\ opening.at = "read" /\ Keep
    /\ ui' = [ui EXCEPT !.generation = @ + 1, !.operation = @ + 1, !.shown = opening.rows,
                        !.revision = [t \in Turns |-> 0],
                        !.requests = @ + 1, !.latest = ui.requests + 1]
    /\ excused' = {t \in Turns : saving[t] # None \/ opening.rows[t] # stored[t]}
    /\ opening' = Closed
    /\ UNCHANGED <<stored, saving, reads>>

FeedbackNext ==
    \/ \E t \in Turns : CompleteTurn(t) \/ SetFeedback(t) \/ Confirm(t) \/ RateFails(t)
    \/ \E t \in Turns, r \in Ratings : Rate(t, r)
    \/ \E q \in reads : ServeRead(q) \/ ApplyRead(q) \/ ReadFails(q)
    \/ Reconcile \/ Open \/ ServeOpen \/ Bind

-----------------------------------------------------------------------------
FeedbackTypeOK ==
    /\ stored \in Rows /\ reads \subseteq Reads /\ excused \subseteq Turns
    /\ ui \in [shown : Rows, generation : Nat, operation : Nat, revision : [Turns -> Nat],
               requests : Nat, latest : Nat]
    /\ saving \in [Turns -> Savings \cup {None}]
    /\ opening \in [at : {"none", "sent", "read"}, rows : Rows]
    /\ \A t \in Turns : ui.revision[t] <= ui.operation
    /\ ui.latest <= ui.requests

(* Once nothing is under way the page shows what is stored, whichever read *)
(* or reply came late: except for a turn a failure or the opening left     *)
(* unknown (response-feedback-client-state.ts).                            *)
SettledShowsStored ==
    (reads = {} /\ opening.at = "none") =>
       \A t \in Turns \ excused : saving[t] = None => ui.shown[t] = stored[t]

(* What is shown can be rated: only a completed turn, which has its row.   *)
ShownHasRow == \A t \in Turns : stored[t] = NoRow => ui.shown[t] = NoRow /\ saving[t] = None

FeedbackInv == FeedbackTypeOK /\ SettledShowsStored /\ ShownHasRow
=============================================================================
