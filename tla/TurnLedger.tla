------------------------------ MODULE TurnLedger ------------------------------
(***************************************************************************)
(* The durable turn ledger of lib/conversation-turns.ts together with the  *)
(* conversation rows it writes (lib/conversations.ts) and the guarded      *)
(* mutations of lib/conversation-mutation-guards.ts.                       *)
(*                                                                         *)
(* Every handler is one synchronous run over SQLite, so every action below *)
(* is a whole handler: the sweep of expired turns it starts with, its      *)
(* checks, and its one BEGIN IMMEDIATE transaction.  What interleaves is   *)
(* the handlers: several windows holding older copies of a conversation,   *)
(* requests that are resent or arrive late, executions that end at any     *)
(* time, and a process that stops.                                         *)
(***************************************************************************)
EXTENDS Naturals, Sequences, FiniteSets

CONSTANTS
  Conversations,  \* conversation ids (random UUIDs, never reused)
  Turns,          \* turn ids, chosen by the client
  Requests,       \* normalized user messages and modes
  Contexts,       \* executable bindings: project, approved dataset, its digest
  Answers,        \* assistant texts
  Windows,        \* windows, or requests still travelling, that hold a copy
  Home,           \* turn id -> the conversation its request names, None: a new one
  None,           \* an absent value
  MaxImported     \* bound: messages of an imported transcript

ASSUME LedgerAssumption ==
  /\ None \notin Conversations \union Turns \union Requests \union Answers
  /\ IsFiniteSet(Turns)
  /\ Home \in [Turns -> Conversations \union {None}]
  /\ MaxImported \in Nat

VARIABLES
  conversations,  \* id -> conversation row
  turns,          \* id -> conversation_turns row
  executing,      \* claimed turns whose generation still runs in this process
  prompt,         \* turn -> canonical messages its claim handed to the model
  copies,         \* window -> the copy of a conversation it holds, or None
  seen            \* turn -> messages of the copy its accepted request was sent from

vars == <<conversations, turns, executing, prompt, copies, seen>>

-----------------------------------------------------------------------------
(* Rows                                                                      *)

Message == [turn: Turns \union {None}, text: Requests \union Answers \union {None}]

Imported == [turn |-> None, text |-> None]

ConversationRow ==
  [state: {"absent", "live", "deleted"}, context: Contexts \union {None}, messages: Seq(Message)]

Status == {"absent", "pending", "completed", "cancelled", "failed"}

TurnRow ==
  [conversation: Conversations \union {None}, sequence: Nat, status: Status,
   request: Requests \union {None}, context: Contexts \union {None}, contextCount: Nat,
   started: BOOLEAN, stale: BOOLEAN, answer: Answers \union {None}]

NoTurn ==
  [conversation |-> None, sequence |-> 0, status |-> "absent", request |-> None,
   context |-> None, contextCount |-> 0,
   started |-> FALSE, stale |-> FALSE, answer |-> None]

Snapshot == [conversation: Conversations, context: Contexts \union {None}, messages: Seq(Message)]

TypeOK ==
  /\ conversations \in [Conversations -> ConversationRow]
  /\ turns \in [Turns -> TurnRow]
  /\ executing \subseteq Turns
  /\ prompt \in [Turns -> Seq(Message)]
  /\ copies \in [Windows -> Snapshot \union {None}]
  /\ seen \in [Turns -> Seq(Message)]

Live(c) == conversations[c].state = "live"

TurnsOf(rows, c) == {t \in Turns : rows[t].conversation = c}

PendingIn(rows, c) == {t \in TurnsOf(rows, c) : rows[t].status = "pending"}

SequenceNumbers == 1..Cardinality(Turns)

(* COALESCE(MAX(sequence), 0) + 1 over the rows of a conversation.            *)
IsNextSequence(rows, c, n) ==
  /\ \A t \in TurnsOf(rows, c) : rows[t].sequence < n
  /\ n > 1 => \E t \in TurnsOf(rows, c) : rows[t].sequence = n - 1

-----------------------------------------------------------------------------
(* Expired turns: the SELECT of pending turns past the stale age, then one   *)
(* failing transaction each, run to its end at the head of a handler.        *)

(* A terminal row; its age is never read again.                               *)
Ended(row, status, answer) ==
  [row EXCEPT !.status = status, !.answer = answer, !.stale = FALSE]

Expired(rows) == {t \in Turns : rows[t].status = "pending" /\ rows[t].stale}

Swept(rows) ==
  [t \in Turns |-> IF t \in Expired(rows) THEN Ended(rows[t], "failed", None)
                   ELSE rows[t]]

(* getConversationTimeline, and every other handler that sweeps and then      *)
(* answers without writing.                                                   *)
SweepExpired ==
  /\ turns' = Swept(turns)
  /\ UNCHANGED <<conversations, executing, prompt, copies, seen>>

(* The process stops inside the sweep: only some of the selected turns have   *)
(* been failed.                                                               *)
CrashInSweep(done) ==
  /\ done \subseteq Expired(turns)
  /\ turns' = [t \in Turns |-> IF t \in done THEN Swept(turns)[t] ELSE turns[t]]
  /\ executing' = {}
  /\ UNCHANGED <<conversations, prompt, copies, seen>>

-----------------------------------------------------------------------------
(* Starting a turn                                                           *)

NewRow(c, n, request, context, count, aborted) ==
  [conversation |-> c, sequence |-> n,
   \* A request whose signal is already aborted is cancelled by the route
   \* before it answers.
   status |-> IF aborted THEN "cancelled" ELSE "pending",
   request |-> request, context |-> context, contextCount |-> count,
   started |-> FALSE, stale |-> FALSE, answer |-> None]

(* Mutant: the receipt's message count is not compared.                       *)
BindingIsCurrent(copy) ==
  LET row == conversations[copy.conversation]
  IN  row.state = "live" /\ copy.context = row.context

(* The window's copy must still be the conversation: its binding and its      *)
(* message count, the only receipt of content the request carries.            *)
CopyIsCurrent(copy) ==
  LET row == conversations[copy.conversation]
  IN  /\ row.state = "live"
      /\ copy.context = row.context
      /\ Len(copy.messages) = Len(row.messages)

(* A restored request names the failed or cancelled turn it repeats.          *)
Restorable(rows, source, copy) ==
  \/ source = None
  \/ /\ source # None
     /\ rows[source].conversation = copy.conversation
     /\ rows[source].status \in {"failed", "cancelled"}
     /\ rows[source].context = conversations[copy.conversation].context
     /\ rows[source].contextCount = Len(conversations[copy.conversation].messages)

(* Mutant: only a claimed turn counts as pending.                             *)
AcceptsBesideUnclaimed(rows, t, copy, source) ==
  /\ rows[t].status = "absent"
  /\ CopyIsCurrent(copy)
  /\ Restorable(rows, source, copy)
  /\ ~\E u \in PendingIn(rows, copy.conversation) : rows[u].started

Accepts(rows, t, copy, source) ==
  /\ rows[t].status = "absent"
  /\ CopyIsCurrent(copy)
  /\ Restorable(rows, source, copy)
  /\ PendingIn(rows, copy.conversation) = {}

(* beginConversationTurn for an existing conversation, sent from a copy some  *)
(* window loaded earlier.  A known id is a replay or a conflict; neither, nor *)
(* any refusal, writes more than the sweep.                                   *)
BeginTurn(t, w, request, source, aborted) ==
  LET swept == Swept(turns)
      copy == copies[w]
      c == copy.conversation
      row == conversations[c]
  IN  /\ copy # None
      /\ c = Home[t]
      /\ IF Accepts(swept, t, copy, source)
         THEN /\ \E n \in SequenceNumbers :
                   /\ IsNextSequence(swept, c, n)
                   /\ turns' = [swept EXCEPT ![t] =
                        NewRow(c, n, request, row.context, Len(row.messages), aborted)]
              /\ seen' = [seen EXCEPT ![t] = copy.messages]
         ELSE /\ turns' = swept
              /\ UNCHANGED seen
      /\ UNCHANGED <<conversations, executing, prompt, copies>>

(* beginConversationTurn without a conversation: the conversation row and the *)
(* first turn are inserted together.                                          *)
BeginInNewConversation(t, c, context, request, aborted) ==
  LET swept == Swept(turns)
  IN  /\ Home[t] = None
      /\ conversations[c].state = "absent"
      /\ swept[t].status = "absent"
      /\ conversations' = [conversations EXCEPT ![c] =
           [state |-> "live", context |-> context, messages |-> <<>>]]
      /\ turns' = [swept EXCEPT ![t] = NewRow(c, 1, request, context, 0, aborted)]
      /\ seen' = [seen EXCEPT ![t] = <<>>]
      /\ UNCHANGED <<executing, prompt, copies>>

-----------------------------------------------------------------------------
(* Executing a turn                                                          *)

Claimed(row) == [row EXCEPT !.started = TRUE, !.stale = FALSE]

(* claimConversationTurn: the first chat request of a pending turn owns its   *)
(* execution and receives the canonical history; its age starts anew.         *)
ClaimTurn(t) ==
  LET c == turns[t].conversation
  IN  /\ turns[t].status = "pending"
      /\ ~turns[t].started
      /\ Len(conversations[c].messages) = turns[t].contextCount
      /\ turns' = [turns EXCEPT ![t] = Claimed(@)]
      /\ executing' = executing \union {t}
      /\ prompt' = [prompt EXCEPT ![t] = conversations[c].messages]
      /\ UNCHANGED <<conversations, copies, seen>>

(* completeConversationTurn: the turn and the two messages it adds to the     *)
(* canonical history are one transaction.                                     *)
CompleteTurn(t, answer) ==
  LET c == turns[t].conversation
      history == conversations[c].messages
  IN  /\ t \in executing
      /\ turns[t].status = "pending"
      /\ Len(history) = turns[t].contextCount
      /\ turns' = [turns EXCEPT ![t] = Ended(@, "completed", answer)]
      /\ conversations' = [conversations EXCEPT ![c].messages =
           Append(Append(history, [turn |-> t, text |-> turns[t].request]),
                  [turn |-> t, text |-> answer])]
      /\ UNCHANGED <<executing, prompt, copies, seen>>

(* Mutant: a late Stop also cancels a completed turn.                         *)
CancelCompleted(t, partial) ==
  /\ partial # None => t \in executing
  /\ turns[t].status \in {"pending", "completed"}
  /\ turns' = [turns EXCEPT ![t] = Ended(@, "cancelled", partial)]
  /\ UNCHANGED <<conversations, executing, prompt, copies, seen>>

(* cancelConversationTurn: the first terminal state wins, except that a       *)
(* cancelled receipt without text accepts one later partial answer.           *)
CancelTurn(t, partial) ==
  /\ partial # None => t \in executing
  /\ \/ /\ turns[t].status = "pending"
        /\ turns' = [turns EXCEPT ![t] = Ended(@, "cancelled", partial)]
     \/ /\ turns[t].status = "cancelled"
        /\ partial # None
        /\ turns[t].answer = None
        /\ turns' = [turns EXCEPT ![t].answer = partial]
  /\ UNCHANGED <<conversations, executing, prompt, copies, seen>>

(* Mutant: a failure overwrites the receipt of a Stop.                        *)
FailCancelled(t, partial) ==
  /\ t \in executing
  /\ turns[t].status \in {"pending", "cancelled"}
  /\ turns' = [turns EXCEPT ![t] = Ended(@, "failed", partial)]
  /\ UNCHANGED <<conversations, executing, prompt, copies, seen>>

(* failConversationTurn                                                       *)
FailTurn(t, partial) ==
  /\ t \in executing
  /\ turns[t].status = "pending"
  /\ turns' = [turns EXCEPT ![t] = Ended(@, "failed", partial)]
  /\ UNCHANGED <<conversations, executing, prompt, copies, seen>>

(* The execution of a turn ends; whatever it had to record is recorded.       *)
ExecutionEnds(t) ==
  /\ t \in executing
  /\ executing' = executing \ {t}
  /\ UNCHANGED <<conversations, turns, prompt, copies, seen>>

-----------------------------------------------------------------------------
(* Conversations                                                             *)

ImportConversation(c, context, count) ==
  /\ conversations[c].state = "absent"
  /\ conversations' = [conversations EXCEPT ![c] =
       [state |-> "live", context |-> context, messages |-> [i \in 1..count |-> Imported]]]
  /\ UNCHANGED <<turns, executing, prompt, copies, seen>>

(* A window loads (or reloads) the conversation, which sweeps first.          *)
LoadConversation(w, c) ==
  /\ Live(c)
  /\ turns' = Swept(turns)
  /\ copies' = [copies EXCEPT ![w] =
       [conversation |-> c, context |-> conversations[c].context,
        messages |-> conversations[c].messages]]
  /\ UNCHANGED <<conversations, executing, prompt, seen>>

(* updateConversationBindingWhenIdle: PATCH of the project or the dataset.    *)
RebindWhenIdle(w, context) ==
  LET swept == Swept(turns)
      copy == copies[w]
      c == copy.conversation
  IN  /\ copy # None
      /\ turns' = swept
      /\ conversations' =
           IF CopyIsCurrent(copy) /\ PendingIn(swept, c) = {}
           THEN [conversations EXCEPT ![c].context = context]
           ELSE conversations
      /\ UNCHANGED <<executing, prompt, copies, seen>>

(* deleteProjectWhenIdle: unless a turn is pending in any of the project's    *)
(* conversations, all of them lose it at once.                                *)
DeleteProjectWhenIdle(context) ==
  LET swept == Swept(turns)
      bound == {c \in Conversations : Live(c) /\ conversations[c].context = context}
  IN  /\ turns' = swept
      /\ conversations' =
           IF \A c \in bound : PendingIn(swept, c) = {}
           THEN [c \in Conversations |->
                   IF c \in bound THEN [conversations[c] EXCEPT !.context = None]
                   ELSE conversations[c]]
           ELSE conversations
      /\ UNCHANGED <<executing, prompt, copies, seen>>

(* A dataset approval is revoked or replaced while the conversation rows      *)
(* stay: the executable binding changes under an idle or a pending turn.      *)
ContextDrifts(c, context) ==
  /\ Live(c)
  /\ conversations' = [conversations EXCEPT ![c].context = context]
  /\ UNCHANGED <<turns, executing, prompt, copies, seen>>

(* deleteConversationWhenIdle; the turn rows go with ON DELETE CASCADE.       *)
DeleteWhenIdle(c) ==
  LET swept == Swept(turns)
  IN  /\ Live(c)
      /\ IF PendingIn(swept, c) = {}
         THEN /\ conversations' = [conversations EXCEPT ![c] =
                                     [state |-> "deleted", context |-> @.context, messages |-> <<>>]]
              /\ turns' = [t \in Turns |-> IF swept[t].conversation = c
                                           THEN NoTurn ELSE swept[t]]
         ELSE /\ turns' = swept
              /\ UNCHANGED conversations
      /\ UNCHANGED <<executing, prompt, copies, seen>>

-----------------------------------------------------------------------------
(* Time and the process                                                      *)

(* A pending turn passes the stale age, counted from its claim, or from its   *)
(* creation while nobody has claimed it.                                      *)
TurnExpires(t) ==
  /\ turns[t].status = "pending"
  /\ ~turns[t].stale
  /\ turns' = [turns EXCEPT ![t].stale = TRUE]
  /\ UNCHANGED <<conversations, executing, prompt, copies, seen>>

(* The process stops and starts again: rows survive, executions do not.       *)
Restart ==
  /\ executing # {}
  /\ executing' = {}
  /\ UNCHANGED <<conversations, turns, prompt, copies, seen>>

-----------------------------------------------------------------------------
Init ==
  /\ conversations = [c \in Conversations |->
       [state |-> "absent", context |-> None, messages |-> <<>>]]
  /\ turns = [t \in Turns |-> NoTurn]
  /\ executing = {}
  /\ prompt = [t \in Turns |-> <<>>]
  /\ copies = [w \in Windows |-> None]
  /\ seen = [t \in Turns |-> <<>>]

Next ==
  \/ SweepExpired
  \/ \E done \in SUBSET Expired(turns) : CrashInSweep(done)
  \/ \E t \in Turns, w \in Windows, request \in Requests,
        source \in Turns \union {None}, aborted \in BOOLEAN :
       BeginTurn(t, w, request, source, aborted)
  \/ \E t \in Turns, c \in Conversations, context \in Contexts,
        request \in Requests, aborted \in BOOLEAN :
       BeginInNewConversation(t, c, context, request, aborted)
  \/ \E t \in Turns : ClaimTurn(t) \/ ExecutionEnds(t) \/ TurnExpires(t)
  \/ \E t \in Turns, answer \in Answers : CompleteTurn(t, answer)
  \/ \E t \in Turns, partial \in Answers \union {None} :
       CancelTurn(t, partial) \/ FailTurn(t, partial)
  \/ \E c \in Conversations, context \in Contexts, count \in 0..MaxImported :
       ImportConversation(c, context, count)
  \/ \E c \in Conversations, w \in Windows : LoadConversation(w, c)
  \/ \E c \in Conversations : DeleteWhenIdle(c)
  \/ \E w \in Windows, context \in Contexts : RebindWhenIdle(w, context)
  \/ \E context \in Contexts : DeleteProjectWhenIdle(context)
  \/ \E c \in Conversations, context \in Contexts : ContextDrifts(c, context)
  \/ Restart

Spec == Init /\ [][Next]_vars
-----------------------------------------------------------------------------
(* Properties                                                                *)

(* The turn a message names was completed, and here is its place.             *)
AskerIsRecorded(c, i) ==
  LET t == conversations[c].messages[i].turn
  IN  t # None =>
        /\ turns[t].conversation = c
        /\ turns[t].status = "completed"
        /\ i \in {turns[t].contextCount + 1, turns[t].contextCount + 2}

(* A completed turn has its request and its answer where it was asked.        *)
AnswerIsSaved(t) ==
  LET history == conversations[turns[t].conversation].messages
      n == turns[t].contextCount
  IN  turns[t].status = "completed" =>
        /\ n + 2 <= Len(history)
        /\ history[n + 1] = [turn |-> t, text |-> turns[t].request]
        /\ history[n + 2] = [turn |-> t, text |-> turns[t].answer]

(* The canonical history is the imported transcript followed by exactly the   *)
(* completed turns, each as one request and its one answer at the position    *)
(* its admission recorded (completeConversationTurn, terminalizeTurn).        *)
HistoryIsAnswers ==
  /\ \A c \in Conversations : \A i \in 1..Len(conversations[c].messages) : AskerIsRecorded(c, i)
  /\ \A t \in Turns : AnswerIsSaved(t)

AnswerFollowsSeen(t) ==
  LET history == conversations[turns[t].conversation].messages
      n == turns[t].contextCount
  IN  turns[t].status = "completed" =>
        /\ prompt[t] = seen[t]
        /\ Len(seen[t]) = n
        /\ n <= Len(history)
        /\ \A i \in 1..n : seen[t][i] = history[i]

(* A saved answer continues the very messages its window showed when the      *)
(* request was sent and its model was prompted with, though the receipts that *)
(* travel are only a binding and a message count (beginConversationTurn,      *)
(* claimConversationTurn, completeConversationTurn).                          *)
AnsweredFromSeen == \A t \in Turns : AnswerFollowsSeen(t)

(* A receipt, once terminal, stands: only a cancelled one without text takes  *)
(* one partial answer, and only deletion of its conversation removes it.      *)
ReceiptsStand ==
  [][\A t \in Turns :
       turns[t].status \in {"completed", "cancelled", "failed"} =>
         \/ turns'[t] = turns[t]
         \/ /\ turns[t].status = "cancelled" /\ turns[t].answer = None
            /\ turns'[t] = [turns[t] EXCEPT !.answer = turns'[t].answer]
         \/ conversations'[turns[t].conversation].state = "deleted"]_vars

(* The ledger implements the abstract promise about canonical history.        *)
Promise == INSTANCE ChatHistory WITH
  phase <- [c \in Conversations |->
              IF conversations[c].state = "deleted" THEN "closed"
              ELSE conversations[c].state],
  log <- [c \in Conversations |->
            [i \in DOMAIN conversations[c].messages |-> conversations[c].messages[i].turn]],
  open <- [c \in Conversations |->
             IF PendingIn(turns, c) = {} THEN None
             ELSE CHOOSE t \in PendingIn(turns, c) : TRUE],
  asked <- [c \in Conversations |-> TurnsOf(turns, c)]

ImplementsChatHistory == Promise!Spec

-----------------------------------------------------------------------------
(* The inductive invariant behind the two properties.                        *)

(* A row belongs to a live conversation, the one its request named.           *)
RowsHaveHomes ==
  \A t \in Turns :
    IF turns[t].status = "absent" THEN turns[t] = NoTurn
    ELSE /\ turns[t].conversation \in Conversations
         /\ Live(turns[t].conversation)
         /\ Home[t] # None => turns[t].conversation = Home[t]
         /\ Home[t] = None => turns[t].contextCount = 0

OnePending ==
  \A t, u \in Turns :
    /\ turns[t].status = "pending" /\ turns[u].status = "pending"
    /\ turns[t].conversation = turns[u].conversation
    => t = u

(* While a turn is pending its conversation does not move.                    *)
PendingIsCurrent ==
  \A t \in Turns :
    turns[t].status = "pending" =>
      LET history == conversations[turns[t].conversation].messages
      IN  /\ seen[t] = history
          /\ Len(history) = turns[t].contextCount
          /\ turns[t].started => prompt[t] = history

(* An execution that lingers after its conversation is deleted can meet its   *)
(* turn id again only if that id opens conversations, where history is empty. *)
ExecutionsKnowTheirTurn ==
  \A t \in executing :
    IF Home[t] = None THEN prompt[t] = <<>>
    ELSE /\ turns[t].status = "absent" => conversations[Home[t]].state = "deleted"
         /\ turns[t].status = "pending" => turns[t].started

(* A copy is an earlier stretch of its conversation as long as that lives.    *)
CopiesArePrefixes ==
  \A w \in Windows :
    copies[w] # None =>
      LET row == conversations[copies[w].conversation]
          copy == copies[w].messages
      IN  /\ row.state # "absent"
          /\ row.state = "live" =>
               /\ Len(copy) <= Len(row.messages)
               /\ \A i \in 1..Len(copy) : copy[i] = row.messages[i]

(* Messages outlive neither their conversation nor precede it.                *)
OnlyLiveHistory ==
  \A c \in Conversations : ~Live(c) => conversations[c].messages = <<>>

LedgerInv ==
  /\ TypeOK
  /\ RowsHaveHomes
  /\ OnePending
  /\ PendingIsCurrent
  /\ ExecutionsKnowTheirTurn
  /\ CopiesArePrefixes
  /\ OnlyLiveHistory
  /\ HistoryIsAnswers
  /\ AnsweredFromSeen
=============================================================================
