----------------------------- MODULE StoreProofs ------------------------------
(***************************************************************************)
(* Proofs about the two stores an installation keeps: the conversations of *)
(* a profile, and the profiles.                                            *)
(*                                                                         *)
(* TurnLedger, for every set of conversations, turns and windows:          *)
(* LedgerInv is inductive; TypeOK, HistoryIsAnswers and AnsweredFromSeen   *)
(* are among its conjuncts.  With it, no step changes a terminal receipt,  *)
(* and every step is one of ChatHistory or leaves that one's state alone.  *)
(*                                                                         *)
(* ProfileLifecycle, for any profiles and any bound on the generation,     *)
(* when every request carries the generation the registry has              *)
(* (Staleness = 0), as the page's requests do.  The inductive invariant    *)
(* has three parts.  The journal tells, with the generation, whether the   *)
(* registry took the change (JournalAgrees).  The trees of its profile are *)
(* evidence enough for Recovery at any moment (Evidence), while the trees  *)
(* of all others are in their place (OthersClean).  And each write a       *)
(* running call still has to do finds the trees as it needs them           *)
(* (CallFollows, Ready).                                                   *)
(***************************************************************************)
EXTENDS TurnLedger, ProfileLifecycle, FiniteSetTheorems, SequenceTheorems, TLAPS

(* What a step does when it neither adds to a history nor claims or admits a  *)
(* turn: rows keep their place, and at most leave "pending" for a state that  *)
(* is not "completed".                                                        *)
QuietRow(t) ==
  /\ turns'[t].conversation = turns[t].conversation
  /\ turns'[t].contextCount = turns[t].contextCount
  /\ turns'[t].request = turns[t].request
  /\ \/ turns'[t] = turns[t]
     \/ /\ turns[t].status \in {"pending", "cancelled", "failed"}
        /\ turns'[t].status \in {"pending", "cancelled", "failed"}
        /\ turns'[t].status = "pending" =>
             turns[t].status = "pending" /\ turns'[t].started = turns[t].started

QuietHistories ==
  \A c \in Conversations :
    /\ conversations'[c].state = conversations[c].state
    /\ conversations'[c].messages = conversations[c].messages

-----------------------------------------------------------------------------
(* The sweep keeps the type of the rows and is quiet about each of them.      *)
LEMMA SweptRows ==
  ASSUME TypeOK
  PROVE  /\ Swept(turns) \in [Turns -> TurnRow]
         /\ \A t \in Turns :
              /\ Swept(turns)[t].conversation = turns[t].conversation
              /\ Swept(turns)[t].contextCount = turns[t].contextCount
              /\ Swept(turns)[t].request = turns[t].request
              /\ \/ Swept(turns)[t] = turns[t]
                 \/ turns[t].status = "pending" /\ Swept(turns)[t].status = "failed"
<1>1. ASSUME NEW t \in Turns
      PROVE  /\ Swept(turns)[t] \in TurnRow
             /\ Swept(turns)[t].conversation = turns[t].conversation
             /\ Swept(turns)[t].contextCount = turns[t].contextCount
             /\ Swept(turns)[t].request = turns[t].request
             /\ \/ Swept(turns)[t] = turns[t]
                \/ turns[t].status = "pending" /\ Swept(turns)[t].status = "failed"
  <2>1. turns[t] \in TurnRow
    BY DEF TypeOK
  <2>2. CASE t \in Expired(turns)
    <3>1. Swept(turns)[t] = Ended(turns[t], "failed", None)
      BY <2>2 DEF Swept
    <3>2. turns[t].status = "pending"
      BY <2>2 DEF Expired
    <3>3. QED
      BY <2>1, <3>1, <3>2 DEF Ended, TurnRow, Status
  <2>3. CASE t \notin Expired(turns)
    BY <2>1, <2>3 DEF Swept
  <2>4. QED
    BY <2>2, <2>3
<1>2. Swept(turns) = [t \in Turns |-> Swept(turns)[t]]
  BY DEF Swept
<1>3. QED
  BY <1>1, <1>2

(* A message of a history is imported or some turn's.                         *)
LEMMA AskerOfMessage ==
  ASSUME TypeOK, NEW c \in Conversations, NEW i \in 1..Len(conversations[c].messages),
         conversations[c].messages[i].turn # None
  PROVE  conversations[c].messages[i].turn \in Turns
<1>1. conversations[c].messages \in Seq(Message) /\ i \in DOMAIN conversations[c].messages
  BY DEF TypeOK, ConversationRow
<1>2. conversations[c].messages[i] \in Message
  BY <1>1
<1>3. QED
  BY <1>2 DEF Message

(* A step keeps the two history properties if every history that still names  *)
(* a turn stands, and so does every row it names or that is completed.        *)
LEMMA HistoryStands ==
  ASSUME TypeOK, HistoryIsAnswers, AnsweredFromSeen,
         \A c \in Conversations : \A i \in 1..Len(conversations'[c].messages) :
           conversations'[c].messages[i].turn # None =>
             conversations'[c].messages = conversations[c].messages,
         \A t \in Turns :
           turns[t].status = "completed" =>
             \/ turns'[t] = turns[t]
             \/ conversations'[turns[t].conversation].messages = <<>>,
         \A t \in Turns :
           turns'[t].status = "completed" =>
             /\ turns'[t] = turns[t]
             /\ conversations'[turns[t].conversation].messages
                  = conversations[turns[t].conversation].messages
             /\ prompt'[t] = prompt[t]
             /\ seen'[t] = seen[t]
  PROVE  HistoryIsAnswers' /\ AnsweredFromSeen'
<1>1. ASSUME NEW c \in Conversations, NEW i \in 1..Len(conversations'[c].messages)
      PROVE  AskerIsRecorded(c, i)'
  <2> DEFINE t == conversations[c].messages[i].turn
  <2>1. SUFFICES ASSUME conversations'[c].messages[i].turn # None
                 PROVE  AskerIsRecorded(c, i)'
    BY DEF AskerIsRecorded
  <2>2. conversations'[c].messages = conversations[c].messages
    BY <2>1
  <2>3. i \in 1..Len(conversations[c].messages) /\ t # None
    BY <2>1, <2>2
  <2>4. AskerIsRecorded(c, i)
    BY <2>3 DEF HistoryIsAnswers
  <2>5. t \in Turns
    BY <2>3, AskerOfMessage
  <2>6. turns[t].status = "completed" /\ turns[t].conversation = c
    BY <2>3, <2>4 DEF AskerIsRecorded
  <2>7. conversations'[c].messages # <<>>
    BY <2>2, <2>3
  <2>8. turns'[t] = turns[t]
    BY <2>5, <2>6, <2>7
  <2>9. QED
    BY <2>2, <2>4, <2>8 DEF AskerIsRecorded
<1>2. ASSUME NEW t \in Turns PROVE AnswerIsSaved(t)'
  <2>1. AnswerIsSaved(t)
    BY DEF HistoryIsAnswers
  <2>2. QED
    BY <2>1 DEF AnswerIsSaved
<1>3. ASSUME NEW t \in Turns PROVE AnswerFollowsSeen(t)'
  <2>1. AnswerFollowsSeen(t)
    BY DEF AnsweredFromSeen
  <2>2. SUFFICES ASSUME turns'[t].status = "completed" PROVE AnswerFollowsSeen(t)'
    BY DEF AnswerFollowsSeen
  <2>3. /\ turns'[t] = turns[t]
        /\ conversations'[turns[t].conversation].messages
             = conversations[turns[t].conversation].messages
        /\ prompt'[t] = prompt[t]
        /\ seen'[t] = seen[t]
    BY <2>2
  <2>4. QED
    BY <2>1, <2>3, Zenon DEF AnswerFollowsSeen
<1>4. HistoryIsAnswers'
  BY <1>1, <1>2 DEF HistoryIsAnswers
<1>5. AnsweredFromSeen'
  BY <1>3 DEF AnsweredFromSeen
<1>6. QED
  BY <1>4, <1>5

(* Quiet steps keep the invariant, whatever copies they hand to windows, as   *)
(* long as these are prefixes of their conversations.                         *)
LEMMA QuietStep ==
  ASSUME LedgerInv, TypeOK',
         \A t \in Turns : QuietRow(t),
         QuietHistories,
         executing' \subseteq executing,
         prompt' = prompt, seen' = seen,
         copies' = copies \/ CopiesArePrefixes'
  PROVE  LedgerInv'
<1> USE DEF LedgerInv, QuietHistories
<1>1. RowsHaveHomes'
  <2>1. ASSUME NEW t \in Turns, turns'[t].status = "absent"
        PROVE  turns'[t] = NoTurn
    BY <2>1 DEF RowsHaveHomes, QuietRow
  <2>2. ASSUME NEW t \in Turns, turns'[t].status # "absent"
        PROVE  /\ turns'[t].conversation \in Conversations
               /\ conversations'[turns'[t].conversation].state = "live"
               /\ Home[t] # None => turns'[t].conversation = Home[t]
               /\ Home[t] = None => turns'[t].contextCount = 0
    <3>1. turns[t].status # "absent"
      BY <2>2 DEF QuietRow
    <3>2. /\ turns[t].conversation \in Conversations
          /\ Live(turns[t].conversation)
          /\ Home[t] # None => turns[t].conversation = Home[t]
          /\ Home[t] = None => turns[t].contextCount = 0
      BY <3>1 DEF RowsHaveHomes
    <3>3. QED
      BY <3>2 DEF QuietRow, Live
  <2>3. QED
    BY <2>1, <2>2 DEF RowsHaveHomes, Live
<1>2. OnePending'
  BY DEF OnePending, QuietRow
<1>3. PendingIsCurrent'
  BY DEF PendingIsCurrent, QuietRow, RowsHaveHomes
<1>4. ExecutionsKnowTheirTurn'
  <2>1. ASSUME NEW t \in executing', Home[t] # None
        PROVE  /\ turns'[t].status = "absent" => conversations'[Home[t]].state = "deleted"
               /\ turns'[t].status = "pending" => turns'[t].started
    <3>1. t \in Turns /\ t \in executing
      BY DEF TypeOK
    <3>2. Home[t] \in Conversations
      BY <2>1, <3>1, LedgerAssumption
    <3>3. /\ turns[t].status = "absent" => conversations[Home[t]].state = "deleted"
          /\ turns[t].status = "pending" => turns[t].started
      BY <2>1, <3>1 DEF ExecutionsKnowTheirTurn
    <3>4. QED
      BY <3>1, <3>2, <3>3 DEF QuietRow
  <2>2. QED
    BY <2>1 DEF ExecutionsKnowTheirTurn
<1>5. CopiesArePrefixes'
  <2>1. ASSUME NEW w \in Windows, copies[w] # None
        PROVE  copies[w].conversation \in Conversations
    BY <2>1 DEF TypeOK, Snapshot
  <2>2. CASE copies' = copies
    BY <2>1, <2>2 DEF CopiesArePrefixes
  <2>3. QED
    BY <2>2
<1>6. OnlyLiveHistory'
  BY DEF OnlyLiveHistory, Live
<1>7. HistoryIsAnswers' /\ AnsweredFromSeen'
  <2>1. ASSUME NEW t \in Turns, turns[t].status = "completed" \/ turns'[t].status = "completed"
        PROVE  turns'[t] = turns[t] /\ turns[t].conversation \in Conversations
    BY <2>1 DEF QuietRow, RowsHaveHomes
  <2>2. QED
    BY <2>1, HistoryStands
<1>8. QED
  BY <1>1, <1>2, <1>3, <1>4, <1>5, <1>6, <1>7
-----------------------------------------------------------------------------
(* Type correctness, one action at a time.                                    *)

LEMMA NewRowType ==
  ASSUME NEW c \in Conversations, NEW n \in SequenceNumbers, NEW request \in Requests,
         NEW context \in Contexts \union {None}, NEW count \in Nat, NEW aborted \in BOOLEAN
  PROVE  NewRow(c, n, request, context, count, aborted) \in TurnRow
<1>1. n \in Nat
  BY LedgerAssumption, FS_CardinalityType DEF SequenceNumbers
<1>2. QED
  BY <1>1 DEF NewRow, TurnRow, Status

LEMMA EndedType ==
  ASSUME NEW row \in TurnRow, NEW status \in Status, NEW answer \in Answers \union {None}
  PROVE  Ended(row, status, answer) \in TurnRow
BY DEF Ended, TurnRow

LEMMA BeginTurnType ==
  ASSUME TypeOK, NEW t \in Turns, NEW w \in Windows, NEW request \in Requests,
         NEW source \in Turns \union {None}, NEW aborted \in BOOLEAN,
         BeginTurn(t, w, request, source, aborted)
  PROVE  TypeOK'
<1> DEFINE copy == copies[w]
           c == copy.conversation
           row == conversations[c]
<1>1. copy \in Snapshot
  BY DEF BeginTurn, TypeOK
<1>2. c \in Conversations /\ copy.messages \in Seq(Message)
  BY <1>1 DEF Snapshot
<1>3. row.context \in Contexts \union {None} /\ Len(row.messages) \in Nat
  BY <1>2 DEF TypeOK, ConversationRow
<1>4. Swept(turns) \in [Turns -> TurnRow]
  BY SweptRows
<1>5. turns' \in [Turns -> TurnRow]
  <2>1. CASE Accepts(Swept(turns), t, copy, source)
    <3>1. PICK n \in SequenceNumbers : turns' = [Swept(turns) EXCEPT ![t] =
            NewRow(c, n, request, row.context, Len(row.messages), aborted)]
      BY <2>1 DEF BeginTurn
    <3>2. NewRow(c, n, request, row.context, Len(row.messages), aborted) \in TurnRow
      BY <1>2, <1>3, NewRowType
    <3>3. QED
      BY <1>4, <3>1, <3>2
  <2>2. CASE ~Accepts(Swept(turns), t, copy, source)
    BY <1>4, <2>2 DEF BeginTurn
  <2>3. QED
    BY <2>1, <2>2
<1>6. seen' \in [Turns -> Seq(Message)]
  BY <1>2 DEF BeginTurn, TypeOK
<1>7. QED
  BY <1>5, <1>6 DEF BeginTurn, TypeOK

LEMMA BeginInNewConversationType ==
  ASSUME TypeOK, NEW t \in Turns, NEW c \in Conversations, NEW context \in Contexts,
         NEW request \in Requests, NEW aborted \in BOOLEAN,
         BeginInNewConversation(t, c, context, request, aborted)
  PROVE  TypeOK'
<1>1. Swept(turns) \in [Turns -> TurnRow]
  BY SweptRows
<1>2. 1 \in SequenceNumbers
  <2>1. Cardinality(Turns) \in Nat /\ Cardinality(Turns) # 0
    BY LedgerAssumption, FS_CardinalityType, FS_EmptySet
  <2>2. QED
    BY <2>1 DEF SequenceNumbers
<1>3. NewRow(c, 1, request, context, 0, aborted) \in TurnRow
  BY <1>2, NewRowType
<1>4. turns' \in [Turns -> TurnRow]
  BY <1>1, <1>3 DEF BeginInNewConversation
<1>5. conversations' \in [Conversations -> ConversationRow]
  BY DEF BeginInNewConversation, TypeOK, ConversationRow
<1>6. QED
  BY <1>4, <1>5 DEF BeginInNewConversation, TypeOK

LEMMA CompleteTurnType ==
  ASSUME TypeOK, RowsHaveHomes, NEW t \in Turns, NEW answer \in Answers,
         CompleteTurn(t, answer)
  PROVE  TypeOK'
<1> DEFINE c == turns[t].conversation
           history == conversations[c].messages
<1>1. turns[t] \in TurnRow
  BY DEF TypeOK
<1>2. Ended(turns[t], "completed", answer) \in TurnRow
  BY <1>1, EndedType DEF Status
<1>3. turns' \in [Turns -> TurnRow]
  BY <1>2 DEF CompleteTurn, TypeOK
<1>4. c \in Conversations
  BY DEF RowsHaveHomes, CompleteTurn
<1>5. history \in Seq(Message)
  BY <1>4 DEF TypeOK, ConversationRow
<1>6. [turn |-> t, text |-> turns[t].request] \in Message /\ [turn |-> t, text |-> answer] \in Message
  BY <1>1 DEF Message, TurnRow
<1>7. Append(Append(history, [turn |-> t, text |-> turns[t].request]),
             [turn |-> t, text |-> answer]) \in Seq(Message)
  BY <1>5, <1>6
<1>8. conversations' \in [Conversations -> ConversationRow]
  BY <1>4, <1>7 DEF CompleteTurn, TypeOK, ConversationRow
<1>9. QED
  BY <1>3, <1>8 DEF CompleteTurn, TypeOK

LEMMA ImportConversationType ==
  ASSUME TypeOK, NEW c \in Conversations, NEW context \in Contexts, NEW count \in 0..MaxImported,
         ImportConversation(c, context, count)
  PROVE  TypeOK'
<1>1. count \in Nat
  BY LedgerAssumption
<1>2. [i \in 1..count |-> Imported] \in Seq(Message)
  BY <1>1 DEF Imported, Message
<1>3. conversations' \in [Conversations -> ConversationRow]
  BY <1>2 DEF ImportConversation, TypeOK, ConversationRow
<1>4. QED
  BY <1>3 DEF ImportConversation, TypeOK

LEMMA DeleteWhenIdleType ==
  ASSUME TypeOK, NEW c \in Conversations, DeleteWhenIdle(c)
  PROVE  TypeOK'
<1>1. Swept(turns) \in [Turns -> TurnRow]
  BY SweptRows
<1>2. NoTurn \in TurnRow
  BY DEF NoTurn, TurnRow, Status
<1>3. turns' \in [Turns -> TurnRow]
  BY <1>1, <1>2 DEF DeleteWhenIdle
<1>4. conversations' \in [Conversations -> ConversationRow]
  <2>1. [state |-> "deleted", context |-> conversations[c].context, messages |-> <<>>]
          \in ConversationRow
    BY DEF TypeOK, ConversationRow
  <2>2. CASE PendingIn(Swept(turns), c) = {}
    BY <2>1, <2>2 DEF DeleteWhenIdle, TypeOK
  <2>3. CASE PendingIn(Swept(turns), c) # {}
    BY <2>3 DEF DeleteWhenIdle, TypeOK
  <2>4. QED
    BY <2>2, <2>3
<1>5. QED
  BY <1>3, <1>4 DEF DeleteWhenIdle, TypeOK
-----------------------------------------------------------------------------
(* The quiet actions.                                                         *)

(* A step that sweeps and otherwise leaves rows and histories alone: the      *)
(* sweep itself, a loaded copy, a refused begin, rebind or delete.            *)
LEMMA SweepingStep ==
  ASSUME LedgerInv, turns' = Swept(turns),
         conversations' \in [Conversations -> ConversationRow], QuietHistories,
         copies' \in [Windows -> Snapshot \union {None}],
         executing' = executing, prompt' = prompt, seen' = seen,
         copies' = copies \/ CopiesArePrefixes'
  PROVE  LedgerInv'
<1>1. TypeOK'
  BY SweptRows DEF LedgerInv, TypeOK
<1>2. ASSUME NEW t \in Turns PROVE QuietRow(t)
  BY SweptRows DEF LedgerInv, QuietRow
<1>3. QED
  BY <1>1, <1>2, QuietStep

(* A step that rewrites one row, quietly.                                     *)
LEMMA RowStep ==
  ASSUME LedgerInv, NEW t \in Turns, NEW row \in TurnRow,
         turns' = [turns EXCEPT ![t] = row],
         row.conversation = turns[t].conversation,
         row.contextCount = turns[t].contextCount,
         row.request = turns[t].request,
         turns[t].status \in {"pending", "cancelled", "failed"},
         row.status \in {"pending", "cancelled", "failed"},
         row.status = "pending" =>
           turns[t].status = "pending" /\ row.started = turns[t].started,
         UNCHANGED <<conversations, executing, prompt, copies, seen>>
  PROVE  LedgerInv'
<1>1. TypeOK'
  BY DEF LedgerInv, TypeOK
<1>2. ASSUME NEW u \in Turns PROVE QuietRow(u)
  BY DEF QuietRow, LedgerInv, TypeOK
<1>3. QuietHistories
  BY DEF QuietHistories
<1>4. QED
  BY <1>1, <1>2, <1>3, QuietStep

LEMMA SweepExpiredKeeps ==
  ASSUME LedgerInv, SweepExpired
  PROVE  LedgerInv'
BY SweepingStep DEF SweepExpired, QuietHistories, LedgerInv, TypeOK

LEMMA CrashInSweepKeeps ==
  ASSUME LedgerInv, NEW done \in SUBSET Expired(turns), CrashInSweep(done)
  PROVE  LedgerInv'
<1>1. ASSUME NEW t \in Turns PROVE turns'[t] \in {turns[t], Swept(turns)[t]}
  BY DEF CrashInSweep
<1>2. turns' \in [Turns -> TurnRow]
  <2>1. turns' = [t \in Turns |-> turns'[t]]
    BY DEF CrashInSweep
  <2>2. ASSUME NEW t \in Turns PROVE turns'[t] \in TurnRow
    BY <1>1, SweptRows DEF LedgerInv, TypeOK
  <2>3. QED
    BY <2>1, <2>2
<1>3. TypeOK'
  BY <1>2 DEF CrashInSweep, LedgerInv, TypeOK
<1>4. ASSUME NEW t \in Turns PROVE QuietRow(t)
  BY <1>1, SweptRows DEF LedgerInv, QuietRow
<1>5. QuietHistories
  BY DEF CrashInSweep, QuietHistories
<1>6. QED
  BY <1>3, <1>4, <1>5, QuietStep DEF CrashInSweep

LEMMA CancelTurnKeeps ==
  ASSUME LedgerInv, NEW t \in Turns, NEW partial \in Answers \union {None},
         CancelTurn(t, partial)
  PROVE  LedgerInv'
<1>1. turns[t] \in TurnRow
  BY DEF LedgerInv, TypeOK
<1>2. CASE turns[t].status = "pending"
  <2>1. turns' = [turns EXCEPT ![t] = Ended(turns[t], "cancelled", partial)]
    BY <1>2 DEF CancelTurn
  <2>2. Ended(turns[t], "cancelled", partial) \in TurnRow
    BY <1>1, EndedType DEF Status
  <2>3. QED
    BY <1>1, <1>2, <2>1, <2>2, RowStep DEF CancelTurn, Ended, TurnRow
<1>3. CASE turns[t].status = "cancelled"
  <2> DEFINE row == [turns[t] EXCEPT !.answer = partial]
  <2>1. turns' = [turns EXCEPT ![t] = row]
    BY <1>3 DEF CancelTurn
  <2>2. row \in TurnRow /\ row.status = "cancelled"
    BY <1>1, <1>3 DEF TurnRow
  <2>3. QED
    BY <1>1, <1>3, <2>1, <2>2, RowStep DEF CancelTurn, TurnRow
<1>4. QED
  BY <1>2, <1>3 DEF CancelTurn

LEMMA FailTurnKeeps ==
  ASSUME LedgerInv, NEW t \in Turns, NEW partial \in Answers \union {None},
         FailTurn(t, partial)
  PROVE  LedgerInv'
<1>1. turns[t] \in TurnRow
  BY DEF LedgerInv, TypeOK
<1>2. Ended(turns[t], "failed", partial) \in TurnRow
  BY <1>1, EndedType DEF Status
<1>3. QED
  BY <1>1, <1>2, RowStep DEF FailTurn, Ended, TurnRow

LEMMA TurnExpiresKeeps ==
  ASSUME LedgerInv, NEW t \in Turns, TurnExpires(t)
  PROVE  LedgerInv'
<1> DEFINE row == [turns[t] EXCEPT !.stale = TRUE]
<1>1. turns[t] \in TurnRow
  BY DEF LedgerInv, TypeOK
<1>2. turns' = [turns EXCEPT ![t] = row]
  BY DEF TurnExpires
<1>3. row \in TurnRow
  BY <1>1 DEF TurnRow
<1>4. QED
  BY <1>1, <1>2, <1>3, RowStep DEF TurnExpires, TurnRow

(* Executions only end; nothing else moves.                                   *)
LEMMA ExecutionsEndKeeps ==
  ASSUME LedgerInv, executing' \subseteq executing,
         UNCHANGED <<conversations, turns, prompt, copies, seen>>
  PROVE  LedgerInv'
<1>1. TypeOK'
  BY DEF LedgerInv, TypeOK
<1>2. QED
  BY <1>1, QuietStep DEF QuietRow, QuietHistories

LEMMA LoadConversationKeeps ==
  ASSUME LedgerInv, NEW w \in Windows, NEW c \in Conversations, LoadConversation(w, c)
  PROVE  LedgerInv'
<1> DEFINE copy == [conversation |-> c, context |-> conversations[c].context,
                    messages |-> conversations[c].messages]
<1>1. copy \in Snapshot
  BY DEF LedgerInv, TypeOK, ConversationRow, Snapshot
<1>2. copies' = [copies EXCEPT ![w] = copy]
  BY DEF LoadConversation
<1>3. copies' \in [Windows -> Snapshot \union {None}]
  BY <1>1, <1>2 DEF LedgerInv, TypeOK
<1>4. CopiesArePrefixes'
  <2>1. ASSUME NEW v \in Windows, copies'[v] # None
        PROVE  LET row == conversations[copies'[v].conversation]
                   shown == copies'[v].messages
               IN  /\ row.state # "absent"
                   /\ row.state = "live" =>
                        /\ Len(shown) <= Len(row.messages)
                        /\ \A i \in 1..Len(shown) : shown[i] = row.messages[i]
    <3>1. CASE v = w
      <4>1. copies'[v] = copy
        BY <1>2, <3>1 DEF LedgerInv, TypeOK
      <4>2. Len(conversations[c].messages) \in Nat
        BY DEF LedgerInv, TypeOK, ConversationRow
      <4>3. QED
        BY <4>1, <4>2 DEF LoadConversation, Live
    <3>2. CASE v # w
      <4>1. copies'[v] = copies[v]
        BY <1>2, <3>2 DEF LedgerInv, TypeOK
      <4>2. QED
        BY <2>1, <4>1 DEF LedgerInv, CopiesArePrefixes
    <3>3. QED
      BY <3>1, <3>2
  <2>2. conversations' = conversations
    BY DEF LoadConversation
  <2>3. QED
    BY <2>1, <2>2, Zenon DEF CopiesArePrefixes
<1>5. QED
  BY <1>3, <1>4, SweepingStep DEF LoadConversation, QuietHistories, LedgerInv, TypeOK

(* A new binding moves no history.                                            *)
LEMMA NewContext ==
  ASSUME TypeOK, NEW c \in Conversations, NEW context \in Contexts,
         conversations' = [conversations EXCEPT ![c].context = context]
  PROVE  conversations' \in [Conversations -> ConversationRow] /\ QuietHistories
<1> DEFINE row == [conversations[c] EXCEPT !.context = context]
<1>1. conversations[c] \in ConversationRow
  BY DEF TypeOK
<1>2. /\ row \in ConversationRow
      /\ row.state = conversations[c].state
      /\ row.messages = conversations[c].messages
  BY <1>1 DEF ConversationRow
<1>3. conversations' = [conversations EXCEPT ![c] = row]
  OBVIOUS
<1>4. conversations' \in [Conversations -> ConversationRow]
  BY <1>2, <1>3 DEF TypeOK
<1>5. QuietHistories
  BY <1>2, <1>3 DEF TypeOK, QuietHistories
<1>6. QED
  BY <1>4, <1>5

LEMMA RebindWhenIdleKeeps ==
  ASSUME LedgerInv, NEW w \in Windows, NEW context \in Contexts, RebindWhenIdle(w, context)
  PROVE  LedgerInv'
<1> DEFINE c == copies[w].conversation
<1>1. c \in Conversations
  BY DEF RebindWhenIdle, LedgerInv, TypeOK, Snapshot
<1>2. \/ conversations' = conversations
      \/ conversations' = [conversations EXCEPT ![c].context = context]
  BY DEF RebindWhenIdle
<1>3. conversations' \in [Conversations -> ConversationRow] /\ QuietHistories
  BY <1>1, <1>2, NewContext DEF LedgerInv, TypeOK, QuietHistories
<1>4. QED
  BY <1>3, SweepingStep DEF RebindWhenIdle, LedgerInv, TypeOK

LEMMA DeleteProjectWhenIdleKeeps ==
  ASSUME LedgerInv, NEW context \in Contexts, DeleteProjectWhenIdle(context)
  PROVE  LedgerInv'
<1>1. ASSUME NEW c \in Conversations
      PROVE  /\ [conversations[c] EXCEPT !.context = None] \in ConversationRow
             /\ [conversations[c] EXCEPT !.context = None].state = conversations[c].state
             /\ [conversations[c] EXCEPT !.context = None].messages = conversations[c].messages
  <2>1. conversations[c] \in ConversationRow
    BY DEF LedgerInv, TypeOK
  <2>2. QED
    BY <2>1 DEF ConversationRow
<1>2. ASSUME NEW c \in Conversations
      PROVE  /\ conversations'[c] \in ConversationRow
             /\ conversations'[c].state = conversations[c].state
             /\ conversations'[c].messages = conversations[c].messages
  BY <1>1 DEF DeleteProjectWhenIdle, LedgerInv, TypeOK
<1>3. conversations' = [c \in Conversations |-> conversations'[c]]
  BY DEF DeleteProjectWhenIdle, LedgerInv, TypeOK
<1>4. conversations' \in [Conversations -> ConversationRow] /\ QuietHistories
  BY <1>2, <1>3 DEF QuietHistories
<1>5. QED
  BY <1>4, SweepingStep DEF DeleteProjectWhenIdle, LedgerInv, TypeOK

LEMMA ContextDriftsKeeps ==
  ASSUME LedgerInv, NEW c \in Conversations, NEW context \in Contexts, ContextDrifts(c, context)
  PROVE  LedgerInv'
<1>1. conversations' \in [Conversations -> ConversationRow] /\ QuietHistories
  BY NewContext DEF ContextDrifts, LedgerInv
<1>2. TypeOK'
  BY <1>1 DEF ContextDrifts, LedgerInv, TypeOK
<1>3. QED
  BY <1>1, <1>2, QuietStep DEF ContextDrifts, QuietRow
-----------------------------------------------------------------------------
(* Admitting a turn, into a live conversation or together with a new one.     *)

LEMMA AdmitStep ==
  ASSUME LedgerInv, TypeOK',
         NEW t \in Turns, NEW c \in Conversations,
         turns[t].status = "absent",
         turns'[t].status \in {"pending", "cancelled"},
         turns'[t].conversation = c,
         turns'[t].contextCount = Len(conversations[c].messages),
         ~turns'[t].started,
         Home[t] # None => c = Home[t],
         Home[t] = None => turns'[t].contextCount = 0,
         t \in executing => Home[t] = None,
         \A u \in Turns \ {t} : QuietRow(u),
         \A u \in Turns \ {t} : turns'[u].conversation = c => turns'[u].status # "pending",
         conversations[c].state \in {"absent", "live"},
         conversations'[c].state = "live",
         \A d \in Conversations : conversations'[d].messages = conversations[d].messages,
         \A d \in Conversations \ {c} : conversations'[d].state = conversations[d].state,
         seen' = [seen EXCEPT ![t] = conversations[c].messages],
         UNCHANGED <<executing, prompt, copies>>
  PROVE  LedgerInv'
<1> USE DEF LedgerInv
<1>0. /\ seen'[t] = conversations[c].messages
      /\ \A u \in Turns \ {t} : seen'[u] = seen[u]
  BY DEF TypeOK
<1>1. RowsHaveHomes'
  <2>1. ASSUME NEW u \in Turns, turns'[u].status = "absent"
        PROVE  turns'[u] = NoTurn
    BY <2>1 DEF RowsHaveHomes, QuietRow
  <2>2. ASSUME NEW u \in Turns, turns'[u].status # "absent"
        PROVE  /\ turns'[u].conversation \in Conversations
               /\ conversations'[turns'[u].conversation].state = "live"
               /\ Home[u] # None => turns'[u].conversation = Home[u]
               /\ Home[u] = None => turns'[u].contextCount = 0
    <3>1. CASE u = t
      BY <3>1
    <3>2. CASE u # t
      <4>1. turns[u].status # "absent"
        BY <2>2, <3>2 DEF QuietRow
      <4>2. /\ turns[u].conversation \in Conversations
            /\ Live(turns[u].conversation)
            /\ Home[u] # None => turns[u].conversation = Home[u]
            /\ Home[u] = None => turns[u].contextCount = 0
        BY <4>1 DEF RowsHaveHomes
      <4>3. QED
        BY <3>2, <4>2 DEF QuietRow, Live
    <3>3. QED
      BY <3>1, <3>2
  <2>3. QED
    BY <2>1, <2>2 DEF RowsHaveHomes, Live
<1>2. OnePending'
  BY DEF OnePending, QuietRow
<1>3. PendingIsCurrent'
  <2>1. ASSUME NEW u \in Turns, turns'[u].status = "pending"
        PROVE  LET history == conversations'[turns'[u].conversation].messages
               IN  /\ seen'[u] = history
                   /\ Len(history) = turns'[u].contextCount
                   /\ turns'[u].started => prompt[u] = history
    <3>1. CASE u = t
      BY <1>0, <3>1
    <3>2. CASE u # t
      <4>1. /\ turns[u].status = "pending" /\ turns'[u].started = turns[u].started
            /\ turns'[u].conversation = turns[u].conversation
            /\ turns'[u].contextCount = turns[u].contextCount
        BY <2>1, <3>2 DEF QuietRow
      <4>2. turns[u].conversation \in Conversations
        BY <4>1 DEF RowsHaveHomes
      <4>3. QED
        BY <1>0, <3>2, <4>1, <4>2 DEF PendingIsCurrent
    <3>3. QED
      BY <3>1, <3>2
  <2>2. QED
    BY <2>1, Zenon DEF PendingIsCurrent
<1>4. ExecutionsKnowTheirTurn'
  <2>1. ASSUME NEW u \in executing, Home[u] # None
        PROVE  /\ turns'[u].status = "absent" => conversations'[Home[u]].state = "deleted"
               /\ turns'[u].status = "pending" => turns'[u].started
    <3>1. u \in Turns \ {t} /\ Home[u] \in Conversations
      BY <2>1, LedgerAssumption DEF TypeOK
    <3>2. /\ turns[u].status = "absent" => conversations[Home[u]].state = "deleted"
          /\ turns[u].status = "pending" => turns[u].started
      BY <2>1 DEF ExecutionsKnowTheirTurn
    <3>3. QED
      BY <3>1, <3>2 DEF QuietRow
  <2>2. QED
    BY <2>1 DEF ExecutionsKnowTheirTurn
<1>5. CopiesArePrefixes'
  <2>1. ASSUME NEW w \in Windows, copies[w] # None
        PROVE  /\ copies[w].conversation \in Conversations
               /\ conversations[copies[w].conversation].state # "absent"
    BY <2>1 DEF TypeOK, Snapshot, CopiesArePrefixes
  <2>2. ASSUME NEW w \in Windows, copies[w] # None
        PROVE  /\ conversations'[copies[w].conversation].state
                    = conversations[copies[w].conversation].state
               /\ conversations'[copies[w].conversation].messages
                    = conversations[copies[w].conversation].messages
    BY <2>1, <2>2
  <2>3. QED
    BY <2>2 DEF CopiesArePrefixes
<1>6. OnlyLiveHistory'
  BY DEF OnlyLiveHistory, Live
<1>7. HistoryIsAnswers' /\ AnsweredFromSeen'
  <2>1. ASSUME NEW u \in Turns, turns[u].status = "completed" \/ turns'[u].status = "completed"
        PROVE  /\ turns'[u] = turns[u] /\ turns[u].conversation \in Conversations
               /\ seen'[u] = seen[u]
    <3>1. u # t
      BY <2>1
    <3>2. QED
      BY <1>0, <2>1, <3>1 DEF QuietRow, RowsHaveHomes
  <2>2. QED
    BY <2>1, HistoryStands
<1>8. QED
  BY <1>1, <1>2, <1>3, <1>4, <1>5, <1>6, <1>7

LEMMA BeginInNewConversationKeeps ==
  ASSUME LedgerInv, NEW t \in Turns, NEW c \in Conversations, NEW context \in Contexts,
         NEW request \in Requests, NEW aborted \in BOOLEAN,
         BeginInNewConversation(t, c, context, request, aborted)
  PROVE  LedgerInv'
<1>1. TypeOK'
  BY BeginInNewConversationType DEF LedgerInv
<1>2. Swept(turns) \in [Turns -> TurnRow]
  BY SweptRows DEF LedgerInv
<1>3. /\ turns'[t] = NewRow(c, 1, request, context, 0, aborted)
      /\ \A u \in Turns \ {t} : turns'[u] = Swept(turns)[u]
  BY <1>2 DEF BeginInNewConversation
<1>4. turns[t].status = "absent"
  BY SweptRows DEF BeginInNewConversation, LedgerInv
<1>5. ASSUME NEW u \in Turns \ {t} PROVE QuietRow(u)
  BY <1>3, SweptRows DEF LedgerInv, QuietRow
<1>6. conversations[c].messages = <<>> /\ conversations[c].state = "absent"
  BY DEF BeginInNewConversation, LedgerInv, OnlyLiveHistory, Live
<1>7. ASSUME NEW u \in Turns \ {t}, turns'[u].conversation = c
      PROVE  turns'[u].status # "pending"
  <2>1. turns[u].conversation = c
    BY <1>5, <1>7 DEF QuietRow
  <2>2. turns[u].status = "absent"
    BY <1>6, <2>1 DEF LedgerInv, RowsHaveHomes, Live
  <2>3. QED
    BY <1>5, <2>2 DEF QuietRow
<1>8. /\ conversations'[c].state = "live" /\ conversations'[c].messages = <<>>
      /\ \A d \in Conversations \ {c} : conversations'[d] = conversations[d]
  BY DEF BeginInNewConversation, LedgerInv, TypeOK
<1>9. seen' = [seen EXCEPT ![t] = conversations[c].messages]
  BY <1>6 DEF BeginInNewConversation
<1>10. /\ turns'[t].status \in {"pending", "cancelled"}
       /\ turns'[t].conversation = c
       /\ turns'[t].contextCount = Len(conversations[c].messages)
       /\ turns'[t].contextCount = 0
       /\ ~turns'[t].started
  BY <1>3, <1>6 DEF NewRow
<1>11. Home[t] = None /\ UNCHANGED <<executing, prompt, copies>>
  BY DEF BeginInNewConversation
<1>12. \A d \in Conversations : conversations'[d].messages = conversations[d].messages
  BY <1>6, <1>8
<1>13. \A d \in Conversations \ {c} : conversations'[d].state = conversations[d].state
  BY <1>8
<1>14. Home[t] # None => c = Home[t]
  BY <1>11
<1>15. QED
  BY <1>1, <1>4, <1>5, <1>6, <1>7, <1>8, <1>9, <1>10, <1>11, <1>12, <1>13, <1>14,
     AdmitStep, Zenon

LEMMA BeginTurnKeeps ==
  ASSUME LedgerInv, NEW t \in Turns, NEW w \in Windows, NEW request \in Requests,
         NEW source \in Turns \union {None}, NEW aborted \in BOOLEAN,
         BeginTurn(t, w, request, source, aborted)
  PROVE  LedgerInv'
<1> DEFINE copy == copies[w]
           c == copy.conversation
           row == conversations[c]
<1>1. copy \in Snapshot /\ c \in Conversations
  BY DEF BeginTurn, LedgerInv, TypeOK, Snapshot
<1>2. CASE ~Accepts(Swept(turns), t, copy, source)
  <2>1. turns' = Swept(turns) /\ seen' = seen
        /\ UNCHANGED <<conversations, executing, prompt, copies>>
    BY <1>2 DEF BeginTurn
  <2>2. QED
    BY <2>1, SweepingStep DEF QuietHistories, LedgerInv, TypeOK
<1>3. CASE Accepts(Swept(turns), t, copy, source)
  <2>1. PICK n \in SequenceNumbers : turns' = [Swept(turns) EXCEPT ![t] =
          NewRow(c, n, request, row.context, Len(row.messages), aborted)]
    BY <1>3 DEF BeginTurn
  <2>2. seen' = [seen EXCEPT ![t] = copy.messages]
    BY <1>3 DEF BeginTurn
  <2>3. UNCHANGED <<conversations, executing, prompt, copies>> /\ c = Home[t]
    BY DEF BeginTurn
  <2>4. /\ Swept(turns)[t].status = "absent"
        /\ row.state = "live" /\ Len(copy.messages) = Len(row.messages)
        /\ PendingIn(Swept(turns), c) = {}
    BY <1>3 DEF Accepts, CopyIsCurrent
  <2>5. Swept(turns) \in [Turns -> TurnRow]
    BY SweptRows DEF LedgerInv
  <2>6. /\ turns'[t] = NewRow(c, n, request, row.context, Len(row.messages), aborted)
        /\ \A u \in Turns \ {t} : turns'[u] = Swept(turns)[u]
    BY <2>1, <2>5
  <2>7. turns[t].status = "absent"
    BY <2>4, SweptRows DEF LedgerInv
  <2>8. copy.messages = row.messages
    <3>1. copy.messages \in Seq(Message) /\ row.messages \in Seq(Message)
      BY <1>1 DEF LedgerInv, TypeOK, Snapshot, ConversationRow
    <3>2. \A i \in 1..Len(copy.messages) : copy.messages[i] = row.messages[i]
      BY <1>1, <2>4 DEF LedgerInv, CopiesArePrefixes, BeginTurn
    <3>3. QED
      BY <2>4, <3>1, <3>2, SeqEqual
  <2>9. /\ turns'[t].status \in {"pending", "cancelled"}
        /\ turns'[t].conversation = c
        /\ turns'[t].contextCount = Len(conversations[c].messages)
        /\ ~turns'[t].started
    BY <2>6 DEF NewRow
  <2>10. t \in executing => Home[t] = None
    BY <1>1, <2>3, <2>4, <2>7 DEF LedgerInv, ExecutionsKnowTheirTurn
  <2>11. ASSUME NEW u \in Turns \ {t} PROVE QuietRow(u)
    BY <2>6, SweptRows DEF LedgerInv, QuietRow
  <2>12. ASSUME NEW u \in Turns \ {t}, turns'[u].conversation = c
         PROVE  turns'[u].status # "pending"
    BY <2>4, <2>6, <2>12 DEF PendingIn, TurnsOf
  <2>13. TypeOK'
    BY BeginTurnType DEF LedgerInv
  <2>14. Home[t] # None
    BY <1>1, <2>3, LedgerAssumption
  <2>15. seen' = [seen EXCEPT ![t] = conversations[c].messages]
    BY <2>2, <2>8
  <2>16. QED
    BY <1>1, <2>3, <2>4, <2>7, <2>9, <2>10, <2>11, <2>12, <2>13, <2>14, <2>15, AdmitStep
<1>4. QED
  BY <1>2, <1>3
-----------------------------------------------------------------------------
(* Claiming a turn.                                                           *)

LEMMA ClaimTurnKeeps ==
  ASSUME LedgerInv, NEW t \in Turns, ClaimTurn(t)
  PROVE  LedgerInv'
<1> DEFINE c == turns[t].conversation
           history == conversations[c].messages
<1> USE DEF LedgerInv
<1>1. turns[t] \in TurnRow /\ turns[t].status = "pending"
  BY DEF ClaimTurn, TypeOK
<1>2. c \in Conversations /\ history \in Seq(Message)
  BY <1>1 DEF RowsHaveHomes, TypeOK, ConversationRow
<1>3. /\ Claimed(turns[t]) \in TurnRow
      /\ Claimed(turns[t]) # NoTurn
      /\ Claimed(turns[t]).status = "pending" /\ Claimed(turns[t]).started
      /\ Claimed(turns[t]).conversation = c
      /\ Claimed(turns[t]).contextCount = turns[t].contextCount
  BY <1>1 DEF Claimed, TurnRow, NoTurn
<1>4. /\ turns'[t] = Claimed(turns[t])
      /\ prompt'[t] = history
      /\ \A u \in Turns \ {t} : turns'[u] = turns[u] /\ prompt'[u] = prompt[u]
      /\ executing' = executing \union {t}
      /\ UNCHANGED <<conversations, copies, seen>>
  BY DEF ClaimTurn, TypeOK
<1>5. TypeOK'
  BY <1>2, <1>3 DEF ClaimTurn, TypeOK
<1>6. RowsHaveHomes'
  <2>1. ASSUME NEW u \in Turns
        PROVE  IF turns'[u].status = "absent" THEN turns'[u] = NoTurn
               ELSE /\ turns'[u].conversation \in Conversations
                    /\ conversations[turns'[u].conversation].state = "live"
                    /\ Home[u] # None => turns'[u].conversation = Home[u]
                    /\ Home[u] = None => turns'[u].contextCount = 0
    BY <1>1, <1>3, <1>4 DEF RowsHaveHomes, Live
  <2>2. QED
    BY <1>4, <2>1 DEF RowsHaveHomes, Live
<1>7. OnePending'
  BY <1>1, <1>3, <1>4 DEF OnePending
<1>8. PendingIsCurrent'
  BY <1>1, <1>3, <1>4 DEF PendingIsCurrent
<1>9. ExecutionsKnowTheirTurn'
  <2>1. Home[t] = None => prompt'[t] = <<>>
    <3>1. Home[t] = None => Len(history) = 0
      BY <1>1 DEF RowsHaveHomes, PendingIsCurrent
    <3>2. QED
      BY <1>2, <1>4, <3>1
  <2>2. ASSUME NEW u \in executing, u # t
        PROVE  IF Home[u] = None THEN prompt'[u] = <<>>
               ELSE /\ turns'[u].status = "absent" => conversations[Home[u]].state = "deleted"
                    /\ turns'[u].status = "pending" => turns'[u].started
    BY <1>4, <2>2 DEF ExecutionsKnowTheirTurn, TypeOK
  <2>3. QED
    BY <1>3, <1>4, <2>1, <2>2 DEF ExecutionsKnowTheirTurn
<1>10. CopiesArePrefixes' /\ OnlyLiveHistory'
  BY <1>4 DEF CopiesArePrefixes, OnlyLiveHistory, Live
<1>11. HistoryIsAnswers' /\ AnsweredFromSeen'
  <2>1. ASSUME NEW u \in Turns, turns'[u].status = "completed" \/ turns[u].status = "completed"
        PROVE  turns'[u] = turns[u] /\ prompt'[u] = prompt[u]
    BY <1>1, <1>3, <1>4, <2>1
  <2>2. QED
    BY <1>4, <2>1, HistoryStands
<1>12. QED
  BY <1>5, <1>6, <1>7, <1>8, <1>9, <1>10, <1>11
-----------------------------------------------------------------------------
(* Completing a turn: its conversation grows by two messages.                 *)

LEMMA TwoAppended ==
  ASSUME NEW h \in Seq(Message), NEW a \in Message, NEW b \in Message, NEW h2,
         h2 = Append(Append(h, a), b)
  PROVE  /\ h2 \in Seq(Message)
         /\ Len(h2) = Len(h) + 2
         /\ \A i \in 1..Len(h) : h2[i] = h[i]
         /\ h2[Len(h) + 1] = a
         /\ h2[Len(h) + 2] = b
<1> DEFINE h1 == Append(h, a)
<1>1. h1 \in Seq(Message) /\ Len(h1) = Len(h) + 1
      /\ (\A i \in 1..Len(h) : h1[i] = h[i]) /\ h1[Len(h) + 1] = a
  OBVIOUS
<1> HIDE DEF h1
<1>2. h2 = Append(h1, b)
  BY DEF h1
<1>3. h2 \in Seq(Message) /\ Len(h2) = Len(h1) + 1
      /\ (\A i \in 1..Len(h1) : h2[i] = h1[i]) /\ h2[Len(h1) + 1] = b
  BY <1>1, <1>2
<1>4. QED
  BY <1>1, <1>3

LEMMA CompleteTurnKeeps ==
  ASSUME LedgerInv, NEW t \in Turns, NEW answer \in Answers, CompleteTurn(t, answer)
  PROVE  LedgerInv'
<1> DEFINE c == turns[t].conversation
           history == conversations[c].messages
           question == [turn |-> t, text |-> turns[t].request]
           reply == [turn |-> t, text |-> answer]
           longer == Append(Append(history, question), reply)
           n == turns[t].contextCount
<1> USE DEF LedgerInv
<1>1. turns[t] \in TurnRow /\ turns[t].status = "pending" /\ t \in executing
  BY DEF CompleteTurn, TypeOK
<1>2. c \in Conversations /\ history \in Seq(Message) /\ Live(c)
  BY <1>1 DEF RowsHaveHomes, TypeOK, ConversationRow
<1>3. question \in Message /\ reply \in Message
  BY <1>1 DEF Message, TurnRow
<1>4. /\ longer \in Seq(Message) /\ Len(longer) = Len(history) + 2
      /\ \A i \in 1..Len(history) : longer[i] = history[i]
      /\ longer[Len(history) + 1] = question
      /\ longer[Len(history) + 2] = reply
  <2> HIDE DEF history, question, reply
  <2>1. QED
    BY <1>2, <1>3, TwoAppended
<1>len. /\ Len(history) \in Nat /\ Len(longer) = Len(history) + 2
        /\ Len(history) <= Len(longer) /\ Len(history) + 2 <= Len(longer)
  <2>1. Len(history) \in Nat
    BY <1>2
  <2>2. Len(longer) = Len(history) + 2
    BY <1>4
  <2> HIDE DEF longer, history
  <2>3. QED
    BY <2>1, <2>2
<1>5. /\ conversations'[c].messages = longer /\ conversations'[c].state = "live"
      /\ \A d \in Conversations \ {c} : conversations'[d] = conversations[d]
  BY <1>2 DEF CompleteTurn, TypeOK, ConversationRow, Live
<1>6. n = Len(history) /\ n \in Nat
  BY <1>1 DEF CompleteTurn, TurnRow
<1>7. /\ turns'[t] = Ended(turns[t], "completed", answer)
      /\ \A u \in Turns \ {t} : turns'[u] = turns[u]
      /\ UNCHANGED <<executing, prompt, copies, seen>>
  BY DEF CompleteTurn, TypeOK
<1>8. /\ turns'[t].conversation = c /\ turns'[t].contextCount = n
      /\ turns'[t].request = turns[t].request
      /\ turns'[t].status = "completed" /\ turns'[t].answer = answer
  BY <1>1, <1>7 DEF Ended, TurnRow
<1> HIDE DEF longer
<1>9. TypeOK'
  BY CompleteTurnType
(* Every history keeps what it had; that of c gains the question and the reply. *)
<1>grown. ASSUME NEW d \in Conversations
      PROVE  /\ conversations[d].messages \in Seq(Message)
             /\ conversations'[d].messages \in Seq(Message)
             /\ Len(conversations[d].messages) <= Len(conversations'[d].messages)
             /\ \A i \in 1..Len(conversations[d].messages) :
                  conversations'[d].messages[i] = conversations[d].messages[i]
  <2>1. conversations[d].messages \in Seq(Message)
    BY DEF TypeOK, ConversationRow
  <2>2. CASE d = c
    <3> HIDE DEF question, reply
    <3>1. conversations[d].messages = history /\ conversations'[d].messages = longer
      BY <1>5, <2>2
    <3> HIDE DEF history
    <3>2. QED
      BY <1>2, <1>4, <3>1
  <2>3. CASE d # c
    BY <1>5, <2>1, <2>3
  <2>4. QED
    BY <2>2, <2>3
<1>added. ASSUME NEW i \in 1..Len(longer), i \notin 1..Len(history)
      PROVE  i \in {n + 1, n + 2} /\ longer[i].turn = t
  <2>1. question.turn = t /\ reply.turn = t /\ Len(history) \in Nat
    BY <1>2
  <2> HIDE DEF history, question, reply, n
  <2>2. i \in {Len(history) + 1, Len(history) + 2}
    BY <1>4, <1>added, <2>1
  <2>3. QED
    BY <1>4, <1>6, <2>1, <2>2
<1>10. RowsHaveHomes'
  <2>1. ASSUME NEW u \in Turns
        PROVE  IF turns'[u].status = "absent" THEN turns'[u] = NoTurn
               ELSE /\ turns'[u].conversation \in Conversations
                    /\ conversations'[turns'[u].conversation].state = "live"
                    /\ Home[u] # None => turns'[u].conversation = Home[u]
                    /\ Home[u] = None => turns'[u].contextCount = 0
    <3>1. CASE u = t
      BY <1>1, <1>2, <1>5, <1>8, <3>1 DEF RowsHaveHomes
    <3>2. CASE u # t
      BY <1>5, <1>7, <3>2 DEF RowsHaveHomes, Live
    <3>3. QED
      BY <3>1, <3>2
  <2>2. QED
    BY <2>1 DEF RowsHaveHomes, Live
<1>11. OnePending'
  BY <1>7, <1>8 DEF OnePending
<1>12. PendingIsCurrent'
  <2>1. ASSUME NEW u \in Turns, turns'[u].status = "pending"
        PROVE  /\ turns'[u] = turns[u] /\ turns[u].conversation \in Conversations
               /\ turns[u].conversation # c
    BY <1>1, <1>7, <1>8, <2>1 DEF OnePending, RowsHaveHomes
  <2>2. QED
    BY <1>5, <1>7, <2>1 DEF PendingIsCurrent
<1>13. ExecutionsKnowTheirTurn'
  <2>1. ASSUME NEW u \in executing, Home[u] # None
        PROVE  /\ turns'[u].status = "absent" => conversations'[Home[u]].state = "deleted"
               /\ turns'[u].status = "pending" => turns'[u].started
    <3>1. u \in Turns /\ Home[u] \in Conversations
      BY <2>1, LedgerAssumption DEF TypeOK
    <3>2. turns'[u].status \in {"absent", "pending"} => turns'[u] = turns[u]
      BY <1>7, <1>8, <3>1
    <3>3. conversations[Home[u]].state = "deleted" => conversations'[Home[u]].state = "deleted"
      BY <1>2, <1>5, <3>1 DEF Live
    <3>4. QED
      BY <2>1, <3>1, <3>2, <3>3 DEF ExecutionsKnowTheirTurn
  <2>2. QED
    BY <1>7, <2>1 DEF ExecutionsKnowTheirTurn
<1>14. CopiesArePrefixes'
  <2>1. ASSUME NEW w \in Windows, copies[w] # None
        PROVE  LET row == conversations'[copies[w].conversation]
                   copy == copies[w].messages
               IN  /\ row.state # "absent"
                   /\ row.state = "live" =>
                        /\ Len(copy) <= Len(row.messages)
                        /\ \A i \in 1..Len(copy) : copy[i] = row.messages[i]
    <3>1. copies[w].conversation \in Conversations /\ Len(copies[w].messages) \in Nat
      BY <2>1 DEF TypeOK, Snapshot
    <3>2. CASE copies[w].conversation = c
      <4>1. /\ Len(copies[w].messages) <= Len(history)
            /\ \A i \in 1..Len(copies[w].messages) : copies[w].messages[i] = history[i]
        BY <1>2, <2>1, <3>2 DEF CopiesArePrefixes, Live
      <4>2. Len(history) \in Nat
        BY <1>2
      <4>3. conversations'[c].messages = longer
        BY <1>5
      <4>4. Len(copies[w].messages) <= Len(longer)
        BY <1>len, <3>1, <4>1
      <4>5. \A i \in 1..Len(copies[w].messages) : copies[w].messages[i] = longer[i]
        <5>1. \A i \in 1..Len(copies[w].messages) : i \in 1..Len(history)
          BY <1>len, <3>1, <4>1
        <5>2. QED
          BY <1>4, <4>1, <5>1
      <4>6. QED
        BY <1>5, <3>2, <4>3, <4>4, <4>5
    <3>3. CASE copies[w].conversation # c
      BY <1>5, <2>1, <3>1, <3>3 DEF CopiesArePrefixes
    <3>4. QED
      BY <3>2, <3>3
  <2>2. QED
    BY <1>7, <2>1 DEF CopiesArePrefixes
<1>15. OnlyLiveHistory'
  BY <1>5 DEF OnlyLiveHistory, Live
<1>16. HistoryIsAnswers'
  <2>1. ASSUME NEW d \in Conversations, NEW i \in 1..Len(conversations'[d].messages)
        PROVE  AskerIsRecorded(d, i)'
    <3>1. CASE i \in 1..Len(conversations[d].messages)
      <4> DEFINE u == conversations[d].messages[i].turn
      <4>1. conversations'[d].messages[i] = conversations[d].messages[i]
        BY <1>grown, <3>1
      <4>2. SUFFICES ASSUME u # None PROVE AskerIsRecorded(d, i)'
        BY <4>1 DEF AskerIsRecorded
      <4>3. u \in Turns
        BY <3>1, <4>2, AskerOfMessage
      <4>4. AskerIsRecorded(d, i)
        BY <3>1 DEF HistoryIsAnswers
      <4>5. turns'[u] = turns[u]
        BY <1>1, <1>7, <4>2, <4>3, <4>4 DEF AskerIsRecorded
      <4>6. QED
        BY <4>1, <4>4, <4>5 DEF AskerIsRecorded
    <3>2. CASE i \notin 1..Len(conversations[d].messages)
      <4>1. d = c
        BY <1>5, <3>2
      <4>2. conversations'[d].messages = longer /\ conversations[d].messages = history
        BY <1>5, <4>1
      <4>3. i \in {n + 1, n + 2} /\ conversations'[d].messages[i].turn = t
        BY <1>added, <3>2, <4>2
      <4>4. QED
        BY <1>8, <4>1, <4>3 DEF AskerIsRecorded
    <3>3. QED
      BY <3>1, <3>2
  <2>2. AnswerIsSaved(t)'
    <3>1. /\ [turn |-> t, text |-> turns'[t].request] = question
          /\ [turn |-> t, text |-> turns'[t].answer] = reply
          /\ conversations'[turns'[t].conversation].messages = longer
          /\ turns'[t].contextCount = Len(history)
      BY <1>5, <1>6, <1>8
    <3>2. Len(history) + 2 <= Len(longer)
      BY <1>len
    <3> HIDE DEF history, question, reply
    <3>3. QED
      BY <1>4, <3>1, <3>2 DEF AnswerIsSaved
  <2>3. ASSUME NEW u \in Turns \ {t} PROVE AnswerIsSaved(u)'
    <3> DEFINE d == turns[u].conversation
               k == turns[u].contextCount
               past == conversations[d].messages
               now == conversations'[d].messages
    <3>1. turns'[u] = turns[u]
      BY <1>7
    <3>2. SUFFICES ASSUME turns[u].status = "completed" PROVE AnswerIsSaved(u)'
      BY <3>1 DEF AnswerIsSaved
    <3>3. d \in Conversations /\ k \in Nat
      BY <3>2 DEF RowsHaveHomes, TypeOK, TurnRow
    <3>4. AnswerIsSaved(u)
      BY DEF HistoryIsAnswers
    <3>5. /\ k + 2 <= Len(past)
          /\ past[k + 1] = [turn |-> u, text |-> turns[u].request]
          /\ past[k + 2] = [turn |-> u, text |-> turns[u].answer]
      BY <3>2, <3>4 DEF AnswerIsSaved
    <3>6. /\ past \in Seq(Message) /\ now \in Seq(Message)
          /\ Len(past) <= Len(now)
          /\ \A i \in 1..Len(past) : now[i] = past[i]
      BY <1>grown, <3>3
    <3> HIDE DEF d, k, past, now
    <3>7. Len(past) \in Nat /\ Len(now) \in Nat
      BY <3>6
    <3>8. k + 1 \in 1..Len(past) /\ k + 2 \in 1..Len(past) /\ k + 2 <= Len(now)
      BY <3>3, <3>5, <3>6, <3>7
    <3>9. /\ now[k + 1] = [turn |-> u, text |-> turns[u].request]
          /\ now[k + 2] = [turn |-> u, text |-> turns[u].answer]
      BY <3>5, <3>6, <3>8
    <3>10. QED
      BY <3>1, <3>8, <3>9 DEF AnswerIsSaved, d, k, now
  <2>4. QED
    BY <2>1, <2>2, <2>3 DEF HistoryIsAnswers
<1>17. AnsweredFromSeen'
  <2>1. prompt[t] = seen[t] /\ seen[t] = history
    <3>1. seen[t] = history
      BY <1>1 DEF PendingIsCurrent
    <3>2. CASE Home[t] = None
      <4>1. prompt[t] = <<>>
        BY <1>1, <3>2 DEF ExecutionsKnowTheirTurn
      <4>2. Len(history) = 0
        BY <1>1, <1>6, <3>2 DEF RowsHaveHomes
      <4>3. QED
        BY <1>2, <3>1, <4>1, <4>2
    <3>3. CASE Home[t] # None
      BY <1>1, <3>1, <3>3 DEF ExecutionsKnowTheirTurn, PendingIsCurrent
    <3>4. QED
      BY <3>2, <3>3
  <2>2. AnswerFollowsSeen(t)'
    <3>1. /\ conversations'[turns'[t].conversation].messages = longer
          /\ turns'[t].contextCount = Len(history)
          /\ prompt'[t] = history /\ seen'[t] = history
      BY <1>5, <1>6, <1>7, <1>8, <2>1
    <3>2. Len(history) <= Len(longer)
      BY <1>len
    <3> HIDE DEF history, question, reply
    <3>3. QED
      BY <1>4, <3>1, <3>2 DEF AnswerFollowsSeen
  <2>3. ASSUME NEW u \in Turns \ {t} PROVE AnswerFollowsSeen(u)'
    <3> DEFINE d == turns[u].conversation
               k == turns[u].contextCount
               past == conversations[d].messages
               now == conversations'[d].messages
    <3>1. turns'[u] = turns[u] /\ prompt'[u] = prompt[u] /\ seen'[u] = seen[u]
      BY <1>7
    <3>2. SUFFICES ASSUME turns[u].status = "completed" PROVE AnswerFollowsSeen(u)'
      BY <3>1 DEF AnswerFollowsSeen
    <3>3. d \in Conversations /\ k \in Nat
      BY <3>2 DEF RowsHaveHomes, TypeOK, TurnRow
    <3>4. AnswerFollowsSeen(u)
      BY DEF AnsweredFromSeen
    <3>5. /\ prompt[u] = seen[u] /\ Len(seen[u]) = k /\ k <= Len(past)
          /\ \A i \in 1..k : seen[u][i] = past[i]
      BY <3>2, <3>4 DEF AnswerFollowsSeen
    <3>6. /\ past \in Seq(Message) /\ now \in Seq(Message)
          /\ Len(past) <= Len(now)
          /\ \A i \in 1..Len(past) : now[i] = past[i]
      BY <1>grown, <3>3
    <3> HIDE DEF d, k, past, now
    <3>7. Len(past) \in Nat /\ Len(now) \in Nat
      BY <3>6
    <3>8. k <= Len(now) /\ \A i \in 1..k : i \in 1..Len(past)
      BY <3>3, <3>5, <3>6, <3>7
    <3>9. \A i \in 1..k : seen[u][i] = now[i]
      BY <3>5, <3>6, <3>8
    <3>10. QED
      BY <3>1, <3>5, <3>8, <3>9 DEF AnswerFollowsSeen, d, k, now
  <2>4. QED
    BY <2>2, <2>3 DEF AnsweredFromSeen
<1>18. QED
  BY <1>9, <1>10, <1>11, <1>12, <1>13, <1>14, <1>15, <1>16, <1>17
-----------------------------------------------------------------------------
(* Conversations that appear with a transcript, or go.                        *)

LEMMA ImportConversationKeeps ==
  ASSUME LedgerInv, NEW c \in Conversations, NEW context \in Contexts,
         NEW count \in 0..MaxImported, ImportConversation(c, context, count)
  PROVE  LedgerInv'
<1> DEFINE transcript == [i \in 1..count |-> Imported]
<1> USE DEF LedgerInv
<1>1. TypeOK'
  BY ImportConversationType
<1>2. /\ conversations[c].state = "absent"
      /\ UNCHANGED <<turns, executing, prompt, copies, seen>>
  BY DEF ImportConversation
<1>3. /\ conversations'[c].state = "live" /\ conversations'[c].messages = transcript
      /\ \A d \in Conversations \ {c} : conversations'[d] = conversations[d]
  BY DEF ImportConversation, TypeOK
<1>4. ASSUME NEW t \in Turns, turns[t].status # "absent"
      PROVE  turns[t].conversation \in Conversations \ {c}
  BY <1>2, <1>4 DEF RowsHaveHomes, Live
<1>5. RowsHaveHomes'
  <2>1. ASSUME NEW t \in Turns, turns[t].status # "absent"
        PROVE  conversations'[turns[t].conversation] = conversations[turns[t].conversation]
    BY <1>3, <1>4, <2>1
  <2>2. QED
    BY <1>2, <2>1 DEF RowsHaveHomes, Live
<1>6. OnePending'
  BY <1>2 DEF OnePending
<1>7. PendingIsCurrent'
  <2>1. ASSUME NEW t \in Turns, turns[t].status = "pending"
        PROVE  conversations'[turns[t].conversation] = conversations[turns[t].conversation]
    BY <1>3, <1>4, <2>1
  <2>2. QED
    BY <1>2, <2>1 DEF PendingIsCurrent
<1>8. ExecutionsKnowTheirTurn'
  <2>1. ASSUME NEW t \in executing, Home[t] # None
        PROVE  /\ turns[t].status = "absent" => conversations'[Home[t]].state = "deleted"
               /\ turns[t].status = "pending" => turns[t].started
    <3>1. Home[t] \in Conversations
      BY <2>1, LedgerAssumption DEF TypeOK
    <3>2. /\ turns[t].status = "absent" => conversations[Home[t]].state = "deleted"
          /\ turns[t].status = "pending" => turns[t].started
      BY <2>1 DEF ExecutionsKnowTheirTurn
    <3>3. QED
      BY <1>2, <1>3, <3>1, <3>2
  <2>2. QED
    BY <1>2, <2>1 DEF ExecutionsKnowTheirTurn
<1>9. CopiesArePrefixes'
  <2>1. ASSUME NEW w \in Windows, copies[w] # None
        PROVE  conversations'[copies[w].conversation] = conversations[copies[w].conversation]
    <3>1. copies[w].conversation \in Conversations
      BY <2>1 DEF TypeOK, Snapshot
    <3>2. QED
      BY <1>2, <1>3, <2>1, <3>1 DEF CopiesArePrefixes
  <2>2. QED
    BY <1>2, <2>1 DEF CopiesArePrefixes
<1>10. OnlyLiveHistory'
  BY <1>3 DEF OnlyLiveHistory, Live
<1>11. HistoryIsAnswers' /\ AnsweredFromSeen'
  <2>1. ASSUME NEW i \in 1..Len(conversations'[c].messages)
        PROVE  conversations'[c].messages[i].turn = None
    <3>1. count \in Nat
      BY LedgerAssumption
    <3>2. Len(transcript) = count
      BY <3>1
    <3>3. conversations'[c].messages[i] = Imported
      BY <1>3, <3>2
    <3>4. QED
      BY <3>3 DEF Imported
  <2>2. ASSUME NEW t \in Turns, turns[t].status = "completed"
        PROVE  conversations'[turns[t].conversation] = conversations[turns[t].conversation]
    BY <1>3, <1>4, <2>2
  <2>3. ASSUME NEW d \in Conversations, NEW i \in 1..Len(conversations'[d].messages),
               conversations'[d].messages[i].turn # None
        PROVE  conversations'[d].messages = conversations[d].messages
    BY <1>3, <2>1, <2>3
  <2>4. QED
    BY <1>2, <2>2, <2>3, HistoryStands
<1>12. QED
  BY <1>1, <1>5, <1>6, <1>7, <1>8, <1>9, <1>10, <1>11

LEMMA DeleteWhenIdleKeeps ==
  ASSUME LedgerInv, NEW c \in Conversations, DeleteWhenIdle(c)
  PROVE  LedgerInv'
<1> USE DEF LedgerInv
<1>1. CASE PendingIn(Swept(turns), c) # {}
  <2>1. turns' = Swept(turns) /\ UNCHANGED <<conversations, executing, prompt, copies, seen>>
    BY <1>1 DEF DeleteWhenIdle
  <2>2. QED
    BY <2>1, SweepingStep DEF QuietHistories, TypeOK
<1>2. CASE PendingIn(Swept(turns), c) = {}
  <2>1. TypeOK'
    BY DeleteWhenIdleType
  <2>2. UNCHANGED <<executing, prompt, copies, seen>> /\ conversations[c].state = "live"
    BY DEF DeleteWhenIdle, Live
  <2>3. /\ conversations'[c].state = "deleted" /\ conversations'[c].messages = <<>>
        /\ \A d \in Conversations \ {c} : conversations'[d] = conversations[d]
    BY <1>2 DEF DeleteWhenIdle, TypeOK
  <2>4. turns' = [t \in Turns |-> IF Swept(turns)[t].conversation = c
                                  THEN NoTurn ELSE Swept(turns)[t]]
    BY <1>2 DEF DeleteWhenIdle
  <2>5. ASSUME NEW t \in Turns, turns[t].conversation = c
        PROVE  turns'[t] = NoTurn
    BY <2>4, <2>5, SweptRows
  <2>6. ASSUME NEW t \in Turns, turns[t].conversation # c
        PROVE  QuietRow(t)
    BY <2>4, <2>6, SweptRows DEF QuietRow
  <2>7. ASSUME NEW t \in Turns, turns'[t].status # "absent"
        PROVE  /\ QuietRow(t)
               /\ turns[t].conversation \in Conversations \ {c}
               /\ conversations'[turns[t].conversation] = conversations[turns[t].conversation]
    <3>1. turns[t].conversation # c
      BY <2>5, <2>7 DEF NoTurn
    <3>2. QuietRow(t)
      BY <2>6, <3>1
    <3>3. turns[t].conversation \in Conversations
      BY <2>7, <3>2 DEF QuietRow, RowsHaveHomes
    <3>4. QED
      BY <2>3, <3>1, <3>2, <3>3
  <2>8. RowsHaveHomes'
    <3>1. ASSUME NEW t \in Turns, turns'[t].status = "absent"
          PROVE  turns'[t] = NoTurn
      BY <2>5, <2>6, <3>1 DEF QuietRow, RowsHaveHomes
    <3>2. ASSUME NEW t \in Turns, turns'[t].status # "absent"
          PROVE  /\ turns'[t].conversation \in Conversations
                 /\ conversations'[turns'[t].conversation].state = "live"
                 /\ Home[t] # None => turns'[t].conversation = Home[t]
                 /\ Home[t] = None => turns'[t].contextCount = 0
      <4>1. turns[t].status # "absent" /\ turns'[t].conversation = turns[t].conversation
            /\ turns'[t].contextCount = turns[t].contextCount
        BY <2>7, <3>2 DEF QuietRow
      <4>2. QED
        BY <2>7, <3>2, <4>1 DEF RowsHaveHomes, Live
    <3>3. QED
      BY <3>1, <3>2 DEF RowsHaveHomes, Live
  <2>9. OnePending'
    BY <2>7 DEF OnePending, QuietRow
  <2>10. PendingIsCurrent'
    <3>1. ASSUME NEW t \in Turns, turns'[t].status = "pending"
          PROVE  /\ turns[t].status = "pending" /\ turns'[t].started = turns[t].started
                 /\ turns'[t].conversation = turns[t].conversation
                 /\ turns'[t].contextCount = turns[t].contextCount
                 /\ conversations'[turns[t].conversation] = conversations[turns[t].conversation]
      BY <2>7, <3>1 DEF QuietRow
    <3>2. QED
      BY <2>2, <3>1 DEF PendingIsCurrent
  <2>11. ExecutionsKnowTheirTurn'
    <3>1. ASSUME NEW t \in executing, Home[t] # None
          PROVE  /\ turns'[t].status = "absent" => conversations'[Home[t]].state = "deleted"
                 /\ turns'[t].status = "pending" => turns'[t].started
      <4>1. t \in Turns /\ Home[t] \in Conversations
        BY <3>1, LedgerAssumption DEF TypeOK
      <4>2. /\ turns[t].status = "absent" => conversations[Home[t]].state = "deleted"
            /\ turns[t].status = "pending" => turns[t].started
        BY <3>1 DEF ExecutionsKnowTheirTurn
      <4>3. CASE turns[t].conversation = c
        <5>1. turns[t].status # "absent"
          BY <4>1, <4>3, LedgerAssumption DEF RowsHaveHomes, NoTurn
        <5>2. Home[t] = c
          BY <3>1, <4>1, <4>3, <5>1 DEF RowsHaveHomes
        <5>3. turns'[t] = NoTurn
          BY <2>5, <4>1, <4>3
        <5>4. QED
          BY <2>3, <5>2, <5>3 DEF NoTurn
      <4>4. CASE turns[t].conversation # c
        <5>1. QuietRow(t)
          BY <2>6, <4>1, <4>4
        <5>2. conversations[Home[t]].state = "deleted" => conversations'[Home[t]].state = "deleted"
          BY <2>2, <2>3, <4>1
        <5>3. QED
          BY <4>2, <5>1, <5>2 DEF QuietRow
      <4>5. QED
        BY <4>3, <4>4
    <3>2. QED
      BY <2>2, <3>1 DEF ExecutionsKnowTheirTurn
  <2>12. CopiesArePrefixes'
    <3>1. ASSUME NEW w \in Windows, copies[w] # None
          PROVE  /\ conversations[copies[w].conversation].state # "absent"
                 /\ \/ conversations'[copies[w].conversation].state = "deleted"
                    \/ conversations'[copies[w].conversation] = conversations[copies[w].conversation]
      BY <2>3, <3>1 DEF TypeOK, Snapshot, CopiesArePrefixes
    <3>2. QED
      BY <2>2, <3>1 DEF CopiesArePrefixes
  <2>13. OnlyLiveHistory'
    BY <2>3 DEF OnlyLiveHistory, Live
  <2>14. HistoryIsAnswers' /\ AnsweredFromSeen'
    <3>1. ASSUME NEW d \in Conversations, NEW i \in 1..Len(conversations'[d].messages),
                 conversations'[d].messages[i].turn # None
          PROVE  conversations'[d].messages = conversations[d].messages
      BY <2>3
    <3>2. ASSUME NEW t \in Turns, turns[t].status = "completed"
          PROVE  \/ turns'[t] = turns[t]
                 \/ conversations'[turns[t].conversation].messages = <<>>
      BY <2>3, <2>6, <3>2 DEF QuietRow
    <3>3. ASSUME NEW t \in Turns, turns'[t].status = "completed"
          PROVE  turns'[t] = turns[t]
                 /\ conversations'[turns[t].conversation] = conversations[turns[t].conversation]
      BY <2>7, <3>3 DEF QuietRow
    <3>4. QED
      BY <2>2, <3>1, <3>2, <3>3, HistoryStands
  <2>15. QED
    BY <2>1, <2>8, <2>9, <2>10, <2>11, <2>12, <2>13, <2>14
<1>3. QED
  BY <1>1, <1>2
-----------------------------------------------------------------------------
LEMMA InitLedgerInv == Init => LedgerInv
<1> SUFFICES ASSUME Init PROVE LedgerInv
  OBVIOUS
<1>1. TypeOK
  BY DEF Init, TypeOK, ConversationRow, TurnRow, NoTurn, Status
<1>2. \A t \in Turns : turns[t] = NoTurn
  BY DEF Init
<1>3. \A c \in Conversations : conversations[c].state = "absent" /\ conversations[c].messages = <<>>
  BY DEF Init
<1>4. RowsHaveHomes /\ OnePending /\ PendingIsCurrent /\ AnsweredFromSeen
  <2>1. \A t \in Turns : turns[t].status = "absent"
    BY <1>2 DEF NoTurn
  <2>2. RowsHaveHomes
    BY <1>2, <2>1 DEF RowsHaveHomes
  <2>3. OnePending
    BY <2>1 DEF OnePending
  <2>4. PendingIsCurrent /\ AnsweredFromSeen
    BY <2>1 DEF PendingIsCurrent, AnsweredFromSeen, AnswerFollowsSeen
  <2>5. QED
    BY <2>2, <2>3, <2>4
<1>5. ExecutionsKnowTheirTurn /\ CopiesArePrefixes
  BY DEF Init, ExecutionsKnowTheirTurn, CopiesArePrefixes
<1>6. OnlyLiveHistory
  BY <1>3 DEF OnlyLiveHistory
<1>7. HistoryIsAnswers
  BY <1>2, <1>3 DEF HistoryIsAnswers, AskerIsRecorded, AnswerIsSaved, NoTurn
<1>8. QED
  BY <1>1, <1>4, <1>5, <1>6, <1>7 DEF LedgerInv

LEMMA NextLedgerInv == LedgerInv /\ [Next]_vars => LedgerInv'
<1> SUFFICES ASSUME LedgerInv, [Next]_vars PROVE LedgerInv'
  OBVIOUS
<1>1. CASE SweepExpired
  BY <1>1, SweepExpiredKeeps
<1>2. ASSUME NEW done \in SUBSET Expired(turns), CrashInSweep(done) PROVE LedgerInv'
  BY <1>2, CrashInSweepKeeps
<1>3. ASSUME NEW t \in Turns, NEW w \in Windows, NEW request \in Requests,
             NEW source \in Turns \union {None}, NEW aborted \in BOOLEAN,
             BeginTurn(t, w, request, source, aborted)
      PROVE  LedgerInv'
  BY <1>3, BeginTurnKeeps
<1>4. ASSUME NEW t \in Turns, NEW c \in Conversations, NEW context \in Contexts,
             NEW request \in Requests, NEW aborted \in BOOLEAN,
             BeginInNewConversation(t, c, context, request, aborted)
      PROVE  LedgerInv'
  BY <1>4, BeginInNewConversationKeeps
<1>5. ASSUME NEW t \in Turns, ClaimTurn(t) PROVE LedgerInv'
  BY <1>5, ClaimTurnKeeps
<1>6. ASSUME NEW t \in Turns, ExecutionEnds(t) PROVE LedgerInv'
  BY <1>6, ExecutionsEndKeeps DEF ExecutionEnds
<1>7. ASSUME NEW t \in Turns, TurnExpires(t) PROVE LedgerInv'
  BY <1>7, TurnExpiresKeeps
<1>8. ASSUME NEW t \in Turns, NEW answer \in Answers, CompleteTurn(t, answer) PROVE LedgerInv'
  BY <1>8, CompleteTurnKeeps
<1>9. ASSUME NEW t \in Turns, NEW partial \in Answers \union {None}, CancelTurn(t, partial)
      PROVE  LedgerInv'
  BY <1>9, CancelTurnKeeps
<1>10. ASSUME NEW t \in Turns, NEW partial \in Answers \union {None}, FailTurn(t, partial)
       PROVE  LedgerInv'
  BY <1>10, FailTurnKeeps
<1>11. ASSUME NEW c \in Conversations, NEW context \in Contexts, NEW count \in 0..MaxImported,
              ImportConversation(c, context, count)
       PROVE  LedgerInv'
  BY <1>11, ImportConversationKeeps
<1>12. ASSUME NEW c \in Conversations, NEW w \in Windows, LoadConversation(w, c) PROVE LedgerInv'
  BY <1>12, LoadConversationKeeps
<1>13. ASSUME NEW c \in Conversations, DeleteWhenIdle(c) PROVE LedgerInv'
  BY <1>13, DeleteWhenIdleKeeps
<1>14. ASSUME NEW w \in Windows, NEW context \in Contexts, RebindWhenIdle(w, context)
       PROVE  LedgerInv'
  BY <1>14, RebindWhenIdleKeeps
<1>15. ASSUME NEW c \in Conversations, NEW context \in Contexts, ContextDrifts(c, context)
       PROVE  LedgerInv'
  BY <1>15, ContextDriftsKeeps
<1>16. CASE Restart
  BY <1>16, ExecutionsEndKeeps DEF Restart
<1>17. CASE UNCHANGED vars
  BY <1>17, ExecutionsEndKeeps DEF vars
<1>18. ASSUME NEW context \in Contexts, DeleteProjectWhenIdle(context) PROVE LedgerInv'
  BY <1>18, DeleteProjectWhenIdleKeeps
<1>19. QED
  BY <1>1, <1>2, <1>3, <1>4, <1>5, <1>6, <1>7, <1>8, <1>9, <1>10, <1>11, <1>12, <1>13,
     <1>14, <1>15, <1>16, <1>17, <1>18 DEF Next
-----------------------------------------------------------------------------
(* The inductive invariant holds of every reachable ledger.                   *)
THEOREM LedgerInvHolds == Spec => []LedgerInv
  BY InitLedgerInv, NextLedgerInv, PTL DEF Spec

(* Every reachable ledger is well typed.                                      *)
THEOREM TypeOKHolds == Spec => []TypeOK
<1>1. LedgerInv => TypeOK
  BY DEF LedgerInv
<1>2. QED
  BY <1>1, LedgerInvHolds, PTL

(* The canonical history of a conversation always is its imported transcript  *)
(* and its completed turns, one request and one answer each, in place         *)
(* (completeConversationTurn).                                                *)
THEOREM HistoryIsAnswersHolds == Spec => []HistoryIsAnswers
<1>1. LedgerInv => HistoryIsAnswers
  BY DEF LedgerInv
<1>2. QED
  BY <1>1, LedgerInvHolds, PTL

(* A saved answer continues what its window showed and its model read: the    *)
(* binding and the message count in beginConversationTurn are receipt enough. *)
THEOREM AnsweredFromSeenHolds == Spec => []AnsweredFromSeen
<1>1. LedgerInv => AnsweredFromSeen
  BY DEF LedgerInv
<1>2. QED
  BY <1>1, LedgerInvHolds, PTL

-----------------------------------------------------------------------------
(* What ReceiptsStand says of a step and a terminal turn.                     *)
Stands(t) ==
  \/ turns'[t] = turns[t]
  \/ /\ turns[t].status = "cancelled" /\ turns[t].answer = None
     /\ turns'[t] = [turns[t] EXCEPT !.answer = turns'[t].answer]
  \/ conversations'[turns[t].conversation].state = "deleted"

Terminal(t) == turns[t].status \in {"completed", "cancelled", "failed"}

(* The sweep ends pending turns only.                                         *)
LEMMA SweepSparesTerminal ==
  ASSUME LedgerInv, NEW t \in Turns, Terminal(t)
  PROVE  Swept(turns)[t] = turns[t]
BY SweptRows DEF Terminal, LedgerInv

(* A write to the row of another turn, or of one that is not terminal.        *)
LEMMA OtherRowStands ==
  ASSUME LedgerInv, NEW t \in Turns, Terminal(t), NEW u \in Turns, NEW row,
         turns' = [turns EXCEPT ![u] = row], ~Terminal(u)
  PROVE  Stands(t)
<1>1. t # u
  OBVIOUS
<1>2. turns'[t] = turns[t]
  BY <1>1 DEF LedgerInv, TypeOK
<1>3. QED
  BY <1>2 DEF Stands

(* The deletion of its conversation is the one way a receipt may go.          *)
LEMMA DeleteStands ==
  ASSUME LedgerInv, NEW t \in Turns, Terminal(t), NEW c \in Conversations, DeleteWhenIdle(c)
  PROVE  Stands(t)
<1>1. Swept(turns)[t] = turns[t]
  BY SweepSparesTerminal
<1>2. CASE PendingIn(Swept(turns), c) # {}
  BY <1>1, <1>2 DEF DeleteWhenIdle, Stands
<1>3. CASE PendingIn(Swept(turns), c) = {} /\ turns[t].conversation # c
  BY <1>1, <1>3 DEF DeleteWhenIdle, Stands
<1>4. CASE PendingIn(Swept(turns), c) = {} /\ turns[t].conversation = c
  <2>1. conversations'[c].state = "deleted"
    BY <1>4 DEF DeleteWhenIdle, LedgerInv, TypeOK
  <2>2. QED
    BY <1>4, <2>1 DEF Stands
<1>5. QED
  BY <1>2, <1>3, <1>4

(* A turn is admitted to the row of an absent one.                            *)
LEMMA BeginStands ==
  ASSUME LedgerInv, NEW t \in Turns, Terminal(t), NEW u \in Turns,
         \/ turns' = Swept(turns)
         \/ Swept(turns)[u].status = "absent" /\ \E row : turns' = [Swept(turns) EXCEPT ![u] = row]
  PROVE  Stands(t)
<1>1. Swept(turns)[t] = turns[t] /\ Swept(turns)[t].status # "absent"
  BY SweepSparesTerminal DEF Terminal
<1>2. CASE turns' = Swept(turns)
  BY <1>1, <1>2 DEF Stands
<1>3. ASSUME Swept(turns)[u].status = "absent", NEW row, turns' = [Swept(turns) EXCEPT ![u] = row]
      PROVE  Stands(t)
  <2>1. turns'[t] = turns[t]
    BY <1>1, <1>3 DEF Swept
  <2>2. QED
    BY <2>1 DEF Stands
<1>4. QED
  BY <1>2, <1>3

(* A Stop ends a pending turn, or brings the one late partial.                *)
LEMMA CancelStands ==
  ASSUME LedgerInv, NEW t \in Turns, Terminal(t), NEW u \in Turns,
         NEW partial \in Answers \union {None}, CancelTurn(u, partial)
  PROVE  Stands(t)
<1>1. turns[t] \in TurnRow
  BY DEF LedgerInv, TypeOK
<1>2. CASE turns[u].status = "pending"
  <2>1. ~Terminal(u)
    BY <1>2 DEF Terminal
  <2>2. turns' = [turns EXCEPT ![u] = Ended(turns[u], "cancelled", partial)]
    BY <1>2 DEF CancelTurn
  <2>3. QED
    BY <2>1, <2>2, OtherRowStands
<1>3. CASE turns[u].status = "cancelled" /\ turns[u].answer = None
  <2> DEFINE row == [turns[u] EXCEPT !.answer = partial]
  <2>1. turns' = [turns EXCEPT ![u] = row]
    BY <1>3 DEF CancelTurn
  <2>2. CASE t # u
    <3>1. turns'[t] = turns[t]
      BY <2>1, <2>2 DEF LedgerInv, TypeOK
    <3>2. QED
      BY <3>1 DEF Stands
  <2>3. CASE t = u
    <3>1. turns'[t] = [turns[t] EXCEPT !.answer = partial]
      BY <2>1, <2>3 DEF LedgerInv, TypeOK
    <3>2. turns'[t].answer = partial
      BY <1>1, <3>1 DEF TurnRow
    <3>3. QED
      BY <1>3, <2>3, <3>1, <3>2 DEF Stands
  <2>4. QED
    BY <2>2, <2>3
<1>4. QED
  BY <1>2, <1>3 DEF CancelTurn

(* All actions together.                                                      *)
LEMMA NextStands ==
  ASSUME LedgerInv, Next, NEW t \in Turns, Terminal(t)
  PROVE  Stands(t)
<1> USE SweepSparesTerminal
<1>1. CASE turns' = turns
  BY <1>1 DEF Stands
<1>2. CASE turns' = Swept(turns)
  BY <1>2 DEF Stands
<1>3. ASSUME NEW done \in SUBSET Expired(turns), CrashInSweep(done) PROVE Stands(t)
  BY <1>3 DEF CrashInSweep, Stands
<1>4. ASSUME NEW u \in Turns, NEW w \in Windows, NEW request \in Requests,
             NEW source \in Turns \union {None}, NEW aborted \in BOOLEAN,
             BeginTurn(u, w, request, source, aborted)
      PROVE  Stands(t)
  BY <1>4, BeginStands DEF BeginTurn, Accepts
<1>5. ASSUME NEW u \in Turns, NEW c \in Conversations, NEW context \in Contexts,
             NEW request \in Requests, NEW aborted \in BOOLEAN,
             BeginInNewConversation(u, c, context, request, aborted)
      PROVE  Stands(t)
  BY <1>5, BeginStands DEF BeginInNewConversation
<1>6. ASSUME NEW u \in Turns, ClaimTurn(u) \/ TurnExpires(u) PROVE Stands(t)
  <2>1. ~Terminal(u) /\ \E row : turns' = [turns EXCEPT ![u] = row]
    BY <1>6 DEF ClaimTurn, TurnExpires, Terminal
  <2>2. QED
    BY <2>1, OtherRowStands
<1>7. ASSUME NEW u \in Turns, NEW answer \in Answers, CompleteTurn(u, answer) PROVE Stands(t)
  <2>1. ~Terminal(u) /\ \E row : turns' = [turns EXCEPT ![u] = row]
    BY <1>7 DEF CompleteTurn, Terminal
  <2>2. QED
    BY <2>1, OtherRowStands
<1>8. ASSUME NEW u \in Turns, NEW partial \in Answers \union {None}, FailTurn(u, partial)
      PROVE  Stands(t)
  <2>1. ~Terminal(u) /\ \E row : turns' = [turns EXCEPT ![u] = row]
    BY <1>8 DEF FailTurn, Terminal
  <2>2. QED
    BY <2>1, OtherRowStands
<1>9. QED
  BY <1>1, <1>2, <1>3, <1>4, <1>5, <1>6, <1>7, <1>8, CancelStands, DeleteStands
     DEF Next, SweepExpired, ExecutionEnds, ImportConversation, LoadConversation,
         RebindWhenIdle, DeleteProjectWhenIdle, ContextDrifts, Restart

(* A receipt, once terminal, is never rewritten: not by a late answer, a Stop, *)
(* a failure or the sweep. A cancelled one without text takes one partial.     *)
THEOREM ReceiptsStandHolds == Spec => ReceiptsStand
<1>1. LedgerInv /\ [Next]_vars =>
        [\A t \in Turns : Terminal(t) => Stands(t)]_vars
  BY NextStands
<1>2. QED
  BY <1>1, LedgerInvHolds, PTL DEF Spec, ReceiptsStand, Terminal, Stands

-----------------------------------------------------------------------------
(* The refinement, one conversation at a time, in the terms of the ledger.    *)
Phase(c) == IF conversations[c].state = "deleted" THEN "closed" ELSE conversations[c].state

Log(c) == [i \in DOMAIN conversations[c].messages |-> conversations[c].messages[i].turn]

Open(c) == IF PendingIn(turns, c) = {} THEN None ELSE CHOOSE t \in PendingIn(turns, c) : TRUE

Asked(c) == TurnsOf(turns, c)

Moves(c) ==
  \/ Promise!Appear(c) \/ Promise!AskOrWithdraw(c) \/ Promise!Answer(c)
  \/ Promise!Close(c) \/ Promise!Idle(c)

(* The five steps of ChatHistory in these terms.                              *)
LEMMA IdleMeans ==
  ASSUME NEW c \in Conversations,
         Phase(c)' = Phase(c), Log(c)' = Log(c), Open(c)' = Open(c), Asked(c)' = Asked(c)
  PROVE  Moves(c)
BY DEF Moves, Promise!Idle, Phase, Log, Open, Asked

LEMMA AskOrWithdrawMeans ==
  ASSUME NEW c \in Conversations, Phase(c) = "live", Phase(c)' = "live", Log(c)' = Log(c),
         \/ Open(c)' = None /\ Asked(c) \subseteq Asked(c)'
         \/ Open(c)' \in Turns \ Asked(c) /\ Asked(c)' = Asked(c) \union {Open(c)'}
  PROVE  Moves(c)
BY DEF Moves, Promise!AskOrWithdraw, Phase, Log, Open, Asked

LEMMA AppearMeans ==
  ASSUME NEW c \in Conversations, Phase(c) = "absent", Phase(c)' = "live",
         \A i \in DOMAIN Log(c)' : Log(c)'[i] = None,
         Asked(c)' \subseteq Turns, Open(c)' \in Asked(c)' \union {None}
  PROVE  Moves(c)
BY DEF Moves, Promise!Appear, Phase, Log, Open, Asked

LEMMA AnswerMeans ==
  ASSUME NEW c \in Conversations, Phase(c) = "live", Phase(c)' = "live", Open(c) # None,
         Log(c)' = Log(c) \o <<Open(c), Open(c)>>, Open(c)' = None, Asked(c)' = Asked(c)
  PROVE  Moves(c)
BY DEF Moves, Promise!Answer, Phase, Log, Open, Asked

LEMMA CloseMeans ==
  ASSUME NEW c \in Conversations, Phase(c) = "live", Phase(c)' = "closed", Open(c)' = None
  PROVE  Moves(c)
BY DEF Moves, Promise!Close, Phase, Log, Open, Asked

(* What a step does to a conversation it is not about: it may end the open    *)
(* turn, and no more.                                                         *)
Keeps(c) ==
  /\ conversations'[c].state = conversations[c].state
  /\ conversations'[c].messages = conversations[c].messages
  /\ \A t \in Turns :
       /\ turns'[t].conversation = c <=> turns[t].conversation = c
       /\ turns'[t].conversation = c /\ turns'[t].status = "pending"
            => turns[t].status = "pending"

(* No question is open where no conversation is live.                         *)
LEMMA OnlyLiveIsAsked ==
  ASSUME LedgerInv, NEW c \in Conversations, ~Live(c)
  PROVE  TurnsOf(turns, c) = {} /\ PendingIn(turns, c) = {}
<1>1. ASSUME NEW t \in Turns, turns[t].conversation = c PROVE FALSE
  <2>1. turns[t].status = "absent"
    BY <1>1 DEF LedgerInv, RowsHaveHomes
  <2>2. turns[t].conversation = None
    BY <2>1 DEF LedgerInv, RowsHaveHomes, NoTurn
  <2>3. QED
    BY <1>1, <2>2, LedgerAssumption DEF LedgerAssumption
<1>2. QED
  BY <1>1 DEF TurnsOf, PendingIn

(* The open turn of a conversation is the one that is pending in it.          *)
LEMMA OpenIsPending ==
  ASSUME LedgerInv, NEW c \in Conversations, NEW t \in PendingIn(turns, c)
  PROVE  PendingIn(turns, c) = {t} /\ Open(c) = t
<1>1. ASSUME NEW u \in PendingIn(turns, c) PROVE u = t
  BY <1>1 DEF LedgerInv, OnePending, PendingIn, TurnsOf
<1>2. QED
  BY <1>1 DEF Open

LEMMA KeepsMoves ==
  ASSUME LedgerInv, NEW c \in Conversations, Keeps(c)
  PROVE  Moves(c)
<1>1. Phase(c)' = Phase(c) /\ Log(c)' = Log(c)
  BY DEF Keeps, Phase, Log
<1>2. Asked(c)' = Asked(c)
  BY DEF Keeps, Asked, TurnsOf
<1>3. PendingIn(turns', c) \subseteq PendingIn(turns, c)
  BY DEF Keeps, PendingIn, TurnsOf
<1>4. CASE PendingIn(turns', c) = PendingIn(turns, c)
  <2>1. Open(c)' = Open(c)
    BY <1>4 DEF Open
  <2>2. QED
    BY <1>1, <1>2, <2>1, IdleMeans
<1>5. CASE PendingIn(turns', c) # PendingIn(turns, c)
  <2>1. PICK t \in PendingIn(turns, c) : t \notin PendingIn(turns', c)
    BY <1>3, <1>5
  <2>2. PendingIn(turns, c) = {t}
    BY OpenIsPending
  <2>3. Open(c)' = None
    BY <1>3, <2>1, <2>2 DEF Open
  <2>4. Phase(c) = "live"
    BY <2>1, OnlyLiveIsAsked DEF Phase, Live
  <2>5. QED
    BY <1>1, <1>2, <2>3, <2>4, AskOrWithdrawMeans
<1>6. QED
  BY <1>4, <1>5

(* The sweep touches no conversation and keeps every row in its place.        *)
LEMMA SweptKeeps ==
  ASSUME LedgerInv, NEW c \in Conversations,
         conversations'[c].state = conversations[c].state,
         conversations'[c].messages = conversations[c].messages,
         \A t \in Turns : turns[t].conversation = c \/ turns'[t].conversation = c
                            => turns'[t] \in {turns[t], Swept(turns)[t]}
  PROVE  Keeps(c)
BY SweptRows DEF Keeps, LedgerInv

(* A write to one row that does not move it or open it again.                 *)
LEMMA RowKeeps ==
  ASSUME LedgerInv, NEW c \in Conversations, NEW t \in Turns, NEW row,
         conversations'[c].state = conversations[c].state,
         conversations'[c].messages = conversations[c].messages,
         turns' = [turns EXCEPT ![t] = row],
         turns[t].conversation = c \/ row.conversation = c =>
           /\ row.conversation = turns[t].conversation
           /\ row.status = "pending" => turns[t].status = "pending"
  PROVE  Keeps(c)
<1>1. ASSUME NEW u \in Turns PROVE turns'[u] = IF u = t THEN row ELSE turns[u]
  BY DEF LedgerInv, TypeOK
<1>2. QED
  BY <1>1 DEF Keeps

(* A question is asked in the conversation of the copy; the sweep may end     *)
(* others elsewhere.                                                          *)
LEMMA BeginTurnMoves ==
  ASSUME LedgerInv, LedgerInv', NEW t \in Turns, NEW w \in Windows, NEW request \in Requests,
         NEW source \in Turns \union {None}, NEW aborted \in BOOLEAN,
         BeginTurn(t, w, request, source, aborted), NEW c \in Conversations
  PROVE  Moves(c)
<1> DEFINE target == copies[w].conversation
           swept == Swept(turns)
<1>1. conversations' = conversations
  BY DEF BeginTurn
<1>2. CASE ~Accepts(swept, t, copies[w], source)
  BY <1>1, <1>2, SweptKeeps, KeepsMoves DEF BeginTurn
<1>3. CASE Accepts(swept, t, copies[w], source)
  <2>1. PICK n \in SequenceNumbers :
          turns' = [swept EXCEPT ![t] =
            NewRow(target, n, request, conversations[target].context,
                   Len(conversations[target].messages), aborted)]
    BY <1>3 DEF BeginTurn
  <2>2. ASSUME NEW u \in Turns
        PROVE  turns'[u] = IF u = t
                           THEN NewRow(target, n, request, conversations[target].context,
                                       Len(conversations[target].messages), aborted)
                           ELSE swept[u]
    BY <2>1 DEF Swept
  <2>3. turns[t].status = "absent" /\ turns[t].conversation = None
    BY <1>3, SweptRows DEF Accepts, LedgerInv, RowsHaveHomes, NoTurn
  <2>4. turns'[t].conversation = target
    BY <2>2 DEF NewRow
  <2>5. CASE c # target
    <3>1. \A u \in Turns : turns[u].conversation = c \/ turns'[u].conversation = c
                             => turns'[u] \in {turns[u], swept[u]}
      BY <2>2, <2>3, <2>4, <2>5, LedgerAssumption DEF LedgerAssumption
    <3>2. QED
      BY <1>1, <3>1, SweptKeeps, KeepsMoves
  <2>6. CASE c = target
    <3>1. Phase(c) = "live" /\ Phase(c)' = "live" /\ Log(c)' = Log(c)
      BY <1>1, <1>3, <2>6 DEF Accepts, CopyIsCurrent, Phase, Log
    <3>2. t \notin Asked(c)
      BY <2>3, LedgerAssumption DEF Asked, TurnsOf, LedgerAssumption
    <3>3. Asked(c)' = Asked(c) \union {t}
      BY <2>2, <2>4, <2>6, SweptRows DEF Asked, TurnsOf, LedgerInv
    <3>4. \A u \in PendingIn(turns', c) : u = t
      BY <1>3, <2>2, <2>6 DEF Accepts, PendingIn, TurnsOf
    <3>5. Open(c)' \in {None, t}
      BY <3>4 DEF Open
    <3>6. QED
      BY <3>1, <3>2, <3>3, <3>5, AskOrWithdrawMeans
  <2>7. QED
    BY <2>5, <2>6
<1>4. QED
  BY <1>2, <1>3

(* A conversation appears with its first question.                            *)
LEMMA BeginInNewConversationMoves ==
  ASSUME LedgerInv, LedgerInv', NEW t \in Turns, NEW d \in Conversations, NEW context \in Contexts,
         NEW request \in Requests, NEW aborted \in BOOLEAN,
         BeginInNewConversation(t, d, context, request, aborted), NEW c \in Conversations
  PROVE  Moves(c)
<1> DEFINE swept == Swept(turns)
           row == NewRow(d, 1, request, context, 0, aborted)
<1>1. ASSUME NEW u \in Turns PROVE turns'[u] = IF u = t THEN row ELSE swept[u]
  BY DEF BeginInNewConversation, Swept
<1>2. turns[t].status = "absent" /\ turns[t].conversation = None /\ row.conversation = d
  BY SweptRows DEF BeginInNewConversation, LedgerInv, RowsHaveHomes, NoTurn, NewRow
<1>3. CASE c # d
  <2>1. conversations'[c] = conversations[c]
    BY <1>3 DEF BeginInNewConversation, LedgerInv, TypeOK
  <2>2. \A u \in Turns : turns[u].conversation = c \/ turns'[u].conversation = c
                           => turns'[u] \in {turns[u], swept[u]}
    BY <1>1, <1>2, <1>3, LedgerAssumption DEF LedgerAssumption
  <2>3. QED
    BY <2>1, <2>2, SweptKeeps, KeepsMoves
<1>4. CASE c = d
  <2>1. /\ conversations[c].state = "absent"
        /\ conversations'[c] = [state |-> "live", context |-> context, messages |-> <<>>]
    BY <1>4 DEF BeginInNewConversation, LedgerInv, TypeOK
  <2>2. Phase(c) = "absent" /\ Phase(c)' = "live" /\ DOMAIN Log(c)' = {}
    BY <2>1 DEF Phase, Log
  <2>3. TurnsOf(turns, c) = {}
    BY <2>1, OnlyLiveIsAsked DEF Live
  <2>4. Asked(c)' = {t}
    BY <1>1, <1>2, <1>4, <2>3, SweptRows DEF Asked, TurnsOf, LedgerInv
  <2>5. Open(c)' \in {None, t}
    <3>1. PendingIn(turns', c) \subseteq {t}
      BY <2>4 DEF Asked, PendingIn
    <3>2. QED
      BY <3>1 DEF Open
  <2>6. QED
    BY <2>2, <2>4, <2>5, AppearMeans
<1>5. QED
  BY <1>3, <1>4

(* A sequence two longer than another that agrees with it and then repeats x. *)
LEMMA TwoMore ==
  ASSUME NEW S, NEW x \in S, NEW old \in Seq(S), NEW new \in Seq(S),
         Len(new) = Len(old) + 2,
         \A i \in 1..Len(old) : new[i] = old[i],
         new[Len(old) + 1] = x, new[Len(old) + 2] = x
  PROVE  new = old \o <<x, x>>
<1> DEFINE pair == <<x, x>>
<1>1. pair \in Seq(S) /\ Len(pair) = 2 /\ pair[1] = x /\ pair[2] = x
  OBVIOUS
<1>len. Len(old) \in Nat
  OBVIOUS
<1> HIDE DEF pair
<1>both. /\ old \o pair \in Seq(S)
         /\ Len(old \o pair) = Len(old) + Len(pair)
         /\ \A i \in 1..(Len(old) + Len(pair)) :
              (old \o pair)[i] = IF i <= Len(old) THEN old[i] ELSE pair[i - Len(old)]
  BY <1>1, ConcatProperties
<1>2. /\ old \o pair \in Seq(S)
      /\ Len(old \o pair) = Len(old) + 2
      /\ \A i \in 1..(Len(old) + 2) :
           (old \o pair)[i] = IF i <= Len(old) THEN old[i] ELSE pair[i - Len(old)]
  BY <1>1, <1>both
<1>3. ASSUME NEW i \in 1..Len(new) PROVE new[i] = (old \o pair)[i]
  <2>1. i \in 1..Len(old) \/ i = Len(old) + 1 \/ i = Len(old) + 2
    BY <1>len, <1>3
  <2>2. CASE i \in 1..Len(old)
    BY <1>len, <1>2, <2>2
  <2>3. CASE i = Len(old) + 1
    BY <1>1, <1>len, <1>2, <2>3
  <2>4. CASE i = Len(old) + 2
    BY <1>1, <1>len, <1>2, <2>4
  <2>5. QED
    BY <2>1, <2>2, <2>3, <2>4
<1>4. new = old \o pair
  BY <1>2, <1>3, SeqEqual
<1>5. QED
  BY <1>4 DEF pair

(* The askers of a history are a sequence of its length.                      *)
LEMMA AskersAreASequence ==
  ASSUME NEW h \in Seq(Message)
  PROVE  /\ [i \in DOMAIN h |-> h[i].turn] \in Seq(Turns \union {None})
         /\ Len([i \in DOMAIN h |-> h[i].turn]) = Len(h)
         /\ \A i \in 1..Len(h) : [j \in DOMAIN h |-> h[j].turn][i] = h[i].turn
<1>1. DOMAIN h = 1..Len(h) /\ Len(h) \in Nat
  OBVIOUS
<1>2. ASSUME NEW i \in 1..Len(h) PROVE h[i].turn \in Turns \union {None}
  <2>1. h[i] \in Message
    BY <1>1
  <2>2. QED
    BY <2>1 DEF Message
<1> DEFINE askers == [i \in DOMAIN h |-> h[i].turn]
<1>3. askers = [i \in 1..Len(h) |-> h[i].turn]
  BY <1>1
<1>4. askers \in [1..Len(h) -> Turns \union {None}]
  BY <1>2, <1>3
<1>5. askers \in Seq(Turns \union {None}) /\ DOMAIN askers = 1..Len(h)
  BY <1>1, <1>4
<1>6. Len(askers) = Len(h)
  BY <1>1, <1>5
<1>7. QED
  BY <1>3, <1>5, <1>6

(* The pair of the open question and its answer is appended.                  *)
LEMMA CompleteTurnMoves ==
  ASSUME LedgerInv, LedgerInv', NEW t \in Turns, NEW answer \in Answers,
         CompleteTurn(t, answer), NEW c \in Conversations
  PROVE  Moves(c)
<1> DEFINE d == turns[t].conversation
           history == conversations[d].messages
           row == Ended(turns[t], "completed", answer)
<1>1. turns[t] \in TurnRow /\ turns[t].status = "pending"
  BY DEF CompleteTurn, LedgerInv, TypeOK
<1>2. d \in Conversations /\ Live(d) /\ turns[t].request \in Requests \union {None}
  BY <1>1 DEF LedgerInv, RowsHaveHomes, TurnRow
<1>3. row.conversation = d /\ row.status = "completed"
  BY <1>1 DEF Ended, TurnRow
<1>4. turns' = [turns EXCEPT ![t] = row]
  BY DEF CompleteTurn
<1>5. CASE c # d
  <2>1. conversations'[c] = conversations[c]
    BY <1>2, <1>5 DEF CompleteTurn, LedgerInv, TypeOK
  <2>2. QED
    BY <1>3, <1>4, <1>5, <2>1, RowKeeps, KeepsMoves
<1>6. CASE c = d
  <2> DEFINE question == [turn |-> t, text |-> turns[t].request]
             reply == [turn |-> t, text |-> answer]
             longer == Append(Append(history, question), reply)
  <2>1. conversations[d] \in ConversationRow /\ history \in Seq(Message)
    BY <1>2 DEF LedgerInv, TypeOK, ConversationRow
  <2>2. question \in Message /\ reply \in Message
    BY <1>2 DEF Message
  <2>3. conversations'[c].messages = longer /\ conversations'[c].state = conversations[c].state
    BY <1>2, <1>6, <2>1 DEF CompleteTurn, LedgerInv, TypeOK, ConversationRow
  <2>4. /\ longer \in Seq(Message)
        /\ Len(longer) = Len(history) + 2
        /\ \A i \in 1..Len(history) : longer[i] = history[i]
        /\ longer[Len(history) + 1] = question
        /\ longer[Len(history) + 2] = reply
    <3> HIDE DEF history, question, reply
    <3>1. QED
      BY <2>1, <2>2, TwoAppended
  <2>5. t \in PendingIn(turns, c)
    BY <1>1, <1>6 DEF PendingIn, TurnsOf
  <2>6. PendingIn(turns, c) = {t} /\ Open(c) = t
    BY <2>5, OpenIsPending
  <2>7. \A u \in Turns : turns'[u] = IF u = t THEN row ELSE turns[u]
    BY <1>4 DEF LedgerInv, TypeOK
  <2>8. PendingIn(turns', c) = {} /\ Open(c)' = None
    BY <1>3, <2>6, <2>7 DEF PendingIn, TurnsOf, Open
  <2>9. Asked(c)' = Asked(c)
    BY <1>3, <1>6, <2>7 DEF Asked, TurnsOf
  <2>10. Log(c)' = Log(c) \o <<Open(c), Open(c)>>
    <3> DEFINE old == [i \in DOMAIN history |-> history[i].turn]
               new == [i \in DOMAIN longer |-> longer[i].turn]
    <3>1. Log(c) = old /\ Log(c)' = new
      BY <1>6, <2>3 DEF Log
    <3>2. /\ old \in Seq(Turns \union {None}) /\ Len(old) = Len(history)
          /\ \A i \in 1..Len(history) : old[i] = history[i].turn
      BY <2>1, AskersAreASequence
    <3>3. /\ new \in Seq(Turns \union {None}) /\ Len(new) = Len(longer)
          /\ \A i \in 1..Len(longer) : new[i] = longer[i].turn
      BY <2>4, AskersAreASequence
    <3>4. Len(history) \in Nat
      BY <2>1
    <3> HIDE DEF old, new, longer
    <3>5. /\ Len(new) = Len(old) + 2
          /\ \A i \in 1..Len(old) : new[i] = old[i]
          /\ new[Len(old) + 1] = t /\ new[Len(old) + 2] = t
      <4>1. question.turn = t /\ reply.turn = t
        OBVIOUS
      <4> HIDE DEF history, question, reply
      <4>2. \A i \in 1..Len(old) : new[i] = old[i]
        BY <2>4, <3>2, <3>3, <3>4
      <4>3. QED
        BY <2>4, <3>2, <3>3, <3>4, <4>1, <4>2
    <3>6. new = old \o <<t, t>>
      BY <3>2, <3>3, <3>5, TwoMore
    <3>7. QED
      BY <2>6, <3>1, <3>6
  <2>11. Phase(c) = "live" /\ Phase(c)' = "live"
    BY <1>2, <1>6, <2>3 DEF Phase, Live
  <2>12. Open(c) # None
    BY <2>6, LedgerAssumption DEF LedgerAssumption
  <2>13. QED
    BY <2>8, <2>9, <2>10, <2>11, <2>12, AnswerMeans
<1>7. QED
  BY <1>5, <1>6

(* A conversation appears with a transcript nobody in it asked for.           *)
LEMMA ImportConversationMoves ==
  ASSUME LedgerInv, NEW d \in Conversations, NEW context \in Contexts,
         NEW count \in 0..MaxImported, ImportConversation(d, context, count),
         NEW c \in Conversations
  PROVE  Moves(c)
<1>1. CASE c # d
  <2>1. conversations'[c] = conversations[c] /\ turns' = turns
    BY <1>1 DEF ImportConversation, LedgerInv, TypeOK
  <2>2. QED
    BY <2>1, KeepsMoves DEF Keeps
<1>2. CASE c = d
  <2> DEFINE transcript == [i \in 1..count |-> Imported]
  <2>1. /\ conversations[c].state = "absent" /\ turns' = turns
        /\ conversations'[c] = [state |-> "live", context |-> context, messages |-> transcript]
    BY <1>2 DEF ImportConversation, LedgerInv, TypeOK
  <2>2. Phase(c) = "absent" /\ Phase(c)' = "live"
    BY <2>1 DEF Phase
  <2>3. \A i \in DOMAIN Log(c)' : Log(c)'[i] = None
    BY <2>1 DEF Log, Imported
  <2>4. Asked(c)' = {} /\ Open(c)' = None
    BY <2>1, OnlyLiveIsAsked DEF Live, Asked, Open
  <2>5. QED
    BY <2>2, <2>3, <2>4, AppearMeans
<1>3. QED
  BY <1>1, <1>2

(* A conversation is closed, and its rows go with it.                         *)
LEMMA DeleteWhenIdleMoves ==
  ASSUME LedgerInv, LedgerInv', NEW d \in Conversations, DeleteWhenIdle(d),
         NEW c \in Conversations
  PROVE  Moves(c)
<1> DEFINE swept == Swept(turns)
<1>1. CASE PendingIn(swept, d) # {}
  BY <1>1, SweptKeeps, KeepsMoves DEF DeleteWhenIdle
<1>2. CASE PendingIn(swept, d) = {} /\ c # d
  <2>1. conversations'[c] = conversations[c]
    BY <1>2 DEF DeleteWhenIdle, LedgerInv, TypeOK
  <2>2. ASSUME NEW t \in Turns
        PROVE  turns'[t] = IF turns[t].conversation = d THEN NoTurn ELSE swept[t]
    BY <1>2, SweptRows DEF DeleteWhenIdle, LedgerInv
  <2>3. \A t \in Turns : turns[t].conversation = c \/ turns'[t].conversation = c
                           => turns'[t] \in {turns[t], swept[t]}
    BY <1>2, <2>2, LedgerAssumption DEF NoTurn, LedgerAssumption
  <2>4. QED
    BY <2>1, <2>3, SweptKeeps, KeepsMoves
<1>3. CASE PendingIn(swept, d) = {} /\ c = d
  <2>1. Live(c) /\ conversations'[c].state = "deleted"
    BY <1>3 DEF DeleteWhenIdle, LedgerInv, TypeOK
  <2>2. Phase(c) = "live" /\ Phase(c)' = "closed"
    BY <2>1 DEF Phase, Live
  <2>3. \A t \in Turns : turns'[t].conversation # c
    BY <1>3, SweptRows, LedgerAssumption DEF DeleteWhenIdle, NoTurn, LedgerInv, LedgerAssumption
  <2>4. Open(c)' = None
    BY <2>3 DEF Open, PendingIn, TurnsOf
  <2>5. QED
    BY <2>2, <2>4, CloseMeans
<1>4. QED
  BY <1>1, <1>2, <1>3

(* Steps that write one row of a conversation and leave all histories alone.  *)
LEMMA RowMoves ==
  ASSUME LedgerInv, NEW t \in Turns, NEW partial \in Answers \union {None},
         ClaimTurn(t) \/ TurnExpires(t) \/ CancelTurn(t, partial) \/ FailTurn(t, partial),
         NEW c \in Conversations
  PROVE  Moves(c)
<1>1. turns[t] \in TurnRow /\ conversations' = conversations
  BY DEF ClaimTurn, TurnExpires, CancelTurn, FailTurn, LedgerInv, TypeOK
<1>2. PICK row : /\ turns' = [turns EXCEPT ![t] = row]
                 /\ row.conversation = turns[t].conversation
                 /\ row.status = "pending" => turns[t].status = "pending"
  <2>1. CASE ClaimTurn(t)
    BY <1>1, <2>1 DEF ClaimTurn, Claimed, TurnRow
  <2>2. CASE TurnExpires(t)
    <3>1. turns' = [turns EXCEPT ![t] = [turns[t] EXCEPT !.stale = TRUE]]
      BY <2>2 DEF TurnExpires
    <3>2. [turns[t] EXCEPT !.stale = TRUE].conversation = turns[t].conversation
      BY <1>1 DEF TurnRow
    <3>3. QED
      BY <2>2, <3>1, <3>2 DEF TurnExpires
  <2>3. CASE CancelTurn(t, partial) /\ turns[t].status = "pending"
    <3>1. turns' = [turns EXCEPT ![t] = Ended(turns[t], "cancelled", partial)]
      BY <2>3 DEF CancelTurn
    <3>2. Ended(turns[t], "cancelled", partial).conversation = turns[t].conversation
      BY <1>1 DEF Ended, TurnRow
    <3>3. QED
      BY <2>3, <3>1, <3>2
  <2>4. CASE CancelTurn(t, partial) /\ turns[t].status # "pending"
    <3> DEFINE row == [turns[t] EXCEPT !.answer = partial]
    <3>1. turns' = [turns EXCEPT ![t] = row]
      BY <2>4 DEF CancelTurn
    <3>2. row.conversation = turns[t].conversation /\ row.status = turns[t].status
      BY <1>1 DEF TurnRow
    <3>3. QED
      BY <3>1, <3>2
  <2>5. CASE FailTurn(t, partial)
    <3>1. turns' = [turns EXCEPT ![t] = Ended(turns[t], "failed", partial)]
      BY <2>5 DEF FailTurn
    <3>2. Ended(turns[t], "failed", partial).conversation = turns[t].conversation
      BY <1>1 DEF Ended, TurnRow
    <3>3. QED
      BY <2>5, <3>1, <3>2 DEF FailTurn
  <2>6. QED
    BY <2>1, <2>2, <2>3, <2>4, <2>5
<1>3. Keeps(c)
  BY <1>1, <1>2, RowKeeps
<1>4. QED
  BY <1>3, KeepsMoves

(* Steps that change no message and no row but by the sweep.                  *)
LEMMA QuietMoves ==
  ASSUME LedgerInv, NEW c \in Conversations, QuietHistories,
         \A t \in Turns : turns'[t] \in {turns[t], Swept(turns)[t]}
  PROVE  Moves(c)
BY SweptKeeps, KeepsMoves DEF QuietHistories

(* A change of what a conversation is bound to is no step of its history.     *)
LEMMA RebindMoves ==
  ASSUME LedgerInv, NEW w \in Windows, NEW context \in Contexts, RebindWhenIdle(w, context),
         NEW c \in Conversations
  PROVE  Moves(c)
<1>1. copies[w].conversation \in Conversations
  BY DEF RebindWhenIdle, LedgerInv, TypeOK, Snapshot
<1>2. QuietHistories
  <2>1. \/ conversations' = conversations
        \/ conversations' = [conversations EXCEPT ![copies[w].conversation].context = context]
    BY DEF RebindWhenIdle
  <2>2. CASE conversations' = conversations
    BY <2>2 DEF QuietHistories
  <2>3. CASE conversations' = [conversations EXCEPT ![copies[w].conversation].context = context]
    BY <1>1, <2>3, NewContext DEF LedgerInv
  <2>4. QED
    BY <2>1, <2>2, <2>3
<1>3. QED
  BY <1>2, QuietMoves DEF RebindWhenIdle

(* Nor is that of all conversations of a project.                             *)
LEMMA DeleteProjectMoves ==
  ASSUME LedgerInv, NEW context \in Contexts, DeleteProjectWhenIdle(context),
         NEW c \in Conversations
  PROVE  Moves(c)
<1>1. ASSUME NEW d \in Conversations
      PROVE  /\ [conversations[d] EXCEPT !.context = None].state = conversations[d].state
             /\ [conversations[d] EXCEPT !.context = None].messages = conversations[d].messages
  <2>1. conversations[d] \in ConversationRow
    BY DEF LedgerInv, TypeOK
  <2>2. QED
    BY <2>1 DEF ConversationRow
<1>2. QuietHistories
  BY <1>1 DEF DeleteProjectWhenIdle, QuietHistories
<1>3. QED
  BY <1>2, QuietMoves DEF DeleteProjectWhenIdle

(* All actions together.                                                      *)
LEMMA NextMoves ==
  ASSUME LedgerInv, LedgerInv', Next, NEW c \in Conversations
  PROVE  Moves(c)
<1>1. CASE conversations' = conversations /\ \A t \in Turns : turns'[t] \in {turns[t], Swept(turns)[t]}
  BY <1>1, QuietMoves DEF QuietHistories
<1>2. ASSUME NEW done \in SUBSET Expired(turns), CrashInSweep(done) PROVE Moves(c)
  BY <1>1, <1>2 DEF CrashInSweep
<1>3. ASSUME NEW t \in Turns, ExecutionEnds(t) PROVE Moves(c)
  BY <1>1, <1>3 DEF ExecutionEnds
<1>4. ASSUME NEW d \in Conversations, NEW w \in Windows, LoadConversation(w, d) PROVE Moves(c)
  BY <1>1, <1>4 DEF LoadConversation
<1>5. ASSUME NEW d \in Conversations, NEW context \in Contexts, ContextDrifts(d, context)
      PROVE  Moves(c)
  BY <1>5, NewContext, QuietMoves DEF ContextDrifts, LedgerInv
<1>6. CASE SweepExpired \/ Restart
  BY <1>1, <1>6 DEF SweepExpired, Restart
<1>7. QED
  BY <1>2, <1>3, <1>4, <1>5, <1>6, BeginTurnMoves, BeginInNewConversationMoves, CompleteTurnMoves,
     ImportConversationMoves, DeleteWhenIdleMoves, RowMoves, RebindMoves, DeleteProjectMoves,
     LedgerAssumption
     DEF Next

(* Every step of the ledger is one of the abstraction, or leaves it alone.    *)
LEMMA RefinedStep ==
  ASSUME LedgerInv, LedgerInv', [Next]_vars
  PROVE  [Promise!Next]_(Promise!chatVars)
<1>1. CASE Next
  <2>1. \A c \in Conversations : Moves(c)
    BY <1>1, NextMoves
  <2>2. QED
    BY <2>1 DEF Moves, Promise!Next
<1>2. CASE UNCHANGED vars
  BY <1>2 DEF vars, Promise!chatVars, PendingIn, TurnsOf
<1>3. QED
  BY <1>1, <1>2

(* No conversation at the start, none in the abstraction.                     *)
LEMMA RefinedInit == Init => Promise!Init
<1> SUFFICES ASSUME Init PROVE Promise!Init
  OBVIOUS
<1>1. \A c \in Conversations : TurnsOf(turns, c) = {} /\ PendingIn(turns, c) = {}
  BY LedgerAssumption DEF Init, NoTurn, TurnsOf, PendingIn, LedgerAssumption
<1>2. ASSUME NEW c \in Conversations
      PROVE  [i \in DOMAIN conversations[c].messages |-> conversations[c].messages[i].turn] = <<>>
  BY DEF Init
<1>3. QED
  BY <1>1, <1>2 DEF Promise!Init, Init

(* The ledger is a chat history: whatever windows, executions and restarts do, *)
(* the log of a conversation grows only by its one open question and answer.  *)
THEOREM ImplementsChatHistoryHolds == Spec => ImplementsChatHistory
<1>1. LedgerInv /\ LedgerInv' /\ [Next]_vars => [Promise!Next]_(Promise!chatVars)
  BY RefinedStep
<1>2. QED
  BY <1>1, RefinedInit, LedgerInvHolds, PTL DEF Spec, ImplementsChatHistory, Promise!Spec
-----------------------------------------------------------------------------
(* What a call still has to write. Each name is a script or what is left of   *)
(* one, with the number of writes left.                                       *)
Clear1 == <<"clear">>
Publish2 == <<"registry-committed", "clear">>
Publish3 == <<"register", "registry-committed", "clear">>
Publish4 == <<"profile-root-restored", "register", "registry-committed", "clear">>
Publish5 == <<"publish", "profile-root-restored", "register", "registry-committed", "clear">>
Restore6 == <<"seal", "publish", "profile-root-restored", "register", "registry-committed", "clear">>
Restore7 == <<"stage", "seal", "publish", "profile-root-restored", "register",
              "registry-committed", "clear">>
Setup6 == <<"manifest", "publish", "profile-root-restored", "register", "registry-committed", "clear">>
Setup7 == <<"fill", "manifest", "publish", "profile-root-restored", "register",
            "registry-committed", "clear">>
Setup8 == <<"stage", "fill", "manifest", "publish", "profile-root-restored",
            "register", "registry-committed", "clear">>
Create2 == <<"onboard", "clear">>
Create3 == <<"registry-committed", "onboard", "clear">>
Create4 == <<"register", "registry-committed", "onboard", "clear">>
Create5 == <<"profile-root-created", "register", "registry-committed", "onboard", "clear">>
Create6 == <<"mkdir", "profile-root-created", "register", "registry-committed", "onboard", "clear">>
Delete2 == <<"purge", "clear">>
Delete3 == <<"registry-committed", "purge", "clear">>
Delete4 == <<"register", "registry-committed", "purge", "clear">>
Delete5 == <<"tombstone-moved", "register", "registry-committed", "purge", "clear">>
Delete6 == <<"bury", "tombstone-moved", "register", "registry-committed", "purge", "clear">>
Reset1 == <<"onboard">>
Reset2 == <<"clear", "onboard">>
Reset3 == <<"purge", "clear", "onboard">>
Reset4 == <<"registry-committed", "purge", "clear", "onboard">>
Reset5 == <<"register", "registry-committed", "purge", "clear", "onboard">>
Reset6 == <<"replacement-created", "register", "registry-committed", "purge", "clear", "onboard">>
Reset7 == <<"mkdir", "replacement-created", "register", "registry-committed", "purge",
            "clear", "onboard">>
Reset8 == <<"tombstone-moved", "mkdir", "replacement-created", "register",
            "registry-committed", "purge", "clear", "onboard">>
Reset9 == <<"bury", "tombstone-moved", "mkdir", "replacement-created",
            "register", "registry-committed", "purge", "clear", "onboard">>
Resume4 == <<"publish", "register", "registry-committed", "clear">>
DropStage2 == <<"remove-stage", "clear">>
DropRoot2 == <<"remove-root", "clear">>
Unbury2 == <<"unbury", "clear">>
Unbury3 == <<"remove-root", "unbury", "clear">>

(* The scripts of an operation, those of its Recovery among them.             *)
Staged == {Publish5, Publish4, Publish3, Publish2, Clear1, DropStage2}

Scripts(operation) ==
  CASE operation = "default-migration" -> Staged \union {Setup8, Setup7, Setup6, Resume4}
    [] operation = "restore" -> Staged \union {Restore7, Restore6, DropRoot2}
    [] operation = "create" -> {Create6, Create5, Create4, Create3, Create2, Clear1, DropRoot2}
    [] operation = "reset" -> {Reset9, Reset8, Reset7, Reset6, Reset5, Reset4, Reset3, Reset2,
                               Unbury3, Unbury2, Delete2, Clear1}
    [] operation = "delete" -> {Delete6, Delete5, Delete4, Delete3, Delete2, Unbury2, Clear1}

(* A profile no operation is under way for.                                   *)
Clean(p) == Missing(tomb[p]) /\ Missing(stage[p]) /\ (Missing(root[p]) <=> ~Registered(p))

Setup == journal.operation = "default-migration"
Cutover == journal.operation \in {"reset", "delete"}

(* The journal and the registry agree on whether the change was taken.        *)
JournalAgrees ==
  journal # NoJournal =>
    /\ journal.operation \in {"default-migration", "create", "restore", "reset", "delete"}
    /\ journal.id \in Ids
    /\ registry.generation = IF applied THEN journal.expected + 1 ELSE journal.expected
    /\ ~applied => registry.generation < MaxGeneration
    /\ IF Setup THEN journal.expected = 0 /\ journal.id = Default
                ELSE journal.expected # 0 /\ journal.id # registry.active
    /\ journal.operation = "reset" => Registered(journal.id) /\ journal.id \in Testing
    /\ journal.operation = "delete" => (Registered(journal.id) <=> ~applied) /\ journal.id # Default
    /\ ~Cutover => (Registered(journal.id) <=> applied)

(* What the trees of the journal's profile may be, wherever its call stopped. *)
Evidence ==
  journal # NoJournal =>
    LET p == journal.id IN
    /\ Registered(p) => ~Missing(root[p]) \/ (Cutover /\ ~Missing(tomb[p]) /\ ~applied)
    /\ ~Cutover => Missing(tomb[p])
    /\ Cutover \/ journal.operation = "create" => Missing(stage[p])
    /\ journal.operation = "create" /\ ~applied => root[p] \in {"none", "bare"}
    /\ journal.operation = "delete" /\ applied => Missing(root[p])

OthersClean == \A p \in Ids \ {journal.id} : Clean(p)

(* The content of a staging tree that is complete.                            *)
Whole == IF Setup THEN "filled" ELSE "sealed"

(* The running call is one of the journal's scripts; a reset still has its    *)
(* onboarding to write when the journal is cleared.                           *)
CallFollows ==
  \/ call = Idle
  \/ /\ journal = NoJournal /\ call.id \in Ids /\ call = [id |-> call.id, todo |-> Reset1]
     /\ root[call.id] = "bare"
  \/ /\ journal # NoJournal /\ call = [id |-> journal.id, todo |-> call.todo]
     /\ call.todo \in Scripts(journal.operation)

(* What is left to do once the registry has taken the change.                 *)
After == {Reset4, Reset3, Reset2, Delete3, Delete2, Publish2, Create3, Create2}

(* The trees are as the next write needs them.                                *)
ReadyFor(todo) ==
    LET p == journal.id IN
    /\ todo # Clear1 => (applied <=> todo \in After)
    /\ todo \in {Reset9, Delete6} => Missing(tomb[p]) /\ ~Missing(root[p])
    /\ todo \in {Reset8, Reset7, Delete5, Delete4, Unbury2} => ~Missing(tomb[p]) /\ Missing(root[p])
    /\ todo \in {Reset6, Reset5} => ~Missing(tomb[p]) /\ root[p] = "bare"
    /\ todo = Unbury3 => ~Missing(tomb[p])
    /\ todo = DropRoot2 => ~Missing(root[p])
    /\ todo \in {Reset4, Reset3, Reset2, Create5, Create4, Create3, Create2} => root[p] = "bare"
    /\ todo \in {Clear1, Reset2} => Clean(p)
    /\ todo \in {Create6, Setup8, Setup7, Setup6, Restore7, Restore6, Publish5, Resume4, DropStage2}
         => Missing(root[p])
    /\ todo \in {Setup6, Publish5, Resume4} => stage[p] = Whole
    /\ todo \in {Publish4, Publish3} => root[p] = Whole
    /\ todo \in {Publish4, Publish3, Publish2, DropRoot2} => Missing(stage[p])

Ready == journal # NoJournal /\ call # Idle => ReadyFor(call.todo)

WorkAlone == working # NoProfile => call = Idle /\ journal = NoJournal /\ working = registry.active

LifecycleIInv ==
  LifecycleTypeOK /\ JournalAgrees /\ OthersClean /\ Evidence /\ CallFollows /\ Ready /\ WorkAlone

-----------------------------------------------------------------------------
(* Names for the operators on sequences, which the proofs never expand.       *)
First(todo) == Head(todo)
Rest(todo) == Tail(todo)
Size(todo) == Len(todo)

LEMMA ScriptSteps ==
  /\ First(Clear1) = "clear" /\ Size(Clear1) = 1
  /\ First(Publish2) = "registry-committed" /\ Size(Publish2) = 2 /\ Rest(Publish2) = Clear1
  /\ First(Publish3) = "register" /\ Size(Publish3) = 3 /\ Rest(Publish3) = Publish2
  /\ First(Publish4) = "profile-root-restored" /\ Size(Publish4) = 4 /\ Rest(Publish4) = Publish3
  /\ First(Publish5) = "publish" /\ Size(Publish5) = 5 /\ Rest(Publish5) = Publish4
  /\ First(Restore6) = "seal" /\ Size(Restore6) = 6 /\ Rest(Restore6) = Publish5
  /\ First(Restore7) = "stage" /\ Size(Restore7) = 7 /\ Rest(Restore7) = Restore6
  /\ First(Setup6) = "manifest" /\ Size(Setup6) = 6 /\ Rest(Setup6) = Publish5
  /\ First(Setup7) = "fill" /\ Size(Setup7) = 7 /\ Rest(Setup7) = Setup6
  /\ First(Setup8) = "stage" /\ Size(Setup8) = 8 /\ Rest(Setup8) = Setup7
  /\ First(Create2) = "onboard" /\ Size(Create2) = 2 /\ Rest(Create2) = Clear1
  /\ First(Create3) = "registry-committed" /\ Size(Create3) = 3 /\ Rest(Create3) = Create2
  /\ First(Create4) = "register" /\ Size(Create4) = 4 /\ Rest(Create4) = Create3
  /\ First(Create5) = "profile-root-created" /\ Size(Create5) = 5 /\ Rest(Create5) = Create4
  /\ First(Create6) = "mkdir" /\ Size(Create6) = 6 /\ Rest(Create6) = Create5
  /\ First(Delete2) = "purge" /\ Size(Delete2) = 2 /\ Rest(Delete2) = Clear1
  /\ First(Delete3) = "registry-committed" /\ Size(Delete3) = 3 /\ Rest(Delete3) = Delete2
  /\ First(Delete4) = "register" /\ Size(Delete4) = 4 /\ Rest(Delete4) = Delete3
  /\ First(Delete5) = "tombstone-moved" /\ Size(Delete5) = 5 /\ Rest(Delete5) = Delete4
  /\ First(Delete6) = "bury" /\ Size(Delete6) = 6 /\ Rest(Delete6) = Delete5
  /\ First(Reset1) = "onboard" /\ Size(Reset1) = 1
  /\ First(Reset2) = "clear" /\ Size(Reset2) = 2 /\ Rest(Reset2) = Reset1
  /\ First(Reset3) = "purge" /\ Size(Reset3) = 3 /\ Rest(Reset3) = Reset2
  /\ First(Reset4) = "registry-committed" /\ Size(Reset4) = 4 /\ Rest(Reset4) = Reset3
  /\ First(Reset5) = "register" /\ Size(Reset5) = 5 /\ Rest(Reset5) = Reset4
  /\ First(Reset6) = "replacement-created" /\ Size(Reset6) = 6 /\ Rest(Reset6) = Reset5
  /\ First(Reset7) = "mkdir" /\ Size(Reset7) = 7 /\ Rest(Reset7) = Reset6
  /\ First(Reset8) = "tombstone-moved" /\ Size(Reset8) = 8 /\ Rest(Reset8) = Reset7
  /\ First(Reset9) = "bury" /\ Size(Reset9) = 9 /\ Rest(Reset9) = Reset8
  /\ First(Resume4) = "publish" /\ Size(Resume4) = 4 /\ Rest(Resume4) = Publish3
  /\ First(DropStage2) = "remove-stage" /\ Size(DropStage2) = 2 /\ Rest(DropStage2) = Clear1
  /\ First(DropRoot2) = "remove-root" /\ Size(DropRoot2) = 2 /\ Rest(DropRoot2) = Clear1
  /\ First(Unbury2) = "unbury" /\ Size(Unbury2) = 2 /\ Rest(Unbury2) = Clear1
  /\ First(Unbury3) = "remove-root" /\ Size(Unbury3) = 3 /\ Rest(Unbury3) = Unbury2
BY DEF First, Rest, Size, Clear1, Publish2, Publish3, Publish4, Publish5, Restore6, Restore7,
       Setup6, Setup7, Setup8, Create2, Create3, Create4, Create5, Create6, Delete2, Delete3,
       Delete4, Delete5, Delete6, Reset1, Reset2, Reset3, Reset4, Reset5, Reset6, Reset7, Reset8,
       Reset9, Resume4, DropStage2, DropRoot2, Unbury2, Unbury3

LEMMA ScriptsDiffer == Create4 # Delete4 /\ Create3 # Delete3 /\ Create4 # Reset1
BY DEF Create4, Delete4, Create3, Delete3, Reset1

LEMMA ScriptsAreShort ==
  ASSUME NEW operation \in {"default-migration", "create", "restore", "reset", "delete"},
         NEW todo \in Scripts(operation)
  PROVE  Size(todo) \in 1 .. 9 /\ todo # <<>> /\ todo # Reset1
<1>1. Size(<<>>) = 0
  BY DEF Size
<1>2. QED
  BY <1>1, ScriptSteps DEF Scripts, Staged

(* One write of a call leaves the rest of its script, or an idle server.      *)
LEMMA DoneLeavesRest ==
  ASSUME NEW p, NEW todo, call = [id |-> p, todo |-> todo], Done
  PROVE  /\ Size(todo) = 1 => call' = Idle
         /\ Size(todo) # 1 => call' = [id |-> p, todo |-> Rest(todo)]
BY DEF Done, Size, Rest

(* A call that has begun runs alone and knows its journal.                    *)
LEMMA RunningCall ==
  ASSUME LifecycleIInv, call # Idle, journal # NoJournal
  PROVE  /\ call = [id |-> journal.id, todo |-> call.todo] /\ call.id = journal.id
         /\ call.todo \in Scripts(journal.operation)
         /\ working = NoProfile
         /\ journal.id \in Ids
         /\ journal.operation \in {"default-migration", "create", "restore", "reset", "delete"}
<1>1. call = [id |-> journal.id, todo |-> call.todo] /\ call.todo \in Scripts(journal.operation)
  BY DEF LifecycleIInv, CallFollows
<1>2. call.id = journal.id
  BY <1>1
<1>3. QED
  BY <1>1, <1>2 DEF LifecycleIInv, JournalAgrees, WorkAlone

LEMMA NoTodoWhenIdle ==
  ASSUME NEW step, Todo(step)
  PROVE  call # Idle /\ First(call.todo) = step
BY DEF Todo, First, Idle

(* After the journal of a reset is cleared its call has one write left.       *)
LEMMA OnlyOnboardingWithoutJournal ==
  ASSUME LifecycleIInv, call # Idle, journal = NoJournal
  PROVE  call.id \in Ids /\ call = [id |-> call.id, todo |-> Reset1] /\ call.todo = Reset1
         /\ root[call.id] = "bare" /\ working = NoProfile
<1>1. call.id \in Ids /\ call = [id |-> call.id, todo |-> Reset1] /\ root[call.id] = "bare"
  BY DEF LifecycleIInv, CallFollows
<1>2. call.todo = Reset1
  BY <1>1
<1>3. QED
  BY <1>1, <1>2 DEF LifecycleIInv, WorkAlone

(* What a write to the trees of the journal's profile leaves as it was.       *)
WritesBeside ==
  /\ registry' = registry /\ applied' = applied /\ working' = working
  /\ journal'.operation = journal.operation /\ journal'.id = journal.id
  /\ journal'.expected = journal.expected
  /\ \A q \in Ids \ {journal.id} : root'[q] = root[q] /\ tomb'[q] = tomb[q] /\ stage'[q] = stage[q]

LEMMA WriteKeepsTheRest ==
  ASSUME LifecycleIInv, call # Idle, journal # NoJournal, WritesBeside
  PROVE  /\ JournalAgrees' /\ OthersClean' /\ WorkAlone' /\ journal' # NoJournal
         /\ Setup' = Setup /\ Cutover' = Cutover /\ Whole' = Whole
         /\ \A q \in Ids : Registered(q)' = Registered(q)
<1>1. journal.operation # "none" /\ working = NoProfile
  BY RunningCall DEF LifecycleIInv
<1>2. journal' # NoJournal
  BY <1>1 DEF WritesBeside, NoJournal
<1>3. /\ Setup' = Setup /\ Cutover' = Cutover /\ Whole' = Whole
      /\ \A q \in Ids : Registered(q)' = Registered(q)
  BY DEF WritesBeside, Setup, Cutover, Whole, Registered
<1>4. JournalAgrees'
  BY <1>3, RunningCall DEF WritesBeside, LifecycleIInv, JournalAgrees, Setup, Cutover, Registered
<1>5. OthersClean'
  BY <1>3 DEF WritesBeside, LifecycleIInv, OthersClean, Clean, Missing
<1>6. WorkAlone'
  BY <1>1 DEF WritesBeside, WorkAlone, LifecycleIInv, LifecycleTypeOK
<1>7. QED
  BY <1>2, <1>3, <1>4, <1>5, <1>6

JournalTyped ==
  journal \in [operation : {"none", "default-migration", "create", "restore", "reset", "delete"},
               phase : Phases \union {"none"}, id : Ids \union {NoProfile}, expected : 0..MaxGeneration]

TreesTyped == root \in [Ids -> Tree] /\ tomb \in [Ids -> Tree] /\ stage \in [Ids -> Tree]

LEMMA FollowingCallIsTyped ==
  ASSUME CallFollows, JournalAgrees
  PROVE  call.id \in Ids \union {NoProfile} /\ Len(call.todo) <= 9
<1>1. CASE call = Idle
  <2>1. call.id = NoProfile /\ call.todo = <<>>
    BY <1>1 DEF Idle
  <2>2. QED
    BY <2>1
<1>2. CASE journal = NoJournal /\ call.id \in Ids /\ call = [id |-> call.id, todo |-> Reset1]
  <2>1. call.todo = Reset1
    BY <1>2
  <2>2. QED
    BY <1>2, <2>1, ScriptSteps DEF Size
<1>3. CASE /\ journal # NoJournal /\ call = [id |-> journal.id, todo |-> call.todo]
           /\ call.todo \in Scripts(journal.operation)
  <2>1. journal.operation \in {"default-migration", "create", "restore", "reset", "delete"}
        /\ journal.id \in Ids
    BY <1>3 DEF JournalAgrees
  <2>2. call.id = journal.id
    BY <1>3
  <2>3. Size(call.todo) \in 1 .. 9
    BY <1>3, <2>1, ScriptsAreShort
  <2>4. Size(call.todo) <= 9
    BY <2>3
  <2>5. QED
    BY <2>1, <2>2, <2>4 DEF Size
<1>4. QED
  BY <1>1, <1>2, <1>3 DEF CallFollows

LEMMA StaysTyped ==
  ASSUME LifecycleTypeOK, registry' = registry, JournalTyped', TreesTyped', manifest' \in BOOLEAN,
         applied' = applied, working' \in Ids \union {NoProfile}, CallFollows', JournalAgrees'
  PROVE  LifecycleTypeOK'
<1>1. (call.id \in Ids \union {NoProfile} /\ Len(call.todo) <= 9)'
  BY FollowingCallIsTyped, PTL
<1>2. QED
  BY <1>1 DEF LifecycleTypeOK, JournalTyped, TreesTyped

LEMMA RestOfScript ==
  ASSUME NEW operation \in {"default-migration", "create", "restore", "reset", "delete"},
         NEW todo \in Scripts(operation), First(todo) # "clear"
  PROVE  Size(todo) # 1 /\ Rest(todo) \in Scripts(operation)
BY ScriptSteps DEF Scripts, Staged

LEMMA CallGoesOn ==
  ASSUME LifecycleIInv, call # Idle, journal # NoJournal, WritesBeside, Done,
         First(call.todo) # "clear"
  PROVE  /\ CallFollows'
         /\ call'.todo = Rest(call.todo) /\ call'.id = journal.id
<1>1. call' = [id |-> journal.id, todo |-> Rest(call.todo)] /\ Rest(call.todo) \in Scripts(journal.operation)
  BY RunningCall, RestOfScript, DoneLeavesRest
<1>2. journal' # NoJournal
  BY WriteKeepsTheRest
<1>3. QED
  BY <1>1, <1>2 DEF CallFollows, WritesBeside

LEMMA WriteKeeps ==
  ASSUME LifecycleIInv, call # Idle, journal # NoJournal, WritesBeside,
         JournalTyped', TreesTyped', manifest' \in BOOLEAN,
         Evidence', CallFollows', Ready'
  PROVE  LifecycleIInv'
<1>1. JournalAgrees' /\ OthersClean' /\ WorkAlone'
  BY WriteKeepsTheRest
<1>2. LifecycleTypeOK'
  BY <1>1, StaysTyped DEF LifecycleIInv, LifecycleTypeOK, WritesBeside
<1>3. QED
  BY <1>1, <1>2 DEF LifecycleIInv

(* What a user is shown of the profiles stays as it is.                       *)
ShowsTheSame == registry'.active = registry.active /\ \A q \in Ids : Visible(q)' = Visible(q)

(* The step of KeptUntilCommitted.                                            *)
KeepsTombs ==
  \A p \in Ids : Missing(tomb[p]) \/ tomb'[p] = tomb[p] \/ root'[p] = tomb[p] \/ applied

LEMMA BesideShowsTheSame ==
  ASSUME LifecycleIInv, call # Idle, journal # NoJournal, WritesBeside,
         \A q \in Ids : q = journal.id => Visible(q)' = Visible(q),
         \/ Missing(tomb[journal.id]) \/ tomb'[journal.id] = tomb[journal.id]
         \/ root'[journal.id] = tomb[journal.id] \/ applied
  PROVE  ShowsTheSame /\ KeepsTombs
<1>1. journal'.id = journal.id /\ journal.id \in Ids
  BY RunningCall DEF WritesBeside
<1>2. ASSUME NEW q \in Ids, q # journal.id PROVE Visible(q)' = Visible(q)
  BY <1>1, <1>2 DEF WritesBeside, Visible, Registered, ContentOf, Missing
<1>3. KeepsTombs
  BY <1>1 DEF KeepsTombs, WritesBeside
<1>4. QED
  BY <1>2, <1>3 DEF ShowsTheSame, WritesBeside

LEMMA MarkPhaseKeeps ==
  ASSUME LifecycleIInv, MarkPhase
  PROVE  LifecycleIInv' /\ ShowsTheSame /\ KeepsTombs
<1>1. call # Idle /\ First(call.todo) \in Phases /\ First(call.todo) # "clear"
  BY DEF MarkPhase, First, Idle, Phases
<1>2. journal # NoJournal
  BY <1>1, OnlyOnboardingWithoutJournal, ScriptSteps DEF Phases
<1>3. WritesBeside /\ JournalTyped'
  BY <1>1 DEF MarkPhase, WritesBeside, LifecycleIInv, LifecycleTypeOK, JournalTyped, files, First
<1>4. CallFollows' /\ call'.todo = Rest(call.todo) /\ call'.id = journal.id
  BY <1>1, <1>2, <1>3, CallGoesOn DEF MarkPhase
<1>5. Evidence'
  BY <1>2, <1>3, WriteKeepsTheRest, <1>1
     DEF MarkPhase, files, WritesBeside, LifecycleIInv, Evidence, Registered, Missing
<1>6. Ready'
  <2>1. \/ call.todo = Publish4 /\ call'.todo = Publish3
        \/ call.todo = Create5 /\ call'.todo = Create4
        \/ call.todo = Create3 /\ call'.todo = Create2
        \/ call.todo = Delete5 /\ call'.todo = Delete4
        \/ call.todo = Delete3 /\ call'.todo = Delete2
        \/ call.todo = Reset8 /\ call'.todo = Reset7
        \/ call.todo = Reset6 /\ call'.todo = Reset5
        \/ call.todo = Reset4 /\ call'.todo = Reset3
        \/ call.todo = Publish2 /\ call'.todo = Clear1 /\ ~Cutover
    BY <1>1, <1>2, <1>4, RunningCall, ScriptSteps DEF Scripts, Staged, Phases, Cutover
  <2>2. UNCHANGED <<registry, root, tomb, stage, applied>> /\ journal'.id = journal.id /\ Whole' = Whole
    BY <1>2, <1>3, <1>1, WriteKeepsTheRest DEF MarkPhase, files, WritesBeside
  <2>3. call.todo = Publish2 => Clean(journal.id)
    BY <1>1, <1>2, <2>1, ScriptSteps
       DEF LifecycleIInv, JournalAgrees, Evidence, Ready, ReadyFor, After, Clean, Missing
  <2>4. QED
    BY <1>1, <1>2, <2>1, <2>2, <2>3, ScriptSteps, ScriptsDiffer
       DEF LifecycleIInv, Ready, ReadyFor, After, Clean, Registered, Missing
<1>7. ShowsTheSame /\ KeepsTombs
  BY <1>1, <1>2, <1>3, BesideShowsTheSame DEF MarkPhase, files, WritesBeside, Visible, Registered,
                                              ContentOf, Missing
<1>8. QED
  BY <1>1, <1>2, <1>3, <1>4, <1>5, <1>6, <1>7, WriteKeeps DEF MarkPhase, files, LifecycleIInv,
                                                              LifecycleTypeOK, TreesTyped

LEMMA MakeStageKeeps ==
  ASSUME LifecycleIInv, MakeStage
  PROVE  LifecycleIInv' /\ ShowsTheSame /\ KeepsTombs
<1>1. call # Idle /\ First(call.todo) = "stage"
  BY NoTodoWhenIdle DEF MakeStage
<1>2. journal # NoJournal
  BY <1>1, OnlyOnboardingWithoutJournal, ScriptSteps
<1>3. /\ UNCHANGED <<registry, applied, root, tomb, journal>>
      /\ stage'[journal.id] = "torn"
      /\ Done
  BY <1>1, <1>2, RunningCall
     DEF MakeStage, Todo, First, LifecycleIInv, LifecycleTypeOK
<1>4. WritesBeside /\ JournalTyped' /\ TreesTyped' /\ manifest' \in BOOLEAN
  BY <1>1, <1>2, RunningCall
     DEF MakeStage, WritesBeside, LifecycleIInv, LifecycleTypeOK, JournalTyped, TreesTyped, Tree
<1>5. CallFollows' /\ call'.todo = Rest(call.todo)
  BY <1>1, <1>2, <1>3, <1>4, CallGoesOn
<1>6. \/ call.todo = Setup8 /\ call'.todo = Setup7 /\ Setup
      \/ call.todo = Restore7 /\ call'.todo = Restore6 /\ journal.operation = "restore"
  BY <1>1, <1>2, <1>5, RunningCall, ScriptSteps DEF Scripts, Staged, Setup, Cutover
<1>7. Whole' = Whole /\ Setup' = Setup /\ Cutover' = Cutover
  BY <1>1, <1>2, <1>4, WriteKeepsTheRest
<1>8. Evidence'
  BY <1>1, <1>2, <1>3, <1>6, <1>7, ScriptSteps, RunningCall
     DEF LifecycleIInv, JournalAgrees, Evidence, Ready, ReadyFor, After, Registered, Missing,
         Cutover, Setup, Whole
<1>9. Ready'
  BY <1>1, <1>2, <1>3, <1>6, <1>7, ScriptSteps, ScriptsDiffer
     DEF LifecycleIInv, JournalAgrees, Evidence, Ready, ReadyFor, After, Clean, Registered, Missing,
         Cutover, Setup, Whole
<1>10. ShowsTheSame /\ KeepsTombs
  <2>1. \A q \in Ids : q = journal.id => Visible(q)' = Visible(q)
    BY <1>1, <1>2, <1>3, <1>6, <1>7, ScriptSteps
       DEF LifecycleIInv, JournalAgrees, Evidence, Ready, ReadyFor, After,
           Visible, ContentOf, Registered, Missing, Cutover, Setup
  <2>2. \/ Missing(tomb[journal.id]) \/ tomb'[journal.id] = tomb[journal.id]
        \/ root'[journal.id] = tomb[journal.id] \/ applied
    BY <1>1, <1>2, <1>3, <1>6, ScriptSteps DEF LifecycleIInv, Ready, ReadyFor, After
  <2>3. QED
    BY <1>1, <1>2, <1>4, <2>1, <2>2, BesideShowsTheSame
<1>11. QED
  BY <1>1, <1>2, <1>4, <1>5, <1>8, <1>9, <1>10, WriteKeeps

LEMMA FillStageKeeps ==
  ASSUME LifecycleIInv, FillStage
  PROVE  LifecycleIInv' /\ ShowsTheSame /\ KeepsTombs
<1>1. call # Idle /\ First(call.todo) \in {"seal", "fill"}
  BY NoTodoWhenIdle DEF FillStage
<1>2. journal # NoJournal
  BY <1>1, OnlyOnboardingWithoutJournal, ScriptSteps
<1>3. /\ UNCHANGED <<registry, applied, root, tomb, journal>>
      /\ stage'[journal.id] = IF First(call.todo) = "seal" THEN "sealed" ELSE "filled"
      /\ Done
  BY <1>1, <1>2, RunningCall
     DEF FillStage, Todo, First, LifecycleIInv, LifecycleTypeOK
<1>4. WritesBeside /\ JournalTyped' /\ TreesTyped' /\ manifest' \in BOOLEAN
  BY <1>1, <1>2, RunningCall
     DEF FillStage, WritesBeside, LifecycleIInv, LifecycleTypeOK, JournalTyped, TreesTyped, Tree
<1>5. CallFollows' /\ call'.todo = Rest(call.todo)
  BY <1>1, <1>2, <1>3, <1>4, CallGoesOn
<1>6. \/ call.todo = Setup7 /\ call'.todo = Setup6 /\ Setup
      \/ call.todo = Restore6 /\ call'.todo = Publish5 /\ journal.operation = "restore"
  BY <1>1, <1>2, <1>5, RunningCall, ScriptSteps DEF Scripts, Staged, Setup, Cutover
<1>7. Whole' = Whole /\ Setup' = Setup /\ Cutover' = Cutover
  BY <1>1, <1>2, <1>4, WriteKeepsTheRest
<1>8. Evidence'
  BY <1>1, <1>2, <1>3, <1>6, <1>7, ScriptSteps, RunningCall
     DEF LifecycleIInv, JournalAgrees, Evidence, Ready, ReadyFor, After, Registered, Missing,
         Cutover, Setup, Whole
<1>9. Ready'
  BY <1>1, <1>2, <1>3, <1>6, <1>7, ScriptSteps, ScriptsDiffer
     DEF LifecycleIInv, JournalAgrees, Evidence, Ready, ReadyFor, After, Clean, Registered, Missing,
         Cutover, Setup, Whole
<1>10. ShowsTheSame /\ KeepsTombs
  <2>1. \A q \in Ids : q = journal.id => Visible(q)' = Visible(q)
    BY <1>1, <1>2, <1>3, <1>6, <1>7, ScriptSteps
       DEF LifecycleIInv, JournalAgrees, Evidence, Ready, ReadyFor, After,
           Visible, ContentOf, Registered, Missing, Cutover, Setup
  <2>2. \/ Missing(tomb[journal.id]) \/ tomb'[journal.id] = tomb[journal.id]
        \/ root'[journal.id] = tomb[journal.id] \/ applied
    BY <1>1, <1>2, <1>3, <1>6, ScriptSteps DEF LifecycleIInv, Ready, ReadyFor, After
  <2>3. QED
    BY <1>1, <1>2, <1>4, <2>1, <2>2, BesideShowsTheSame
<1>11. QED
  BY <1>1, <1>2, <1>4, <1>5, <1>8, <1>9, <1>10, WriteKeeps

LEMMA WriteManifestKeeps ==
  ASSUME LifecycleIInv, WriteManifest
  PROVE  LifecycleIInv' /\ ShowsTheSame /\ KeepsTombs
<1>1. call # Idle /\ First(call.todo) = "manifest"
  BY NoTodoWhenIdle DEF WriteManifest
<1>2. journal # NoJournal
  BY <1>1, OnlyOnboardingWithoutJournal, ScriptSteps
<1>3. /\ UNCHANGED <<registry, applied, root, tomb, stage, journal>>
      /\ Done
  BY <1>1, <1>2, RunningCall
     DEF WriteManifest, Todo, First, LifecycleIInv, LifecycleTypeOK
<1>4. WritesBeside /\ JournalTyped' /\ TreesTyped' /\ manifest' \in BOOLEAN
  BY <1>1, <1>2, RunningCall
     DEF WriteManifest, WritesBeside, LifecycleIInv, LifecycleTypeOK, JournalTyped, TreesTyped, Tree
<1>5. CallFollows' /\ call'.todo = Rest(call.todo)
  BY <1>1, <1>2, <1>3, <1>4, CallGoesOn
<1>6. call.todo = Setup6 /\ call'.todo = Publish5 /\ Setup
  BY <1>1, <1>2, <1>5, RunningCall, ScriptSteps DEF Scripts, Staged, Setup, Cutover
<1>7. Whole' = Whole /\ Setup' = Setup /\ Cutover' = Cutover
  BY <1>1, <1>2, <1>4, WriteKeepsTheRest
<1>8. Evidence'
  BY <1>1, <1>2, <1>3, <1>6, <1>7, ScriptSteps, RunningCall
     DEF LifecycleIInv, JournalAgrees, Evidence, Ready, ReadyFor, After, Registered, Missing,
         Cutover, Setup, Whole
<1>9. Ready'
  BY <1>1, <1>2, <1>3, <1>6, <1>7, ScriptSteps, ScriptsDiffer
     DEF LifecycleIInv, JournalAgrees, Evidence, Ready, ReadyFor, After, Clean, Registered, Missing,
         Cutover, Setup, Whole
<1>10. ShowsTheSame /\ KeepsTombs
  <2>1. \A q \in Ids : q = journal.id => Visible(q)' = Visible(q)
    BY <1>1, <1>2, <1>3, <1>6, <1>7, ScriptSteps
       DEF LifecycleIInv, JournalAgrees, Evidence, Ready, ReadyFor, After,
           Visible, ContentOf, Registered, Missing, Cutover, Setup
  <2>2. \/ Missing(tomb[journal.id]) \/ tomb'[journal.id] = tomb[journal.id]
        \/ root'[journal.id] = tomb[journal.id] \/ applied
    BY <1>1, <1>2, <1>3, <1>6, ScriptSteps DEF LifecycleIInv, Ready, ReadyFor, After
  <2>3. QED
    BY <1>1, <1>2, <1>4, <2>1, <2>2, BesideShowsTheSame
<1>11. QED
  BY <1>1, <1>2, <1>4, <1>5, <1>8, <1>9, <1>10, WriteKeeps

LEMMA PublishStageKeeps ==
  ASSUME LifecycleIInv, PublishStage
  PROVE  LifecycleIInv' /\ ShowsTheSame /\ KeepsTombs
<1>1. call # Idle /\ First(call.todo) = "publish"
  BY NoTodoWhenIdle DEF PublishStage
<1>2. journal # NoJournal
  BY <1>1, OnlyOnboardingWithoutJournal, ScriptSteps
<1>3. /\ UNCHANGED <<registry, applied, tomb, journal>>
      /\ root'[journal.id] = stage[journal.id] /\ stage'[journal.id] = "none"
      /\ Done
  BY <1>1, <1>2, RunningCall
     DEF PublishStage, Todo, First, LifecycleIInv, LifecycleTypeOK
<1>4. WritesBeside /\ JournalTyped' /\ TreesTyped' /\ manifest' \in BOOLEAN
  BY <1>1, <1>2, RunningCall
     DEF PublishStage, WritesBeside, LifecycleIInv, LifecycleTypeOK, JournalTyped, TreesTyped, Tree
<1>5. CallFollows' /\ call'.todo = Rest(call.todo)
  BY <1>1, <1>2, <1>3, <1>4, CallGoesOn
<1>6. \/ call.todo = Publish5 /\ call'.todo = Publish4 /\ (Setup \/ journal.operation = "restore")
      \/ call.todo = Resume4 /\ call'.todo = Publish3 /\ Setup
  BY <1>1, <1>2, <1>5, RunningCall, ScriptSteps DEF Scripts, Staged, Setup, Cutover
<1>7. Whole' = Whole /\ Setup' = Setup /\ Cutover' = Cutover
  BY <1>1, <1>2, <1>4, WriteKeepsTheRest
<1>8. Evidence'
  BY <1>1, <1>2, <1>3, <1>6, <1>7, ScriptSteps, RunningCall
     DEF LifecycleIInv, JournalAgrees, Evidence, Ready, ReadyFor, After, Registered, Missing,
         Cutover, Setup, Whole
<1>9. Ready'
  BY <1>1, <1>2, <1>3, <1>6, <1>7, ScriptSteps, ScriptsDiffer
     DEF LifecycleIInv, JournalAgrees, Evidence, Ready, ReadyFor, After, Clean, Registered, Missing,
         Cutover, Setup, Whole
<1>10. ShowsTheSame /\ KeepsTombs
  <2>1. \A q \in Ids : q = journal.id => Visible(q)' = Visible(q)
    BY <1>1, <1>2, <1>3, <1>6, <1>7, ScriptSteps
       DEF LifecycleIInv, JournalAgrees, Evidence, Ready, ReadyFor, After,
           Visible, ContentOf, Registered, Missing, Cutover, Setup
  <2>2. \/ Missing(tomb[journal.id]) \/ tomb'[journal.id] = tomb[journal.id]
        \/ root'[journal.id] = tomb[journal.id] \/ applied
    BY <1>1, <1>2, <1>3, <1>6, ScriptSteps DEF LifecycleIInv, Ready, ReadyFor, After
  <2>3. QED
    BY <1>1, <1>2, <1>4, <2>1, <2>2, BesideShowsTheSame
<1>11. QED
  BY <1>1, <1>2, <1>4, <1>5, <1>8, <1>9, <1>10, WriteKeeps

LEMMA MakeRootKeeps ==
  ASSUME LifecycleIInv, MakeRoot
  PROVE  LifecycleIInv' /\ ShowsTheSame /\ KeepsTombs
<1>1. call # Idle /\ First(call.todo) = "mkdir"
  BY NoTodoWhenIdle DEF MakeRoot
<1>2. journal # NoJournal
  BY <1>1, OnlyOnboardingWithoutJournal, ScriptSteps
<1>3. /\ UNCHANGED <<registry, applied, tomb, stage, journal>>
      /\ root'[journal.id] = "bare"
      /\ Done
  BY <1>1, <1>2, RunningCall
     DEF MakeRoot, Todo, First, LifecycleIInv, LifecycleTypeOK
<1>4. WritesBeside /\ JournalTyped' /\ TreesTyped' /\ manifest' \in BOOLEAN
  BY <1>1, <1>2, RunningCall
     DEF MakeRoot, WritesBeside, LifecycleIInv, LifecycleTypeOK, JournalTyped, TreesTyped, Tree
<1>5. CallFollows' /\ call'.todo = Rest(call.todo)
  BY <1>1, <1>2, <1>3, <1>4, CallGoesOn
<1>6. \/ call.todo = Create6 /\ call'.todo = Create5 /\ journal.operation = "create"
      \/ call.todo = Reset7 /\ call'.todo = Reset6 /\ journal.operation = "reset"
  BY <1>1, <1>2, <1>5, RunningCall, ScriptSteps DEF Scripts, Staged, Setup, Cutover
<1>7. Whole' = Whole /\ Setup' = Setup /\ Cutover' = Cutover
  BY <1>1, <1>2, <1>4, WriteKeepsTheRest
<1>8. Evidence'
  BY <1>1, <1>2, <1>3, <1>6, <1>7, ScriptSteps, RunningCall
     DEF LifecycleIInv, JournalAgrees, Evidence, Ready, ReadyFor, After, Registered, Missing,
         Cutover, Setup, Whole
<1>9. Ready'
  BY <1>1, <1>2, <1>3, <1>6, <1>7, ScriptSteps, ScriptsDiffer
     DEF LifecycleIInv, JournalAgrees, Evidence, Ready, ReadyFor, After, Clean, Registered, Missing,
         Cutover, Setup, Whole
<1>10. ShowsTheSame /\ KeepsTombs
  <2>1. \A q \in Ids : q = journal.id => Visible(q)' = Visible(q)
    BY <1>1, <1>2, <1>3, <1>6, <1>7, ScriptSteps
       DEF LifecycleIInv, JournalAgrees, Evidence, Ready, ReadyFor, After,
           Visible, ContentOf, Registered, Missing, Cutover, Setup
  <2>2. \/ Missing(tomb[journal.id]) \/ tomb'[journal.id] = tomb[journal.id]
        \/ root'[journal.id] = tomb[journal.id] \/ applied
    BY <1>1, <1>2, <1>3, <1>6, ScriptSteps DEF LifecycleIInv, Ready, ReadyFor, After
  <2>3. QED
    BY <1>1, <1>2, <1>4, <2>1, <2>2, BesideShowsTheSame
<1>11. QED
  BY <1>1, <1>2, <1>4, <1>5, <1>8, <1>9, <1>10, WriteKeeps

LEMMA BuryRootKeeps ==
  ASSUME LifecycleIInv, BuryRoot
  PROVE  LifecycleIInv' /\ ShowsTheSame /\ KeepsTombs
<1>1. call # Idle /\ First(call.todo) = "bury"
  BY NoTodoWhenIdle DEF BuryRoot
<1>2. journal # NoJournal
  BY <1>1, OnlyOnboardingWithoutJournal, ScriptSteps
<1>3. /\ UNCHANGED <<registry, applied, stage, journal>>
      /\ tomb'[journal.id] = root[journal.id] /\ root'[journal.id] = "none"
      /\ Done
  BY <1>1, <1>2, RunningCall
     DEF BuryRoot, Todo, First, LifecycleIInv, LifecycleTypeOK
<1>4. WritesBeside /\ JournalTyped' /\ TreesTyped' /\ manifest' \in BOOLEAN
  BY <1>1, <1>2, RunningCall
     DEF BuryRoot, WritesBeside, LifecycleIInv, LifecycleTypeOK, JournalTyped, TreesTyped, Tree
<1>5. CallFollows' /\ call'.todo = Rest(call.todo)
  BY <1>1, <1>2, <1>3, <1>4, CallGoesOn
<1>6. \/ call.todo = Reset9 /\ call'.todo = Reset8 /\ journal.operation = "reset"
      \/ call.todo = Delete6 /\ call'.todo = Delete5 /\ journal.operation = "delete"
  BY <1>1, <1>2, <1>5, RunningCall, ScriptSteps DEF Scripts, Staged, Setup, Cutover
<1>7. Whole' = Whole /\ Setup' = Setup /\ Cutover' = Cutover
  BY <1>1, <1>2, <1>4, WriteKeepsTheRest
<1>8. Evidence'
  BY <1>1, <1>2, <1>3, <1>6, <1>7, ScriptSteps, RunningCall
     DEF LifecycleIInv, JournalAgrees, Evidence, Ready, ReadyFor, After, Registered, Missing,
         Cutover, Setup, Whole
<1>9. Ready'
  BY <1>1, <1>2, <1>3, <1>6, <1>7, ScriptSteps, ScriptsDiffer
     DEF LifecycleIInv, JournalAgrees, Evidence, Ready, ReadyFor, After, Clean, Registered, Missing,
         Cutover, Setup, Whole
<1>10. ShowsTheSame /\ KeepsTombs
  <2>1. \A q \in Ids : q = journal.id => Visible(q)' = Visible(q)
    BY <1>1, <1>2, <1>3, <1>6, <1>7, ScriptSteps
       DEF LifecycleIInv, JournalAgrees, Evidence, Ready, ReadyFor, After,
           Visible, ContentOf, Registered, Missing, Cutover, Setup
  <2>2. \/ Missing(tomb[journal.id]) \/ tomb'[journal.id] = tomb[journal.id]
        \/ root'[journal.id] = tomb[journal.id] \/ applied
    BY <1>1, <1>2, <1>3, <1>6, ScriptSteps DEF LifecycleIInv, Ready, ReadyFor, After
  <2>3. QED
    BY <1>1, <1>2, <1>4, <2>1, <2>2, BesideShowsTheSame
<1>11. QED
  BY <1>1, <1>2, <1>4, <1>5, <1>8, <1>9, <1>10, WriteKeeps

LEMMA PurgeTombstoneKeeps ==
  ASSUME LifecycleIInv, PurgeTombstone
  PROVE  LifecycleIInv' /\ ShowsTheSame /\ KeepsTombs
<1>1. call # Idle /\ First(call.todo) = "purge"
  BY NoTodoWhenIdle DEF PurgeTombstone
<1>2. journal # NoJournal
  BY <1>1, OnlyOnboardingWithoutJournal, ScriptSteps
<1>3. /\ UNCHANGED <<registry, applied, root, stage, journal>>
      /\ tomb'[journal.id] = "none"
      /\ Done
  BY <1>1, <1>2, RunningCall
     DEF PurgeTombstone, Todo, First, LifecycleIInv, LifecycleTypeOK
<1>4. WritesBeside /\ JournalTyped' /\ TreesTyped' /\ manifest' \in BOOLEAN
  BY <1>1, <1>2, RunningCall
     DEF PurgeTombstone, WritesBeside, LifecycleIInv, LifecycleTypeOK, JournalTyped, TreesTyped, Tree
<1>5. CallFollows' /\ call'.todo = Rest(call.todo)
  BY <1>1, <1>2, <1>3, <1>4, CallGoesOn
<1>6. \/ call.todo = Reset3 /\ call'.todo = Reset2 /\ journal.operation = "reset"
      \/ call.todo = Delete2 /\ call'.todo = Clear1 /\ Cutover
  BY <1>1, <1>2, <1>5, RunningCall, ScriptSteps DEF Scripts, Staged, Setup, Cutover
<1>7. Whole' = Whole /\ Setup' = Setup /\ Cutover' = Cutover
  BY <1>1, <1>2, <1>4, WriteKeepsTheRest
<1>8. Evidence'
  BY <1>1, <1>2, <1>3, <1>6, <1>7, ScriptSteps, RunningCall
     DEF LifecycleIInv, JournalAgrees, Evidence, Ready, ReadyFor, After, Registered, Missing,
         Cutover, Setup, Whole
<1>9. Ready'
  BY <1>1, <1>2, <1>3, <1>6, <1>7, ScriptSteps, ScriptsDiffer
     DEF LifecycleIInv, JournalAgrees, Evidence, Ready, ReadyFor, After, Clean, Registered, Missing,
         Cutover, Setup, Whole
<1>10. ShowsTheSame /\ KeepsTombs
  <2>1. \A q \in Ids : q = journal.id => Visible(q)' = Visible(q)
    BY <1>1, <1>2, <1>3, <1>6, <1>7, ScriptSteps
       DEF LifecycleIInv, JournalAgrees, Evidence, Ready, ReadyFor, After,
           Visible, ContentOf, Registered, Missing, Cutover, Setup
  <2>2. \/ Missing(tomb[journal.id]) \/ tomb'[journal.id] = tomb[journal.id]
        \/ root'[journal.id] = tomb[journal.id] \/ applied
    BY <1>1, <1>2, <1>3, <1>6, ScriptSteps DEF LifecycleIInv, Ready, ReadyFor, After
  <2>3. QED
    BY <1>1, <1>2, <1>4, <2>1, <2>2, BesideShowsTheSame
<1>11. QED
  BY <1>1, <1>2, <1>4, <1>5, <1>8, <1>9, <1>10, WriteKeeps

LEMMA UnburyRootKeeps ==
  ASSUME LifecycleIInv, UnburyRoot
  PROVE  LifecycleIInv' /\ ShowsTheSame /\ KeepsTombs
<1>1. call # Idle /\ First(call.todo) = "unbury"
  BY NoTodoWhenIdle DEF UnburyRoot
<1>2. journal # NoJournal
  BY <1>1, OnlyOnboardingWithoutJournal, ScriptSteps
<1>3. /\ UNCHANGED <<registry, applied, stage, journal>>
      /\ root'[journal.id] = tomb[journal.id] /\ tomb'[journal.id] = "none"
      /\ Done
  BY <1>1, <1>2, RunningCall
     DEF UnburyRoot, Todo, First, LifecycleIInv, LifecycleTypeOK
<1>4. WritesBeside /\ JournalTyped' /\ TreesTyped' /\ manifest' \in BOOLEAN
  BY <1>1, <1>2, RunningCall
     DEF UnburyRoot, WritesBeside, LifecycleIInv, LifecycleTypeOK, JournalTyped, TreesTyped, Tree
<1>5. CallFollows' /\ call'.todo = Rest(call.todo)
  BY <1>1, <1>2, <1>3, <1>4, CallGoesOn
<1>6. call.todo = Unbury2 /\ call'.todo = Clear1 /\ Cutover
  BY <1>1, <1>2, <1>5, RunningCall, ScriptSteps DEF Scripts, Staged, Setup, Cutover
<1>7. Whole' = Whole /\ Setup' = Setup /\ Cutover' = Cutover
  BY <1>1, <1>2, <1>4, WriteKeepsTheRest
<1>8. Evidence'
  BY <1>1, <1>2, <1>3, <1>6, <1>7, ScriptSteps, RunningCall
     DEF LifecycleIInv, JournalAgrees, Evidence, Ready, ReadyFor, After, Registered, Missing,
         Cutover, Setup, Whole
<1>9. Ready'
  BY <1>1, <1>2, <1>3, <1>6, <1>7, ScriptSteps, ScriptsDiffer
     DEF LifecycleIInv, JournalAgrees, Evidence, Ready, ReadyFor, After, Clean, Registered, Missing,
         Cutover, Setup, Whole
<1>10. ShowsTheSame /\ KeepsTombs
  <2>1. \A q \in Ids : q = journal.id => Visible(q)' = Visible(q)
    BY <1>1, <1>2, <1>3, <1>6, <1>7, ScriptSteps
       DEF LifecycleIInv, JournalAgrees, Evidence, Ready, ReadyFor, After,
           Visible, ContentOf, Registered, Missing, Cutover, Setup
  <2>2. \/ Missing(tomb[journal.id]) \/ tomb'[journal.id] = tomb[journal.id]
        \/ root'[journal.id] = tomb[journal.id] \/ applied
    BY <1>1, <1>2, <1>3, <1>6, ScriptSteps DEF LifecycleIInv, Ready, ReadyFor, After
  <2>3. QED
    BY <1>1, <1>2, <1>4, <2>1, <2>2, BesideShowsTheSame
<1>11. QED
  BY <1>1, <1>2, <1>4, <1>5, <1>8, <1>9, <1>10, WriteKeeps

LEMMA RemoveRootKeeps ==
  ASSUME LifecycleIInv, RemoveRoot
  PROVE  LifecycleIInv' /\ ShowsTheSame /\ KeepsTombs
<1>1. call # Idle /\ First(call.todo) = "remove-root"
  BY NoTodoWhenIdle DEF RemoveRoot
<1>2. journal # NoJournal
  BY <1>1, OnlyOnboardingWithoutJournal, ScriptSteps
<1>3. /\ UNCHANGED <<registry, applied, tomb, stage, journal>>
      /\ root'[journal.id] = "none"
      /\ Done
  BY <1>1, <1>2, RunningCall
     DEF RemoveRoot, Todo, First, LifecycleIInv, LifecycleTypeOK
<1>4. WritesBeside /\ JournalTyped' /\ TreesTyped' /\ manifest' \in BOOLEAN
  BY <1>1, <1>2, RunningCall
     DEF RemoveRoot, WritesBeside, LifecycleIInv, LifecycleTypeOK, JournalTyped, TreesTyped, Tree
<1>5. CallFollows' /\ call'.todo = Rest(call.todo)
  BY <1>1, <1>2, <1>3, <1>4, CallGoesOn
<1>6. \/ call.todo = DropRoot2 /\ call'.todo = Clear1 /\ journal.operation \in {"create", "restore"}
      \/ call.todo = Unbury3 /\ call'.todo = Unbury2 /\ journal.operation = "reset"
  BY <1>1, <1>2, <1>5, RunningCall, ScriptSteps DEF Scripts, Staged, Setup, Cutover
<1>7. Whole' = Whole /\ Setup' = Setup /\ Cutover' = Cutover
  BY <1>1, <1>2, <1>4, WriteKeepsTheRest
<1>8. Evidence'
  BY <1>1, <1>2, <1>3, <1>6, <1>7, ScriptSteps, RunningCall
     DEF LifecycleIInv, JournalAgrees, Evidence, Ready, ReadyFor, After, Registered, Missing,
         Cutover, Setup, Whole
<1>9. Ready'
  BY <1>1, <1>2, <1>3, <1>6, <1>7, ScriptSteps, ScriptsDiffer
     DEF LifecycleIInv, JournalAgrees, Evidence, Ready, ReadyFor, After, Clean, Registered, Missing,
         Cutover, Setup, Whole
<1>10. ShowsTheSame /\ KeepsTombs
  <2>1. \A q \in Ids : q = journal.id => Visible(q)' = Visible(q)
    BY <1>1, <1>2, <1>3, <1>6, <1>7, ScriptSteps
       DEF LifecycleIInv, JournalAgrees, Evidence, Ready, ReadyFor, After,
           Visible, ContentOf, Registered, Missing, Cutover, Setup
  <2>2. \/ Missing(tomb[journal.id]) \/ tomb'[journal.id] = tomb[journal.id]
        \/ root'[journal.id] = tomb[journal.id] \/ applied
    BY <1>1, <1>2, <1>3, <1>6, ScriptSteps DEF LifecycleIInv, Ready, ReadyFor, After
  <2>3. QED
    BY <1>1, <1>2, <1>4, <2>1, <2>2, BesideShowsTheSame
<1>11. QED
  BY <1>1, <1>2, <1>4, <1>5, <1>8, <1>9, <1>10, WriteKeeps

LEMMA RemoveStageKeeps ==
  ASSUME LifecycleIInv, RemoveStage
  PROVE  LifecycleIInv' /\ ShowsTheSame /\ KeepsTombs
<1>1. call # Idle /\ First(call.todo) = "remove-stage"
  BY NoTodoWhenIdle DEF RemoveStage
<1>2. journal # NoJournal
  BY <1>1, OnlyOnboardingWithoutJournal, ScriptSteps
<1>3. /\ UNCHANGED <<registry, applied, root, tomb, journal>>
      /\ stage'[journal.id] = "none"
      /\ Done
  BY <1>1, <1>2, RunningCall
     DEF RemoveStage, Todo, First, LifecycleIInv, LifecycleTypeOK
<1>4. WritesBeside /\ JournalTyped' /\ TreesTyped' /\ manifest' \in BOOLEAN
  BY <1>1, <1>2, RunningCall
     DEF RemoveStage, WritesBeside, LifecycleIInv, LifecycleTypeOK, JournalTyped, TreesTyped, Tree
<1>5. CallFollows' /\ call'.todo = Rest(call.todo)
  BY <1>1, <1>2, <1>3, <1>4, CallGoesOn
<1>6. call.todo = DropStage2 /\ call'.todo = Clear1 /\ (Setup \/ journal.operation = "restore")
  BY <1>1, <1>2, <1>5, RunningCall, ScriptSteps DEF Scripts, Staged, Setup, Cutover
<1>7. Whole' = Whole /\ Setup' = Setup /\ Cutover' = Cutover
  BY <1>1, <1>2, <1>4, WriteKeepsTheRest
<1>8. Evidence'
  BY <1>1, <1>2, <1>3, <1>6, <1>7, ScriptSteps, RunningCall
     DEF LifecycleIInv, JournalAgrees, Evidence, Ready, ReadyFor, After, Registered, Missing,
         Cutover, Setup, Whole
<1>9. Ready'
  BY <1>1, <1>2, <1>3, <1>6, <1>7, ScriptSteps, ScriptsDiffer
     DEF LifecycleIInv, JournalAgrees, Evidence, Ready, ReadyFor, After, Clean, Registered, Missing,
         Cutover, Setup, Whole
<1>10. ShowsTheSame /\ KeepsTombs
  <2>1. \A q \in Ids : q = journal.id => Visible(q)' = Visible(q)
    BY <1>1, <1>2, <1>3, <1>6, <1>7, ScriptSteps
       DEF LifecycleIInv, JournalAgrees, Evidence, Ready, ReadyFor, After,
           Visible, ContentOf, Registered, Missing, Cutover, Setup
  <2>2. \/ Missing(tomb[journal.id]) \/ tomb'[journal.id] = tomb[journal.id]
        \/ root'[journal.id] = tomb[journal.id] \/ applied
    BY <1>1, <1>2, <1>3, <1>6, ScriptSteps DEF LifecycleIInv, Ready, ReadyFor, After
  <2>3. QED
    BY <1>1, <1>2, <1>4, <2>1, <2>2, BesideShowsTheSame
<1>11. QED
  BY <1>1, <1>2, <1>4, <1>5, <1>8, <1>9, <1>10, WriteKeeps

LEMMA WriteOnboardingKeeps ==
  ASSUME LifecycleIInv, WriteOnboarding
  PROVE  LifecycleIInv' /\ ShowsTheSame /\ KeepsTombs
<1>1. call # Idle /\ First(call.todo) = "onboard"
  BY NoTodoWhenIdle DEF WriteOnboarding
<1>2. CASE journal # NoJournal
  <2>1. UNCHANGED <<registry, applied, tomb, stage, journal>> /\ root'[journal.id] = "fresh" /\ Done
    BY <1>2, <1>1, RunningCall DEF WriteOnboarding, LifecycleIInv, LifecycleTypeOK
  <2>2. WritesBeside /\ JournalTyped' /\ TreesTyped' /\ manifest' \in BOOLEAN
    BY <1>1, <1>2, RunningCall
       DEF WriteOnboarding, WritesBeside, LifecycleIInv, LifecycleTypeOK, JournalTyped, TreesTyped, Tree
  <2>3. CallFollows' /\ call'.todo = Rest(call.todo)
    BY <1>1, <1>2, <2>1, <2>2, CallGoesOn
  <2>4. call.todo = Create2 /\ call'.todo = Clear1 /\ journal.operation = "create"
    BY <1>1, <1>2, <2>3, RunningCall, ScriptSteps DEF Scripts, Staged
  <2>5. Whole' = Whole /\ Setup' = Setup /\ Cutover' = Cutover
    BY <1>1, <1>2, <2>2, WriteKeepsTheRest
  <2>6. Evidence'
    BY <1>1, <1>2, <2>1, <2>4, <2>5, ScriptSteps
       DEF LifecycleIInv, JournalAgrees, Evidence, Ready, ReadyFor, After, Registered, Missing, Cutover
  <2>7. Ready'
    BY <1>1, <1>2, <2>1, <2>4, <2>5, ScriptSteps, ScriptsDiffer
       DEF LifecycleIInv, JournalAgrees, Evidence, Ready, ReadyFor, After, Clean, Registered,
           Missing, Cutover
  <2>8. \A q \in Ids : q = journal.id => Visible(q)' = Visible(q)
    BY <1>1, <1>2, <2>1, <2>4, ScriptSteps
       DEF LifecycleIInv, JournalAgrees, Evidence, Ready, ReadyFor, Visible, ContentOf, Registered,
           Missing, Cutover
  <2>9. ShowsTheSame /\ KeepsTombs
    BY <1>1, <1>2, <2>1, <2>2, <2>8, BesideShowsTheSame
  <2>10. QED
    BY <1>1, <1>2, <2>2, <2>3, <2>6, <2>7, <2>9, WriteKeeps
<1>3. CASE journal = NoJournal
  <2>1. /\ call.id \in Ids /\ call = [id |-> call.id, todo |-> Reset1]
        /\ root[call.id] = "bare" /\ working = NoProfile
    BY <1>1, <1>3, OnlyOnboardingWithoutJournal
  <2>2. call' = Idle
    BY <2>1, DoneLeavesRest, ScriptSteps DEF WriteOnboarding
  <2>3. UNCHANGED <<registry, journal, tomb, stage, manifest, working, applied>>
        /\ root' = [root EXCEPT ![call.id] = "fresh"]
    BY DEF WriteOnboarding
  <2>4. JournalAgrees' /\ Evidence' /\ CallFollows' /\ Ready' /\ WorkAlone'
    BY <1>3, <2>1, <2>2, <2>3 DEF JournalAgrees, Evidence, CallFollows, Ready, WorkAlone
  <2>5. OthersClean'
    BY <1>3, <2>1, <2>3 DEF LifecycleIInv, OthersClean, Clean, Missing, Registered, LifecycleTypeOK
  <2>6. LifecycleTypeOK'
    BY <2>1, <2>3, <2>4, StaysTyped DEF LifecycleIInv, LifecycleTypeOK, JournalTyped, TreesTyped, Tree
  <2>7. ShowsTheSame /\ KeepsTombs
    BY <1>3, <2>1, <2>3, LifecycleAssumption
       DEF ShowsTheSame, KeepsTombs, Visible, ContentOf, Registered, NoJournal, LifecycleIInv, LifecycleTypeOK
  <2>8. QED
    BY <2>4, <2>5, <2>6, <2>7 DEF LifecycleIInv
<1>4. QED
  BY <1>2, <1>3

LEMMA ClearJournalKeeps ==
  ASSUME LifecycleIInv, ClearJournal
  PROVE  LifecycleIInv' /\ ShowsTheSame /\ KeepsTombs
<1>1. call # Idle /\ First(call.todo) = "clear"
  BY NoTodoWhenIdle DEF ClearJournal
<1>2. journal # NoJournal
  BY <1>1, OnlyOnboardingWithoutJournal, ScriptSteps
<1>3. UNCHANGED <<registry, files, working, applied>> /\ journal' = NoJournal /\ Done
  BY DEF ClearJournal
<1>4. /\ call = [id |-> journal.id, todo |-> call.todo] /\ journal.id \in Ids
      /\ call.todo \in {Clear1, Reset2} /\ working = NoProfile
  BY <1>1, <1>2, RunningCall, ScriptSteps DEF Scripts, Staged
<1>5. Clean(journal.id) /\ (call.todo = Reset2 => root[journal.id] = "bare")
  BY <1>1, <1>2, <1>4 DEF LifecycleIInv, Ready, ReadyFor
<1>6. CallFollows'
  <2>1. CASE call.todo = Clear1
    BY <2>1, <1>4, <1>3, DoneLeavesRest, ScriptSteps DEF CallFollows
  <2>2. CASE call.todo = Reset2
    <3>1. call' = [id |-> journal.id, todo |-> Reset1]
      BY <2>2, <1>4, <1>3, DoneLeavesRest, ScriptSteps
    <3>2. call'.id = journal.id
      BY <3>1
    <3>3. QED
      BY <3>1, <3>2, <2>2, <1>3, <1>4, <1>5 DEF CallFollows, files
  <2>3. QED
    BY <2>1, <2>2, <1>4
<1>7. OthersClean'
  BY <1>3, <1>4, <1>5 DEF LifecycleIInv, OthersClean, Clean, Registered, files
<1>8. JournalAgrees' /\ Evidence' /\ Ready' /\ WorkAlone'
  BY <1>3, <1>4 DEF JournalAgrees, Evidence, Ready, WorkAlone
<1>9. LifecycleTypeOK'
  <2>1. JournalTyped'
    BY <1>3, LifecycleAssumption DEF JournalTyped, NoJournal
  <2>2. QED
    BY <1>3, <1>6, <1>8, <2>1, StaysTyped DEF LifecycleIInv, LifecycleTypeOK, TreesTyped, files
<1>10. ShowsTheSame /\ KeepsTombs
  BY <1>3, <1>4, <1>5, LifecycleAssumption
     DEF ShowsTheSame, KeepsTombs, Visible, ContentOf, Registered, NoJournal, Clean, Missing, files
<1>11. QED
  BY <1>6, <1>7, <1>8, <1>9, <1>10 DEF LifecycleIInv

(* Registering.                                                               *)
LEMMA RegisterCommits ==
  ASSUME LifecycleIInv, Register
  PROVE  /\ call # Idle /\ journal # NoJournal /\ working = NoProfile
         /\ UNCHANGED <<journal, root, tomb, stage, manifest, working>>
         /\ registry' = Changed(registry) /\ applied' = TRUE
         /\ journal.id \in Ids
         /\ journal.operation \in {"default-migration", "create", "restore", "reset", "delete"}
         /\ \/ call.todo = Publish3 /\ Rest(call.todo) = Publish2 /\ ~Cutover /\ journal.operation # "create"
            \/ call.todo = Create4 /\ Rest(call.todo) = Create3 /\ journal.operation = "create"
            \/ call.todo = Delete4 /\ Rest(call.todo) = Delete3 /\ journal.operation = "delete"
            \/ call.todo = Reset5 /\ Rest(call.todo) = Reset4 /\ journal.operation = "reset"
         /\ call' = [id |-> journal.id, todo |-> Rest(call.todo)] /\ call'.todo = Rest(call.todo)
         /\ Rest(call.todo) \in Scripts(journal.operation)
         /\ ~applied /\ registry.generation = journal.expected /\ registry.generation < MaxGeneration
         /\ journal.expected \in Nat /\ MaxGeneration \in Nat
         /\ registry'.generation = registry.generation + 1
         /\ registry'.active = IF Setup THEN Default ELSE registry.active
         /\ \A q \in Ids : q # journal.id => (Registered(q)' <=> Registered(q))
         /\ Registered(journal.id)' <=> journal.operation # "delete"
<1>1. call # Idle /\ First(call.todo) = "register"
  BY NoTodoWhenIdle DEF Register
<1>2. journal # NoJournal
  BY <1>1, OnlyOnboardingWithoutJournal, ScriptSteps
<1>3. /\ UNCHANGED <<journal, root, tomb, stage, manifest, working>>
      /\ registry' = Changed(registry) /\ applied' = TRUE /\ Done
  BY DEF Register, files
<1>4. /\ journal.id \in Ids /\ working = NoProfile
      /\ journal.operation \in {"default-migration", "create", "restore", "reset", "delete"}
      /\ call = [id |-> journal.id, todo |-> call.todo] /\ call.todo \in Scripts(journal.operation)
  BY <1>1, <1>2, RunningCall
<1>5. \/ call.todo = Publish3 /\ Rest(call.todo) = Publish2 /\ ~Cutover /\ journal.operation # "create"
      \/ call.todo = Create4 /\ Rest(call.todo) = Create3 /\ journal.operation = "create"
      \/ call.todo = Delete4 /\ Rest(call.todo) = Delete3 /\ journal.operation = "delete"
      \/ call.todo = Reset5 /\ Rest(call.todo) = Reset4 /\ journal.operation = "reset"
  BY <1>1, <1>4, ScriptSteps DEF Scripts, Staged, Cutover
<1>6. call' = [id |-> journal.id, todo |-> Rest(call.todo)] /\ call'.todo = Rest(call.todo)
      /\ Rest(call.todo) \in Scripts(journal.operation)
  <2>1. call' = [id |-> journal.id, todo |-> Rest(call.todo)]
    BY <1>3, <1>4, <1>5, DoneLeavesRest, ScriptSteps
  <2>2. QED
    BY <2>1, <1>1, <1>4, RestOfScript
<1>7. ~applied /\ registry.generation = journal.expected /\ registry.generation < MaxGeneration
      /\ journal.expected \in Nat /\ MaxGeneration \in Nat
  BY <1>2, <1>1, <1>5, ScriptSteps, LifecycleAssumption
     DEF LifecycleIInv, JournalAgrees, Ready, ReadyFor, After, Register, LifecycleTypeOK
<1>8. /\ registry'.generation = registry.generation + 1
      /\ registry'.active = IF Setup THEN Default ELSE registry.active
      /\ \A q \in Ids : q # journal.id => (Registered(q)' <=> Registered(q))
      /\ Registered(journal.id)' <=> journal.operation # "delete"
  BY <1>2, <1>3, <1>4, <1>7
     DEF Changed, LifecycleIInv, JournalAgrees, LifecycleTypeOK, Registered, Setup, Cutover
<1>9. QED
  BY <1>1, <1>2, <1>3, <1>4, <1>5, <1>6, <1>7, <1>8

LEMMA RegisterKeeps ==
  ASSUME LifecycleIInv, Register
  PROVE  LifecycleIInv'
<1>1. /\ Setup' = Setup /\ Cutover' = Cutover /\ Whole' = Whole /\ journal' # NoJournal
      /\ UNCHANGED <<journal, root, tomb, stage>> /\ applied'
  BY RegisterCommits DEF Setup, Cutover, Whole
<1>2. JournalAgrees'
  BY <1>1, RegisterCommits DEF LifecycleIInv, JournalAgrees, Setup, Cutover
<1>3. OthersClean'
  BY <1>1, RegisterCommits DEF LifecycleIInv, OthersClean, Clean, Registered
<1>4. Evidence'
  BY <1>1, ScriptSteps, RegisterCommits
     DEF LifecycleIInv, JournalAgrees, Evidence, Ready, ReadyFor, After, Registered, Missing,
         Cutover, Setup, Whole
<1>5. CallFollows'
  BY <1>1, RegisterCommits DEF CallFollows
<1>6. Ready'
  BY <1>1, ScriptSteps, ScriptsDiffer, RegisterCommits
     DEF LifecycleIInv, JournalAgrees, Evidence, Ready, ReadyFor, After, Clean, Registered, Missing,
         Cutover
<1>7. WorkAlone'
  BY RegisterCommits DEF WorkAlone
<1>8. LifecycleTypeOK'
  <2>1. /\ registry' \in [generation : 0..MaxGeneration, profiles : SUBSET Ids, active : Ids \union {NoProfile}]
        /\ registry'.generation # 0 /\ registry'.active \in registry'.profiles
        /\ registry'.active # NoProfile /\ registry'.profiles # {}
    <3>1. /\ journal # NoJournal /\ journal.id \in Ids /\ registry' = Changed(registry)
          /\ journal.operation \in {"default-migration", "create", "restore", "reset", "delete"}
          /\ registry.generation < MaxGeneration /\ MaxGeneration \in Nat /\ registry.generation \in Nat
          /\ registry'.generation = registry.generation + 1
          /\ registry'.active = IF Setup THEN Default ELSE registry.active
      BY RegisterCommits
    <3>2. registry'.generation \in 0..MaxGeneration /\ registry'.generation # 0
      BY <3>1
    <3>3. registry' = [generation |-> registry'.generation, profiles |-> registry'.profiles,
                       active |-> registry'.active] /\ registry'.profiles \subseteq Ids
      BY <3>1 DEF Changed, LifecycleIInv, LifecycleTypeOK
    <3>4. registry'.active \in registry'.profiles /\ registry'.active # NoProfile /\ registry'.active \in Ids
      <4>1. CASE Setup
        BY <3>1, <4>1, LifecycleAssumption DEF Changed, Setup, LifecycleIInv, JournalAgrees, Ids
      <4>2. CASE ~Setup
        <5>1. registry.active \in registry.profiles /\ registry.profiles \subseteq Ids
              /\ registry.active # journal.id
          BY <3>1, <4>2, LifecycleAssumption DEF LifecycleIInv, JournalAgrees, LifecycleTypeOK, Setup
        <5>2. QED
          BY <3>1, <4>2, <5>1, LifecycleAssumption DEF Changed, LifecycleIInv, LifecycleTypeOK, Setup, Ids
      <4>3. QED
        BY <4>1, <4>2
    <3>5. QED
      BY <3>2, <3>3, <3>4
  <2>2. (call.id \in Ids \union {NoProfile} /\ Len(call.todo) <= 9)'
    BY <1>2, <1>5, FollowingCallIsTyped, PTL
  <2>3. QED
    BY <2>1, <2>2, RegisterCommits DEF LifecycleIInv, LifecycleTypeOK
<1>9. QED
  BY <1>2, <1>3, <1>4, <1>5, <1>6, <1>7, <1>8 DEF LifecycleIInv

LEMMA WriteStepKeeps ==
  ASSUME LifecycleIInv, Write
  PROVE  LifecycleIInv' /\ (Register \/ (ShowsTheSame /\ KeepsTombs))
BY MarkPhaseKeeps, MakeStageKeeps, FillStageKeeps, WriteManifestKeeps, PublishStageKeeps,
   MakeRootKeeps, WriteOnboardingKeeps, BuryRootKeeps, PurgeTombstoneKeeps, UnburyRootKeeps,
   RemoveRootKeeps, RemoveStageKeeps, ClearJournalKeeps, RegisterKeeps DEF Write

-----------------------------------------------------------------------------
(* Ends of calls.                                                             *)
CallEnds ==
  /\ call' = Idle /\ working' \in {working, NoProfile}
  /\ UNCHANGED <<registry, journal, applied>>

(* A call may end anywhere: the evidence for Recovery does not speak of it.   *)
LEMMA EndKeeps ==
  ASSUME LifecycleIInv, CallEnds, TreesTyped', manifest' \in BOOLEAN, Evidence', OthersClean'
  PROVE  LifecycleIInv'
<1>1. JournalAgrees'
  BY DEF CallEnds, LifecycleIInv, JournalAgrees, Setup, Cutover, Registered
<1>2. CallFollows' /\ Ready' /\ WorkAlone'
  BY DEF CallEnds, CallFollows, Ready, WorkAlone, LifecycleIInv
<1>3. LifecycleTypeOK'
  BY <1>1, <1>2, StaysTyped DEF CallEnds, LifecycleIInv, LifecycleTypeOK, JournalTyped
<1>4. QED
  BY <1>1, <1>2, <1>3 DEF LifecycleIInv

LEMMA CrashKeeps ==
  ASSUME LifecycleIInv, Crash \/ RegistryRefuses
  PROVE  LifecycleIInv' /\ ShowsTheSame /\ KeepsTombs
<1>1. CallEnds /\ UNCHANGED files
  BY DEF Crash, RegistryRefuses, CallEnds
<1>2. Evidence' /\ OthersClean' /\ TreesTyped' /\ manifest' \in BOOLEAN
  BY <1>1 DEF CallEnds, LifecycleIInv, Evidence, OthersClean, Clean, Registered, Cutover, LifecycleTypeOK,
              TreesTyped, files
<1>3. ShowsTheSame /\ KeepsTombs
  BY <1>1 DEF CallEnds, ShowsTheSame, KeepsTombs, Visible, Registered, files
<1>4. QED
  BY <1>1, <1>2, <1>3, EndKeeps

LEMMA CrashInRemovalKeeps ==
  ASSUME LifecycleIInv, CrashInRemoval
  PROVE  LifecycleIInv' /\ ShowsTheSame /\ KeepsTombs
<1>1. call # Idle /\ First(call.todo) \in {"purge", "remove-root", "remove-stage"}
  BY NoTodoWhenIdle DEF CrashInRemoval
<1>2. journal # NoJournal
  BY <1>1, OnlyOnboardingWithoutJournal, ScriptSteps
<1>3. CallEnds /\ manifest' = manifest
  BY DEF CrashInRemoval, CallEnds
<1>4. /\ journal.id \in Ids /\ call.id = journal.id /\ call.todo \in Scripts(journal.operation)
      /\ journal.operation \in {"default-migration", "create", "restore", "reset", "delete"}
  BY <1>1, <1>2, RunningCall
<1>5. \A tree \in Tree : Torn(tree) \in Tree /\ Torn(tree) # "none" /\ (tree = "bare" => Torn(tree) = "bare")
  BY DEF Torn, Tree
<1>6. \/ /\ call.todo \in {Reset3, Delete2} /\ UNCHANGED <<root, stage>>
         /\ tomb' = [tomb EXCEPT ![journal.id] = Torn(@)]
      \/ /\ call.todo = DropRoot2 /\ journal.operation \in {"create", "restore"} /\ UNCHANGED <<tomb, stage>>
         /\ root' = [root EXCEPT ![journal.id] = Torn(@)]
      \/ /\ call.todo = Unbury3 /\ journal.operation = "reset" /\ UNCHANGED <<tomb, stage>>
         /\ root' = [root EXCEPT ![journal.id] = Torn(@)]
      \/ /\ call.todo = DropStage2 /\ ~Cutover /\ journal.operation # "create" /\ UNCHANGED <<root, tomb>>
         /\ stage' = [stage EXCEPT ![journal.id] = Torn(@)]
  <2>1. CASE Todo("purge") /\ tomb' = [tomb EXCEPT ![call.id] = Torn(@)] /\ UNCHANGED <<root, stage>>
    BY <2>1, <1>4, ScriptSteps, NoTodoWhenIdle DEF Scripts, Staged
  <2>2. CASE Todo("remove-root") /\ root' = [root EXCEPT ![call.id] = Torn(@)] /\ UNCHANGED <<tomb, stage>>
    BY <2>2, <1>4, ScriptSteps, NoTodoWhenIdle DEF Scripts, Staged
  <2>3. CASE Todo("remove-stage") /\ stage' = [stage EXCEPT ![call.id] = Torn(@)] /\ UNCHANGED <<root, tomb>>
    BY <2>3, <1>4, ScriptSteps, NoTodoWhenIdle DEF Scripts, Staged, Cutover
  <2>4. QED
    BY <2>1, <2>2, <2>3 DEF CrashInRemoval
<1>7. TreesTyped' /\ manifest' \in BOOLEAN
  BY <1>3, <1>4, <1>5, <1>6 DEF LifecycleIInv, LifecycleTypeOK, TreesTyped
<1>8. OthersClean'
  BY <1>3, <1>4, <1>6 DEF LifecycleIInv, OthersClean, Clean, Registered, CallEnds, LifecycleTypeOK
<1>9. Evidence'
  <2>1. UNCHANGED <<registry, journal, applied>> /\ Cutover' = Cutover
    BY <1>3 DEF CallEnds, Cutover
  <2>2. root[journal.id] \in Tree /\ tomb[journal.id] \in Tree /\ stage[journal.id] \in Tree
    BY <1>4 DEF LifecycleIInv, LifecycleTypeOK
  <2>3. CASE call.todo \in {Reset3, Delete2} /\ UNCHANGED <<root, stage>>
    <3>1. Cutover /\ applied
      BY <1>1, <1>2, <1>4, <2>3, ScriptSteps DEF Scripts, Staged, Cutover, LifecycleIInv, Ready,
                                                 ReadyFor, After
    <3>2. QED
      BY <1>2, <2>1, <2>3, <3>1 DEF LifecycleIInv, Evidence, Registered, Missing
  <2>4. CASE /\ call.todo = DropRoot2 /\ journal.operation \in {"create", "restore"}
             /\ UNCHANGED <<tomb, stage>>
             /\ root' = [root EXCEPT ![journal.id] = Torn(@)]
    <3>1. root'[journal.id] = Torn(root[journal.id]) /\ root[journal.id] # "none" /\ ~applied
      BY <1>1, <1>2, <1>4, <2>4, ScriptSteps DEF LifecycleIInv, LifecycleTypeOK, Ready, ReadyFor, After, Missing
    <3>2. QED
      BY <1>2, <1>5, <2>1, <2>2, <2>4, <3>1 DEF LifecycleIInv, Evidence, Registered, Missing, Cutover
  <2>5. CASE /\ call.todo = Unbury3 /\ journal.operation = "reset" /\ UNCHANGED <<tomb, stage>>
             /\ root' = [root EXCEPT ![journal.id] = Torn(@)]
    <3>1. ~applied /\ tomb[journal.id] # "none"
      BY <1>1, <1>2, <1>4, <2>5, ScriptSteps DEF LifecycleIInv, Ready, ReadyFor, After, Missing
    <3>2. QED
      BY <1>2, <2>1, <2>5, <3>1 DEF LifecycleIInv, Evidence, Registered, Missing, Cutover
  <2>6. CASE call.todo = DropStage2 /\ ~Cutover /\ journal.operation # "create" /\ UNCHANGED <<root, tomb>>
    BY <1>2, <2>1, <2>6 DEF LifecycleIInv, Evidence, Registered, Missing
  <2>7. QED
    BY <1>6, <2>3, <2>4, <2>5, <2>6
<1>10. ShowsTheSame /\ KeepsTombs
  <2>1. /\ UNCHANGED <<registry, journal, applied>>
        /\ \A q \in Ids \ {journal.id} : root'[q] = root[q] /\ tomb'[q] = tomb[q] /\ stage'[q] = stage[q]
    BY <1>3, <1>4, <1>6 DEF CallEnds, LifecycleIInv, LifecycleTypeOK
  <2>2. /\ \A q \in Ids : q = journal.id => Visible(q)' = Visible(q)
        /\ tomb'[journal.id] = tomb[journal.id] \/ applied
    BY <1>1, <1>2, <1>4, <1>6, <2>1, ScriptSteps
       DEF LifecycleIInv, JournalAgrees, Evidence, Ready, ReadyFor, After, Visible, ContentOf,
           Registered,
           Missing, Cutover, LifecycleTypeOK
  <2>3. ASSUME NEW q \in Ids, q # journal.id PROVE Visible(q)' = Visible(q)
    BY <2>1, <2>3 DEF Visible, Registered, ContentOf, Missing
  <2>4. QED
    BY <2>1, <2>2, <2>3 DEF ShowsTheSame, KeepsTombs
<1>11. QED
  BY <1>3, <1>7, <1>8, <1>9, <1>10, EndKeeps

LEMMA StagingFailsKeeps ==
  ASSUME LifecycleIInv, StagingFails
  PROVE  LifecycleIInv' /\ ShowsTheSame /\ KeepsTombs
<1>1. call # Idle /\ First(call.todo) \in {"seal", "fill", "manifest", "publish"}
  BY NoTodoWhenIdle DEF StagingFails
<1>2. journal # NoJournal
  BY <1>1, OnlyOnboardingWithoutJournal, ScriptSteps
<1>3. CallEnds /\ manifest' = manifest /\ call.id = journal.id /\ journal.id \in Ids
      /\ UNCHANGED <<root, tomb>> /\ stage' = [stage EXCEPT ![journal.id] = "none"]
  BY <1>1, <1>2, RunningCall DEF StagingFails, CallEnds
<1>4. TreesTyped' /\ manifest' \in BOOLEAN
  BY <1>3 DEF LifecycleIInv, LifecycleTypeOK, TreesTyped, Tree
<1>5. OthersClean' /\ Evidence'
  BY <1>3 DEF LifecycleIInv, OthersClean, Evidence, Clean, Registered, Missing, Cutover, CallEnds,
              LifecycleTypeOK
<1>6. ShowsTheSame /\ KeepsTombs
  BY <1>3 DEF CallEnds, ShowsTheSame, KeepsTombs, Visible, Registered
<1>7. QED
  BY <1>3, <1>4, <1>5, <1>6, EndKeeps

-----------------------------------------------------------------------------
(* Recovery: each plan is begun where what it writes is ready for it.         *)
LEMMA CreateResolvesReady ==
  ASSUME LifecycleIInv, journal # NoJournal, journal.operation = "create", NEW plan, CreateResolves(plan)
  PROVE  plan \in {Clear1, DropRoot2} /\ ReadyFor(plan)
<1>1. \/ plan = Clear1 /\ Clean(journal.id)
      \/ plan = DropRoot2 /\ ~Missing(root[journal.id]) /\ Missing(stage[journal.id]) /\ ~applied
  BY DEF LifecycleIInv, JournalAgrees, Evidence, CreateResolves, Clear1, DropRoot2, Clean, Missing,
         Cutover, Setup
<1>2. QED
  BY <1>1, ScriptSteps DEF ReadyFor, After

LEMMA RestoreResolvesReady ==
  ASSUME LifecycleIInv, journal # NoJournal, journal.operation = "restore", NEW plan, RestoreResolves(plan)
  PROVE  plan \in {Clear1, DropRoot2, DropStage2} /\ ReadyFor(plan)
<1>1. \/ plan = Clear1 /\ Clean(journal.id)
      \/ plan = DropRoot2 /\ ~Missing(root[journal.id]) /\ Missing(stage[journal.id]) /\ ~applied
      \/ plan = DropStage2 /\ Missing(root[journal.id]) /\ ~applied
  BY DEF LifecycleIInv, JournalAgrees, Evidence, RestoreResolves, Clear1, DropRoot2, DropStage2,
         Clean, Missing, Cutover, Setup
<1>2. QED
  BY <1>1, ScriptSteps DEF ReadyFor, After

LEMMA TombstoneResolvesReady ==
  ASSUME LifecycleIInv, journal # NoJournal, Cutover, NEW plan, TombstoneResolves(plan)
  PROVE  /\ plan \in {Clear1, Delete2, Unbury2, Unbury3} /\ ReadyFor(plan)
         /\ plan = Unbury3 => journal.operation = "reset"
<1>1. /\ registry.generation = IF applied THEN journal.expected + 1 ELSE journal.expected
      /\ journal.expected \in Nat
  BY DEF LifecycleIInv, JournalAgrees, LifecycleTypeOK
<1>2. \/ plan = Clear1 /\ Clean(journal.id)
      \/ plan = Delete2 /\ applied
      \/ plan = Unbury2 /\ ~applied /\ ~Missing(tomb[journal.id]) /\ Missing(root[journal.id])
      \/ plan = Unbury3 /\ ~applied /\ ~Missing(tomb[journal.id]) /\ journal.operation = "reset"
  <2>1. /\ plan = <<"clear">> => plan = Clear1
        /\ plan = <<"purge", "clear">> => plan = Delete2
        /\ plan = <<"unbury", "clear">> => plan = Unbury2
        /\ plan = <<"remove-root", "unbury", "clear">> => plan = Unbury3
    BY DEF Clear1, Delete2, Unbury2, Unbury3
  <2>2. CASE journal.operation = "reset"
    BY <1>1, <2>1, <2>2 DEF TombstoneResolves, LifecycleIInv, JournalAgrees, Evidence, Clean, Cutover
  <2>3. CASE journal.operation = "delete"
    BY <1>1, <2>1, <2>3 DEF TombstoneResolves, LifecycleIInv, JournalAgrees, Evidence, Clean, Cutover
  <2>4. QED
    BY <2>2, <2>3 DEF Cutover
<1>3. QED
  BY <1>2, ScriptSteps DEF ReadyFor, After

LEMMA MigrationResolvesReady ==
  ASSUME LifecycleIInv, journal # NoJournal, Setup, NEW plan, MigrationResolves(plan)
  PROVE  plan \in {Clear1, DropStage2, Publish3, Resume4} /\ ReadyFor(plan)
<1>1. /\ registry.generation = IF applied THEN journal.expected + 1 ELSE journal.expected
      /\ journal.expected = 0 /\ Whole = "filled" /\ ~Cutover
      /\ Registered(journal.id) <=> applied
  BY DEF LifecycleIInv, JournalAgrees, Setup, Cutover, Whole
<1>2. \/ plan = Clear1 /\ Clean(journal.id)
      \/ plan = DropStage2 /\ Missing(root[journal.id]) /\ ~applied
      \/ plan = Publish3 /\ root[journal.id] = Whole /\ Missing(stage[journal.id]) /\ ~applied
      \/ plan = Resume4 /\ Missing(root[journal.id]) /\ stage[journal.id] = Whole /\ ~applied
  <2>1. /\ plan = <<"clear">> => plan = Clear1
        /\ plan = <<"remove-stage", "clear">> => plan = DropStage2
        /\ plan = <<"register", "registry-committed", "clear">> => plan = Publish3
        /\ plan = <<"publish">> \o <<"register", "registry-committed", "clear">> => plan = Resume4
    BY DEF Clear1, DropStage2, Publish3, Resume4
  <2>2. QED
    BY <1>1, <2>1 DEF MigrationResolves, LifecycleIInv, Evidence, Clean, Missing
<1>3. QED
  BY <1>2, ScriptSteps DEF ReadyFor, After

LEMMA RecoveryKeeps ==
  ASSUME LifecycleIInv, RecoverProfileLifecycle
  PROVE  LifecycleIInv' /\ ShowsTheSame /\ KeepsTombs
<1>1. PICK plan \in Plans : Resolves(plan) /\ call' = [id |-> journal.id, todo |-> plan]
  BY DEF RecoverProfileLifecycle
<1>2. /\ journal # NoJournal /\ call = Idle /\ working = NoProfile
      /\ UNCHANGED <<registry, journal, root, tomb, stage, manifest, working, applied>>
  BY DEF RecoverProfileLifecycle, files
<1>3. plan \in Scripts(journal.operation) /\ ReadyFor(plan)
  <2>1. CASE journal.operation = "default-migration"
    BY <1>1, <1>2, <2>1, MigrationResolvesReady DEF Resolves, Scripts, Staged, Setup
  <2>2. CASE journal.operation = "create"
    BY <1>1, <1>2, <2>2, CreateResolvesReady DEF Resolves, Scripts, Staged
  <2>3. CASE journal.operation = "restore"
    BY <1>1, <1>2, <2>3, RestoreResolvesReady DEF Resolves, Scripts, Staged
  <2>4. CASE journal.operation = "reset"
    BY <1>1, <1>2, <2>4, TombstoneResolvesReady DEF Resolves, Scripts, Staged, Cutover
  <2>5. CASE journal.operation = "delete"
    <3>1. plan \in {Clear1, Delete2, Unbury2} /\ ReadyFor(plan)
      BY <1>1, <1>2, <2>5, TombstoneResolvesReady DEF Resolves, Cutover
    <3>2. QED
      BY <2>5, <3>1 DEF Scripts
  <2>6. QED
    BY <1>2, <2>1, <2>2, <2>3, <2>4, <2>5 DEF LifecycleIInv, JournalAgrees
<1>4. call'.todo = plan /\ call'.id = journal.id
  BY <1>1
<1>5. CallFollows'
  BY <1>1, <1>2, <1>3, <1>4 DEF CallFollows
<1>6. Ready'
  BY <1>2, <1>3, <1>4 DEF Ready, ReadyFor, Clean, Registered, Whole, Setup
<1>7. JournalAgrees' /\ OthersClean' /\ Evidence' /\ WorkAlone'
  BY <1>2 DEF LifecycleIInv, JournalAgrees, OthersClean, Evidence, WorkAlone, Clean, Registered,
              Setup, Cutover
<1>8. LifecycleTypeOK'
  BY <1>2, <1>5, <1>7, StaysTyped DEF LifecycleIInv, LifecycleTypeOK, JournalTyped, TreesTyped
<1>9. ShowsTheSame /\ KeepsTombs
  BY <1>2 DEF ShowsTheSame, KeepsTombs, Visible, Registered
<1>10. QED
  BY <1>5, <1>6, <1>7, <1>8, <1>9 DEF LifecycleIInv

-----------------------------------------------------------------------------
(* Ordinary work and requests.                                                *)
LEMMA WorkKeeps ==
  ASSUME LifecycleIInv, BeginWork \/ EndWork
  PROVE  LifecycleIInv'
<1>1. /\ UNCHANGED <<registry, journal, tomb, stage, manifest, call, applied>>
      /\ journal = NoJournal /\ call = Idle /\ registry.active # NoProfile
      /\ working' \in {NoProfile, registry.active}
  BY DEF BeginWork, EndWork, LifecycleIInv, WorkAlone, files
<1>2. registry.active \in registry.profiles /\ registry.active \in Ids
  BY <1>1 DEF LifecycleIInv, LifecycleTypeOK
<1>3. \/ root' = root
      \/ root' = [root EXCEPT ![registry.active] = IF @ = "sealed" THEN @ ELSE "filled"]
  BY DEF BeginWork, EndWork, LifecycleIInv, WorkAlone, files
<1>4. JournalAgrees' /\ Evidence' /\ CallFollows' /\ Ready' /\ WorkAlone'
  BY <1>1 DEF JournalAgrees, Evidence, CallFollows, Ready, WorkAlone
<1>5. OthersClean'
  BY <1>1, <1>2, <1>3 DEF LifecycleIInv, LifecycleTypeOK, OthersClean, Clean, Registered, Missing
<1>6. LifecycleTypeOK'
  BY <1>1, <1>2, <1>3, <1>4, StaysTyped DEF LifecycleIInv, LifecycleTypeOK, JournalTyped, TreesTyped, Tree
<1>7. QED
  BY <1>4, <1>5, <1>6 DEF LifecycleIInv

(* A request is only begun on a clean store, with the journal it then keeps.  *)
LEMMA BeginKeeps ==
  ASSUME LifecycleIInv,
         NEW operation \in {"default-migration", "create", "restore", "reset", "delete"},
         NEW p \in Ids, NEW todo \in Scripts(operation),
         Begin(operation, p, registry.generation, todo),
         IF operation = "default-migration" THEN registry.generation = 0 /\ p = Default
                                            ELSE registry.generation # 0 /\ p # registry.active,
         operation = "reset" => p \in Testing,
         operation = "delete" => p # Default,
         Registered(p) <=> operation \in {"reset", "delete"},
         todo \in {Setup8, Create6, Restore7, Reset9, Delete6}
  PROVE  LifecycleIInv' /\ ShowsTheSame /\ KeepsTombs
<1>1. /\ journal = NoJournal /\ call = Idle /\ working = NoProfile
      /\ registry.generation < MaxGeneration /\ applied' = FALSE
      /\ UNCHANGED <<registry, root, tomb, stage, manifest, working>>
      /\ journal' = [operation |-> operation, phase |-> "prepared", id |-> p,
                     expected |-> registry.generation]
      /\ call' = [id |-> p, todo |-> todo]
  BY DEF Begin, MutationReady, files
<1>2. /\ journal' # NoJournal /\ journal'.operation = operation /\ journal'.id = p
      /\ journal'.expected = registry.generation /\ call'.todo = todo /\ call'.id = p
      /\ JournalTyped'
  <2>1. journal'.operation = operation /\ NoJournal.operation = "none"
    BY <1>1 DEF NoJournal
  <2>2. JournalTyped'
    BY <1>1 DEF JournalTyped, Phases, LifecycleIInv, LifecycleTypeOK
  <2>3. QED
    BY <1>1, <2>1, <2>2
<1>3. \A q \in Ids : Clean(q)
  BY <1>1, LifecycleAssumption DEF LifecycleIInv, OthersClean, NoJournal
<1>4. JournalAgrees'
  BY <1>1, <1>2 DEF JournalAgrees, Setup, Cutover, Registered
<1>5. OthersClean'
  BY <1>1, <1>3 DEF OthersClean, Clean, Registered
<1>6. Evidence'
  BY <1>1, <1>2, <1>3 DEF Evidence, Clean, Registered, Missing, Cutover
<1>7. CallFollows'
  BY <1>1, <1>2 DEF CallFollows
<1>8. Ready'
  <2>1. root[p] = "none" <=> todo \in {Setup8, Create6, Restore7}
    BY <1>3, ScriptSteps DEF Clean, Missing, Scripts, Staged
  <2>2. QED
    BY <1>1, <1>2, <1>3, <2>1, ScriptSteps DEF Ready, ReadyFor, After, Clean, Registered, Missing
<1>9. WorkAlone'
  BY <1>1 DEF WorkAlone
<1>10. LifecycleTypeOK'
  <2>1. (call.id \in Ids \union {NoProfile} /\ Len(call.todo) <= 9)'
    BY <1>4, <1>7, FollowingCallIsTyped, PTL
  <2>2. QED
    BY <1>1, <1>2, <2>1 DEF LifecycleIInv, LifecycleTypeOK, JournalTyped
<1>11. ShowsTheSame /\ KeepsTombs
  BY <1>1, <1>3 DEF ShowsTheSame, KeepsTombs, Visible, Registered, Clean, Missing
<1>12. QED
  BY <1>4, <1>5, <1>6, <1>7, <1>8, <1>9, <1>10, <1>11 DEF LifecycleIInv

(* Rename and switch change the registry alone, and only a clean store's.     *)
LEMMA RegistryAloneKeeps ==
  ASSUME LifecycleIInv, MutationReady, UNCHANGED <<journal, files, call, working, applied>>,
         NEW active, active = registry.active \/ active \in registry.profiles,
         registry.generation \in 1..(MaxGeneration - 1),
         registry' = [registry EXCEPT !.generation = @ + 1, !.active = active]
  PROVE  LifecycleIInv'
<1>1. journal = NoJournal /\ call = Idle /\ working = NoProfile
  BY DEF MutationReady
<1>2. registry'.profiles = registry.profiles
  BY DEF LifecycleIInv, LifecycleTypeOK
<1>3. JournalAgrees' /\ Evidence' /\ CallFollows' /\ Ready' /\ WorkAlone'
  BY <1>1 DEF JournalAgrees, Evidence, CallFollows, Ready, WorkAlone
<1>4. OthersClean'
  BY <1>2 DEF LifecycleIInv, OthersClean, Clean, Registered, files
<1>5. LifecycleTypeOK'
  <2>1. registry' = [generation |-> registry.generation + 1, profiles |-> registry.profiles,
                     active |-> active]
    BY DEF LifecycleIInv, LifecycleTypeOK
  <2>2. registry.generation + 1 \in 1..MaxGeneration
    BY LifecycleAssumption
  <2>3. active \in registry.profiles /\ active # NoProfile /\ registry.profiles \subseteq Ids
    BY LifecycleAssumption DEF LifecycleIInv, LifecycleTypeOK, Ids
  <2>4. /\ registry'.generation = registry.generation + 1 /\ registry'.profiles = registry.profiles
        /\ registry'.active = active
    BY <2>1
  <2>5. /\ registry' \in [generation : 0..MaxGeneration, profiles : SUBSET Ids, active : Ids \union {NoProfile}]
        /\ registry'.generation # 0 /\ registry'.profiles # {}
    BY <2>1, <2>2, <2>3, <2>4, LifecycleAssumption
  <2>6. QED
    BY <2>3, <2>4, <2>5 DEF LifecycleIInv, LifecycleTypeOK, files
<1>6. QED
  BY <1>3, <1>4, <1>5 DEF LifecycleIInv

LEMMA RequestKeeps ==
  ASSUME LifecycleIInv, Staleness = 0, Request
  PROVE  /\ LifecycleIInv' /\ KeepsTombs
         /\ \/ ShowsTheSame
            \/ \E p \in Ids : p \in registry.profiles /\ SwitchProfile(p, registry.generation)
<1>1. registry.generation \in Nat /\ \A e \in Expected : e = registry.generation /\ e # 0
  BY DEF Expected, LifecycleIInv, LifecycleTypeOK
<1>2. CASE InitializeDefaultProfile
  <2>1. Begin("default-migration", Default, registry.generation, Setup8)
    BY <1>2 DEF InitializeDefaultProfile, Setup8
  <2>2. registry.generation = 0 /\ ~Registered(Default) /\ Default \in Ids
    BY <1>2 DEF InitializeDefaultProfile, Registered, LifecycleIInv, LifecycleTypeOK, Ids
  <2>3. Setup8 \in Scripts("default-migration")
    BY DEF Scripts
  <2>4. QED
    BY <2>1, <2>2, <2>3, BeginKeeps
<1>3. ASSUME NEW p \in Ids, NEW e \in Expected,
             \/ CreateProfile(p, e) \/ RestoreProfile(p, e)
             \/ ResetTestingProfile(p, e) \/ DeleteProfile(p, e)
      PROVE  LifecycleIInv' /\ ShowsTheSame /\ KeepsTombs
  <2>1. e = registry.generation /\ registry.generation # 0
    BY <1>1
  <2>2. registry.active \in registry.profiles
    BY <2>1 DEF LifecycleIInv, LifecycleTypeOK
  <2>3. CASE CreateProfile(p, e)
    <3>1. Begin("create", p, registry.generation, Create6) /\ ~Registered(p)
      BY <2>1, <2>3 DEF CreateProfile, Create6
    <3>2. Create6 \in Scripts("create") /\ p # registry.active
      BY <2>2, <3>1 DEF Scripts, Registered
    <3>3. QED
      BY <2>1, <3>1, <3>2, BeginKeeps
  <2>4. CASE RestoreProfile(p, e)
    <3>1. Begin("restore", p, registry.generation, Restore7) /\ ~Registered(p)
      BY <2>1, <2>4 DEF RestoreProfile, Restore7
    <3>2. Restore7 \in Scripts("restore") /\ p # registry.active
      BY <2>2, <3>1 DEF Scripts, Registered
    <3>3. QED
      BY <2>1, <3>1, <3>2, BeginKeeps
  <2>5. CASE ResetTestingProfile(p, e)
    <3>1. /\ Begin("reset", p, registry.generation, Reset9) /\ Registered(p)
          /\ p \in Testing /\ p # registry.active
      BY <2>1, <2>5 DEF ResetTestingProfile, Reset9
    <3>2. Reset9 \in Scripts("reset")
      BY DEF Scripts
    <3>3. QED
      BY <2>1, <3>1, <3>2, BeginKeeps
  <2>6. CASE DeleteProfile(p, e)
    <3>1. /\ Begin("delete", p, registry.generation, Delete6) /\ Registered(p) /\ p # Default
          /\ p # registry.active
      BY <2>1, <2>6 DEF DeleteProfile, Delete6
    <3>2. Delete6 \in Scripts("delete")
      BY DEF Scripts
    <3>3. QED
      BY <2>1, <3>1, <3>2, BeginKeeps
  <2>7. QED
    BY <1>3, <2>3, <2>4, <2>5, <2>6
<1>4. ASSUME NEW p \in Ids, NEW e \in Expected, SwitchProfile(p, e)
      PROVE  /\ LifecycleIInv' /\ KeepsTombs
             /\ p \in registry.profiles /\ SwitchProfile(p, registry.generation)
  <2>1. /\ MutationReady /\ p \in registry.profiles /\ UNCHANGED <<journal, files, call, working, applied>>
        /\ registry' = [registry EXCEPT !.generation = @ + 1, !.active = p]
        /\ registry.generation < MaxGeneration /\ registry.generation # 0
    BY <1>1, <1>4 DEF SwitchProfile, Registered
  <2>2. registry.generation \in 1..(MaxGeneration - 1)
    BY <1>1, <2>1, LifecycleAssumption
  <2>3. KeepsTombs
    BY <2>1 DEF KeepsTombs, files
  <2>4. QED
    BY <1>1, <1>4, <2>1, <2>2, <2>3, RegistryAloneKeeps
<1>5. ASSUME NEW e \in Expected, RenameProfile(e)
      PROVE  LifecycleIInv' /\ ShowsTheSame /\ KeepsTombs
  <2>1. registry' = [registry EXCEPT !.generation = @ + 1, !.active = registry.active]
    BY <1>5 DEF RenameProfile, LifecycleIInv, LifecycleTypeOK
  <2>2. registry'.active = registry.active /\ registry'.profiles = registry.profiles
    BY <1>5 DEF RenameProfile, LifecycleIInv, LifecycleTypeOK
  <2>3. ShowsTheSame /\ KeepsTombs
    BY <1>5, <2>2 DEF RenameProfile, ShowsTheSame, KeepsTombs, Visible, Registered, files
  <2>4. QED
    BY <1>5, <2>1, <2>3, RegistryAloneKeeps DEF RenameProfile
<1>6. QED
  BY <1>2, <1>3, <1>4, <1>5 DEF Request

-----------------------------------------------------------------------------
LEMMA InitIsSound == LifecycleInit => LifecycleIInv
<1> SUFFICES ASSUME LifecycleInit PROVE LifecycleIInv
  OBVIOUS
<1>1. NoJournal.id = NoProfile /\ NoProfile \notin Ids
  BY LifecycleAssumption DEF NoJournal
<1>2. JournalAgrees /\ Evidence /\ CallFollows /\ Ready /\ WorkAlone
  BY DEF LifecycleInit, JournalAgrees, Evidence, CallFollows, Ready, WorkAlone
<1>3. OthersClean
  BY DEF LifecycleInit, OthersClean, Clean, Missing, Registered
<1>4. LifecycleTypeOK
  <2>1. call.id \in Ids \union {NoProfile} /\ Len(call.todo) <= 9
    BY <1>2, FollowingCallIsTyped
  <2>2. NoJournal \in [operation : {"none", "default-migration", "create", "restore", "reset", "delete"},
                       phase : Phases \union {"none"}, id : Ids \union {NoProfile}, expected : 0..MaxGeneration]
    BY LifecycleAssumption DEF NoJournal
  <2>3. registry \in [generation : 0..MaxGeneration, profiles : SUBSET Ids, active : Ids \union {NoProfile}]
        /\ registry.generation = 0 /\ registry.profiles = {} /\ registry.active = NoProfile
    BY LifecycleAssumption DEF LifecycleInit
  <2>4. root \in [Ids -> Tree] /\ tomb \in [Ids -> Tree] /\ stage \in [Ids -> Tree]
    BY DEF LifecycleInit, Tree
  <2>5. QED
    BY <2>1, <2>2, <2>3, <2>4 DEF LifecycleInit, LifecycleTypeOK
<1>5. QED
  BY <1>2, <1>3, <1>4 DEF LifecycleIInv

LEMMA StepKeeps ==
  ASSUME LifecycleIInv, Staleness = 0, [LifecycleNext]_lifecycleVars
  PROVE  LifecycleIInv'
<1>1. CASE LifecycleNext
  BY <1>1, WorkKeeps, RequestKeeps, WriteStepKeeps, CrashKeeps, CrashInRemovalKeeps,
     StagingFailsKeeps, RecoveryKeeps DEF LifecycleNext
<1>2. CASE UNCHANGED lifecycleVars
  BY <1>2 DEF lifecycleVars, files, LifecycleIInv, LifecycleTypeOK, JournalAgrees, OthersClean,
              Evidence, CallFollows, Ready, ReadyFor, WorkAlone, Clean, Registered, Setup, Cutover, Whole
<1>3. QED
  BY <1>1, <1>2

-----------------------------------------------------------------------------
(* The specification, for request bodies that carry the current generation.   *)
LEMMA IInvHolds ==
  ASSUME Staleness = 0
  PROVE  LifecycleSpec => []LifecycleIInv
<1>1. LifecycleInit => LifecycleIInv
  BY InitIsSound
<1>2. LifecycleIInv /\ [LifecycleNext]_lifecycleVars => LifecycleIInv'
  BY StepKeeps
<1>3. QED
  BY <1>1, <1>2, PTL DEF LifecycleSpec

(* Whatever is interrupted and wherever, a registered profile has its tree or  *)
(* a tombstone the journal names, without a journal nothing is left of others, *)
(* and a crashed creation can be resolved (recoverProfileLifecycle).           *)
THEOREM LifecycleInvHolds ==
  ASSUME Staleness = 0
  PROVE  LifecycleSpec => []LifecycleInv
<1>1. LifecycleIInv => RegisteredHaveStorage
  <2> SUFFICES ASSUME LifecycleIInv, NEW p \in registry.profiles
               PROVE  ~Missing(root[p]) \/ (journal.id = p /\ ~Missing(tomb[p]))
    BY DEF RegisteredHaveStorage
  <2>1. p \in Ids
    BY DEF LifecycleIInv, LifecycleTypeOK
  <2>2. CASE p # journal.id
    BY <2>1, <2>2 DEF LifecycleIInv, OthersClean, Clean, Registered
  <2>3. CASE p = journal.id
    <3>1. journal # NoJournal
      BY <2>1, <2>3, LifecycleAssumption DEF NoJournal
    <3>2. QED
      BY <2>3, <3>1 DEF LifecycleIInv, Evidence, Registered
  <2>4. QED
    BY <2>2, <2>3
<1>2. LifecycleIInv => NothingLeftBehind
  BY LifecycleAssumption DEF LifecycleIInv, NothingLeftBehind, OthersClean, Clean, NoJournal
<1>3. LifecycleIInv => CreationsResolve
  <2> SUFFICES ASSUME LifecycleIInv, journal.operation = "create"
               PROVE  \E plan \in Plans : Resolves(plan)
    BY DEF CreationsResolve, Pending, Resolvable
  <2>1. journal # NoJournal
    BY DEF NoJournal
  <2>2. /\ registry.generation = IF applied THEN journal.expected + 1 ELSE journal.expected
        /\ Registered(journal.id) <=> applied
        /\ applied => ~Missing(root[journal.id])
        /\ ~applied => root[journal.id] \in {"none", "bare"}
    BY <2>1 DEF LifecycleIInv, JournalAgrees, Evidence, Cutover, Missing
  <2>3. <<"clear">> \in Plans /\ <<"remove-root", "clear">> \in Plans
    BY DEF Plans
  <2>4. CASE applied \/ Missing(root[journal.id])
    <3>1. CreateResolves(<<"clear">>)
      BY <2>2, <2>4 DEF CreateResolves
    <3>2. QED
      BY <2>2, <2>3, <3>1 DEF Resolves
  <2>5. CASE ~applied /\ root[journal.id] = "bare"
    <3>1. CreateResolves(<<"remove-root", "clear">>)
      BY <2>2, <2>5 DEF CreateResolves
    <3>2. QED
      BY <2>2, <2>3, <3>1 DEF Resolves
  <2>6. QED
    BY <2>2, <2>4, <2>5 DEF Missing
<1>4. LifecycleIInv => LifecycleInv
  BY <1>1, <1>2, <1>3 DEF LifecycleInv, LifecycleIInv
<1>5. QED
  BY <1>4, IInvHolds, PTL

(* No operation of the lifecycle takes a profile away under work that is       *)
(* bound to it (requireNoActiveOperations).                                    *)
THEOREM WorkStaysHomeHolds ==
  ASSUME Staleness = 0
  PROVE  LifecycleSpec => []WorkStaysHome
<1>1. LifecycleIInv => WorkStaysHome
  <2> SUFFICES ASSUME LifecycleIInv, working # NoProfile
               PROVE  working = registry.active /\ ~Missing(root[working])
    BY DEF WorkStaysHome
  <2>1. working = registry.active /\ journal = NoJournal
    BY DEF LifecycleIInv, WorkAlone
  <2>2. working \in registry.profiles /\ working \in Ids
    BY <2>1 DEF LifecycleIInv, LifecycleTypeOK
  <2>3. QED
    BY <2>1, <2>2, LifecycleAssumption DEF LifecycleIInv, OthersClean, Clean, Registered, NoJournal
<1>2. QED
  BY <1>1, IInvHolds, PTL

(* A buried tree is only damaged or dropped when the registry has taken the    *)
(* reset or the deletion; until then it can only go back (recoverTombstone).   *)
THEOREM KeptUntilCommittedHolds ==
  ASSUME Staleness = 0
  PROVE  LifecycleSpec => KeptUntilCommitted
<1>1. LifecycleIInv /\ [LifecycleNext]_lifecycleVars
      => [\A p \in Ids : Missing(tomb[p]) \/ tomb'[p] = tomb[p] \/ root'[p] = tomb[p] \/ applied]_lifecycleVars
  <2> SUFFICES ASSUME LifecycleIInv, LifecycleNext
               PROVE  KeepsTombs
    BY DEF KeepsTombs
  <2>1. CASE BeginWork \/ EndWork \/ Register
    BY <2>1 DEF BeginWork, EndWork, Register, KeepsTombs, files
  <2>2. QED
    BY <2>1, RequestKeeps, WriteStepKeeps, CrashKeeps, CrashInRemovalKeeps, StagingFailsKeeps,
       RecoveryKeeps DEF LifecycleNext
<1>2. QED
  BY <1>1, IInvHolds, PTL DEF LifecycleSpec, KeptUntilCommitted

-----------------------------------------------------------------------------
(* The refinement of ProfileStore.                                            *)
Shown == [p \in Ids |-> Visible(p)]

LEMMA SameIsStutter ==
  ASSUME ShowsTheSame
  PROVE  UNCHANGED Store!storeVars
BY DEF ShowsTheSame, Store!storeVars

(* What the registry takes is one step of the store for the journal's profile. *)
LEMMA RegisterIsAccepted ==
  ASSUME LifecycleIInv, Register
  PROVE  Store!Next
<1> DEFINE p == journal.id
           Shows(content) == Shown' = [Shown EXCEPT ![p] = content]
<1>1. journal # NoJournal /\ p \in Ids /\ ~applied /\ applied' /\ UNCHANGED <<journal, root, tomb>>
  BY RegisterCommits
<1>2. ASSUME NEW content, \A q \in Ids : q = p => Visible(q)' = content
      PROVE  Shows(content)
  <2>1. ASSUME NEW q \in Ids, q # p PROVE Visible(q)' = Visible(q)
    BY <1>1, <2>1, RegisterCommits DEF Visible, Registered
  <2>2. QED
    BY <1>2, <2>1, <1>1 DEF Shown
<1>3. registry'.active = IF Setup THEN Default ELSE registry.active
  BY RegisterCommits
<1>4. CASE Setup
  <2>1. p = Default /\ registry.active = NoProfile /\ root[p] = "filled" /\ Missing(tomb[p])
    BY <1>1, <1>4, RegisterCommits, ScriptSteps
       DEF LifecycleIInv, JournalAgrees, Evidence, Ready, ReadyFor, LifecycleTypeOK, Setup, Cutover, Whole
  <2>2. \A q \in Ids : q = p => Visible(q)' = "filled"
    BY <1>1, <1>4, <2>1, RegisterCommits DEF Visible, ContentOf, Registered, Setup, Missing
  <2>3. Store!Adopt
    BY <1>2, <1>3, <1>4, <2>1, <2>2 DEF Store!Adopt, Shown
  <2>4. QED
    BY <2>3 DEF Store!Next
<1>5. CASE ~Setup
  <2>1. registry.active # NoProfile /\ p # registry.active /\ registry'.active = registry.active
    BY <1>1, <1>3, <1>5, RegisterCommits DEF LifecycleIInv, JournalAgrees, LifecycleTypeOK
  <2>2. CASE journal.operation \in {"create", "restore"}
    <3>1. ContentOf(root[p]) \in {"empty", "filled"} /\ ~Cutover /\ Missing(tomb[p])
      BY <1>1, <1>5, <2>2, RegisterCommits, ScriptSteps
         DEF LifecycleIInv, Evidence, Ready, ReadyFor, Setup, Cutover, Whole, ContentOf
    <3>2. \A q \in Ids : q = p => Visible(q)' = ContentOf(root[p])
      BY <1>1, <2>2, <3>1, RegisterCommits DEF Visible, Registered
    <3>3. Visible(p) = "absent"
      BY <1>1, <2>2, <3>1, RegisterCommits DEF LifecycleIInv, JournalAgrees, Visible, Cutover
    <3>4. Store!Add(p, ContentOf(root[p]))
      BY <1>1, <1>2, <2>1, <3>2, <3>3 DEF Store!Add, Shown
    <3>5. QED
      BY <1>1, <3>1, <3>4 DEF Store!Next
  <2>3. CASE Cutover
    <3>1. /\ ~Missing(tomb[p]) /\ Registered(p) /\ tomb[p] \in Tree
          /\ journal.operation = "reset" => root[p] = "bare" /\ p \in Testing
          /\ journal.operation = "delete" => p # Default
      BY <1>1, <2>3, RegisterCommits, ScriptSteps
         DEF LifecycleIInv, JournalAgrees, Ready, ReadyFor, Cutover, LifecycleTypeOK
    <3>2. Visible(p) # "absent"
      BY <1>1, <3>1 DEF Visible, ContentOf, Missing, Tree
    <3>3. CASE journal.operation = "reset"
      <4>1. \A q \in Ids : q = p => Visible(q)' = "empty"
        BY <1>1, <3>1, <3>3, RegisterCommits DEF Visible, ContentOf, Registered
      <4>2. Store!Reset(p)
        BY <1>1, <1>2, <2>1, <3>1, <3>2, <3>3, <4>1 DEF Store!Reset, Shown
      <4>3. QED
        BY <1>1, <4>2 DEF Store!Next
    <3>4. CASE journal.operation = "delete"
      <4>1. \A q \in Ids : q = p => Visible(q)' = "absent"
        BY <1>1, <3>4, RegisterCommits DEF Visible, Registered
      <4>2. Store!Delete(p)
        BY <1>1, <1>2, <2>1, <3>1, <3>2, <3>4, <4>1 DEF Store!Delete, Shown
      <4>3. QED
        BY <1>1, <4>2 DEF Store!Next
    <3>5. QED
      BY <2>3, <3>3, <3>4 DEF Cutover
  <2>4. QED
    BY <1>5, <2>2, <2>3, RegisterCommits DEF Setup, Cutover
<1>6. QED
  BY <1>4, <1>5

LEMMA WorkIsAccepted ==
  ASSUME LifecycleIInv, EndWork
  PROVE  Store!Next
<1>1. /\ working = registry.active /\ working # NoProfile /\ journal = NoJournal
      /\ UNCHANGED <<registry, journal, tomb, applied>>
      /\ root' = [root EXCEPT ![working] = IF @ = "sealed" THEN @ ELSE "filled"]
  BY DEF EndWork, LifecycleIInv, WorkAlone
<1>2. working \in registry.profiles /\ working \in Ids
  BY <1>1 DEF LifecycleIInv, LifecycleTypeOK
<1>3. \A q \in Ids : Visible(q)' = IF q = working THEN "filled" ELSE Visible(q)
  BY <1>1, <1>2, LifecycleAssumption DEF LifecycleIInv, LifecycleTypeOK, Visible, ContentOf, Registered,
                                         NoJournal
<1>4. Shown' = [Shown EXCEPT ![registry.active] = "filled"]
  BY <1>1, <1>2, <1>3 DEF Shown
<1>5. Store!Work
  BY <1>1, <1>4 DEF Store!Work, Shown
<1>6. QED
  BY <1>5 DEF Store!Next

LEMMA SwitchIsAccepted ==
  ASSUME LifecycleIInv, NEW p \in Ids, p \in registry.profiles, SwitchProfile(p, registry.generation)
  PROVE  Store!Next
<1>1. /\ UNCHANGED <<journal, root, tomb, applied>> /\ journal = NoJournal /\ ~Missing(root[p])
      /\ registry' = [registry EXCEPT !.generation = @ + 1, !.active = p]
  BY DEF SwitchProfile, MutationReady, files
<1>2. registry'.profiles = registry.profiles /\ registry'.active = p
  BY <1>1 DEF LifecycleIInv, LifecycleTypeOK
<1>3. \A q \in Ids : Visible(q)' = Visible(q)
  BY <1>1, <1>2 DEF Visible, Registered
<1>4. Visible(p) # "absent"
  BY <1>1, LifecycleAssumption DEF Visible, Registered, ContentOf, Missing, NoJournal, Tree
<1>5. Store!SwitchTo(p)
  BY <1>2, <1>3, <1>4 DEF Store!SwitchTo
<1>6. QED
  BY <1>5 DEF Store!Next

(* Interrupted or not, what a user is shown changes by accepted requests alone, *)
(* each in one step; crashes, failures and Recovery are invisible              *)
(* (profile-lifecycle.ts over profile-recovery.ts).                            *)
THEOREM ImplementsProfileStoreHolds ==
  ASSUME Staleness = 0
  PROVE  LifecycleSpec => ImplementsProfileStore
<1>1. LifecycleInit => Store!Init
  BY DEF LifecycleInit, Store!Init, Visible, Registered, Missing
<1>2. LifecycleIInv /\ [LifecycleNext]_lifecycleVars => [Store!Next]_(Store!storeVars)
  <2> SUFFICES ASSUME LifecycleIInv, [LifecycleNext]_lifecycleVars
               PROVE  Store!Next \/ UNCHANGED Store!storeVars
    OBVIOUS
  <2>1. CASE BeginWork
    BY <2>1 DEF BeginWork, files, Store!storeVars, Visible, Registered
  <2>2. CASE EndWork \/ Register
    BY <2>2, WorkIsAccepted, RegisterIsAccepted
  <2>3. CASE Request
    BY <2>3, RequestKeeps, SameIsStutter, SwitchIsAccepted
  <2>4. CASE Write /\ ~Register
    BY <2>4, WriteStepKeeps, SameIsStutter
  <2>5. CASE RegistryRefuses \/ Crash \/ CrashInRemoval \/ StagingFails \/ RecoverProfileLifecycle
    BY <2>5, CrashKeeps, CrashInRemovalKeeps, StagingFailsKeeps, RecoveryKeeps, SameIsStutter
  <2>6. CASE UNCHANGED lifecycleVars
    BY <2>6 DEF lifecycleVars, files, Store!storeVars, Visible, Registered
  <2>7. QED
    BY <2>1, <2>2, <2>3, <2>4, <2>5, <2>6 DEF LifecycleNext
<1>3. QED
  BY <1>1, <1>2, IInvHolds, PTL DEF LifecycleSpec, ImplementsProfileStore, Store!Spec
===============================================================================
