--------------------------- MODULE ChatServerProofs ---------------------------
(***************************************************************************)
(* Proofs about the two halves of answering on the server, the execution   *)
(* of turns and the gate in front of the model.                            *)
(*                                                                         *)
(* ChatExecution, for any turns, requests, profiles and bounds: ChatInv is *)
(* inductive, and the safety properties of the module are among its        *)
(* conjuncts.                                                              *)
(*                                                                         *)
(* GenerationGate, for any generations, models and limits: GateInv follows *)
(* from an inductive invariant about the queue objects, and with it every  *)
(* step is a step of FifoGate or a stutter.                                *)
(***************************************************************************)
EXTENDS ChatExecution, GenerationGate, FiniteSetTheorems, SequenceTheorems, TLAPS

(* A request that is running is the one its turn is registered for.           *)
LEMMA RunnerOwns ==
  ASSUME ChatInv, NEW r \in Requests, at[r] \in Running
  PROVE  /\ TurnOf[r] \in Turns
         /\ owner[TurnOf[r]] = r /\ owner[TurnOf[r]] # None
         /\ TurnOf[r] \in claimed /\ TurnOf[r] \notin cited
  BY ChatAssumption DEF ChatInv, TypeOK, OwnersExecute

(* An execution ends; its turn is answered with its document, or stays        *)
(* unanswered and without one.  Nobody else is touched.                       *)
Settled(r) ==
  /\ Ends(r)
  /\ UNCHANGED <<profile, opened, claimed, signal, crashes, lost>>
  /\ failures' \in 0 .. MaxFailures
  /\ LET t == TurnOf[r] IN
     \/ /\ row[t] = "pending" /\ row' = [row EXCEPT ![t] = "completed"]
        /\ cited' = IF document[t] = "made" THEN cited \union {t} ELSE cited
        /\ at[r] = "streaming"
        /\ UNCHANGED document
     \/ /\ \/ UNCHANGED row
           \/ \E status \in {"cancelled", "failed"} :
                row[t] = "pending" /\ row' = [row EXCEPT ![t] = status]
        /\ document' = [document EXCEPT ![t] = "none"]
        /\ UNCHANGED cited

LEMMA SettledKeeps ==
  ASSUME ChatInv, NEW r \in Requests, at[r] \in Running, Settled(r)
  PROVE  ChatInv'
<1> DEFINE t == TurnOf[r]
<1>1. /\ t \in Turns /\ owner[t] = r /\ owner[t] # None
      /\ t \in claimed /\ t \notin cited
  BY RunnerOwns
<1>2. /\ at' = [at EXCEPT ![r] = "ended"]
      /\ operations' = operations \ {r}
      /\ owner' = [owner EXCEPT ![t] = None]
  BY DEF Settled, Ends
<1>3. UNCHANGED <<profile, opened, claimed, signal, crashes, lost>>
  BY DEF Settled
<1>4. TypeOK
  BY DEF ChatInv
<1>5. /\ row' \in [Turns -> {"none", "pending", "gone"} \union Terminal]
      /\ document' \in [Turns -> {"none", "draft", "made", "quarantined"}]
      /\ cited' \subseteq {u \in Turns : row'[u] = "completed"}
      /\ \A u \in Turns : row'[u] = "pending" => row[u] = "pending"
      /\ \A u \in Turns \ {t} : document'[u] = document[u] /\ (u \in cited' <=> u \in cited)
      /\ t \in cited' => document'[t] = "made"
      /\ document'[t] \in {"draft", "made"} => t \in cited'
  <2>1. CASE /\ row[t] = "pending" /\ row' = [row EXCEPT ![t] = "completed"]
             /\ cited' = IF document[t] = "made" THEN cited \union {t} ELSE cited
             /\ at[r] = "streaming"
             /\ UNCHANGED document
    <3>1. document[t] # "draft"
      BY <2>1 DEF ChatInv, StreamsAreWhole
    <3>2. QED
      BY <1>1, <1>4, <2>1, <3>1 DEF TypeOK, Terminal
  <2>2. CASE /\ \/ UNCHANGED row
                \/ \E status \in {"cancelled", "failed"} :
                     row[t] = "pending" /\ row' = [row EXCEPT ![t] = status]
             /\ document' = [document EXCEPT ![t] = "none"]
             /\ UNCHANGED cited
    BY <1>1, <1>4, <2>2 DEF TypeOK, Terminal
  <2>3. QED
    BY <2>1, <2>2 DEF Settled
<1>6. TypeOK'
  <2>1. failures' \in 0 .. MaxFailures
    BY DEF Settled
  <2>2. \A q \in Requests : at'[q] \in Running <=> owner'[TurnOf[q]] = q
    BY <1>1, <1>2, <1>4, ChatAssumption DEF TypeOK, Running
  <2>3. operations' = {q \in Requests : at'[q] \in Running}
    BY <1>2, <1>4 DEF TypeOK, Running
  <2>4. QED
    BY <1>1, <1>2, <1>3, <1>4, <1>5, <2>1, <2>2, <2>3 DEF TypeOK
<1>7. OwnersExecute'
  BY <1>1, <1>2, <1>3, <1>4, <1>5 DEF ChatInv, OwnersExecute, TypeOK
<1>8. StreamsAreWhole'
  <2>1. SUFFICES ASSUME NEW q \in Requests, at'[q] = "streaming"
                 PROVE  document'[TurnOf[q]] # "draft"
    BY DEF StreamsAreWhole
  <2>2. q # r /\ at[q] = "streaming"
    BY <1>2, <1>4, <2>1 DEF TypeOK
  <2>3. TurnOf[q] \in Turns \ {t}
    BY <1>1, <1>4, <2>2, ChatAssumption DEF TypeOK, Running
  <2>4. QED
    BY <1>5, <2>2, <2>3 DEF ChatInv, StreamsAreWhole
<1>9. PendingIsReachable'
  BY <1>3, <1>5 DEF ChatInv, PendingIsReachable
<1>10. DocumentsBelong'
  BY <1>2, <1>3, <1>4, <1>5 DEF ChatInv, DocumentsBelong, TypeOK
<1>11. AnswersKeepDocuments'
  BY <1>3, <1>4, <1>5 DEF ChatInv, AnswersKeepDocuments, TypeOK
<1>12. QED
  BY <1>6, <1>7, <1>8, <1>9, <1>10, <1>11 DEF ChatInv

(* Both ways a handler has of settling its turn are such an end.              *)
LEMMA SettlesUnansweredSettles ==
  ASSUME ChatInv, NEW r \in Requests, at[r] \in Running,
         NEW status \in {"cancelled", "failed"}, SettlesUnanswered(r, status)
  PROVE  Settled(r)
<1>1. failures' \in 0 .. MaxFailures
  BY ChatAssumption DEF SettlesUnanswered, Terminalizes, Writes, Fails, ChatInv, TypeOK
<1>2. QED
  BY <1>1 DEF SettlesUnanswered, Terminalizes, DropsDocument, Settled

LEMMA SettlesAnsweredSettles ==
  ASSUME ChatInv, NEW r \in Requests, at[r] = "streaming", SettlesAnswered(r)
  PROVE  Settled(r)
<1>1. at[r] \in Running
  BY DEF Running
<1>2. CASE TurnOf[r] \in Turns /\ row[TurnOf[r]] # "pending" /\ SettlesUnanswered(r, "failed")
  BY <1>1, <1>2, SettlesUnansweredSettles
<1>3. CASE ~(TurnOf[r] \in Turns /\ row[TurnOf[r]] # "pending" /\ SettlesUnanswered(r, "failed"))
  <2>1. TurnOf[r] \in Turns
    BY ChatAssumption
  <2>2. failures' \in 0 .. MaxFailures
    BY <1>3, <2>1, ChatAssumption DEF SettlesAnswered, Writes, Fails, ChatInv, TypeOK
  <2>3. QED
    BY <1>3, <2>1, <2>2 DEF SettlesAnswered, DropsDocument, Settled
<1>4. QED
  BY <1>2, <1>3

LEMMA OutcomeIsTerminal ==
  ASSUME NEW reason PROVE Outcome(reason) \in {"cancelled", "failed"}
  BY DEF Outcome

-----------------------------------------------------------------------------
(* A turn and the request that claims it.                                     *)
LEMMA BeginTurnKeeps ==
  ASSUME ChatInv, NEW t \in Turns, BeginTurn(t)
  PROVE  ChatInv'
<1>1. /\ row[t] = "none" /\ HomeOf[t] = profile
      /\ row' \in {[row EXCEPT ![t] = "pending"], [row EXCEPT ![t] = "cancelled"]}
      /\ UNCHANGED <<profile, opened, claimed, cited, document, at, signal, operations, owner,
                     failures, crashes, lost>>
  BY DEF BeginTurn, Reaches, handlers, bounds
<1>2. TypeOK'
  BY <1>1 DEF ChatInv, TypeOK, Terminal
<1>3. PendingIsReachable'
  BY <1>1 DEF ChatInv, TypeOK, PendingIsReachable
<1>4. OwnersExecute' /\ StreamsAreWhole'
  BY <1>1 DEF ChatInv, OwnersExecute, StreamsAreWhole
<1>5. DocumentsBelong' /\ AnswersKeepDocuments'
  BY <1>1 DEF ChatInv, DocumentsBelong, AnswersKeepDocuments
<1>6. QED
  BY <1>2, <1>3, <1>4, <1>5 DEF ChatInv

LEMMA ClaimKeeps ==
  ASSUME ChatInv, NEW r \in Requests, Claim(r)
  PROVE  ChatInv'
<1> DEFINE t == TurnOf[r]
<1>1. /\ at[r] = "new" /\ row[t] = "pending" /\ t \notin claimed
      /\ claimed' = claimed \union {t}
      /\ operations' = operations \union {r}
      /\ owner' = [owner EXCEPT ![t] = r]
      /\ at' = [at EXCEPT ![r] = "generating"]
      /\ UNCHANGED <<profile, opened, row, cited, document, signal, failures, crashes, lost>>
  BY DEF Claim, bounds
<1>2. t \in Turns /\ r # None
  BY ChatAssumption
<1>3. TypeOK
  BY DEF ChatInv
<1>4. owner[t] = None /\ t \notin cited
  BY <1>1, <1>2, <1>3 DEF ChatInv, OwnersExecute, TypeOK
<1>5. TypeOK'
  <2>1. \A q \in Requests : at'[q] \in Running <=> owner'[TurnOf[q]] = q
    BY <1>1, <1>2, <1>3, <1>4, ChatAssumption DEF TypeOK, Running
  <2>2. operations' = {q \in Requests : at'[q] \in Running}
    BY <1>1, <1>3 DEF TypeOK, Running
  <2>3. QED
    BY <1>1, <1>2, <1>3, <2>1, <2>2 DEF TypeOK, Running
<1>6. OwnersExecute'
  BY <1>1, <1>2, <1>3, <1>4 DEF ChatInv, OwnersExecute, TypeOK
<1>7. StreamsAreWhole'
  BY <1>1, <1>3 DEF ChatInv, StreamsAreWhole, TypeOK
<1>8. DocumentsBelong'
  BY <1>1, <1>2, <1>3 DEF ChatInv, DocumentsBelong, TypeOK
<1>9. PendingIsReachable' /\ AnswersKeepDocuments'
  BY <1>1 DEF ChatInv, PendingIsReachable, AnswersKeepDocuments
<1>10. QED
  BY <1>5, <1>6, <1>7, <1>8, <1>9 DEF ChatInv

LEMMA ReplayKeeps ==
  ASSUME ChatInv, NEW r \in Requests, Replay(r)
  PROVE  ChatInv'
<1>1. /\ at[r] = "new" /\ at' = [at EXCEPT ![r] = "ended"]
      /\ UNCHANGED <<profile, opened, row, claimed, cited, document, signal, operations, owner,
                     failures, crashes, lost>>
  BY DEF Replay, ledger, bounds
<1>2. TypeOK'
  BY <1>1 DEF ChatInv, TypeOK, Running
<1>3. OwnersExecute' /\ PendingIsReachable'
  BY <1>1 DEF ChatInv, OwnersExecute, PendingIsReachable
<1>4. StreamsAreWhole'
  BY <1>1 DEF ChatInv, StreamsAreWhole, TypeOK
<1>5. DocumentsBelong' /\ AnswersKeepDocuments'
  BY <1>1 DEF ChatInv, DocumentsBelong, AnswersKeepDocuments
<1>6. QED
  BY <1>2, <1>3, <1>4, <1>5 DEF ChatInv

-----------------------------------------------------------------------------
(* An execution that goes on: it moves to another place, and its document is  *)
(* made, done or removed.  Nobody else is touched.                            *)
Proceeds(r) ==
  /\ at[r] \in Running
  /\ \E place \in Running, made \in {"none", "draft", "made", "quarantined"} :
       /\ place = "streaming" => made # "draft"
       /\ at' = [at EXCEPT ![r] = place]
       /\ document' = [document EXCEPT ![TurnOf[r]] = made]
  /\ signal' \in [Requests -> {"none", "cancelled", "timeout"}]
  /\ UNCHANGED <<profile, opened, row, claimed, cited, operations, owner, failures, crashes, lost>>

LEMMA ProceedsKeeps ==
  ASSUME ChatInv, NEW r \in Requests, Proceeds(r)
  PROVE  ChatInv'
<1> DEFINE t == TurnOf[r]
<1>1. /\ t \in Turns /\ owner[t] = r /\ owner[t] # None
      /\ t \in claimed /\ t \notin cited
  BY RunnerOwns DEF Proceeds
<1>2. PICK place \in Running, made \in {"none", "draft", "made", "quarantined"} :
       /\ place = "streaming" => made # "draft"
       /\ at' = [at EXCEPT ![r] = place]
       /\ document' = [document EXCEPT ![t] = made]
  BY DEF Proceeds
<1>3. /\ at[r] \in Running
      /\ signal' \in [Requests -> {"none", "cancelled", "timeout"}]
      /\ UNCHANGED <<profile, opened, row, claimed, cited, operations, owner, failures, crashes, lost>>
  BY DEF Proceeds
<1>4. TypeOK
  BY DEF ChatInv
<1>5. TypeOK'
  BY <1>1, <1>2, <1>3, <1>4 DEF TypeOK, Running
<1>6. OwnersExecute' /\ PendingIsReachable'
  BY <1>3 DEF ChatInv, OwnersExecute, PendingIsReachable
<1>7. StreamsAreWhole'
  <2>1. SUFFICES ASSUME NEW q \in Requests, at'[q] = "streaming"
                 PROVE  document'[TurnOf[q]] # "draft"
    BY DEF StreamsAreWhole
  <2>2. CASE q = r
    BY <1>1, <1>2, <1>4, <2>1, <2>2 DEF TypeOK
  <2>3. CASE q # r
    <3>1. at[q] = "streaming"
      BY <1>2, <1>4, <2>1, <2>3 DEF TypeOK
    <3>2. TurnOf[q] \in Turns \ {t}
      BY <1>1, <1>4, <2>3, <3>1, ChatAssumption DEF TypeOK, Running
    <3>3. QED
      BY <1>2, <1>4, <3>1, <3>2 DEF ChatInv, StreamsAreWhole, TypeOK
  <2>4. QED
    BY <2>2, <2>3
<1>8. DocumentsBelong'
  BY <1>1, <1>2, <1>3, <1>4 DEF ChatInv, DocumentsBelong, TypeOK
<1>9. AnswersKeepDocuments'
  BY <1>1, <1>2, <1>3, <1>4 DEF ChatInv, AnswersKeepDocuments, TypeOK
<1>10. QED
  BY <1>5, <1>6, <1>7, <1>8, <1>9 DEF ChatInv

LEMMA GenerationKeeps ==
  ASSUME ChatInv, NEW r \in Requests,
         StartDocument(r) \/ Respond(r) \/ GenerationErrs(r)
  PROVE  ChatInv'
<1> DEFINE t == TurnOf[r]
<1>1. at[r] = "generating" /\ at[r] \in Running
  BY DEF StartDocument, Respond, GenerationErrs, Running
<1>2. TypeOK /\ t \in Turns
  BY ChatAssumption DEF ChatInv
<1>3. CASE StartDocument(r)
  <2>1. at' = [at EXCEPT ![r] = "generating"]
    BY <1>1, <1>2, <1>3 DEF StartDocument, handlers, TypeOK
  <2>2. Proceeds(r)
    BY <1>1, <1>2, <1>3, <2>1 DEF StartDocument, Proceeds, Running, ledger, handlers, bounds, TypeOK
  <2>3. QED
    BY <2>2, ProceedsKeeps
<1>4. CASE Respond(r) /\ signal[r] = "none"
  <2>1. PICK made \in {"none", "made", "quarantined"} :
          document' = [document EXCEPT ![t] = made]
    <3>1. CASE document[t] = "draft"
      BY <1>4, <3>1 DEF Respond
    <3>2. CASE document[t] # "draft"
      <4>1. document' = document
        BY <1>4, <3>2 DEF Respond
      <4>2. document = [document EXCEPT ![t] = document[t]]
        BY <1>2 DEF TypeOK
      <4>3. document[t] \in {"none", "made", "quarantined"}
        BY <1>2, <3>2 DEF TypeOK
      <4>4. QED
        BY <4>1, <4>2, <4>3
    <3>3. QED
      BY <3>1, <3>2
  <2>2. /\ at' = [at EXCEPT ![r] = "streaming"]
        /\ UNCHANGED <<profile, opened, row, claimed, cited, signal, operations, owner,
                       failures, crashes, lost>>
    BY <1>4 DEF Respond, ledger, bounds
  <2>3. signal' \in [Requests -> {"none", "cancelled", "timeout"}]
    BY <1>2, <2>2 DEF TypeOK
  <2>4. Proceeds(r)
    BY <1>1, <2>1, <2>2, <2>3 DEF Proceeds, Running
  <2>5. QED
    BY <2>4, ProceedsKeeps
<1>5. CASE Respond(r) /\ signal[r] # "none"
  <2>1. SettlesUnanswered(r, Outcome(signal[r]))
    BY <1>5 DEF Respond
  <2>2. Outcome(signal[r]) \in {"cancelled", "failed"}
    BY OutcomeIsTerminal
  <2>3. QED
    BY <1>1, <2>1, <2>2, SettlesUnansweredSettles, SettledKeeps
<1>6. CASE GenerationErrs(r)
  <2>1. Proceeds(r)
    BY <1>1, <1>2, <1>6 DEF GenerationErrs, Proceeds, Running, ledger, bounds, TypeOK
  <2>2. QED
    BY <2>1, ProceedsKeeps
<1>7. QED
  BY <1>3, <1>4, <1>5, <1>6

LEMMA EndingKeeps ==
  ASSUME ChatInv, NEW r \in Requests, RecordFailedTurn(r) \/ StreamEnds(r)
  PROVE  ChatInv'
<1>1. CASE RecordFailedTurn(r)
  <2>1. at[r] \in Running /\ SettlesUnanswered(r, Outcome(signal[r]))
    BY <1>1 DEF RecordFailedTurn, Running
  <2>2. QED
    BY <2>1, OutcomeIsTerminal, SettlesUnansweredSettles, SettledKeeps
<1>2. CASE StreamEnds(r)
  <2>1. at[r] = "streaming" /\ at[r] \in Running
    BY <1>2 DEF StreamEnds, Running
  <2>2. CASE SettlesAnswered(r)
    BY <2>1, <2>2, SettlesAnsweredSettles, SettledKeeps
  <2>3. CASE SettlesUnanswered(r, "failed")
    BY <2>1, <2>3, SettlesUnansweredSettles, SettledKeeps
  <2>4. QED
    BY <1>2, <2>2, <2>3 DEF StreamEnds
<1>3. QED
  BY <1>1, <1>2

(* A pending row ends, or a signal is raised, and nothing else happens.       *)
LEMMA RowEndsKeeps ==
  ASSUME ChatInv, NEW t \in Turns,
         \/ UNCHANGED row
         \/ \E status \in {"cancelled", "failed"} :
              row[t] = "pending" /\ row' = [row EXCEPT ![t] = status],
         signal' \in [Requests -> {"none", "cancelled", "timeout"}],
         failures' \in 0 .. MaxFailures,
         UNCHANGED <<profile, opened, claimed, cited, document, at, operations, owner, crashes, lost>>
  PROVE  ChatInv'
<1>1. TypeOK
  BY DEF ChatInv
<1>2. /\ row' \in [Turns -> {"none", "pending", "gone"} \union Terminal]
      /\ \A u \in Turns : row'[u] = "pending" => row[u] = "pending"
      /\ \A u \in Turns : row[u] = "completed" => row'[u] = "completed"
  BY <1>1 DEF TypeOK, Terminal
<1>3. TypeOK'
  BY <1>1, <1>2 DEF TypeOK
<1>4. PendingIsReachable'
  BY <1>2 DEF ChatInv, PendingIsReachable
<1>5. OwnersExecute' /\ StreamsAreWhole'
  BY DEF ChatInv, OwnersExecute, StreamsAreWhole
<1>6. DocumentsBelong' /\ AnswersKeepDocuments'
  BY DEF ChatInv, DocumentsBelong, AnswersKeepDocuments
<1>7. QED
  BY <1>3, <1>4, <1>5, <1>6 DEF ChatInv

LEMMA AbortsKeeps ==
  ASSUME ChatInv, NEW r \in Requests, NEW reason \in {"cancelled", "timeout"}, Aborts(r, reason)
  PROVE  ChatInv'
<1>1. CASE at[r] = "streaming" /\ SettlesUnanswered(r, Outcome(reason))
  <2>1. at[r] \in Running
    BY <1>1 DEF Running
  <2>2. QED
    BY <1>1, <2>1, OutcomeIsTerminal, SettlesUnansweredSettles, SettledKeeps
<1>2. CASE ~(at[r] = "streaming" /\ SettlesUnanswered(r, Outcome(reason)))
  <2>1. /\ signal' = [signal EXCEPT ![r] = IF @ = "none" THEN reason ELSE @]
        /\ UNCHANGED <<profile, opened, row, claimed, cited, document, at, operations, owner,
                       failures, crashes, lost>>
    BY <1>2 DEF Aborts, ledger, bounds
  <2>2. /\ signal' \in [Requests -> {"none", "cancelled", "timeout"}]
        /\ failures' \in 0 .. MaxFailures
    BY <2>1 DEF ChatInv, TypeOK
  <2>3. TurnOf[r] \in Turns
    BY ChatAssumption
  <2>4. QED
    BY <2>1, <2>2, <2>3, RowEndsKeeps
<1>3. QED
  BY <1>1, <1>2

LEMMA StopKeeps ==
  ASSUME ChatInv, NEW t \in Turns, Stop(t)
  PROVE  ChatInv'
<1>1. /\ UNCHANGED <<profile, opened, claimed, cited, crashes, lost>>
      /\ Terminalizes(t, "cancelled")
  BY DEF Stop
<1>2. /\ failures' \in 0 .. MaxFailures
      /\ UNCHANGED row \/ (row[t] = "pending" /\ row' = [row EXCEPT ![t] = "cancelled"])
  BY <1>1, ChatAssumption DEF Terminalizes, Writes, Fails, ChatInv, TypeOK
<1>3. CASE \E r \in Requests : owner[t] = r /\ at[r] = "streaming"
  <2>1. PICK r \in Requests : owner[t] = r /\ at[r] = "streaming"
    BY <1>3
  <2>2. TurnOf[r] = t /\ owner[t] # None
    BY <2>1, ChatAssumption DEF ChatInv, OwnersExecute
  <2>3. DropsDocument(t) /\ Ends(r) /\ UNCHANGED signal
    BY <2>1, <2>2 DEF Stop
  <2>4. Settled(r) /\ at[r] \in Running
    BY <1>1, <1>2, <2>1, <2>2, <2>3 DEF Settled, DropsDocument, Running
  <2>5. QED
    BY <2>4, SettledKeeps
<1>4. CASE ~ \E r \in Requests : owner[t] = r /\ at[r] = "streaming"
  <2>1. UNCHANGED <<document, at, operations, owner>>
    BY <1>4 DEF Stop, handlers
  <2>2. signal' \in [Requests -> {"none", "cancelled", "timeout"}]
    BY <1>4 DEF Stop, handlers, ChatInv, TypeOK
  <2>3. QED
    BY <1>1, <1>2, <2>1, <2>2, RowEndsKeeps
<1>5. QED
  BY <1>3, <1>4

LEMMA SweepExpiredKeeps ==
  ASSUME ChatInv, NEW t \in Turns, SweepExpired(t)
  PROVE  ChatInv'
<1>1. /\ row[t] = "pending" /\ row' = [row EXCEPT ![t] = "failed"]
      /\ UNCHANGED <<profile, opened, claimed, cited, document, at, signal, operations, owner,
                     failures, crashes, lost>>
  BY DEF SweepExpired, handlers, bounds
<1>2. /\ signal' \in [Requests -> {"none", "cancelled", "timeout"}]
      /\ failures' \in 0 .. MaxFailures
  BY <1>1 DEF ChatInv, TypeOK
<1>3. QED
  BY <1>1, <1>2, RowEndsKeeps

-----------------------------------------------------------------------------
(* Deletions, crashes, recovery and profile changes.                          *)
LEMMA DeleteConversationKeeps ==
  ASSUME ChatInv, NEW t \in Turns, DeleteConversation(t)
  PROVE  ChatInv'
<1>1. /\ row[t] \in Terminal
      /\ UNCHANGED <<profile, opened, claimed, at, signal, operations, owner, crashes, lost>>
  BY DEF DeleteConversation, handlers
<1>2. TypeOK
  BY DEF ChatInv
<1>3. CASE /\ Writes
           /\ row' = [row EXCEPT ![t] = "gone"]
           /\ cited' = cited \ {t}
           /\ document' \in
                IF t \in cited
                THEN {[document EXCEPT ![t] = "none"], [document EXCEPT ![t] = "quarantined"]}
                ELSE {document}
  <2>1. /\ document' \in [Turns -> {"none", "draft", "made", "quarantined"}]
        /\ \A u \in Turns \ {t} : document'[u] = document[u]
        /\ document'[t] = document[t] \/ document'[t] \in {"none", "quarantined"}
        /\ t \in cited => document'[t] \in {"none", "quarantined"}
    BY <1>2, <1>3 DEF TypeOK
  <2>2. failures' \in 0 .. MaxFailures
    BY <1>2, <1>3 DEF Writes, TypeOK
  <2>3. TypeOK'
    BY <1>1, <1>2, <1>3, <2>1, <2>2 DEF TypeOK, Terminal
  <2>4. OwnersExecute'
    BY <1>1, <1>3 DEF ChatInv, OwnersExecute
  <2>5. StreamsAreWhole'
    BY <1>1, <2>1, ChatAssumption DEF ChatInv, StreamsAreWhole
  <2>6. PendingIsReachable'
    BY <1>1, <1>2, <1>3 DEF ChatInv, PendingIsReachable, TypeOK
  <2>7. DocumentsBelong'
    BY <1>1, <1>3, <2>1 DEF ChatInv, DocumentsBelong
  <2>8. AnswersKeepDocuments'
    BY <1>1, <1>2, <1>3, <2>1 DEF ChatInv, AnswersKeepDocuments, TypeOK
  <2>9. QED
    BY <2>3, <2>4, <2>5, <2>6, <2>7, <2>8 DEF ChatInv
<1>4. CASE Fails /\ UNCHANGED <<row, cited, document>>
  <2>1. /\ failures' \in 0 .. MaxFailures
        /\ signal' \in [Requests -> {"none", "cancelled", "timeout"}]
    BY <1>1, <1>2, <1>4, ChatAssumption DEF Fails, TypeOK
  <2>2. QED
    BY <1>1, <1>4, <2>1, RowEndsKeeps
<1>5. QED
  BY <1>3, <1>4 DEF DeleteConversation

(* A crash keeps what is on disk, but may leave one saved document, of an      *)
(* answer that is deleted or not, in the quarantine.                          *)
LEMMA DownKeeps ==
  ASSUME ChatInv, Down, UNCHANGED claimed,
         row' \in [Turns -> {"none", "pending", "gone"} \union Terminal],
         document' \in [Turns -> {"none", "draft", "made", "quarantined"}],
         cited' \subseteq cited,
         \A u \in cited' : row'[u] = "completed",
         \A u \in Turns : row'[u] = "pending" => row[u] = "pending",
         \A u \in Turns : \/ document'[u] = document[u] /\ (u \in cited' <=> u \in cited)
                          \/ document'[u] = "quarantined"
  PROVE  ChatInv'
<1>1. /\ crashes' \in 0 .. MaxCrashes
      /\ at' = [r \in Requests |-> IF at[r] \in Running THEN "ended" ELSE at[r]]
      /\ operations' = {} /\ owner' = [t \in Turns |-> None]
      /\ lost' = lost \union {TurnOf[r] : r \in operations}
      /\ opened' = None
      /\ UNCHANGED <<profile, signal, failures>>
  BY ChatAssumption DEF Down, ChatInv, TypeOK
<1>2. TypeOK
  BY DEF ChatInv
<1>3. TypeOK'
  <2>1. at' \in [Requests -> {"new", "ended"}]
    BY <1>1, <1>2 DEF TypeOK
  <2>2. lost' \subseteq Turns
    BY <1>1, <1>2, ChatAssumption DEF TypeOK
  <2>3. \A r \in Requests : ~(at'[r] \in Running) /\ owner'[TurnOf[r]] # r
    BY <1>1, <2>1, ChatAssumption DEF Running
  <2>4. at' \in [Requests -> {"new", "ended"} \union Running]
    BY <2>1
  <2>5. cited' \subseteq {t \in Turns : row'[t] = "completed"}
    BY <1>2 DEF TypeOK
  <2>6. /\ profile' \in Profiles /\ opened' \in {None, profile'}
        /\ claimed' \subseteq Turns
        /\ signal' \in [Requests -> {"none", "cancelled", "timeout"}]
        /\ owner' \in [Turns -> Requests \union {None}]
        /\ failures' \in 0 .. MaxFailures
    BY <1>1, <1>2 DEF TypeOK
  <2>7. operations' = {r \in Requests : at'[r] \in Running}
    BY <1>1, <2>3
  <2>8. QED
    BY <1>1, <2>2, <2>3, <2>4, <2>5, <2>6, <2>7 DEF TypeOK
<1>4. OwnersExecute'
  BY <1>1 DEF OwnersExecute
<1>5. StreamsAreWhole'
  BY <1>1 DEF StreamsAreWhole, Running
<1>6. PendingIsReachable'
  BY <1>1 DEF ChatInv, PendingIsReachable
<1>7. DocumentsBelong'
  <2>1. SUFFICES ASSUME NEW t \in Turns, document'[t] \in {"draft", "made"}, t \notin cited'
                 PROVE  t \in lost'
    BY DEF DocumentsBelong
  <2>2. owner[t] # None \/ t \in lost
    BY <2>1 DEF ChatInv, DocumentsBelong
  <2>3. CASE owner[t] # None
    <3>1. owner[t] \in Requests /\ TurnOf[owner[t]] = t
      BY <1>2, <2>3 DEF ChatInv, OwnersExecute, TypeOK
    <3>2. owner[t] \in operations
      BY <1>2, <3>1 DEF TypeOK
    <3>3. QED
      BY <1>1, <3>1, <3>2
  <2>4. QED
    BY <1>1, <2>2, <2>3
<1>8. AnswersKeepDocuments'
  <2>1. SUFFICES ASSUME NEW t \in cited'
                 PROVE  document'[t] = "made" \/ (document'[t] = "quarantined" /\ opened' # HomeOf[t])
    BY DEF AnswersKeepDocuments
  <2>2. t \in Turns /\ t \in cited
    BY <1>2 DEF TypeOK
  <2>3. opened' # HomeOf[t]
    BY <1>1, <2>2, ChatAssumption
  <2>4. QED
    BY <2>2, <2>3 DEF ChatInv, AnswersKeepDocuments
<1>9. QED
  BY <1>3, <1>4, <1>5, <1>6, <1>7, <1>8 DEF ChatInv

LEMMA CrashKeeps ==
  ASSUME ChatInv, Crash \/ \E t \in Turns : CrashInDeletion(t)
  PROVE  ChatInv'
<1>1. TypeOK
  BY DEF ChatInv
<1>2. CASE Crash
  BY <1>1, <1>2, DownKeeps DEF Crash, ledger, TypeOK
<1>3. CASE \E t \in Turns : CrashInDeletion(t)
  <2>1. PICK t \in Turns : CrashInDeletion(t)
    BY <1>3
  <2>2. /\ Down /\ UNCHANGED claimed /\ t \in cited
        /\ document' = [document EXCEPT ![t] = "quarantined"]
        /\ \/ row' = [row EXCEPT ![t] = "gone"] /\ cited' = cited \ {t}
           \/ UNCHANGED <<row, cited>>
    BY <2>1 DEF CrashInDeletion
  <2>3. /\ row' \in [Turns -> {"none", "pending", "gone"} \union Terminal]
        /\ document' \in [Turns -> {"none", "draft", "made", "quarantined"}]
        /\ cited' \subseteq cited
        /\ \A u \in cited' : row'[u] = "completed"
        /\ \A u \in Turns : row'[u] = "pending" => row[u] = "pending"
        /\ \A u \in Turns : \/ document'[u] = document[u] /\ (u \in cited' <=> u \in cited)
                            \/ document'[u] = "quarantined"
    BY <1>1, <2>2 DEF TypeOK
  <2>4. QED
    BY <2>2, <2>3, DownKeeps
<1>4. QED
  BY <1>2, <1>3

LEMMA OpenDatabaseKeeps ==
  ASSUME ChatInv, OpenDatabase
  PROVE  ChatInv'
<1>1. /\ opened = None /\ opened' = profile
      /\ document' = [t \in Turns |-> RecoversQuarantine(t)]
      /\ UNCHANGED <<profile, row, claimed, cited, at, signal, operations, owner, failures, crashes, lost>>
  BY DEF OpenDatabase, ledger, handlers, bounds
<1>2. TypeOK
  BY DEF ChatInv
<1>3. \A t \in Turns :
        \/ document[t] # "quarantined" /\ document'[t] = document[t]
        \/ /\ document[t] = "quarantined" /\ HomeOf[t] = profile
           /\ document'[t] = IF t \in cited THEN "made" ELSE "none"
        \/ document[t] = "quarantined" /\ HomeOf[t] # profile /\ document'[t] = "quarantined"
  BY <1>1 DEF RecoversQuarantine
<1>4. TypeOK'
  <2>1. document' \in [Turns -> {"none", "draft", "made", "quarantined"}]
    BY <1>1, <1>2, <1>3 DEF TypeOK
  <2>2. QED
    BY <1>1, <1>2, <2>1 DEF TypeOK
<1>5. OwnersExecute' /\ PendingIsReachable'
  BY <1>1 DEF ChatInv, OwnersExecute, PendingIsReachable
<1>6. StreamsAreWhole'
  BY <1>1, <1>3, ChatAssumption DEF ChatInv, StreamsAreWhole
<1>7. DocumentsBelong'
  BY <1>1, <1>3 DEF ChatInv, DocumentsBelong
<1>8. AnswersKeepDocuments'
  BY <1>1, <1>2, <1>3 DEF ChatInv, AnswersKeepDocuments, TypeOK
<1>9. QED
  BY <1>4, <1>5, <1>6, <1>7, <1>8 DEF ChatInv

LEMMA SwitchProfileKeeps ==
  ASSUME ChatInv, NEW p \in Profiles, SwitchProfile(p)
  PROVE  ChatInv'
<1>1. /\ \A t \in Turns : row[t] # "pending"
      /\ profile' = p /\ opened' = None
      /\ UNCHANGED <<row, claimed, cited, document, at, signal, operations, owner, failures, crashes, lost>>
  BY DEF SwitchProfile, Idle, ledger, handlers, bounds
<1>2. TypeOK
  BY DEF ChatInv
<1>3. TypeOK'
  BY <1>1, <1>2 DEF TypeOK
<1>4. OwnersExecute' /\ StreamsAreWhole' /\ DocumentsBelong'
  BY <1>1 DEF ChatInv, OwnersExecute, StreamsAreWhole, DocumentsBelong
<1>5. PendingIsReachable'
  BY <1>1 DEF PendingIsReachable
<1>6. AnswersKeepDocuments'
  BY <1>1, <1>2, ChatAssumption DEF ChatInv, AnswersKeepDocuments, TypeOK
<1>7. QED
  BY <1>3, <1>4, <1>5, <1>6 DEF ChatInv

-----------------------------------------------------------------------------
LEMMA InitChatInv == Init => ChatInv
<1> SUFFICES ASSUME Init PROVE ChatInv
  OBVIOUS
<1>1. TypeOK
  BY ChatAssumption DEF Init, TypeOK, Running
<1>2. OwnersExecute /\ StreamsAreWhole /\ PendingIsReachable /\ DocumentsBelong /\ AnswersKeepDocuments
  BY ChatAssumption
     DEF Init, OwnersExecute, StreamsAreWhole, PendingIsReachable, DocumentsBelong, AnswersKeepDocuments
<1>3. QED
  BY <1>1, <1>2 DEF ChatInv

LEMMA NextChatInv == ChatInv /\ [Next]_vars => ChatInv'
<1> SUFFICES ASSUME ChatInv, [Next]_vars PROVE ChatInv'
  OBVIOUS
<1>1. ASSUME NEW t \in Turns, BeginTurn(t) PROVE ChatInv'
  BY <1>1, BeginTurnKeeps
<1>2. ASSUME NEW t \in Turns, Stop(t) PROVE ChatInv'
  BY <1>2, StopKeeps
<1>3. ASSUME NEW t \in Turns, SweepExpired(t) PROVE ChatInv'
  BY <1>3, SweepExpiredKeeps
<1>4. ASSUME NEW t \in Turns, DeleteConversation(t) PROVE ChatInv'
  BY <1>4, DeleteConversationKeeps
<1>5. ASSUME NEW t \in Turns, CrashInDeletion(t) PROVE ChatInv'
  BY <1>5, CrashKeeps
<1>6. ASSUME NEW r \in Requests, Claim(r) PROVE ChatInv'
  BY <1>6, ClaimKeeps
<1>7. ASSUME NEW r \in Requests, Replay(r) PROVE ChatInv'
  BY <1>7, ReplayKeeps
<1>8. ASSUME NEW r \in Requests, StartDocument(r) \/ Respond(r) \/ GenerationErrs(r) PROVE ChatInv'
  BY <1>8, GenerationKeeps
<1>9. ASSUME NEW r \in Requests, RecordFailedTurn(r) \/ StreamEnds(r) PROVE ChatInv'
  BY <1>9, EndingKeeps
<1>10. ASSUME NEW r \in Requests, Disconnect(r) \/ Timeout(r) PROVE ChatInv'
  BY <1>10, AbortsKeeps DEF Disconnect, Timeout
<1>11. ASSUME NEW p \in Profiles, SwitchProfile(p) PROVE ChatInv'
  BY <1>11, SwitchProfileKeeps
<1>12. CASE Crash
  BY <1>12, CrashKeeps
<1>13. CASE OpenDatabase
  BY <1>13, OpenDatabaseKeeps
<1>14. CASE UNCHANGED vars
  BY <1>14 DEF vars, ChatInv, TypeOK, OwnersExecute, StreamsAreWhole, PendingIsReachable,
               DocumentsBelong, AnswersKeepDocuments
<1>15. QED
  BY <1>1, <1>2, <1>3, <1>4, <1>5, <1>6, <1>7, <1>8, <1>9, <1>10, <1>11, <1>12, <1>13, <1>14 DEF Next

(* In every reachable state the registry of running turns, the rows and the   *)
(* documents agree (route.ts, chat-turn-lifecycle.ts, active-conversation-turns.ts). *)
THEOREM ChatInvHolds == Spec => []ChatInv
<1>1. QED
  BY InitChatInv, NextChatInv, PTL DEF Spec

(* Every running handler holds exactly one operation and its turn's entry.    *)
THEOREM TypeOKHolds == Spec => []TypeOK
<1>1. ChatInv => TypeOK
  BY DEF ChatInv
<1>2. QED
  BY <1>1, ChatInvHolds, PTL

(* No pending turn is ever in a profile that is not active, however profiles  *)
(* are switched (requireNoPendingConversationTurns).                          *)
THEOREM PendingIsReachableHolds == Spec => []PendingIsReachable
<1>1. ChatInv => PendingIsReachable
  BY DEF ChatInv
<1>2. QED
  BY <1>1, ChatInvHolds, PTL

(* Only a crash leaves a document behind (removeUncommittedArtifact).         *)
THEOREM DocumentsBelongHolds == Spec => []DocumentsBelong
<1>1. ChatInv => DocumentsBelong
  BY DEF ChatInv
<1>2. QED
  BY <1>1, ChatInvHolds, PTL

(* No saved answer loses its document (deleteConversationWhenIdle,            *)
(* recoverArtifactDeletionQuarantine).                                        *)
THEOREM AnswersKeepDocumentsHolds == Spec => []AnswersKeepDocuments
<1>1. ChatInv => AnswersKeepDocuments
  BY DEF ChatInv
<1>2. QED
  BY <1>1, ChatInvHolds, PTL

-----------------------------------------------------------------------------
(* The generation gate.                                                       *)
Holders(o) == {h \in Generations : joined[h] = o /\ state[h] = "holding"}

(* An object serves the model of the generation that made it.                 *)
Joined(g) == LET o == joined[g] IN
  /\ state[g] \in {"queued", "holding", "released"} => o # NoQueue
  /\ o # NoQueue =>
       o \in Generations /\ ModelOf[o] = ModelOf[g] /\ joined[o] = o /\ state[g] # "idle"

(* An object counts its leases and is in the map while it has one; its line   *)
(* is of different waiters, and there is none while there is room.            *)
Object(o) ==
  /\ active[o] = Cardinality(Holders(o))
  /\ active[o] > 0 => joined[o] = o /\ queues[ModelOf[o]] = o
  /\ Len(pending[o]) <= MaxQueued
  /\ pending[o] # <<>> => active[o] = MaxActive
  /\ \A i \in 1..Len(pending[o]) : state[pending[o][i]] = "queued" /\ joined[pending[o][i]] = o
  /\ \A i, j \in 1..Len(pending[o]) : pending[o][i] = pending[o][j] => i = j

Waits(g) ==
  state[g] = "queued" => \E i \in 1..Len(pending[joined[g]]) : pending[joined[g]][i] = g

Held(m) == queues[m] # NoQueue => ModelOf[queues[m]] = m /\ joined[queues[m]] = queues[m]

GateIInv ==
  /\ GateTypeOK
  /\ \A g \in Generations : Joined(g) /\ Object(g) /\ Waits(g)
  /\ \A m \in Models : Held(m)

-----------------------------------------------------------------------------
(* A place in a line of different waiters is cut out.                         *)
LEMMA WithoutIsCut ==
  ASSUME NEW S, NEW s \in Seq(S), NEW k \in 1..Len(s),
         \A i, j \in 1..Len(s) : s[i] = s[j] => i = j
  PROVE  Without(s, s[k]) = SubSeq(s, 1, k - 1) \o SubSeq(s, k + 1, Len(s))
<1> DEFINE First(c) == s[c] = s[k] /\ \A i \in 1..(c - 1) : s[i] # s[k]
           c == CHOOSE c \in 1..Len(s) : First(c)
<1>1. First(k)
  OBVIOUS
<1>2. c \in 1..Len(s) /\ First(c)
  BY <1>1
<1>3. c = k
  BY <1>2
<1> QED
  BY <1>3 DEF Without

(* What a line without one place holds.                                       *)
LEMMA Cut ==
  ASSUME NEW S, NEW s \in Seq(S), NEW k \in 1..Len(s)
  PROVE  LET t == SubSeq(s, 1, k - 1) \o SubSeq(s, k + 1, Len(s)) IN
         /\ t \in Seq(S) /\ Len(t) = Len(s) - 1
         /\ \A i \in 1..Len(t) : t[i] = IF i < k THEN s[i] ELSE s[i + 1]
<1> DEFINE a == SubSeq(s, 1, k - 1)
           b == SubSeq(s, k + 1, Len(s))
<1>1. a \in Seq(S) /\ Len(a) = k - 1 /\ \A i \in 1..(k - 1) : a[i] = s[i]
  OBVIOUS
<1>2. b \in Seq(S) /\ Len(b) = Len(s) - k /\ \A i \in 1..(Len(s) - k) : b[i] = s[i + k]
  OBVIOUS
<1> HIDE DEF a, b
<1>3. a \o b \in Seq(S) /\ Len(a \o b) = Len(a) + Len(b)
      /\ \A i \in 1..(Len(a) + Len(b)) : (a \o b)[i] = IF i <= Len(a) THEN a[i] ELSE b[i - Len(a)]
  BY <1>1, <1>2, ConcatProperties
<1>4. Len(a \o b) = Len(s) - 1
  BY <1>1, <1>2, <1>3
<1>5. ASSUME NEW i \in 1..(Len(s) - 1), i < k PROVE (a \o b)[i] = s[i]
  BY <1>1, <1>2, <1>3, <1>5
<1>6. ASSUME NEW i \in 1..(Len(s) - 1), ~(i < k) PROVE (a \o b)[i] = s[i + 1]
  <2>1. (a \o b)[i] = b[i - (k - 1)]
    BY <1>1, <1>2, <1>3, <1>6
  <2>2. i - (k - 1) \in 1..(Len(s) - k)
    BY <1>6
  <2>3. b[i - (k - 1)] = s[(i - (k - 1)) + k]
    BY <1>2, <2>2
  <2>4. (i - (k - 1)) + k = i + 1
    OBVIOUS
  <2> QED
    BY <2>1, <2>3, <2>4
<1>7. \A i \in 1..Len(a \o b) : (a \o b)[i] = IF i < k THEN s[i] ELSE s[i + 1]
  BY <1>4, <1>5, <1>6
<1> QED
  BY <1>3, <1>4, <1>7 DEF a, b

(* What a line holds after its first k have left.                             *)
LEMMA Rest ==
  ASSUME NEW S, NEW s \in Seq(S), NEW k \in 1..Len(s)
  PROVE  LET t == SubSeq(s, k + 1, Len(s)) IN
         t \in Seq(S) /\ Len(t) = Len(s) - k /\ \A i \in 1..Len(t) : t[i] = s[i + k]
OBVIOUS

-----------------------------------------------------------------------------
LEMMA HoldersFinite == ASSUME NEW o PROVE IsFiniteSet(Holders(o)) /\ Cardinality(Holders(o)) \in Nat
BY GateAssumption, FS_Subset, FS_CardinalityType DEF Holders

LEMMA HoldersAreLimited ==
  ASSUME GateIInv, NEW o \in Generations PROVE active[o] \in Nat /\ active[o] <= MaxActive
BY GateAssumption DEF GateIInv, GateTypeOK

(* All leases of a model are of the object the map holds.                     *)
LEMMA LeasesAreHeld ==
  ASSUME GateIInv, NEW m \in Models
  PROVE  Holding(m) = IF queues[m] = NoQueue THEN {} ELSE Holders(queues[m])
<1>1. ASSUME NEW h \in Holding(m) PROVE queues[m] # NoQueue /\ h \in Holders(queues[m])
  <2> DEFINE o == joined[h]
  <2>1. h \in Generations /\ ModelOf[h] = m /\ state[h] = "holding"
    BY <1>1 DEF Holding
  <2>2. o # NoQueue /\ o \in Generations /\ ModelOf[o] = m
    BY <2>1 DEF GateIInv, Joined
  <2>3. h \in Holders(o)
    BY <2>1 DEF Holders
  <2>4. Cardinality(Holders(o)) # 0
    BY <2>3, HoldersFinite, FS_EmptySet
  <2>5. active[o] > 0
    BY <2>2, <2>4, HoldersFinite DEF GateIInv, Object
  <2>6. queues[m] = o
    BY <2>2, <2>5 DEF GateIInv, Object
  <2> QED
    BY <2>2, <2>3, <2>6
<1>2. ASSUME queues[m] # NoQueue, NEW h \in Holders(queues[m]) PROVE h \in Holding(m)
  <2>1. ModelOf[queues[m]] = m
    BY <1>2 DEF GateIInv, Held
  <2>2. h \in Generations /\ joined[h] = queues[m] /\ state[h] = "holding"
    BY <1>2 DEF Holders
  <2>3. ModelOf[h] = m
    BY <1>2, <2>1, <2>2 DEF GateIInv, Joined
  <2> QED
    BY <2>2, <2>3 DEF Holding
<1> QED
  BY <1>1, <1>2

(* So do those of one who waits, and they are all there may be.               *)
LEMMA WaitersFacts ==
  ASSUME GateIInv, NEW g \in Generations, state[g] = "queued"
  PROVE  /\ joined[g] \in Generations /\ ModelOf[joined[g]] = ModelOf[g]
         /\ joined[g] = queues[ModelOf[g]] /\ active[joined[g]] = MaxActive
         /\ \E i \in 1..Len(pending[joined[g]]) : pending[joined[g]][i] = g
<1> DEFINE o == joined[g]
<1>1. o \in Generations /\ ModelOf[o] = ModelOf[g]
  BY DEF GateIInv, Joined
<1>2. \E i \in 1..Len(pending[o]) : pending[o][i] = g
  BY DEF GateIInv, Waits
<1>3. pending[o] # <<>>
  BY <1>2
<1>4. active[o] = MaxActive
  BY <1>1, <1>3 DEF GateIInv, Object
<1>5. queues[ModelOf[o]] = o
  BY <1>1, <1>4, GateAssumption DEF GateIInv, Object
<1> QED
  BY <1>1, <1>2, <1>4, <1>5

LEMMA WaitersAreFew ==
  ASSUME GateIInv, NEW m \in Models
  PROVE  Cardinality(Waiting(m)) <= MaxQueued
<1> DEFINE o == queues[m]
<1>1. CASE Waiting(m) = {}
  BY <1>1, FS_EmptySet, GateAssumption
<1>2. CASE Waiting(m) # {}
  <2>1. \A g \in Waiting(m) :
          o \in Generations /\ \E i \in 1..Len(pending[o]) : pending[o][i] = g
    <3> SUFFICES ASSUME NEW g \in Waiting(m)
                 PROVE  o \in Generations /\ \E i \in 1..Len(pending[o]) : pending[o][i] = g
      OBVIOUS
    <3>1. g \in Generations /\ state[g] = "queued" /\ ModelOf[g] = m
      BY DEF Waiting
    <3> QED
      BY <3>1, WaitersFacts
  <2>2. o \in Generations
    BY <1>2, <2>1
  <2>3. pending[o] \in Seq(Generations) /\ Len(pending[o]) \in Nat /\ Len(pending[o]) <= MaxQueued
    BY <2>2 DEF GateIInv, GateTypeOK, Object
  <2> DEFINE places == 1..Len(pending[o])
             standing == {pending[o][i] : i \in places}
  <2>4. IsFiniteSet(places) /\ Cardinality(places) = Len(pending[o])
    BY <2>3, FS_Interval
  <2>5. IsFiniteSet(standing) /\ Cardinality(standing) <= Cardinality(places)
    <3> DEFINE F(i) == pending[o][i]
    <3>1. [i \in places |-> pending[o][i]] \in Surjection(places, standing)
      BY DEF Surjection
    <3> QED
      BY <2>4, <3>1, FS_Surjection
  <2>6. Waiting(m) \subseteq standing
    BY <2>1
  <2>7. Cardinality(Waiting(m)) <= Cardinality(standing)
    BY <2>5, <2>6, FS_Subset
  <2>8. Cardinality(Waiting(m)) \in Nat /\ Cardinality(standing) \in Nat
    BY <2>5, <2>6, FS_Subset, FS_CardinalityType
  <2> QED
    BY <2>3, <2>4, <2>5, <2>7, <2>8, GateAssumption
<1> QED
  BY <1>1, <1>2

LEMMA GateIInvImplies == GateIInv => GateInv
<1> SUFFICES ASSUME GateIInv PROVE GateInv
  OBVIOUS
<1>1. ASSUME NEW m \in Models PROVE Cardinality(Holding(m)) <= MaxActive
  <2>1. CASE queues[m] = NoQueue
    BY <2>1, LeasesAreHeld, FS_EmptySet, GateAssumption
  <2>2. CASE queues[m] # NoQueue
    <3>1. queues[m] \in Generations
      BY <2>2 DEF GateIInv, GateTypeOK
    <3>2. Cardinality(Holders(queues[m])) = active[queues[m]]
      BY <3>1 DEF GateIInv, Object
    <3> QED
      BY <2>2, <3>1, <3>2, LeasesAreHeld, HoldersAreLimited
  <2> QED
    BY <2>1, <2>2
<1>2. Capacity
  BY <1>1, WaitersAreFew DEF Capacity
<1>3. ASSUME NEW g \in Generations, state[g] = "queued"
      PROVE  /\ joined[g] = queues[ModelOf[g]]
             /\ \E i \in 1..Len(pending[joined[g]]) : pending[joined[g]][i] = g
             /\ Cardinality({h \in Holding(ModelOf[g]) : joined[h] = joined[g]}) = MaxActive
  <2> DEFINE o == joined[g]
  <2>1. /\ o \in Generations /\ o = queues[ModelOf[g]] /\ active[o] = MaxActive
        /\ \E i \in 1..Len(pending[o]) : pending[o][i] = g
    BY <1>3, WaitersFacts
  <2>2. ModelOf[g] \in Models
    BY GateAssumption
  <2>3. Holding(ModelOf[g]) = Holders(o)
    BY <2>1, <2>2, LeasesAreHeld, GateAssumption
  <2>4. {h \in Holding(ModelOf[g]) : joined[h] = o} = Holders(o)
    BY <2>3 DEF Holders
  <2>5. Cardinality(Holders(o)) = MaxActive
    BY <2>1 DEF GateIInv, Object
  <2> QED
    BY <2>1, <2>4, <2>5
<1>4. WaitersAreReachable
  BY <1>3 DEF WaitersAreReachable
<1> QED
  BY <1>2, <1>4 DEF GateInv, GateIInv

-----------------------------------------------------------------------------
(* What a step leaves of the leases of an object.                             *)
LEMMA SameHolders ==
  ASSUME NEW o,
         \A h \in Generations :
           joined'[h] = o /\ state'[h] = "holding" <=> joined[h] = o /\ state[h] = "holding"
  PROVE  Holders(o)' = Holders(o)
BY DEF Holders

LEMMA MoreHolders ==
  ASSUME NEW o, NEW g \in Generations, ~(joined[g] = o /\ state[g] = "holding"),
         joined'[g] = o, state'[g] = "holding",
         \A h \in Generations \ {g} :
           joined'[h] = o /\ state'[h] = "holding" <=> joined[h] = o /\ state[h] = "holding"
  PROVE  Cardinality(Holders(o)') = Cardinality(Holders(o)) + 1
<1>1. Holders(o)' = Holders(o) \union {g} /\ g \notin Holders(o)
  BY DEF Holders
<1>2. IsFiniteSet(Holders(o))
  BY HoldersFinite
<1>3. Cardinality(Holders(o) \union {g}) = Cardinality(Holders(o)) + 1
  BY <1>1, <1>2, FS_AddElement
<1> QED
  BY <1>1, <1>3

LEMMA LessHolders ==
  ASSUME NEW o, NEW g \in Generations, joined[g] = o /\ state[g] = "holding",
         ~(joined'[g] = o /\ state'[g] = "holding"),
         \A h \in Generations \ {g} :
           joined'[h] = o /\ state'[h] = "holding" <=> joined[h] = o /\ state[h] = "holding"
  PROVE  Cardinality(Holders(o)') = Cardinality(Holders(o)) - 1
<1>1. Holders(o)' = Holders(o) \ {g} /\ g \in Holders(o)
  BY DEF Holders
<1> QED
  BY <1>1, HoldersFinite, FS_RemoveElement

LEMMA PassedHolders ==
  ASSUME NEW o, NEW g \in Generations, NEW w \in Generations, g # w,
         joined[g] = o /\ state[g] = "holding", ~(joined[w] = o /\ state[w] = "holding"),
         ~(joined'[g] = o /\ state'[g] = "holding"), joined'[w] = o /\ state'[w] = "holding",
         \A h \in Generations \ {g, w} :
           joined'[h] = o /\ state'[h] = "holding" <=> joined[h] = o /\ state[h] = "holding"
  PROVE  Cardinality(Holders(o)') = Cardinality(Holders(o))
<1> DEFINE rest == Holders(o) \ {g}
<1>1. Holders(o)' = rest \union {w} /\ w \notin rest /\ g \in Holders(o)
  BY DEF Holders
<1>2. IsFiniteSet(rest) /\ Cardinality(rest) = Cardinality(Holders(o)) - 1
  BY <1>1, HoldersFinite, FS_RemoveElement
<1>3. Cardinality(Holders(o)') = Cardinality(rest) + 1
  BY <1>1, <1>2, FS_AddElement
<1> QED
  BY <1>2, <1>3, HoldersFinite

(* An object nobody touches.                                                  *)
LEMMA ObjectStays ==
  ASSUME NEW o \in Generations, Object(o),
         active'[o] = active[o], pending'[o] = pending[o], Holders(o)' = Holders(o),
         joined[o] = o => joined'[o] = o,
         queues[ModelOf[o]] = o => queues'[ModelOf[o]] = o,
         \A h \in Generations : joined[h] = o /\ state[h] = "queued" =>
            joined'[h] = o /\ state'[h] = "queued",
         pending[o] \in Seq(Generations)
  PROVE  Object(o)'
BY DEF Object

-----------------------------------------------------------------------------
TheObject(g) == IF queues[ModelOf[g]] = NoQueue THEN g ELSE queues[ModelOf[g]]

(* acquire finds the object of its model or makes an empty one.               *)
LEMMA AcquireJoins ==
  ASSUME GateIInv, NEW g \in Generations, Acquire(g)
  PROVE  LET o == TheObject(g) IN
         /\ o \in Generations /\ ModelOf[o] = ModelOf[g] /\ joined'[o] = o
         /\ queues' = [queues EXCEPT ![ModelOf[g]] = o] /\ joined' = [joined EXCEPT ![g] = o]
         /\ queues[ModelOf[g]] = NoQueue => active[o] = 0 /\ pending[o] = <<>>
         /\ joined[g] = NoQueue /\ state[g] = "idle" /\ ModelOf[g] \in Models
         /\ \A h \in Generations : Joined(h)'
         /\ \A m \in Models : Held(m)'
<1> DEFINE o == TheObject(g)
<1>1. /\ queues' = [queues EXCEPT ![ModelOf[g]] = o] /\ joined' = [joined EXCEPT ![g] = o]
      /\ state[g] = "idle"
  BY DEF Acquire, TheObject
<1>a. \E s \in {"holding", "refused", "queued"} : state' = [state EXCEPT ![g] = s]
  BY DEF Acquire
<1>2. /\ queues \in [Models -> Generations \union {NoQueue}]
      /\ joined \in [Generations -> Generations \union {NoQueue}] /\ ModelOf[g] \in Models
      /\ \A h \in Generations \ {g} : state'[h] = state[h]
      /\ state'[g] # "idle"
  BY <1>a, GateAssumption DEF GateIInv, GateTypeOK
<1>3. joined[g] = NoQueue
  BY <1>1 DEF GateIInv, Joined
<1>4. o \in Generations /\ ModelOf[o] = ModelOf[g] /\ joined'[o] = o
  <2>1. CASE queues[ModelOf[g]] = NoQueue
    BY <1>1, <1>2, <2>1 DEF TheObject
  <2>2. CASE queues[ModelOf[g]] # NoQueue
    BY <1>1, <1>2, <1>3, <2>2 DEF TheObject, GateIInv, Held
  <2> QED
    BY <2>1, <2>2
<1>5. ASSUME queues[ModelOf[g]] = NoQueue PROVE active[o] = 0 /\ pending[o] = <<>>
  <2>1. o = g /\ Object(g)
    BY <1>5 DEF TheObject, GateIInv
  <2>2. ~(active[g] > 0)
    BY <1>5, <2>1, GateAssumption DEF Object
  <2> QED
    BY <2>1, <2>2, HoldersAreLimited, GateAssumption DEF Object
<1>6. ASSUME NEW h \in Generations PROVE Joined(h)'
  <2>1. CASE h = g
    BY <1>1, <1>2, <1>4, <2>1, GateAssumption DEF Joined
  <2>2. CASE h # g
    <3>1. joined'[h] = joined[h] /\ state'[h] = state[h] /\ Joined(h)
      BY <1>1, <1>2, <2>2 DEF GateIInv
    <3>2. ASSUME joined[h] # NoQueue PROVE joined'[joined[h]] = joined[h]
      BY <1>1, <1>2, <1>3, <3>1, <3>2 DEF Joined
    <3> QED
      BY <3>1, <3>2 DEF Joined
  <2> QED
    BY <2>1, <2>2
<1>7. ASSUME NEW m \in Models PROVE Held(m)'
  <2>1. CASE m = ModelOf[g]
    BY <1>1, <1>2, <1>4, <2>1 DEF Held
  <2>2. CASE m # ModelOf[g]
    <3>1. queues'[m] = queues[m] /\ Held(m)
      BY <1>1, <1>2, <2>2 DEF GateIInv
    <3> QED
      BY <1>1, <1>2, <1>3, <3>1 DEF Held
  <2> QED
    BY <2>1, <2>2
<1> QED
  BY <1>1, <1>2, <1>3, <1>4, <1>5, <1>6, <1>7

(* The objects acquire does not use.                                          *)
LEMMA AcquireSpares ==
  ASSUME GateIInv, NEW g \in Generations, Acquire(g), NEW p \in Generations, p # TheObject(g)
  PROVE  Object(p)' /\ active'[p] = active[p] /\ pending'[p] = pending[p]
<1> DEFINE o == TheObject(g)
<1>1. /\ o \in Generations /\ ModelOf[o] = ModelOf[g] /\ ModelOf[g] \in Models
      /\ queues' = [queues EXCEPT ![ModelOf[g]] = o] /\ joined' = [joined EXCEPT ![g] = o]
      /\ joined[g] = NoQueue /\ state[g] = "idle"
  BY AcquireJoins
<1>2. /\ active'[p] = active[p] /\ pending'[p] = pending[p]
      /\ \A h \in Generations \ {g} : state'[h] = state[h] /\ joined'[h] = joined[h]
      /\ joined'[g] = o /\ pending[p] \in Seq(Generations)
      /\ queues \in [Models -> Generations \union {NoQueue}]
  BY <1>1, GateAssumption DEF Acquire, TheObject, GateIInv, GateTypeOK
<1>3. Object(p)
  BY DEF GateIInv
<1>4. Holders(p)' = Holders(p)
  BY <1>1, <1>2, SameHolders
<1>5. joined[p] = p => joined'[p] = p
  BY <1>1, <1>2, GateAssumption
<1>6. ASSUME queues[ModelOf[p]] = p PROVE queues'[ModelOf[p]] = p
  <2>1. CASE ModelOf[p] = ModelOf[g]
    BY <1>6, <2>1, GateAssumption DEF TheObject
  <2>2. CASE ModelOf[p] # ModelOf[g]
    BY <1>1, <1>6, <2>2
  <2> QED
    BY <2>1, <2>2
<1>7. \A h \in Generations : joined[h] = p /\ state[h] = "queued" => joined'[h] = p /\ state'[h] = "queued"
  BY <1>1, <1>2
<1> QED
  BY <1>2, <1>3, <1>4, <1>5, <1>6, <1>7, ObjectStays

(* What acquire makes of its object.                                          *)
LEMMA AcquireObject ==
  ASSUME GateIInv, NEW g \in Generations, Acquire(g), NEW o \in Generations, o = TheObject(g)
  PROVE  /\ Object(o)' /\ Waits(g)' /\ active'[o] \in 0..MaxActive /\ pending'[o] \in Seq(Generations)
         /\ \A i \in 1..Len(pending[o]) : i \in 1..Len(pending'[o]) /\ pending'[o][i] = pending[o][i]
<1>1. /\ o \in Generations /\ ModelOf[o] = ModelOf[g] /\ ModelOf[g] \in Models
      /\ queues' = [queues EXCEPT ![ModelOf[g]] = o] /\ joined' = [joined EXCEPT ![g] = o]
      /\ joined[g] = NoQueue /\ state[g] = "idle" /\ joined'[o] = o
  BY AcquireJoins
<1>2. /\ active \in [Generations -> 0..MaxActive] /\ pending \in [Generations -> Seq(Generations)]
      /\ joined \in [Generations -> Generations \union {NoQueue}]
      /\ queues \in [Models -> Generations \union {NoQueue}] /\ DOMAIN state = Generations
      /\ MaxActive \in Nat \ {0} /\ MaxQueued \in Nat /\ NoQueue \notin Generations
  BY GateAssumption DEF GateIInv, GateTypeOK
<1>3. Object(o)
  BY DEF GateIInv
<1>4. queues'[ModelOf[o]] = o /\ joined'[g] = o /\ \A h \in Generations \ {g} : joined'[h] = joined[h]
  BY <1>1, <1>2
<1>5. \A i \in 1..Len(pending[o]) : pending[o][i] \in Generations /\ pending[o][i] # g
  BY <1>1, <1>2, <1>3 DEF Object
<1>6. /\ active[o] < MaxActive /\ active' = [active EXCEPT ![o] = @ + 1]
         /\ state' = [state EXCEPT ![g] = "holding"] /\ UNCHANGED pending
      \/ /\ active[o] >= MaxActive /\ Len(pending[o]) >= MaxQueued
         /\ state' = [state EXCEPT ![g] = "refused"] /\ UNCHANGED <<active, pending>>
      \/ /\ active[o] >= MaxActive /\ Len(pending[o]) < MaxQueued
         /\ pending' = [pending EXCEPT ![o] = Append(@, g)]
         /\ state' = [state EXCEPT ![g] = "queued"] /\ UNCHANGED active
  BY DEF Acquire, TheObject
<1>7. CASE /\ active[o] < MaxActive /\ active' = [active EXCEPT ![o] = @ + 1]
           /\ state' = [state EXCEPT ![g] = "holding"] /\ UNCHANGED pending
  <2>1. pending[o] = <<>> /\ pending'[o] = <<>> /\ active'[o] = active[o] + 1
    BY <1>1, <1>2, <1>3, <1>7 DEF Object
  <2>2. Cardinality(Holders(o)') = Cardinality(Holders(o)) + 1
    BY <1>1, <1>2, <1>4, <1>7, MoreHolders
  <2>3. Object(o)'
    BY <1>1, <1>2, <1>3, <1>4, <2>1, <2>2 DEF Object
  <2> QED
    BY <1>2, <1>7, <2>1, <2>3 DEF Waits
<1>8. CASE /\ active[o] >= MaxActive /\ Len(pending[o]) >= MaxQueued
           /\ state' = [state EXCEPT ![g] = "refused"] /\ UNCHANGED <<active, pending>>
  <2>1. Holders(o)' = Holders(o)
    BY <1>1, <1>2, <1>4, <1>8, SameHolders
  <2>2. Object(o)'
    BY <1>1, <1>2, <1>3, <1>4, <1>5, <1>8, <2>1 DEF Object
  <2> QED
    BY <1>2, <1>8, <2>2 DEF Waits
<1>9. CASE /\ active[o] >= MaxActive /\ Len(pending[o]) < MaxQueued
           /\ pending' = [pending EXCEPT ![o] = Append(@, g)]
           /\ state' = [state EXCEPT ![g] = "queued"] /\ UNCHANGED active
  <2>1. Holders(o)' = Holders(o)
    BY <1>1, <1>2, <1>4, <1>9, SameHolders
  <2>2. active[o] = MaxActive /\ pending'[o] = Append(pending[o], g)
    BY <1>1, <1>2, <1>9
  <2>3. /\ Len(pending'[o]) = Len(pending[o]) + 1 /\ pending'[o][Len(pending[o]) + 1] = g
        /\ \A i \in 1..Len(pending[o]) : pending'[o][i] = pending[o][i]
    BY <1>1, <1>2, <2>2
  <2>4. Len(pending'[o]) <= MaxQueued
    BY <1>1, <1>2, <1>9, <2>3
  <2>5. ASSUME NEW i \in 1..Len(pending'[o])
        PROVE  state'[pending'[o][i]] = "queued" /\ joined'[pending'[o][i]] = o
    BY <1>1, <1>2, <1>3, <1>4, <1>5, <1>9, <2>3 DEF Object
  <2>6. ASSUME NEW i \in 1..Len(pending'[o]), NEW j \in 1..Len(pending'[o]),
               pending'[o][i] = pending'[o][j]
        PROVE  i = j
    <3> DEFINE n == Len(pending[o])
    <3>1. n \in Nat /\ i \in 1..(n + 1) /\ j \in 1..(n + 1)
      BY <1>2, <2>3
    <3>2. \A k \in 1..n : pending'[o][k] # pending'[o][n + 1]
      BY <1>5, <2>3
    <3>3. (i \in 1..n /\ j \in 1..n) \/ i = j
      BY <2>6, <3>1, <3>2
    <3> QED
      BY <1>3, <2>3, <2>6, <3>3 DEF Object
  <2>7. Object(o)'
    BY <1>1, <1>3, <1>4, <1>9, <2>1, <2>2, <2>4, <2>5, <2>6 DEF Object
  <2>8. pending'[o] \in Seq(Generations) /\ active'[o] \in 0..MaxActive
    BY <1>2, <1>9, <2>2
  <2>9. Len(pending[o]) \in Nat /\ Len(pending[o]) + 1 \in 1..Len(pending'[o])
    BY <1>2, <2>3
  <2>10. Waits(g)'
    BY <1>4, <2>3, <2>9 DEF Waits
  <2>11. ASSUME NEW i \in 1..Len(pending[o]) PROVE i \in 1..Len(pending'[o])
    BY <2>3, <2>9
  <2> QED
    BY <2>3, <2>7, <2>8, <2>10, <2>11
<1> QED
  BY <1>6, <1>7, <1>8, <1>9

LEMMA AcquireKeeps ==
  ASSUME GateIInv, NEW g \in Generations, Acquire(g) PROVE GateIInv'
<1> DEFINE o == TheObject(g)
<1>1. /\ o \in Generations /\ ModelOf[g] \in Models
      /\ queues' = [queues EXCEPT ![ModelOf[g]] = o] /\ joined' = [joined EXCEPT ![g] = o]
      /\ (\A h \in Generations : Joined(h)') /\ \A m \in Models : Held(m)'
  BY AcquireJoins
<1>2. \E x \in Generations : x = o
  BY <1>1
<1>a. PICK x \in Generations : x = o
  BY <1>2
<1>b. /\ Object(x)' /\ Waits(g)' /\ active'[x] \in 0..MaxActive /\ pending'[x] \in Seq(Generations)
      /\ \A i \in 1..Len(pending[x]) : i \in 1..Len(pending'[x]) /\ pending'[x][i] = pending[x][i]
  BY <1>a, AcquireObject
<1>c. ASSUME NEW p \in Generations, p # x
      PROVE  Object(p)' /\ active'[p] = active[p] /\ pending'[p] = pending[p]
  BY <1>a, <1>c, AcquireSpares
<1>3. ASSUME NEW h \in Generations PROVE Waits(h)'
  <2>1. CASE h = g
    BY <1>b, <2>1
  <2>2. CASE h # g
    <3>1. state'[h] = state[h] /\ joined'[h] = joined[h]
      BY <1>1, <2>2 DEF Acquire, GateIInv, GateTypeOK
    <3>2. SUFFICES ASSUME state[h] = "queued"
                   PROVE  \E i \in 1..Len(pending'[joined[h]]) : pending'[joined[h]][i] = h
      BY <3>1 DEF Waits
    <3>3. joined[h] \in Generations /\ \E i \in 1..Len(pending[joined[h]]) : pending[joined[h]][i] = h
      BY <3>2, WaitersFacts
    <3>4. CASE joined[h] = x
      BY <1>b, <3>3, <3>4
    <3>5. CASE joined[h] # x
      BY <1>c, <3>3, <3>5
    <3> QED
      BY <3>4, <3>5
  <2> QED
    BY <2>1, <2>2
<1>4. GateTypeOK'
  <2>1. GateTypeOK /\ MaxActive \in Nat /\ aborted' = aborted
    BY GateAssumption DEF GateIInv, Acquire
  <2>2. \E s \in {"holding", "refused", "queued"} : state' = [state EXCEPT ![g] = s]
    BY DEF Acquire
  <2>3. active' \in [Generations -> 0..MaxActive] /\ pending' \in [Generations -> Seq(Generations)]
    <3>1. /\ \A p \in Generations : active'[p] \in 0..MaxActive /\ pending'[p] \in Seq(Generations)
      BY <1>b, <1>c, <2>1 DEF GateTypeOK
    <3>2. \E f : active' = [active EXCEPT ![o] = f] \/ active' = active
      BY DEF Acquire, TheObject
    <3>3. \E f : pending' = [pending EXCEPT ![o] = f] \/ pending' = pending
      BY DEF Acquire, TheObject
    <3> QED
      BY <2>1, <3>1, <3>2, <3>3 DEF GateTypeOK
  <2> QED
    BY <1>1, <2>1, <2>2, <2>3 DEF GateTypeOK
<1> QED
  BY <1>1, <1>b, <1>c, <1>3, <1>4 DEF GateIInv

-----------------------------------------------------------------------------
(* Who holds or waits at object o ends or moves up; its line becomes t and    *)
(* its count a, and the map may drop it when it is idle.                      *)
Shrinks(o, t, a) ==
  /\ joined' = joined /\ aborted' = aborted
  /\ pending' = [pending EXCEPT ![o] = t] /\ active' = [active EXCEPT ![o] = a]
  /\ state' \in [Generations -> {"idle", "queued", "holding", "released", "refused"}]
  /\ \A h \in Generations : joined[h] # o => state'[h] = state[h]
  /\ \A h \in Generations : joined[h] = o =>
       /\ state'[h] # "idle"
       /\ state'[h] = "queued" => state[h] = "queued" /\ \E i \in 1..Len(t) : t[i] = h
  /\ t \in Seq(Generations) /\ Len(t) <= Len(pending[o])
  /\ \A i \in 1..Len(t) : joined[t[i]] = o /\ state'[t[i]] = "queued"
  /\ \A i, j \in 1..Len(t) : t[i] = t[j] => i = j
  /\ a \in 0..active[o] /\ a = Cardinality(Holders(o)')
  /\ t # <<>> => a = MaxActive
  /\ \/ queues' = queues
     \/ a = 0 /\ t = <<>> /\ queues[ModelOf[o]] = o /\ queues' = [queues EXCEPT ![ModelOf[o]] = NoQueue]

LEMMA ShrinksKeeps ==
  ASSUME GateIInv, NEW o \in Generations, NEW t, NEW a, Shrinks(o, t, a), joined[o] = o
  PROVE  GateIInv'
<1>1. /\ active \in [Generations -> 0..MaxActive] /\ pending \in [Generations -> Seq(Generations)]
      /\ queues \in [Models -> Generations \union {NoQueue}] /\ NoQueue \notin Generations
      /\ MaxActive \in Nat \ {0} /\ MaxQueued \in Nat /\ ModelOf \in [Generations -> Models]
      /\ Len(pending[o]) \in Nat
  BY GateAssumption DEF GateIInv, GateTypeOK
<1>2. GateTypeOK'
  <2>1. GateTypeOK /\ joined' = joined /\ aborted' = aborted
        /\ state' \in [Generations -> {"idle", "queued", "holding", "released", "refused"}]
    BY DEF Shrinks, GateIInv
  <2>2. active[o] \in 0..MaxActive /\ a \in 0..MaxActive
    BY <1>1 DEF Shrinks
  <2>3. active' \in [Generations -> 0..MaxActive]
    BY <1>1, <2>2 DEF Shrinks
  <2>4. pending' \in [Generations -> Seq(Generations)]
    BY <1>1 DEF Shrinks
  <2>5. queues' \in [Models -> Generations \union {NoQueue}]
    <3>1. queues' = queues \/ queues' = [queues EXCEPT ![ModelOf[o]] = NoQueue]
      BY DEF Shrinks
    <3> QED
      BY <1>1, <3>1
  <2> QED
    BY <2>1, <2>3, <2>4, <2>5 DEF GateTypeOK
<1>3. ASSUME NEW h \in Generations PROVE Joined(h)'
  <2>1. CASE joined[h] # o
    <3>1. state'[h] = state[h] /\ joined' = joined
      BY <2>1 DEF Shrinks
    <3> QED
      BY <3>1 DEF GateIInv, Joined
  <2>2. CASE joined[h] = o
    <3>1. state'[h] # "idle" /\ joined' = joined
      BY <2>2 DEF Shrinks
    <3> QED
      BY <1>1, <2>2, <3>1 DEF GateIInv, Joined
  <2> QED
    BY <2>1, <2>2
<1>4. ASSUME NEW h \in Generations PROVE Waits(h)'
  <2>1. CASE joined[h] # o
    <3>1. SUFFICES ASSUME state[h] = "queued"
                   PROVE  \E i \in 1..Len(pending'[joined[h]]) : pending'[joined[h]][i] = h
      BY <2>1 DEF Shrinks, Waits
    <3>2. joined[h] \in Generations /\ \E i \in 1..Len(pending[joined[h]]) : pending[joined[h]][i] = h
      BY <3>1, WaitersFacts
    <3>3. pending'[joined[h]] = pending[joined[h]]
      BY <1>1, <2>1, <3>2 DEF Shrinks
    <3> QED
      BY <3>2, <3>3
  <2>2. CASE joined[h] = o
    BY <1>1, <2>2 DEF Shrinks, Waits
  <2> QED
    BY <2>1, <2>2
<1>5. Object(o)'
  <2>1. active'[o] = a /\ pending'[o] = t /\ joined'[o] = o
    BY <1>1 DEF Shrinks
  <2>2. a = Cardinality(Holders(o)') /\ a \in Nat
    BY <1>1 DEF Shrinks
  <2>3. Len(t) <= MaxQueued
    <3>1. Len(t) \in Nat /\ Len(t) <= Len(pending[o]) /\ Len(pending[o]) <= MaxQueued
      BY DEF Shrinks, GateIInv, Object
    <3> QED
      BY <1>1, <3>1
  <2>4. a > 0 => queues'[ModelOf[o]] = o
    BY <1>1 DEF Shrinks, GateIInv, Object
  <2>5. t # <<>> => a = MaxActive
    BY DEF Shrinks
  <2>6. \A i \in 1..Len(t) : state'[t[i]] = "queued" /\ joined'[t[i]] = o
    BY DEF Shrinks
  <2>7. \A i, j \in 1..Len(t) : t[i] = t[j] => i = j
    BY DEF Shrinks
  <2> QED
    BY <2>1, <2>2, <2>3, <2>4, <2>5, <2>6, <2>7 DEF Object
<1>6. ASSUME NEW p \in Generations, p # o PROVE Object(p)'
  <2>1. Object(p) /\ active'[p] = active[p] /\ pending'[p] = pending[p] /\ joined' = joined
        /\ pending[p] \in Seq(Generations)
    BY <1>1, <1>6 DEF Shrinks, GateIInv
  <2>2. \A h \in Generations : joined[h] = p => state'[h] = state[h]
    BY <1>6 DEF Shrinks
  <2>3. Holders(p)' = Holders(p)
    BY <2>1, <2>2, SameHolders
  <2>4. queues[ModelOf[p]] = p => queues'[ModelOf[p]] = p
    BY <1>1, <1>6 DEF Shrinks
  <2>5. \A h \in Generations : joined[h] = p /\ state[h] = "queued" => joined'[h] = p /\ state'[h] = "queued"
    BY <2>1, <2>2
  <2> QED
    BY <2>1, <2>3, <2>4, <2>5, ObjectStays
<1>7. ASSUME NEW m \in Models PROVE Held(m)'
  <2>1. joined' = joined /\ Held(m) /\ (queues'[m] = queues[m] \/ queues'[m] = NoQueue)
    BY <1>1, <1>7 DEF Shrinks, GateIInv
  <2> QED
    BY <2>1 DEF Held
<1> QED
  BY <1>2, <1>3, <1>4, <1>5, <1>6, <1>7 DEF GateIInv

(* A listener takes its waiter out of the line.                               *)
LEMMA OnAbortShrinks ==
  ASSUME GateIInv, NEW g \in Generations, OnAbort(g)
  PROVE  \E o \in Generations, k \in 1..Len(pending[joined[g]]) :
           /\ o = joined[g] /\ joined[o] = o /\ o = queues[ModelOf[g]] /\ queues' = queues
           /\ pending[o][k] = g
           /\ Shrinks(o, SubSeq(pending[o], 1, k - 1) \o SubSeq(pending[o], k + 1, Len(pending[o])),
                      active[o])
           /\ active[o] = MaxActive /\ Holders(o)' = Holders(o)
           /\ state' = [state EXCEPT ![g] = "refused"] /\ state[g] = "queued"
<1> DEFINE o == joined[g]
<1>1. state[g] = "queued" /\ state' = [state EXCEPT ![g] = "refused"]
      /\ active' = active /\ joined' = joined /\ aborted' = aborted
      /\ pending' = [pending EXCEPT ![o] = Without(pending[o], g)]
      /\ DeleteIfIdle(ModelOf[g], o, active[o], Without(pending[o], g))
  BY DEF OnAbort
<1>2. /\ o \in Generations /\ ModelOf[o] = ModelOf[g] /\ o = queues[ModelOf[g]]
      /\ active[o] = MaxActive
      /\ \E i \in 1..Len(pending[o]) : pending[o][i] = g
  BY <1>1, WaitersFacts
<1>3. PICK k \in 1..Len(pending[o]) : pending[o][k] = g
  BY <1>2
<1>4. /\ pending[o] \in Seq(Generations) /\ Object(o) /\ joined[o] = o /\ MaxActive \in Nat \ {0}
      /\ state \in [Generations -> {"idle", "queued", "holding", "released", "refused"}]
      /\ active \in [Generations -> 0..MaxActive] /\ Len(pending[o]) \in Nat
      /\ pending \in [Generations -> Seq(Generations)]
  BY <1>2, GateAssumption DEF GateIInv, GateTypeOK, Joined
<1> DEFINE t == SubSeq(pending[o], 1, k - 1) \o SubSeq(pending[o], k + 1, Len(pending[o]))
<1>5. Without(pending[o], g) = t
  BY <1>3, <1>4, WithoutIsCut DEF Object
<1>6. /\ t \in Seq(Generations) /\ Len(t) = Len(pending[o]) - 1
      /\ \A i \in 1..Len(t) : t[i] = IF i < k THEN pending[o][i] ELSE pending[o][i + 1]
  BY <1>4, Cut
<1>7. queues' = queues
  BY <1>1, <1>2, <1>4 DEF DeleteIfIdle
<1>8. Holders(o)' = Holders(o)
  BY <1>1, <1>4, SameHolders
<1> HIDE DEF t
<1>9. /\ joined' = joined /\ aborted' = aborted /\ queues' = queues
      /\ pending' = [pending EXCEPT ![o] = t] /\ active' = [active EXCEPT ![o] = active[o]]
      /\ state' \in [Generations -> {"idle", "queued", "holding", "released", "refused"}]
  BY <1>1, <1>4, <1>5, <1>7
<1>10. ASSUME NEW h \in Generations, joined[h] # o PROVE state'[h] = state[h]
  BY <1>1, <1>10
<1>11. ASSUME NEW i \in 1..Len(t)
       PROVE  \E j \in 1..Len(pending[o]) :
                j # k /\ t[i] = pending[o][j] /\ (i < k => j = i) /\ (i >= k => j = i + 1)
  <2>1. i \in 1..Len(pending[o]) /\ i + 1 \in 1..Len(pending[o])
    BY <1>4, <1>6
  <2> QED
    BY <1>6, <2>1
<1>12. ASSUME NEW i \in 1..Len(t) PROVE joined[t[i]] = o /\ state'[t[i]] = "queued"
  <2>1. PICK j \in 1..Len(pending[o]) : j # k /\ t[i] = pending[o][j]
    BY <1>11
  <2>2. pending[o][j] # g /\ state[pending[o][j]] = "queued" /\ joined[pending[o][j]] = o
    BY <1>3, <1>4, <2>1 DEF Object
  <2> QED
    BY <1>1, <1>4, <2>1, <2>2
<1>13. ASSUME NEW i \in 1..Len(t), NEW j \in 1..Len(t), t[i] = t[j] PROVE i = j
  <2>1. PICK p \in 1..Len(pending[o]) :
          t[i] = pending[o][p] /\ (i < k => p = i) /\ (i >= k => p = i + 1)
    BY <1>11
  <2>2. PICK q \in 1..Len(pending[o]) :
          t[j] = pending[o][q] /\ (j < k => q = j) /\ (j >= k => q = j + 1)
    BY <1>11
  <2>3. p = q
    BY <1>4, <1>13, <2>1, <2>2 DEF Object
  <2>4. i \in Nat /\ j \in Nat /\ k \in Nat
    BY <1>4, <1>6
  <2> QED
    BY <2>1, <2>2, <2>3, <2>4
<1>14. ASSUME NEW h \in Generations, joined[h] = o
       PROVE  /\ state'[h] # "idle"
              /\ state'[h] = "queued" => state[h] = "queued" /\ \E i \in 1..Len(t) : t[i] = h
  <2>1. state[h] # "idle"
    BY <1>2, <1>14, GateAssumption DEF GateIInv, Joined
  <2>2. CASE h = g
    BY <1>1, <1>4, <2>2
  <2>3. CASE h # g
    <3>1. state'[h] = state[h]
      BY <1>1, <2>3
    <3>2. ASSUME state[h] = "queued" PROVE \E i \in 1..Len(t) : t[i] = h
      <4>1. PICK j \in 1..Len(pending[o]) : pending[o][j] = h
        BY <1>14, <3>2, WaitersFacts
      <4>a. j # k
        BY <1>3, <2>3, <4>1
      <4>b. j \in Nat /\ k \in Nat /\ j >= 1 /\ j <= Len(pending[o]) /\ k <= Len(pending[o])
        BY <1>4
      <4>2. j < k \/ j > k
        BY <4>a, <4>b
      <4>3. CASE j < k
        <5>1. j \in 1..Len(t)
          BY <1>4, <1>6, <4>b, <4>3
        <5>2. t[j] = pending[o][j]
          BY <1>6, <4>3, <5>1
        <5> QED
          BY <4>1, <5>1, <5>2
      <4>4. CASE j > k
        <5>1. j - 1 \in 1..Len(t) /\ ~(j - 1 < k) /\ (j - 1) + 1 = j
          BY <1>4, <1>6, <4>4
        <5>2. t[j - 1] = h
          BY <1>6, <4>1, <5>1
        <5> QED
          BY <5>1, <5>2
      <4> QED
        BY <4>2, <4>3, <4>4
    <3> QED
      BY <2>1, <3>1, <3>2
  <2> QED
    BY <2>2, <2>3
<1>15. active[o] \in 0..active[o] /\ active[o] = Cardinality(Holders(o)') /\ Len(t) <= Len(pending[o])
  BY <1>2, <1>4, <1>6, <1>8 DEF Object
<1>16. Shrinks(o, t, active[o])
  BY <1>2, <1>6, <1>9, <1>10, <1>12, <1>13, <1>14, <1>15 DEF Shrinks
<1> QED
  BY <1>1, <1>2, <1>3, <1>4, <1>7, <1>8, <1>16 DEF t

LEMMA HolderFacts ==
  ASSUME GateIInv, NEW g \in Generations, state[g] = "holding"
  PROVE  /\ joined[g] \in Generations /\ joined[joined[g]] = joined[g]
         /\ ModelOf[joined[g]] = ModelOf[g] /\ joined[g] = queues[ModelOf[g]]
         /\ active[joined[g]] > 0
<1> DEFINE o == joined[g]
<1>1. o \in Generations /\ ModelOf[o] = ModelOf[g] /\ joined[o] = o
  BY DEF GateIInv, Joined
<1>2. Cardinality(Holders(o)) # 0
  <2>1. g \in Holders(o)
    BY DEF Holders
  <2> QED
    BY <2>1, HoldersFinite, FS_EmptySet
<1>3. active[o] > 0
  BY <1>1, <1>2, HoldersFinite DEF GateIInv, Object
<1> QED
  BY <1>1, <1>3 DEF GateIInv, Object

(* release hands the slot on to the first waiter that is not aborted.         *)
LEMMA HandOverShrinks ==
  ASSUME GateIInv, NEW g \in Generations, state[g] = "holding", HandOver(g, joined[g]),
         UNCHANGED <<joined, aborted>>
  PROVE  \E o \in Generations, k \in 1..Len(pending[joined[g]]) :
           /\ o = joined[g] /\ joined[o] = o /\ o = queues[ModelOf[g]] /\ queues' = queues
           /\ Shrinks(o, SubSeq(pending[o], k + 1, Len(pending[o])), active[o])
           /\ pending[o][k] \in Generations
           /\ Holders(o)' = (Holders(o) \ {g}) \union {pending[o][k]}
<1> DEFINE o == joined[g]
<1>1. PICK k \in 1..Len(pending[o]) :
        /\ pending[o][k] \notin aborted
        /\ pending' = [pending EXCEPT ![o] = SubSeq(pending[o], k + 1, Len(pending[o]))]
        /\ state' = [h \in Generations |->
             IF h = g THEN "released"
             ELSE IF h = pending[o][k] THEN "holding"
             ELSE IF \E i \in 1..(k - 1) : h = pending[o][i] THEN "refused"
             ELSE state[h]]
  BY DEF HandOver
<1>2. /\ o \in Generations /\ joined[o] = o /\ ModelOf[o] = ModelOf[g] /\ o = queues[ModelOf[g]]
      /\ queues' = queues /\ active' = active /\ joined' = joined /\ aborted' = aborted
  BY HolderFacts DEF HandOver
<1>3. /\ pending[o] \in Seq(Generations) /\ Object(o) /\ MaxActive \in Nat \ {0}
      /\ state \in [Generations -> {"idle", "queued", "holding", "released", "refused"}]
      /\ active \in [Generations -> 0..MaxActive] /\ Len(pending[o]) \in Nat
  BY <1>2, GateAssumption DEF GateIInv, GateTypeOK
<1> DEFINE t == SubSeq(pending[o], k + 1, Len(pending[o]))
           w == pending[o][k]
<1>4. /\ t \in Seq(Generations) /\ Len(t) = Len(pending[o]) - k
      /\ \A i \in 1..Len(t) : t[i] = pending[o][i + k]
  BY <1>3, Rest
<1>5. w \in Generations /\ w # g /\ state[w] = "queued" /\ joined[w] = o
  BY <1>3 DEF Object
<1>6. /\ joined' = joined /\ aborted' = aborted /\ queues' = queues
      /\ pending' = [pending EXCEPT ![o] = t] /\ active' = [active EXCEPT ![o] = active[o]]
  BY <1>1, <1>2, <1>3
<1>7. state'[g] = "released" /\ state'[w] = "holding"
  BY <1>1, <1>5
<1>8. state' \in [Generations -> {"idle", "queued", "holding", "released", "refused"}]
  BY <1>1, <1>3
<1>9. ASSUME NEW h \in Generations, h # g, h # w
      PROVE  \/ state'[h] = state[h] /\ \A i \in 1..(k - 1) : h # pending[o][i]
             \/ state'[h] = "refused" /\ state[h] = "queued" /\ joined[h] = o
  <2>1. CASE \E i \in 1..(k - 1) : h = pending[o][i]
    <3>1. PICK i \in 1..(k - 1) : h = pending[o][i]
      BY <2>1
    <3>2. i \in 1..Len(pending[o])
      BY <1>3
    <3>3. state[h] = "queued" /\ joined[h] = o
      BY <1>3, <3>1, <3>2 DEF Object
    <3> QED
      BY <1>1, <1>9, <2>1, <3>3
  <2>2. CASE ~\E i \in 1..(k - 1) : h = pending[o][i]
    BY <1>1, <1>9, <2>2
  <2> QED
    BY <2>1, <2>2
<1>10. Holders(o)' = (Holders(o) \ {g}) \union {w}
  <2>1. \A h \in Generations \ {g, w} : state'[h] = "holding" <=> state[h] = "holding"
    BY <1>9
  <2> QED
    BY <1>2, <1>5, <1>7, <2>1 DEF Holders
<1>11. Cardinality(Holders(o)') = Cardinality(Holders(o))
  <2>1. \A h \in Generations \ {g, w} :
          joined'[h] = o /\ state'[h] = "holding" <=> joined[h] = o /\ state[h] = "holding"
    BY <1>2, <1>9
  <2> QED
    BY <1>2, <1>5, <1>7, <2>1, PassedHolders
<1> HIDE DEF t, w
<1>b. ASSUME NEW i \in 1..Len(t)
      PROVE  i \in Nat /\ i > 0 /\ i + k \in 1..Len(pending[o]) /\ t[i] = pending[o][i + k]
  <2>1. k \in Nat /\ i \in Nat /\ i >= 1 /\ i <= Len(pending[o]) - k
    BY <1>3, <1>4
  <2>2. i + k \in 1..Len(pending[o])
    BY <1>3, <2>1
  <2>3. t[i] = pending[o][i + k]
    <3>1. \A j \in 1..Len(t) : t[j] = pending[o][j + k]
      BY <1>4
    <3> QED
      BY ONLY <3>1
  <2> QED
    BY <2>1, <2>2, <2>3
<1>12. ASSUME NEW h \in Generations, joined[h] # o PROVE state'[h] = state[h]
  BY <1>5, <1>9, <1>12
<1>13. ASSUME NEW i \in 1..Len(t) PROVE joined[t[i]] = o /\ state'[t[i]] = "queued"
  <2>1. i + k \in 1..Len(pending[o]) /\ t[i] = pending[o][i + k] /\ i + k # k
        /\ \A j \in 1..(k - 1) : j \in 1..Len(pending[o]) /\ i + k # j
    <3>1. k \in Nat /\ \A j \in 1..(k - 1) : j \in 1..Len(pending[o])
      BY <1>3
    <3>2. i \in Nat /\ i > 0 /\ i + k \in 1..Len(pending[o]) /\ t[i] = pending[o][i + k]
      BY <1>b
    <3>3. i + k # k /\ \A j \in 1..(k - 1) : i + k # j
      BY ONLY <3>1, <3>2
    <3> QED
      BY <3>1, <3>2, <3>3
  <2>2. state[t[i]] = "queued" /\ joined[t[i]] = o /\ t[i] # w /\ t[i] # g /\ t[i] \in Generations
    <3>1. state[t[i]] = "queued" /\ joined[t[i]] = o
      <4>1. \A j \in 1..Len(pending[o]) : state[pending[o][j]] = "queued" /\ joined[pending[o][j]] = o
        BY <1>3 DEF Object
      <4>2. i + k \in 1..Len(pending[o]) /\ t[i] = pending[o][i + k]
        BY <1>b
      <4> QED
        BY ONLY <4>1, <4>2
    <3>a. t[i] \in Generations
      BY <1>4
    <3>2. t[i] # w
      BY <1>3, <2>1 DEF Object, w
    <3> QED
      BY <3>1, <3>a, <3>2
  <2>3. \A j \in 1..(k - 1) : t[i] # pending[o][j]
    BY <1>3, <2>1 DEF Object
  <2> QED
    BY <1>1, <2>2, <2>3 DEF w
<1>14. ASSUME NEW i \in 1..Len(t), NEW j \in 1..Len(t), t[i] = t[j] PROVE i = j
  <2>1. i + k \in 1..Len(pending[o]) /\ t[i] = pending[o][i + k]
    BY <1>b
  <2>2. j + k \in 1..Len(pending[o]) /\ t[j] = pending[o][j + k]
    BY <1>b
  <2>3. i + k = j + k
    BY <1>3, <1>14, <2>1, <2>2 DEF Object
  <2> QED
    BY <1>b, <1>3, <2>3
<1>15. ASSUME NEW h \in Generations, joined[h] = o
       PROVE  /\ state'[h] # "idle"
              /\ state'[h] = "queued" => state[h] = "queued" /\ \E i \in 1..Len(t) : t[i] = h
  <2>1. state[h] # "idle"
    BY <1>2, <1>15, GateAssumption DEF GateIInv, Joined
  <2>2. ASSUME state'[h] = "queued" PROVE state[h] = "queued" /\ \E i \in 1..Len(t) : t[i] = h
    <3>1. h # g /\ h # w /\ state[h] = "queued" /\ \A i \in 1..(k - 1) : h # pending[o][i]
      BY <1>7, <1>9, <2>2
    <3>2. PICK j \in 1..Len(pending[o]) : pending[o][j] = h
      BY <1>15, <3>1, WaitersFacts
    <3>3. j # k /\ j \notin 1..(k - 1)
      BY <3>1, <3>2 DEF w
    <3>4. j - k \in 1..Len(t) /\ (j - k) + k = j
      BY <1>3, <1>4, <3>3
    <3>5. t[j - k] = h
      BY <1>4, <3>2, <3>4
    <3> QED
      BY <3>1, <3>4, <3>5
  <2> QED
    BY <1>7, <1>9, <2>1, <2>2
<1>16. active[o] \in 0..active[o] /\ active[o] = Cardinality(Holders(o)') /\ Len(t) <= Len(pending[o])
  BY <1>2, <1>3, <1>4, <1>11 DEF Object
<1>17. active[o] = MaxActive
  BY <1>3 DEF Object
<1>18. Shrinks(o, t, active[o])
  BY <1>4, <1>6, <1>8, <1>12, <1>13, <1>14, <1>15, <1>16, <1>17 DEF Shrinks
<1> QED
  BY <1>2, <1>5, <1>10, <1>18 DEF t, w

(* release frees the slot when no waiter is left to take it.                  *)
LEMMA FreeSlotShrinks ==
  ASSUME GateIInv, NEW g \in Generations, state[g] = "holding", FreeSlot(g, joined[g]),
         UNCHANGED <<joined, aborted>>
  PROVE  \E o \in Generations :
           /\ o = joined[g] /\ joined[o] = o /\ o = queues[ModelOf[g]]
           /\ Shrinks(o, <<>>, active[o] - 1)
           /\ Holders(o)' = Holders(o) \ {g}
<1> DEFINE o == joined[g]
<1>1. /\ pending' = [pending EXCEPT ![o] = <<>>]
      /\ state' = [h \in Generations |->
           IF h = g THEN "released"
           ELSE IF \E i \in 1..Len(pending[o]) : h = pending[o][i] THEN "refused"
           ELSE state[h]]
      /\ active' = [active EXCEPT ![o] = IF @ > 0 THEN @ - 1 ELSE 0]
      /\ DeleteIfIdle(ModelOf[g], o, active'[o], <<>>)
  BY DEF FreeSlot
<1>2. /\ o \in Generations /\ joined[o] = o /\ ModelOf[o] = ModelOf[g] /\ o = queues[ModelOf[g]]
      /\ joined' = joined /\ aborted' = aborted /\ active[o] > 0
  BY HolderFacts
<1>3. /\ pending[o] \in Seq(Generations) /\ Object(o) /\ MaxActive \in Nat \ {0}
      /\ state \in [Generations -> {"idle", "queued", "holding", "released", "refused"}]
      /\ active \in [Generations -> 0..MaxActive] /\ Len(pending[o]) \in Nat /\ active[o] \in Nat
  BY <1>2, GateAssumption DEF GateIInv, GateTypeOK
<1>4. active'[o] = active[o] - 1 /\ active' = [active EXCEPT ![o] = active[o] - 1]
  BY <1>1, <1>2, <1>3
<1>5. \/ queues' = queues
      \/ active[o] - 1 = 0 /\ queues' = [queues EXCEPT ![ModelOf[o]] = NoQueue]
  BY <1>1, <1>2, <1>4 DEF DeleteIfIdle
<1>6. state'[g] = "released"
  BY <1>1
<1>7. ASSUME NEW h \in Generations, h # g
      PROVE  \/ state'[h] = state[h] /\ \A i \in 1..Len(pending[o]) : h # pending[o][i]
             \/ state'[h] = "refused" /\ state[h] = "queued" /\ joined[h] = o
  BY <1>1, <1>3, <1>7 DEF Object
<1>8. state' \in [Generations -> {"idle", "queued", "holding", "released", "refused"}]
  BY <1>1, <1>3
<1>9. \A h \in Generations \ {g} : state'[h] = "holding" <=> state[h] = "holding"
  BY <1>7
<1>10. Holders(o)' = Holders(o) \ {g}
  BY <1>2, <1>6, <1>9 DEF Holders
<1>11. Cardinality(Holders(o)') = Cardinality(Holders(o)) - 1
  <2>1. \A h \in Generations \ {g} :
          joined'[h] = o /\ state'[h] = "holding" <=> joined[h] = o /\ state[h] = "holding"
    BY <1>2, <1>9
  <2> QED
    BY <1>6, <2>1, LessHolders
<1>12. ASSUME NEW h \in Generations, joined[h] # o PROVE state'[h] = state[h]
  BY <1>7, <1>12
<1>13. ASSUME NEW h \in Generations, joined[h] = o PROVE state'[h] # "idle" /\ state'[h] # "queued"
  <2>1. state[h] # "idle"
    BY <1>2, <1>13, GateAssumption DEF GateIInv, Joined
  <2>2. state[h] = "queued" => \E i \in 1..Len(pending[o]) : pending[o][i] = h
    BY <1>13, WaitersFacts
  <2> QED
    BY <1>6, <1>7, <2>1, <2>2
<1>14. active[o] - 1 \in 0..active[o] /\ active[o] - 1 = Cardinality(Holders(o)')
  BY <1>2, <1>3, <1>11 DEF Object
<1>15. <<>> \in Seq(Generations) /\ Len(<<>>) = 0
  OBVIOUS
<1>16. Shrinks(o, <<>>, active[o] - 1)
  <2>1. \/ queues' = queues
        \/ /\ active[o] - 1 = 0 /\ queues[ModelOf[o]] = o
           /\ queues' = [queues EXCEPT ![ModelOf[o]] = NoQueue]
    BY <1>2, <1>5
  <2>2. Len(<<>>) <= Len(pending[o]) /\ \A i \in 1..Len(<<>>) : FALSE
    BY <1>3, <1>15
  <2>3. joined' = joined /\ aborted' = aborted /\ pending' = [pending EXCEPT ![o] = <<>>]
    BY <1>1, <1>2
  <2> QED
    BY <1>4, <1>8, <1>12, <1>13, <1>14, <1>15, <2>1, <2>2, <2>3 DEF Shrinks
<1> QED
  BY <1>2, <1>10, <1>16

-----------------------------------------------------------------------------
LEMMA GateIInit == GateInit => GateIInv
<1> SUFFICES ASSUME GateInit PROVE GateIInv
  OBVIOUS
<1>1. GateTypeOK
  BY GateAssumption DEF GateInit, GateTypeOK
<1>2. ASSUME NEW g \in Generations PROVE Joined(g) /\ Object(g) /\ Waits(g)
  <2>1. joined[g] = NoQueue /\ state[g] = "idle" /\ active[g] = 0 /\ pending[g] = <<>>
    BY DEF GateInit
  <2>2. Cardinality(Holders(g)) = 0
    <3>1. Holders(g) = {}
      BY DEF Holders, GateInit
    <3> QED
      BY <3>1, FS_EmptySet
  <2>3. Object(g)
    BY <2>1, <2>2, GateAssumption DEF Object
  <2> QED
    BY <2>1, <2>3 DEF Joined, Waits
<1>3. \A m \in Models : Held(m)
  BY DEF GateInit, Held
<1> QED
  BY <1>1, <1>2, <1>3 DEF GateIInv

(* An acquire that is refused at once, or the flag of a signal.               *)
LEMMA NothingMoves ==
  ASSUME GateIInv, UNCHANGED <<queues, active, pending, joined>>, GateTypeOK',
         \A h \in Generations : state'[h] # state[h] =>
            joined[h] = NoQueue /\ state[h] = "idle" /\ state'[h] = "refused"
  PROVE  GateIInv'
<1>1. ASSUME NEW g \in Generations PROVE Joined(g)' /\ Waits(g)'
  BY <1>1 DEF GateIInv, Joined, Waits
<1>2. ASSUME NEW o \in Generations PROVE Object(o)'
  <2>1. Holders(o)' = Holders(o)
    BY SameHolders
  <2>2. Object(o) /\ pending[o] \in Seq(Generations)
    BY DEF GateIInv, GateTypeOK
  <2> QED
    BY <2>1, <2>2, ObjectStays
<1>3. \A m \in Models : Held(m)'
  BY DEF GateIInv, Held
<1> QED
  BY <1>1, <1>2, <1>3 DEF GateIInv

LEMMA GateIStep == GateIInv /\ [GateNext]_queueVars => GateIInv'
<1> SUFFICES ASSUME GateIInv, [GateNext]_queueVars PROVE GateIInv'
  OBVIOUS
<1>1. CASE UNCHANGED queueVars
  <2>1. GateTypeOK'
    BY <1>1 DEF GateIInv, GateTypeOK, queueVars
  <2> QED
    BY <1>1, <2>1, NothingMoves DEF queueVars
<1>2. ASSUME NEW g \in Generations, Acquire(g) PROVE GateIInv'
  BY <1>2, AcquireKeeps
<1>3. ASSUME NEW g \in Generations, AcquireAborted(g) PROVE GateIInv'
  <2>1. GateTypeOK'
    BY <1>3 DEF GateIInv, GateTypeOK, AcquireAborted
  <2>2. joined[g] = NoQueue
    BY <1>3 DEF GateIInv, Joined, AcquireAborted
  <2>3. \A h \in Generations : state'[h] # state[h] =>
          joined[h] = NoQueue /\ state[h] = "idle" /\ state'[h] = "refused"
    BY <1>3, <2>2 DEF AcquireAborted, GateIInv, GateTypeOK
  <2> QED
    BY <1>3, <2>1, <2>3, NothingMoves DEF AcquireAborted
<1>4. ASSUME NEW g \in Generations, Abort(g) PROVE GateIInv'
  <2>1. GateTypeOK'
    BY <1>4 DEF GateIInv, GateTypeOK, Abort
  <2> QED
    BY <1>4, <2>1, NothingMoves DEF Abort
<1>5. ASSUME NEW g \in Generations, OnAbort(g) PROVE GateIInv'
  BY <1>5, OnAbortShrinks, ShrinksKeeps
<1>6. ASSUME NEW g \in Generations, Release(g) PROVE GateIInv'
  <2>1. CASE state[g] = "released"
    <3>1. GateTypeOK' /\ UNCHANGED queueVars
      BY <1>6, <2>1 DEF GateIInv, GateTypeOK, Release, queueVars
    <3> QED
      BY <3>1, NothingMoves DEF queueVars
  <2>2. CASE state[g] = "holding"
    <3>1. (HandOver(g, joined[g]) \/ FreeSlot(g, joined[g])) /\ UNCHANGED <<joined, aborted>>
      BY <1>6, <2>2 DEF Release
    <3>2. CASE HandOver(g, joined[g])
      BY <2>2, <3>1, <3>2, HandOverShrinks, ShrinksKeeps
    <3>3. CASE FreeSlot(g, joined[g])
      BY <2>2, <3>1, <3>3, FreeSlotShrinks, ShrinksKeeps
    <3> QED
      BY <3>1, <3>2, <3>3
  <2> QED
    BY <1>6, <2>1, <2>2 DEF Release
<1> QED
  BY <1>1, <1>2, <1>3, <1>4, <1>5, <1>6 DEF GateNext

LEMMA GateIInvHolds == GateSpec => []GateIInv
BY GateIInit, GateIStep, PTL DEF GateSpec

(* However queue objects come and go, the leases and the waiters of a model   *)
(* stay within the gate's limits, and a waiter stands where a release will    *)
(* come to it (model-generation-gate.ts).                                     *)
THEOREM GateInvHolds == GateSpec => []GateInv
BY GateIInvHolds, GateIInvImplies, PTL

-----------------------------------------------------------------------------
(* What FifoGate sees of a model.                                             *)
Line(m) == IF queues[m] = NoQueue THEN <<>> ELSE pending[queues[m]]
Inside == [m \in Models |-> Holding(m)]
Lines == [m \in Models |-> Line(m)]

(* Nobody inside or in the line of m changes.                                 *)
Unseen(m) == Holding(m)' = Holding(m) /\ Line(m)' = Line(m)

(* FifoGate counts as the gate does.                                          *)
LEMMA SameCardinality == ASSUME NEW S PROVE OneLine!Cardinality(S) = Cardinality(S)
BY DEF OneLine!Cardinality, Cardinality

LEMMA SeenFunctions ==
  ASSUME NEW m \in Models, NEW i, NEW l, Holding(m)' = i, Line(m)' = l,
         \A n \in Models \ {m} : Unseen(n)
  PROVE  Inside' = [Inside EXCEPT ![m] = i] /\ Lines' = [Lines EXCEPT ![m] = l]
BY DEF Inside, Lines, Unseen

LEMMA ShrinksSeen ==
  ASSUME GateIInv, NEW o \in Generations, NEW t, NEW a, Shrinks(o, t, a),
         joined[o] = o, queues[ModelOf[o]] = o
  PROVE  /\ Holding(ModelOf[o])' = Holders(o)' /\ Line(ModelOf[o])' = t
         /\ \A n \in Models \ {ModelOf[o]} : Unseen(n)
         /\ Holding(ModelOf[o]) = Holders(o) /\ Line(ModelOf[o]) = pending[o]
         /\ ModelOf[o] \in Models /\ active[o] = Cardinality(Holders(o))
<1> DEFINE m == ModelOf[o]
<1>1. /\ m \in Models /\ NoQueue \notin Generations /\ o # NoQueue
      /\ pending \in [Generations -> Seq(Generations)]
      /\ queues \in [Models -> Generations \union {NoQueue}]
      /\ joined \in [Generations -> Generations \union {NoQueue}]
  BY GateAssumption DEF GateIInv, GateTypeOK
<1>2. /\ joined' = joined /\ pending' = [pending EXCEPT ![o] = t]
      /\ \A h \in Generations : joined[h] # o => state'[h] = state[h]
  BY DEF Shrinks
<1>3. Holding(m) = Holders(o) /\ Line(m) = pending[o]
  BY <1>1, LeasesAreHeld DEF Line
<1>4. \A h \in Generations : joined[h] = o => ModelOf[h] = m
  BY <1>1 DEF GateIInv, Joined
<1>5. Holding(m)' = Holders(o)'
  BY <1>2, <1>3, <1>4 DEF Holding, Holders
<1>6. Line(m)' = t
  <2>1. CASE queues' = queues
    BY <1>1, <1>2, <2>1 DEF Line
  <2>2. CASE t = <<>> /\ queues' = [queues EXCEPT ![m] = NoQueue]
    BY <1>1, <2>2 DEF Line
  <2> QED
    BY <2>1, <2>2 DEF Shrinks
<1>7. ASSUME NEW n \in Models \ {m} PROVE Unseen(n)
  <2>1. Holding(n)' = Holding(n)
    BY <1>2, <1>4 DEF Holding
  <2>2. queues'[n] = queues[n]
    BY <1>1 DEF Shrinks
  <2>3. queues[n] # NoQueue => queues[n] \in Generations /\ queues[n] # o
    BY <1>1 DEF GateIInv, Held
  <2> QED
    BY <1>1, <1>2, <2>1, <2>2, <2>3 DEF Unseen, Line
<1>8. active[o] = Cardinality(Holders(o))
  BY DEF GateIInv, Object
<1> QED
  BY <1>1, <1>3, <1>5, <1>6, <1>7, <1>8

(* What acquire finds of its model, and what it leaves of the others.         *)
LEMMA AcquireSeen ==
  ASSUME GateIInv, NEW g \in Generations, Acquire(g), NEW o \in Generations, o = TheObject(g)
  PROVE  /\ Line(ModelOf[g]) = pending[o] /\ Line(ModelOf[g])' = pending'[o]
         /\ Cardinality(Holding(ModelOf[g])) = active[o]
         /\ \A n \in Models \ {ModelOf[g]} : Unseen(n)
<1> DEFINE m == ModelOf[g]
<1>1. /\ m \in Models /\ queues' = [queues EXCEPT ![m] = o]
      /\ ModelOf[o] = m
      /\ queues[m] = NoQueue => active[o] = 0 /\ pending[o] = <<>>
  BY AcquireJoins
<1>2. /\ NoQueue \notin Generations /\ queues \in [Models -> Generations \union {NoQueue}]
  BY GateAssumption DEF GateIInv, GateTypeOK
<1>3. Line(m) = pending[o] /\ Line(m)' = pending'[o]
  BY <1>1, <1>2 DEF Line, TheObject
<1>4. Cardinality(Holding(m)) = active[o]
  <2>1. CASE queues[m] = NoQueue
    BY <1>1, <2>1, LeasesAreHeld, FS_EmptySet
  <2>2. CASE queues[m] # NoQueue
    <3>1. Holding(m) = Holders(o)
      BY <1>1, <2>2, LeasesAreHeld DEF TheObject
    <3> QED
      BY <3>1 DEF GateIInv, Object
  <2> QED
    BY <2>1, <2>2
<1>5. ASSUME NEW n \in Models \ {m} PROVE Unseen(n)
  <2>1. \A h \in Generations \ {g} : state'[h] = state[h]
    <3>1. \E s \in {"holding", "refused", "queued"} : state' = [state EXCEPT ![g] = s]
      BY DEF Acquire
    <3> QED
      BY <3>1 DEF GateIInv, GateTypeOK
  <2>2. Holding(n)' = Holding(n)
    BY <2>1 DEF Holding
  <2>3. queues'[n] = queues[n]
    BY <1>1, <1>2
  <2>4. queues[n] # NoQueue => queues[n] \in Generations /\ queues[n] # o
    BY <1>1, <1>2 DEF GateIInv, Held
  <2>5. queues[n] # NoQueue => pending'[queues[n]] = pending[queues[n]]
    BY <2>4, AcquireSpares
  <2> QED
    BY <2>2, <2>3, <2>5 DEF Unseen, Line
<1> QED
  BY <1>1, <1>3, <1>4, <1>5

LEMMA AcquireIsSeen ==
  ASSUME GateIInv, NEW g \in Generations, Acquire(g)
  PROVE  OneLine!Enter(g) \/ OneLine!Join(g) \/ UNCHANGED <<Inside, Lines>>
<1> DEFINE m == ModelOf[g]
<1>1. PICK o \in Generations : o = TheObject(g)
  BY AcquireJoins
<1>2. m \in Models /\ state[g] = "idle" /\ DOMAIN state = Generations
  BY AcquireJoins DEF GateIInv, GateTypeOK
<1>3. /\ Line(m) = pending[o] /\ Line(m)' = pending'[o] /\ Cardinality(Holding(m)) = active[o]
      /\ \A n \in Models \ {m} : Unseen(n)
  BY <1>1, AcquireSeen
<1>4. /\ active[o] \in 0..MaxActive /\ MaxActive \in Nat \ {0} /\ DOMAIN pending = Generations
      /\ (pending[o] # <<>> => active[o] = MaxActive)
  BY GateAssumption DEF GateIInv, GateTypeOK, Object
<1>5. Inside[m] = Holding(m) /\ Lines[m] = Line(m)
  BY <1>2 DEF Inside, Lines
<1>6. /\ active[o] < MaxActive /\ state' = [state EXCEPT ![g] = "holding"] /\ UNCHANGED pending
      \/ /\ active[o] >= MaxActive /\ state' = [state EXCEPT ![g] = "refused"] /\ UNCHANGED pending
      \/ /\ active[o] >= MaxActive /\ Len(pending[o]) < MaxQueued
         /\ pending' = [pending EXCEPT ![o] = Append(@, g)]
         /\ state' = [state EXCEPT ![g] = "queued"]
  BY <1>1 DEF Acquire, TheObject
<1>7. CASE /\ active[o] < MaxActive /\ state' = [state EXCEPT ![g] = "holding"]
           /\ UNCHANGED pending
  <2>1. Holding(m)' = Holding(m) \union {g}
    BY <1>2, <1>7 DEF Holding
  <2>2. Inside' = [Inside EXCEPT ![m] = @ \union {g}] /\ Lines' = [Lines EXCEPT ![m] = pending[o]]
    BY <1>2, <1>3, <1>5, <1>7, <2>1, SeenFunctions
  <2>3. Lines' = Lines /\ Lines[m] = <<>> /\ Cardinality(Inside[m]) < MaxActive
    BY <1>3, <1>4, <1>5, <1>7, <2>2 DEF Lines
  <2>4. OneLine!Enter(g)
    BY <2>2, <2>3, SameCardinality DEF OneLine!Enter, Inside, Lines, Line
  <2> QED
    BY <2>4
<1>8. CASE active[o] >= MaxActive /\ state' = [state EXCEPT ![g] = "refused"] /\ UNCHANGED pending
  <2>1. Holding(m)' = Holding(m)
    BY <1>2, <1>8 DEF Holding
  <2>2. \A n \in Models : Unseen(n)
    BY <1>3, <1>8, <2>1 DEF Unseen
  <2> QED
    BY <2>2 DEF Unseen, Inside, Lines
<1>9. CASE /\ active[o] >= MaxActive /\ Len(pending[o]) < MaxQueued
           /\ pending' = [pending EXCEPT ![o] = Append(@, g)]
           /\ state' = [state EXCEPT ![g] = "queued"]
  <2>1. Holding(m)' = Holding(m) /\ pending'[o] = Append(pending[o], g)
    BY <1>2, <1>4, <1>9 DEF Holding
  <2>2. /\ Inside' = [Inside EXCEPT ![m] = Inside[m]]
        /\ Lines' = [Lines EXCEPT ![m] = Append(@, g)]
    BY <1>2, <1>3, <1>5, <2>1, SeenFunctions
  <2>3. Inside' = Inside /\ Cardinality(Inside[m]) = MaxActive /\ Len(Lines[m]) < MaxQueued
    BY <1>3, <1>4, <1>5, <1>9, <2>2 DEF Inside
  <2>4. OneLine!Join(g)
    BY <2>2, <2>3, SameCardinality DEF OneLine!Join, Inside, Lines, Line
  <2> QED
    BY <2>4
<1> QED
  BY <1>6, <1>7, <1>8, <1>9

LEMMA OnAbortIsSeen ==
  ASSUME GateIInv, NEW g \in Generations, OnAbort(g) PROVE OneLine!GiveUp(g)
<1> DEFINE m == ModelOf[g]
<1>1. PICK o \in Generations, k \in 1..Len(pending[joined[g]]) :
        /\ o = joined[g] /\ joined[o] = o /\ o = queues[m]
        /\ pending[o][k] = g
        /\ Shrinks(o, SubSeq(pending[o], 1, k - 1) \o SubSeq(pending[o], k + 1, Len(pending[o])),
                   active[o])
        /\ Holders(o)' = Holders(o)
  BY OnAbortShrinks
<1>2. ModelOf[o] = m
  BY <1>1 DEF GateIInv, Joined, OnAbort
<1>3. /\ Holding(m)' = Holding(m) /\ Line(m) = pending[o] /\ m \in Models
      /\ Line(m)' = SubSeq(pending[o], 1, k - 1) \o SubSeq(pending[o], k + 1, Len(pending[o]))
      /\ \A n \in Models \ {m} : Unseen(n)
  BY <1>1, <1>2, ShrinksSeen
<1>4. Lines[m] = pending[o] /\ Inside[m] = Holding(m) /\ k \in 1..Len(Lines[m])
  BY <1>1, <1>3 DEF Inside, Lines
<1>5. /\ Inside' = [Inside EXCEPT ![m] = Inside[m]]
      /\ Lines' = [Lines EXCEPT ![m] = SubSeq(@, 1, k - 1) \o SubSeq(@, k + 1, Len(@))]
  BY <1>3, <1>4, SeenFunctions
<1>6. Inside' = Inside /\ Lines[m][k] = g
  BY <1>1, <1>4, <1>5 DEF Inside
<1> QED
  BY <1>4, <1>5, <1>6 DEF OneLine!GiveUp, Inside, Lines, Line

LEMMA ReleaseIsSeen ==
  ASSUME GateIInv, NEW g \in Generations, state[g] = "holding",
         HandOver(g, joined[g]) \/ FreeSlot(g, joined[g]), UNCHANGED <<joined, aborted>>
  PROVE  OneLine!Leave(g)
<1> DEFINE m == ModelOf[g]
<1>1. m \in Models /\ g \in Holding(m) /\ g \in Inside[m]
  BY GateAssumption DEF Holding, Inside
<1>2. CASE HandOver(g, joined[g])
  <2>1. PICK o \in Generations, k \in 1..Len(pending[joined[g]]) :
          /\ o = joined[g] /\ joined[o] = o /\ o = queues[m]
          /\ Shrinks(o, SubSeq(pending[o], k + 1, Len(pending[o])), active[o])
          /\ Holders(o)' = (Holders(o) \ {g}) \union {pending[o][k]}
    <3>1. \E o \in Generations, k \in 1..Len(pending[joined[g]]) :
            /\ o = joined[g] /\ joined[o] = o /\ o = queues[ModelOf[g]] /\ queues' = queues
            /\ Shrinks(o, SubSeq(pending[o], k + 1, Len(pending[o])), active[o])
            /\ pending[o][k] \in Generations
            /\ Holders(o)' = (Holders(o) \ {g}) \union {pending[o][k]}
      BY <1>2, HandOverShrinks
    <3> QED
      BY <3>1
  <2>2. ModelOf[o] = m
    BY <2>1, HolderFacts
  <2>3. /\ Holding(m)' = (Holding(m) \ {g}) \union {pending[o][k]} /\ Line(m) = pending[o]
        /\ Line(m)' = SubSeq(pending[o], k + 1, Len(pending[o]))
        /\ \A n \in Models \ {m} : Unseen(n)
    BY <2>1, <2>2, ShrinksSeen
  <2>4. Lines[m] = pending[o] /\ Inside[m] = Holding(m) /\ k \in 1..Len(Lines[m])
    BY <1>1, <2>1, <2>3 DEF Inside, Lines
  <2>5. /\ Inside' = [Inside EXCEPT ![m] = (@ \ {g}) \union {Lines[m][k]}]
        /\ Lines' = [Lines EXCEPT ![m] = SubSeq(@, k + 1, Len(@))]
    BY <1>1, <2>3, <2>4, SeenFunctions
  <2> QED
    BY <1>1, <2>4, <2>5 DEF OneLine!Leave, Inside, Lines, Line
<1>3. CASE FreeSlot(g, joined[g])
  <2>1. PICK o \in Generations :
          /\ o = joined[g] /\ joined[o] = o /\ o = queues[m]
          /\ Shrinks(o, <<>>, active[o] - 1)
          /\ Holders(o)' = Holders(o) \ {g}
    BY <1>3, FreeSlotShrinks
  <2>2. ModelOf[o] = m
    BY <2>1, HolderFacts
  <2>3. /\ Holding(m)' = Holding(m) \ {g} /\ Line(m)' = <<>>
        /\ \A n \in Models \ {m} : Unseen(n)
    BY <2>1, <2>2, ShrinksSeen
  <2>4. /\ Inside' = [Inside EXCEPT ![m] = @ \ {g}]
        /\ Lines' = [Lines EXCEPT ![m] = <<>>]
    BY <1>1, <2>3, SeenFunctions DEF Inside
  <2> QED
    BY <1>1, <2>4 DEF OneLine!Leave, Inside, Lines, Line
<1> QED
  BY <1>2, <1>3

(* The gate is one bounded first-come line per model (FifoGate), however its  *)
(* queue objects come and go and signals abort (model-generation-gate.ts).    *)
THEOREM ImplementsFifoGateHolds == GateSpec => ImplementsFifoGate
<1>1. GateInit => OneLine!Init
  <2> SUFFICES ASSUME GateInit PROVE OneLine!Init
    OBVIOUS
  <2>1. \A m \in Models : Holding(m) = {} /\ queues[m] = NoQueue
    BY DEF GateInit, Holding
  <2> QED
    BY <2>1 DEF OneLine!Init
<1>2. GateIInv /\ [GateNext]_queueVars => [OneLine!Next]_(OneLine!gateVars)
  <2> SUFFICES ASSUME GateIInv, [GateNext]_queueVars
               PROVE  OneLine!Next \/ UNCHANGED <<Inside, Lines>>
    BY DEF OneLine!gateVars, Inside, Lines, Line
  <2>1. ASSUME UNCHANGED <<queues, pending, joined>>,
               \A h \in Generations : state'[h] = "holding" <=> state[h] = "holding"
        PROVE  UNCHANGED <<Inside, Lines>>
    BY <2>1 DEF Inside, Lines, Line, Holding
  <2>2. CASE UNCHANGED queueVars
    BY <2>1, <2>2 DEF queueVars
  <2>3. ASSUME NEW g \in Generations, Acquire(g) PROVE OneLine!Next \/ UNCHANGED <<Inside, Lines>>
    BY <2>3, AcquireIsSeen DEF OneLine!Next
  <2>4. ASSUME NEW g \in Generations, AcquireAborted(g) PROVE UNCHANGED <<Inside, Lines>>
    BY <2>1, <2>4 DEF AcquireAborted, GateIInv, GateTypeOK
  <2>5. ASSUME NEW g \in Generations, Abort(g) PROVE UNCHANGED <<Inside, Lines>>
    BY <2>1, <2>5 DEF Abort
  <2>6. ASSUME NEW g \in Generations, OnAbort(g) PROVE OneLine!Next
    BY <2>6, OnAbortIsSeen DEF OneLine!Next
  <2>7. ASSUME NEW g \in Generations, Release(g) PROVE OneLine!Next \/ UNCHANGED <<Inside, Lines>>
    <3>1. CASE state[g] = "released"
      BY <2>1, <2>7, <3>1 DEF Release
    <3>2. CASE state[g] = "holding"
      <4>1. OneLine!Leave(g)
        BY <2>7, <3>2, ReleaseIsSeen DEF Release
      <4> QED
        BY <4>1 DEF OneLine!Next
    <3> QED
      BY <2>7, <3>1, <3>2 DEF Release
  <2> QED
    BY <2>2, <2>3, <2>4, <2>5, <2>6, <2>7 DEF GateNext
<1> QED
  BY <1>1, <1>2, GateIInvHolds, PTL DEF GateSpec, ImplementsFifoGate, OneLine!Spec
=============================================================================
