----------------------------- MODULE ChatExecution -----------------------------
(***************************************************************************)
(* The answering of turns: POST of app/api/chat/route.ts with              *)
(* lib/chat-turn-lifecycle.ts, the registry of running turns, the profile  *)
(* operation an answer holds, and the Word document it may make; with the  *)
(* Stop route, the sweep of abandoned turns, the deletion of conversations *)
(* through the artifact quarantine, and profile switches beside them.      *)
(*                                                                         *)
(* The server is one event loop: an action is what runs without giving     *)
(* way to another event, a crash may fall between two actions and inside a *)
(* deletion.  TurnLedger has the rows in full; here a turn is its status.  *)
(***************************************************************************)
EXTENDS Naturals, FiniteSets

CONSTANTS
  Turns, Requests, Profiles,
  TurnOf,       \* request -> the turn it asks to answer
  HomeOf,       \* turn -> the profile whose database has it
  MaxFailures,  \* bound: database writes that fail
  MaxCrashes,   \* bound: crashes of the server
  None

ASSUME ChatAssumption ==
  /\ TurnOf \in [Requests -> Turns]
  /\ HomeOf \in [Turns -> Profiles]
  /\ None \notin Requests \union Profiles
  /\ MaxFailures \in Nat /\ MaxCrashes \in Nat

Running == {"generating", "erring", "streaming"}
Terminal == {"completed", "cancelled", "failed"}

VARIABLES
  profile,     \* the active profile
  opened,      \* the profile whose database is open, or None
  row,         \* turn -> its status in the database of its profile
  claimed,     \* turns whose execution_started_at is set
  cited,       \* turns whose saved answer refers to a document
  document,    \* turn -> the document of its answer on disk
  at,          \* request -> where its handler is
  signal,      \* request -> why its turn signal is aborted
  operations,  \* requests that hold a profile operation
  owner,       \* turn -> the request in the registry of running turns
  failures, crashes,
  lost         \* history: turns whose execution died in a crash

vars == <<profile, opened, row, claimed, cited, document, at, signal, operations, owner,
          failures, crashes, lost>>
ledger == <<row, claimed, cited>>
handlers == <<at, signal, operations, owner>>
bounds == <<failures, crashes, lost>>

TypeOK ==
  /\ profile \in Profiles
  /\ opened \in {None, profile}
  /\ row \in [Turns -> {"none", "pending", "gone"} \union Terminal]
  /\ claimed \subseteq Turns
  /\ cited \subseteq {t \in Turns : row[t] = "completed"}
  /\ document \in [Turns -> {"none", "draft", "made", "quarantined"}]
  /\ at \in [Requests -> {"new", "ended"} \union Running]
  /\ signal \in [Requests -> {"none", "cancelled", "timeout"}]
  /\ operations = {r \in Requests : at[r] \in Running}
  /\ owner \in [Turns -> Requests \union {None}]
  /\ \A r \in Requests : at[r] \in Running <=> owner[TurnOf[r]] = r
  /\ failures \in 0 .. MaxFailures /\ crashes \in 0 .. MaxCrashes
  /\ lost \subseteq Turns

(* profileBindingFromRequest, and a database that getConversationDatabase has *)
(* opened and recovered.                                                      *)
Reaches(t) == opened = profile /\ HomeOf[t] = profile

(* A write of the database that may fail; then it is rolled back.             *)
Fails == failures < MaxFailures /\ failures' = failures + 1
Writes == failures' = failures

-----------------------------------------------------------------------------
(* beginConversationTurn; a client that left meanwhile has the turn cancelled. *)
BeginTurn(t) ==
  /\ Reaches(t) /\ row[t] = "none"
  /\ row' \in {[row EXCEPT ![t] = "pending"], [row EXCEPT ![t] = "cancelled"]}
  /\ UNCHANGED <<profile, opened, claimed, cited, document, handlers, bounds>>

(* handleVersionedChat up to its first await: the operation, the claim and    *)
(* the entry among the running turns.                                         *)
Claim(r) ==
  LET t == TurnOf[r] IN
  /\ at[r] = "new" /\ Reaches(t)
  /\ row[t] = "pending" /\ t \notin claimed
  /\ claimed' = claimed \union {t}
  /\ operations' = operations \union {r}
  /\ owner' = [owner EXCEPT ![t] = r]
  /\ at' = [at EXCEPT ![r] = "generating"]
  /\ UNCHANGED <<profile, opened, row, cited, document, signal, bounds>>

(* Not this request's turn to run: it is replayed, in progress or over.       *)
Replay(r) ==
  LET t == TurnOf[r] IN
  /\ at[r] = "new" /\ Reaches(t)
  /\ row[t] # "none" /\ ~(row[t] = "pending" /\ t \notin claimed)
  /\ at' = [at EXCEPT ![r] = "ended"]
  /\ UNCHANGED <<profile, opened, ledger, document, signal, operations, owner, bounds>>

-----------------------------------------------------------------------------
(* Mutant: the operation outlives an execution whose write failed.            *)
EndsIfWritten(r) ==
  /\ at' = [at EXCEPT ![r] = "ended"]
  /\ operations' = IF failures' = failures THEN operations \ {r} ELSE operations
  /\ owner' = [owner EXCEPT ![TurnOf[r]] = None]

(* finish: whether the write succeeded or not.                                *)
Ends(r) ==
  /\ at' = [at EXCEPT ![r] = "ended"]
  /\ operations' = operations \ {r}
  /\ owner' = [owner EXCEPT ![TurnOf[r]] = None]

(* Mutant: the document of an answer that was not saved stays.                *)
KeepsDocument(t) == document' = document

(* removeUncommittedArtifact                                                  *)
DropsDocument(t) == document' = [document EXCEPT ![t] = "none"]

(* terminalizeTurn leaves every row alone but a pending one.                  *)
Terminalizes(t, status) ==
  \/ Writes /\ row' = IF row[t] = "pending" THEN [row EXCEPT ![t] = status] ELSE row
  \/ Fails /\ UNCHANGED row

(* The callbacks cancel and fail.                                             *)
SettlesUnanswered(r, status) ==
  /\ DropsDocument(TurnOf[r])
  /\ Terminalizes(TurnOf[r], status)
  /\ Ends(r)
  /\ UNCHANGED <<profile, opened, claimed, cited, signal, crashes, lost>>

Outcome(reason) == IF reason = "cancelled" THEN "cancelled" ELSE "failed"

(* The callback complete; when it throws, pull records a failure instead.     *)
SettlesAnswered(r) ==
  LET t == TurnOf[r] IN
  \/ /\ row[t] = "pending" /\ Writes
     /\ row' = [row EXCEPT ![t] = "completed"]
     /\ cited' = IF document[t] = "made" THEN cited \union {t} ELSE cited
     /\ Ends(r)
     /\ UNCHANGED <<profile, opened, claimed, document, signal, crashes, lost>>
  \/ row[t] # "pending" /\ SettlesUnanswered(r, "failed")
  \/ /\ Fails                                    \* then the failure is written, or not
     /\ row' \in {row, IF row[t] = "pending" THEN [row EXCEPT ![t] = "failed"] ELSE row}
     /\ DropsDocument(t) /\ Ends(r)
     /\ UNCHANGED <<profile, opened, claimed, cited, signal, crashes, lost>>

-----------------------------------------------------------------------------
(* createWordArtifact: its directory is there before the document is, and its *)
(* own catch removes it.                                                      *)
StartDocument(r) ==
  /\ at[r] = "generating" /\ document[TurnOf[r]] = "none"
  /\ document' = [document EXCEPT ![TurnOf[r]] = "draft"]
  /\ UNCHANGED <<profile, opened, ledger, handlers, bounds>>

(* generateChatResponse returns an answer; wrapSuccessfulTurnResponse settles *)
(* it at once if the signal is aborted.  A document is made only before that.  *)
Respond(r) ==
  LET t == TurnOf[r] IN
  /\ at[r] = "generating"
  /\ \/ /\ signal[r] = "none"
        /\ document' = IF document[t] = "draft" THEN [document EXCEPT ![t] = "made"] ELSE document
        /\ at' = [at EXCEPT ![r] = "streaming"]
        /\ UNCHANGED <<profile, opened, ledger, signal, operations, owner, bounds>>
     \/ /\ signal[r] # "none" /\ document[t] = "none"
        /\ SettlesUnanswered(r, Outcome(signal[r]))

(* It fails, or heeds the signal; the error body is read before the turn ends. *)
GenerationErrs(r) ==
  /\ at[r] = "generating"
  /\ at' = [at EXCEPT ![r] = "erring"]
  /\ document' = [document EXCEPT ![TurnOf[r]] = "none"]
  /\ UNCHANGED <<profile, opened, ledger, signal, operations, owner, bounds>>

RecordFailedTurn(r) ==
  /\ at[r] = "erring"
  /\ SettlesUnanswered(r, Outcome(signal[r]))

StreamEnds(r) ==
  /\ at[r] = "streaming"
  /\ SettlesAnswered(r) \/ SettlesUnanswered(r, "failed")   \* an empty or a broken answer

(* The turn signal: the first reason stays.                                   *)
Aborts(r, reason) ==
  \/ at[r] = "streaming" /\ SettlesUnanswered(r, Outcome(reason))
  \/ /\ at[r] \in {"generating", "erring"}
     /\ signal' = [signal EXCEPT ![r] = IF @ = "none" THEN reason ELSE @]
     /\ UNCHANGED <<profile, opened, ledger, document, at, operations, owner, bounds>>

Disconnect(r) == Aborts(r, "cancelled")
Timeout(r) == Aborts(r, "timeout")

(* The Stop route: the row first, then the signal, also when the row failed.  *)
Stop(t) ==
  /\ Reaches(t) /\ row[t] # "none"
  /\ \/ owner[t] = None /\ Terminalizes(t, "cancelled") /\ UNCHANGED <<document, handlers>>
     \/ \E r \in Requests :
          /\ owner[t] = r
          /\ Terminalizes(t, "cancelled")
          /\ IF at[r] = "streaming"
             THEN DropsDocument(t) /\ Ends(r) /\ UNCHANGED signal
             ELSE /\ signal' = [signal EXCEPT ![r] = IF @ = "none" THEN "cancelled" ELSE @]
                  /\ UNCHANGED <<document, at, operations, owner>>
  /\ UNCHANGED <<profile, opened, claimed, cited, crashes, lost>>

(* recoverExpiredConversationTurns.  An execution outlasts the age only when  *)
(* its timers stood still while the clock went on.                            *)
SweepExpired(t) ==
  /\ Reaches(t) /\ row[t] = "pending"
  /\ row' = [row EXCEPT ![t] = "failed"]
  /\ UNCHANGED <<profile, opened, claimed, cited, document, handlers, bounds>>

-----------------------------------------------------------------------------
(* deleteConversationWhenIdle: the document is moved into the quarantine, the *)
(* row is deleted, the quarantine is emptied; each may be where a crash or a   *)
(* failure stops it.                                                          *)
DeleteConversation(t) ==
  /\ Reaches(t) /\ row[t] \in Terminal
  /\ \/ /\ Writes
        /\ row' = [row EXCEPT ![t] = "gone"]
        /\ cited' = cited \ {t}
        /\ document' \in
             IF t \in cited
             THEN {[document EXCEPT ![t] = "none"], [document EXCEPT ![t] = "quarantined"]}
             ELSE {document}
     \/ Fails /\ UNCHANGED <<row, cited, document>>     \* rolled back
  /\ UNCHANGED <<profile, opened, claimed, handlers, crashes, lost>>

Down ==
  /\ crashes < MaxCrashes /\ crashes' = crashes + 1
  /\ at' = [r \in Requests |-> IF at[r] \in Running THEN "ended" ELSE at[r]]
  /\ operations' = {} /\ owner' = [t \in Turns |-> None]
  /\ lost' = lost \union {TurnOf[r] : r \in operations}
  /\ opened' = None
  /\ UNCHANGED <<profile, signal, failures>>

CrashInDeletion(t) ==
  /\ Reaches(t) /\ t \in cited
  /\ document' = [document EXCEPT ![t] = "quarantined"]
  /\ \/ row' = [row EXCEPT ![t] = "gone"] /\ cited' = cited \ {t}
     \/ UNCHANGED <<row, cited>>
  /\ Down
  /\ UNCHANGED claimed

Crash == Down /\ UNCHANGED <<ledger, document>>

(* Mutant: everything in the quarantine is purged.                            *)
PurgesQuarantine(t) == IF document[t] = "quarantined" /\ HomeOf[t] = profile THEN "none" ELSE document[t]

(* recoverArtifactDeletionQuarantine: back if an answer still cites it.       *)
RecoversQuarantine(t) ==
  IF document[t] = "quarantined" /\ HomeOf[t] = profile
  THEN IF t \in cited THEN "made" ELSE "none"
  ELSE document[t]

OpenDatabase ==
  /\ opened = None
  /\ opened' = profile
  /\ document' = [t \in Turns |-> RecoversQuarantine(t)]
  /\ UNCHANGED <<profile, ledger, handlers, bounds>>

(* requireMutationReady: nothing runs, and nothing is pending in any profile. *)
Idle == operations = {} /\ \A t \in Turns : row[t] # "pending"

(* Mutant: pending rows are not looked for.                                   *)
SwitchWhenQuiet(p) ==
  /\ operations = {}
  /\ p # profile /\ profile' = p
  /\ opened' = None
  /\ UNCHANGED <<ledger, document, handlers, bounds>>

SwitchProfile(p) ==
  /\ Idle
  /\ p # profile /\ profile' = p
  /\ opened' = None
  /\ UNCHANGED <<ledger, document, handlers, bounds>>

-----------------------------------------------------------------------------
Init ==
  /\ profile \in Profiles /\ opened = None
  /\ row = [t \in Turns |-> "none"] /\ claimed = {} /\ cited = {}
  /\ document = [t \in Turns |-> "none"]
  /\ at = [r \in Requests |-> "new"] /\ signal = [r \in Requests |-> "none"]
  /\ operations = {} /\ owner = [t \in Turns |-> None]
  /\ failures = 0 /\ crashes = 0 /\ lost = {}

Next ==
  \/ \E t \in Turns : BeginTurn(t) \/ Stop(t) \/ SweepExpired(t) \/ DeleteConversation(t) \/ CrashInDeletion(t)
  \/ \E r \in Requests :
       \/ Claim(r) \/ Replay(r)
       \/ StartDocument(r) \/ Respond(r) \/ GenerationErrs(r) \/ RecordFailedTurn(r) \/ StreamEnds(r)
       \/ Disconnect(r) \/ Timeout(r)
  \/ \E p \in Profiles : SwitchProfile(p)
  \/ Crash \/ OpenDatabase

Spec == Init /\ [][Next]_vars

(* Timers fire, an aborted generation returns, its failure is recorded, and   *)
(* the pages that show conversations open the database and sweep it.          *)
Fairness ==
  /\ \A r \in Requests :
       /\ WF_vars(Timeout(r))
       /\ WF_vars(signal[r] # "none" /\ (GenerationErrs(r) \/ Respond(r)))
       /\ WF_vars(RecordFailedTurn(r))
  /\ WF_vars(OpenDatabase)
  /\ \A t \in Turns : WF_vars(owner[t] = None /\ SweepExpired(t))

FairSpec == Spec /\ Fairness

-----------------------------------------------------------------------------
(* A pending turn is in the active profile, where the sweep and Stop reach    *)
(* it: in another one it would bar every profile change for good.             *)
PendingIsReachable == \A t \in Turns : row[t] = "pending" => HomeOf[t] = profile

(* A document on disk is that of a saved answer or of an answer still being   *)
(* given; a Stop, a timeout, a lost client, a failed write or a turn that was *)
(* swept or deleted meanwhile leaves none behind, only a crash does.          *)
DocumentsBelong ==
  \A t \in Turns :
    document[t] \in {"draft", "made"} => t \in cited \/ owner[t] # None \/ t \in lost

(* A saved answer keeps the document it refers to, through whatever comes     *)
(* after it and through a deletion that did not happen.                       *)
AnswersKeepDocuments ==
  \A t \in cited : document[t] = "made" \/ (document[t] = "quarantined" /\ opened # HomeOf[t])

(* Behind them: the registry names the one execution of a turn, which was      *)
(* claimed and is not answered yet, and a draft is gone or done before its     *)
(* answer is streamed.                                                        *)
OwnersExecute ==
  \A t \in Turns : owner[t] # None => TurnOf[owner[t]] = t /\ t \in claimed /\ t \notin cited

StreamsAreWhole == \A r \in Requests : at[r] = "streaming" => document[TurnOf[r]] # "draft"

(* The inductive invariant of the execution of turns.                         *)
ChatInv ==
  /\ TypeOK
  /\ OwnersExecute
  /\ StreamsAreWhole
  /\ PendingIsReachable
  /\ DocumentsBelong
  /\ AnswersKeepDocuments

(* Whatever fails or crashes, the server comes back to where the profile can  *)
(* be changed: no operation and no pending row stays for good.                *)
ProfileChangesResume == []<>Idle
=============================================================================
