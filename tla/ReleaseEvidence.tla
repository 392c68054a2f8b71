---------------------------- MODULE ReleaseEvidence ----------------------------
(***************************************************************************)
(* The release gate of the conversation: runs of the frozen suite          *)
(* (scripts/evaluate-conversation.ts, started by evaluate-model-matrix),   *)
(* the blind review of their answers (scripts/conversation-human-review.ts) *)
(* and the decision (scripts/check-conversation-release.ts).               *)
(*                                                                         *)
(* Commands exclude each other by the runtime lease; the source tree, the  *)
(* installed model and the reviewer's ratings change beside them.  Results *)
(* are written at once and never edited, which the protocol asks of the    *)
(* maintainer; which of them the commands are given is open.               *)
(***************************************************************************)
EXTENDS Naturals, SequencesExt

CONSTANTS
  Commits,
  Edited,           \* the content of a tree that is no commit's
  Models,           \* what the configured model's name may stand for: digests
  Suite,            \* the cases in order: [id, capability, critical, direct];
                    \* direct: the program answers it without the model
  MinimumPasses,    \* minimumFullPasses
  CapabilityPasses, \* minimumCapabilityPasses
  Repeats,          \* criticalRunCount
  Sheets,           \* what a reviewer may give: a rating of every item, and a flag
  MaxRuns, MaxChanges, MaxFaults,  \* bounds
  None

VARIABLES
  head,      \* the commit that is checked out
  tree,      \* the source there is: a commit's, or Edited
  model,     \* the digest the configured name has in Ollama
  run,       \* the evaluator
  results,   \* the private result files, in the order of their runs
  ratings,   \* packet -> its ratings file, Blank as prepared
  reviews,   \* packet -> the scored review
  deciding,  \* the gate, once it has read HEAD
  released,  \* what the gate has passed
  changes, faults

evidenceVars == <<head, tree, model, run, results, ratings, reviews, deciding, released, changes, faults>>
outside == <<head, tree, model, changes>>
filed == <<ratings, reviews>>

Idle == [pc |-> "idle"]
Blank == [rating |-> <<>>, flagged |-> FALSE]
NoAnswers == [i \in {} |-> None]

(* The files m with the content c of the one at k.                         *)
With(m, k, c) == [j \in DOMAIN m \cup {k} |-> IF j = k THEN c ELSE m[j]]

EvidenceInit ==
  /\ head \in Commits /\ tree = head /\ model \in Models
  /\ run = Idle /\ results = <<>> /\ ratings = <<>> /\ reviews = <<>>
  /\ deciding = None /\ released = None /\ changes = 0 /\ faults = 0

-----------------------------------------------------------------------------
(* What happens beside the commands.  steady says of a run that the source *)
(* stood still until it was recorded, and the model from then on; of a     *)
(* decision, that HEAD did until the status was read.                      *)
Unrecorded == run.pc = "measure"
Answering == run.pc = "answer"
Unsteady(job, window) == IF window THEN [job EXCEPT !.steady = FALSE] ELSE job

SourceMoves ==
  /\ run' = Unsteady(run, Unrecorded)
  /\ deciding' = Unsteady(deciding, deciding # None)
  /\ UNCHANGED <<model, results, filed, released, faults>>
Changing == released = None /\ changes < MaxChanges /\ changes' = changes + 1

Edit == Changing /\ tree # Edited /\ tree' = Edited /\ SourceMoves /\ UNCHANGED head
Discard == released = None /\ tree = Edited /\ tree' = head /\ SourceMoves /\ UNCHANGED <<head, changes>>
Checkout(c) == Changing /\ tree = head /\ c # head /\ head' = c /\ tree' = c /\ SourceMoves

Pull(m) ==
  /\ Changing /\ m # model /\ model' = m
  /\ run' = Unsteady(run, Answering)
  /\ UNCHANGED <<head, tree, results, filed, deciding, released, faults>>

-----------------------------------------------------------------------------
(* A run of the suite                                                      *)

Free == released = None /\ run = Idle /\ deciding = None

(* The matrix starts the evaluator, which loads the program it will run.   *)
StartRun(kind) ==
  /\ Free /\ Len(results) < MaxRuns
  /\ run' = [pc |-> "measure", kind |-> kind, loaded |-> tree, steady |-> TRUE]
  /\ UNCHANGED <<outside, results, filed, deciding, released, faults>>

(* The commit, and whether the tree has changes.                           *)
Candidate == [commit |-> head, dirty |-> tree # head]

(* localRuntimeMetadata, once for the run.                                 *)
Measure ==
  /\ run.pc = "measure"
  /\ run' = [pc |-> "answer", kind |-> run.kind, loaded |-> run.loaded, steady |-> run.steady,
             git |-> Candidate, model |-> model, answers |-> NoAnswers]
  /\ UNCHANGED <<outside, results, filed, deciding, released, faults>>

(* The cases of a run, by their places in the suite; and those it has yet  *)
(* to give the model.                                                      *)
Selected(kind) == {i \in DOMAIN Suite : kind = "full" \/ Suite[i].critical}
Left == Selected(run.kind) \ DOMAIN run.answers

(* A case is answered by whatever the name stands for now, if not by the   *)
(* program itself (answerDeterministicConversationRequest), and scored.    *)
AnswerCase(i, outcome) ==
  /\ Answering /\ i \in Left /\ \A j \in Left : i <= j
  /\ outcome # "passed" => faults < MaxFaults
  /\ faults' = IF outcome = "passed" THEN faults ELSE faults + 1
  /\ run' = [run EXCEPT !.answers = With(@, i, [case |-> Suite[i], outcome |-> outcome,
                                                by |-> IF Suite[i].direct THEN None ELSE model])]
  /\ UNCHANGED <<outside, results, filed, deciding, released>>

WriteResult ==
  /\ Answering /\ Left = {}
  /\ results' = Append(results, run)
  /\ run' = Idle
  /\ UNCHANGED <<outside, filed, deciding, released, faults>>

(* Ollama does not answer, the lease of the matrix or the profile is no    *)
(* longer what it was, or the process is killed.                           *)
Abandon ==
  /\ Changing /\ run # Idle /\ run' = Idle
  /\ UNCHANGED <<head, tree, model, results, filed, deciding, released, faults>>

-----------------------------------------------------------------------------
(* What a result says                                                      *)

Answers(r) == {r.answers[i] : i \in DOMAIN r.answers}
Passed(r) == {a \in Answers(r) : a.outcome = "passed"}
Complete(r) == \A a \in Answers(r) : a.outcome # "error"
CriticalPass(r) == \A a \in Answers(r) : a.case.critical => a \in Passed(r)
CasesOf(r) == {a.case : a \in Answers(r)}
Capabilities == {c.capability : c \in ToSet(Suite)}
Clean(r) == ~r.git.dirty

(* assessConversationEvaluation: the evaluator's own verdict.              *)
Assessed(r) ==
  /\ Complete(r)
  /\ r.kind = "full" =>
       /\ Cardinality(Passed(r)) >= MinimumPasses /\ CriticalPass(r)
       /\ \A k \in Capabilities :
            Cardinality({a \in Passed(r) : a.case.capability = k}) >= CapabilityPasses
  /\ r.kind = "critical" => Passed(r) = Answers(r)

-----------------------------------------------------------------------------
(* The blind review.  A packet is identified by the bytes of its results,  *)
(* in order: the complete run, then the repetitions.                       *)
Slots == 1..Repeats + 1
Packets == [Slots -> DOMAIN results]
Full(p) == results[p[1]]
Repetitions(p) == {results[p[i]] : i \in Slots \ {1}}

CompleteRun(r) == Clean(r) /\ r.kind = "full" /\ Complete(r)

(* Runs follow one another, so their times are in order as they are.       *)
CriticalRuns(p) ==
  /\ \A r \in Repetitions(p) :
       r.git = [commit |-> Full(p).git.commit, dirty |-> FALSE] /\ r.kind = "critical" /\ Complete(r)
  /\ \A i, j \in Slots : i < j => p[i] < p[j]

Reviewable(p) == CompleteRun(Full(p)) /\ CriticalRuns(p)

(* prepare writes the packet, its key and its ratings, over those of the   *)
(* same packet if there are any.                                           *)
Prepare(p) ==
  /\ Free /\ Reviewable(p)
  /\ ratings' = With(ratings, p, Blank)
  /\ UNCHANGED <<outside, run, results, reviews, deciding, released, faults>>

(* The reviewer, at any time.                                              *)
Rate(p, sheet) ==
  /\ released = None /\ ratings[p] = Blank
  /\ ratings' = [ratings EXCEPT ![p] = sheet]
  /\ UNCHANGED <<outside, run, results, reviews, deciding, released, faults>>

(* The items: a plain and a critical answer of the complete run, and then  *)
(* the repetitions of the second.                                          *)
Items == 1..Repeats + 2
Approves(sheet) ==
  /\ MapThenSumSet(LAMBDA i : sheet.rating[i], Items) >= 4 * Cardinality(Items)
  /\ \A i \in Items : sheet.rating[i] >= 3 /\ (i > 1 => sheet.rating[i] >= 4)
  /\ ~sheet.flagged

Score(p) ==
  /\ Free /\ ratings[p] # Blank
  /\ reviews' = With(reviews, p, [sheet |-> ratings[p], passed |-> Approves(ratings[p])])
  /\ UNCHANGED <<outside, run, results, ratings, deciding, released, faults>>

-----------------------------------------------------------------------------
(* The gate trusts no saved verdict: it judges the cases and the ratings   *)
(* again, by rules of its own.                                             *)
Intact(r, commit) == r.git = [commit |-> commit, dirty |-> FALSE]

FullHolds(r) ==
  /\ r.kind = "full" /\ CasesOf(r) = ToSet(Suite) /\ Complete(r) /\ CriticalPass(r)
  /\ Cardinality(Passed(r)) >= MinimumPasses
  /\ \A k \in Capabilities :
       Cardinality({a \in Answers(r) : a.case.capability = k /\ a.outcome = "passed"}) >= CapabilityPasses

CriticalHolds(r, full) ==
  /\ r.kind = "critical" /\ CasesOf(r) = {c \in CasesOf(full) : c.critical}
  /\ Complete(r) /\ \A a \in Answers(r) : a.outcome = "passed"

SameRuntime(r, full) == r.model = full.model

ReviewHolds(p, q) == q = p /\ reviews[q].passed /\ Approves(reviews[q].sheet)

Passes(p, q, commit) ==
  /\ tree = head                       \* git status
  /\ Reviewable(p)                     \* the packet can be made again
  /\ \A i \in Slots : Intact(results[p[i]], commit)
  /\ FullHolds(Full(p))
  /\ \A r \in Repetitions(p) : CriticalHolds(r, Full(p)) /\ SameRuntime(r, Full(p))
  /\ ReviewHolds(p, q)

(* The files, and then HEAD.                                               *)
StartDecision ==
  /\ Free /\ reviews # <<>>
  /\ deciding' = [commit |-> head, steady |-> TRUE]
  /\ UNCHANGED <<outside, run, results, filed, released, faults>>

Decide(p, q) ==
  /\ deciding # None
  /\ released' = IF Passes(p, q, deciding.commit)
                 THEN [commit |-> deciding.commit, steady |-> deciding.steady, runs |-> p]
                 ELSE None
  /\ deciding' = None
  /\ UNCHANGED <<outside, run, results, filed, faults>>

EvidenceNext ==
  \/ Edit \/ Discard
  \/ \E c \in Commits : Checkout(c)
  \/ \E m \in Models : Pull(m)
  \/ \E kind \in {"full", "critical"} : StartRun(kind)
  \/ Measure \/ WriteResult \/ Abandon \/ StartDecision
  \/ \E i \in DOMAIN Suite, outcome \in {"passed", "failed", "error"} : AnswerCase(i, outcome)
  \/ \E p \in Packets : Prepare(p)
  \/ \E p \in DOMAIN ratings, sheet \in Sheets : Rate(p, sheet)
  \/ \E p \in DOMAIN ratings : Score(p)
  \/ \E p \in Packets, q \in DOMAIN reviews : Decide(p, q)

EvidenceSpec == EvidenceInit /\ [][EvidenceNext]_evidenceVars

-----------------------------------------------------------------------------
Released(i) == results[released.runs[i]]

(* A passed gate speaks of the program and the model that were tested: the *)
(* commit is the one every run had loaded, one model gave every answer     *)
(* that the program did not give itself, and the tree is still that        *)
(* commit, as far as source and model stood still in the three moments     *)
(* that are read only once.                                                *)
ReleasedAsTested ==
  released # None =>
    /\ released.steady => head = released.commit /\ tree = head
    /\ \A i \in Slots : Released(i).steady =>
         /\ Released(i).loaded = released.commit
         /\ \A a \in Answers(Released(i)) : a.by \in {None, Released(1).model}

(* As many runs as the policy asks for answered every critical case well,  *)
(* and a person approved of those answers.                                 *)
ReleasedAsReviewed ==
  released # None =>
    /\ Cardinality({i \in DOMAIN results : \E j \in Slots : released.runs[j] = i}) = Repeats + 1
    /\ \A i \in Slots, c \in ToSet(Suite) :
         c.critical => \E a \in Answers(Released(i)) : a.case = c /\ a.outcome = "passed"
    /\ Approves(reviews[released.runs].sheet)

(* The evaluator's exit code and the gate follow one policy.               *)
OnePolicy ==
  \A i \in DOMAIN results :
    Assessed(results[i]) <=>
      \/ results[i].kind = "full" /\ FullHolds(results[i])
      \/ results[i].kind = "critical" /\ \A a \in Answers(results[i]) : a.outcome = "passed"

(* What prepare accepted, the evaluator and the reviewer approved, passes  *)
(* on its commit, if one model was measured.                               *)
ApprovedIsReleased ==
  deciding # None /\ tree = head =>
    \A p \in DOMAIN reviews :
      /\ reviews[p].passed /\ Full(p).git.commit = deciding.commit
      /\ \A i \in Slots : Assessed(results[p[i]]) /\ results[p[i]].model = Full(p).model
      => Passes(p, p, deciding.commit)

EvidenceInv == ReleasedAsTested /\ ReleasedAsReviewed /\ OnePolicy /\ ApprovedIsReleased

(* docs/CONVERSATION_HUMAN_REVIEW.md: the gate fails closed if any file    *)
(* belongs to a different model.  It does not hold: the digest is read     *)
(* once, before the first case, and a model pulled later goes unnoticed.   *)
AnswersAreOfModel ==
  released # None => \A i \in Slots : \A a \in Answers(Released(i)) : a.by \in {None, Released(i).model}
=============================================================================
