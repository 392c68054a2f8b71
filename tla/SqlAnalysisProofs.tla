--------------------------- MODULE SqlAnalysisProofs ---------------------------
(***************************************************************************)
(* Proofs about the SQL workspace, for any windows, queries and contents   *)
(* and any number of calls, writes, approvals, closings and faults: SqlInv *)
(* and RunsAsPreviewed are parts of an inductive invariant, SqlIInv, from  *)
(* which SavesOverSeen follows as well.                                    *)
(***************************************************************************)
EXTENDS SqlAnalysis, FiniteSetTheorems, TLAPS

Id == Nat \union {None}
Approval == [id : Nat, version : Nat, bytes : Contents]
Memory == [id : Nat, bytes : Contents, revision : Nat, by : Nat]
Preview == [cid : Nat, id : Id, bytes : Contents, query : Queries]
Result == [query : Queries, copy : Seq(Contents)]
Editor == [id : Id, at : Nat, revision : Nat, by : Nat]

Sources == Preview \union Editor \union {None}
Replies == Preview \union Result \union Editor \union Memory \union {None}
Copies == Seq(Contents)
Stages == {"sent", "copying", "verified", "answered", "refused", "dead"}

CallSet ==
  [kind : {"preview", "execute", "context", "save"}, w : Windows,
   ears : {"open", "waiting", "shut"}, stage : Stages,
   id : Id, query : Queries \union {None}, from : Sources,
   approval : Approval \union {None}, copy : Copies, reply : Replies]

PanelSet ==
  [open : BOOLEAN, ready : BOOLEAN, chosen : Id, query : Queries,
   preview : Preview \union {None}, result : Result \union {None},
   editor : Editor \union {None}, busy : BOOLEAN]

Typed ==
  /\ file \in [version : Nat, bytes : Contents]
  /\ approval \in Approval \union {None} /\ approvals \in Nat
  /\ memory \in Memory \union {None} /\ store \subseteq Preview
  /\ calls \in Seq(CallSet) /\ dirs \subseteq DOMAIN calls
  /\ panel \in [Windows -> PanelSet]

(* The file the server approved is the one the user approved.                 *)
FileApproved ==
  approval # None /\ approval.version = file.version => approval.bytes = file.bytes

(* An approval that was given up never comes back: what calls hold of its     *)
(* dataset is not newer than what stands.                                     *)
Older(a) ==
  /\ a.id <= approvals
  /\ approval # None /\ approval.id = a.id => a.version <= approval.version

Opened(n) == LET c == calls[n] IN
  /\ c.stage = "sent" => c.approval = None
  /\ c.stage \in {"copying", "verified", "answered"} => c.approval # None
  /\ c.approval # None => c.approval.id = c.id /\ Older(c.approval)
  /\ c.stage = "verified" =>
       /\ c.copy = <<c.approval.bytes, c.approval.bytes>>
       /\ c.kind = "execute" => c.from.bytes = c.approval.bytes

(* A confirmation is of an answered preview, which makes no second one.       *)
Previewed(cid) == cid \in DOMAIN calls /\ calls[cid].kind = "preview" /\ calls[cid].stage = "answered"

(* An editor knows the newest context of its approval or an earlier one.      *)
Sound(f) ==
  /\ f.at \in DOMAIN calls /\ calls[f.at].approval # None
  /\ approval = calls[f.at].approval =>
       /\ f.revision <= Context(approval).revision
       /\ f.revision = Context(approval).revision => f.by = Context(approval).by

Sourced(c) ==
  /\ c.kind = "preview" => c.query \in Queries
  /\ c.kind = "execute" =>
       c.from \in Preview /\ Previewed(c.from.cid) /\ c.query = c.from.query /\ c.id = c.from.id
  /\ c.kind = "save" => c.from \in Editor /\ Sound(c.from)

(* A confirmation that was used is gone, and was used once.                   *)
Runs(n) == calls[n].kind = "execute" /\ calls[n].approval # None

UsedOnce ==
  /\ \A s \in store : Previewed(s.cid)
  /\ \A n \in DOMAIN calls : Runs(n) =>
       /\ \A s \in store : s.cid # calls[n].from.cid
       /\ \A m \in DOMAIN calls : Runs(m) /\ calls[m].from.cid = calls[n].from.cid => m = n

(* What a panel that listens to a call will make of its reply.                *)
Replied(c) ==
  /\ c.kind = "preview" => c.reply \in Preview /\ Previewed(c.reply.cid) /\ c.reply.query = c.query
  /\ c.kind = "execute" => c.reply \in Result
  /\ c.kind = "context" => c.reply \in Editor /\ Sound(c.reply)

Listens(n) == LET c == calls[n] IN Hears(c) =>
  /\ panel[c.w].open /\ panel[c.w].busy /\ panel[c.w].ready
  /\ \A m \in DOMAIN calls : calls[m].w = c.w /\ Hears(calls[m]) => m = n
  /\ c.kind = "preview" => c.query = panel[c.w].query
  /\ c.kind = "execute" => c.from.query = panel[c.w].query
  /\ c.stage = "answered" => Replied(c)

Shows(w) == LET p == panel[w] IN
  /\ p.preview # None => Previewed(p.preview.cid) /\ p.preview.query = p.query
  /\ p.result # None => p.result.query = p.query
  /\ p.editor # None => Sound(p.editor)

SqlIInv ==
  /\ Typed /\ TypeOK /\ FileApproved
  /\ SnapshotsHaveOwners /\ TaughtIsApproved /\ UsedOnce
  /\ \A n \in DOMAIN calls : Opened(n) /\ Sourced(calls[n]) /\ Listens(n)
  /\ \A w \in Windows : Shows(w)

-----------------------------------------------------------------------------
(* How the table of calls changes.                                            *)
Static(n) ==
  /\ calls'[n].kind = calls[n].kind /\ calls'[n].w = calls[n].w /\ calls'[n].id = calls[n].id
  /\ calls'[n].query = calls[n].query /\ calls'[n].from = calls[n].from

Changes(n) ==
  /\ calls' \in Seq(CallSet) /\ DOMAIN calls' = DOMAIN calls
  /\ \A m \in DOMAIN calls \ {n} : calls'[m] = calls[m]
  /\ Static(n)

LEMMA Updated ==
  ASSUME calls \in Seq(CallSet), NEW n \in DOMAIN calls, NEW d \in CallSet,
         calls' = [calls EXCEPT ![n] = d]
  PROVE  /\ calls' \in Seq(CallSet) /\ DOMAIN calls' = DOMAIN calls
         /\ \A m \in DOMAIN calls \ {n} : calls'[m] = calls[m]
         /\ calls'[n] = d
OBVIOUS

LEMMA CallUpdates ==
  ASSUME NEW c \in CallSet
  PROVE  /\ \A x \in {"open", "waiting", "shut"} : [c EXCEPT !.ears = x] \in CallSet
         /\ \A x \in Stages : [c EXCEPT !.stage = x] \in CallSet
         /\ \A x \in Approval \union {None} : [c EXCEPT !.approval = x] \in CallSet
         /\ \A x \in Copies : [c EXCEPT !.copy = x] \in CallSet
         /\ \A x \in Replies : [c EXCEPT !.reply = x] \in CallSet
BY DEF CallSet

LEMMA Refusing ==
  ASSUME calls \in Seq(CallSet), NEW n \in DOMAIN calls, Refuse(n)
  PROVE  /\ Changes(n) /\ calls'[n].stage = "refused"
         /\ calls'[n].ears = calls[n].ears /\ calls'[n].reply = calls[n].reply
         /\ calls'[n].approval = calls[n].approval
<1> DEFINE c == calls[n]
           d == [c EXCEPT !.stage = "refused", !.copy = <<>>]
<1>1. c \in CallSet /\ "refused" \in Stages /\ <<>> \in Copies
  BY DEF Stages, Copies
<1>2. d \in CallSet
  BY <1>1, CallUpdates
<1>3. calls' = [calls EXCEPT ![n] = d]
  BY <1>1 DEF Refuse
<1>4. /\ d.stage = "refused" /\ d.ears = c.ears /\ d.reply = c.reply /\ d.approval = c.approval
      /\ d.kind = c.kind /\ d.w = c.w /\ d.id = c.id /\ d.query = c.query /\ d.from = c.from
  BY <1>1 DEF CallSet
<1> HIDE DEF d
<1> QED
  BY <1>2, <1>3, <1>4, Updated DEF Changes, Static

LEMMA Opening ==
  ASSUME Typed, NEW n \in DOMAIN calls, OpenSnapshot(n)
  PROVE  /\ Changes(n) /\ calls'[n].stage = "copying" /\ calls'[n].approval = approval
         /\ calls'[n].ears = calls[n].ears /\ calls'[n].reply = calls[n].reply
<1> DEFINE c == calls[n]
           d == [c EXCEPT !.stage = "copying", !.approval = approval, !.copy = <<file.bytes>>]
<1>1. /\ c \in CallSet /\ "copying" \in Stages /\ approval \in Approval \union {None}
      /\ <<file.bytes>> \in Copies /\ calls \in Seq(CallSet)
  BY DEF Stages, Copies, Typed
<1>2. d \in CallSet
  <2>1. [c EXCEPT !.stage = "copying"] \in CallSet
    BY <1>1, CallUpdates
  <2>2. [c EXCEPT !.stage = "copying", !.approval = approval] \in CallSet
    BY <1>1, <2>1, CallUpdates
  <2> QED
    BY <1>1, <2>2, CallUpdates
<1>3. calls' = [calls EXCEPT ![n] = d]
  BY <1>1 DEF OpenSnapshot
<1>4. /\ d.stage = "copying" /\ d.ears = c.ears /\ d.reply = c.reply /\ d.approval = approval
      /\ d.kind = c.kind /\ d.w = c.w /\ d.id = c.id /\ d.query = c.query /\ d.from = c.from
  BY <1>1 DEF CallSet
<1> HIDE DEF d
<1> QED
  BY <1>1, <1>2, <1>3, <1>4, Updated DEF Changes, Static

LEMMA Verifying ==
  ASSUME calls \in Seq(CallSet), NEW n \in DOMAIN calls, NEW copy \in Copies,
         calls' = [calls EXCEPT ![n].stage = "verified", ![n].copy = copy]
  PROVE  /\ Changes(n) /\ calls'[n].stage = "verified" /\ calls'[n].copy = copy
         /\ calls'[n].ears = calls[n].ears /\ calls'[n].reply = calls[n].reply
         /\ calls'[n].approval = calls[n].approval
<1> DEFINE c == calls[n]
           d == [c EXCEPT !.stage = "verified", !.copy = copy]
<1>1. c \in CallSet /\ "verified" \in Stages
  BY DEF Stages
<1>2. d \in CallSet
  BY <1>1, CallUpdates
<1>3. calls' = [calls EXCEPT ![n] = d]
  BY <1>1
<1>4. /\ d.stage = "verified" /\ d.copy = copy /\ d.ears = c.ears /\ d.reply = c.reply
      /\ d.approval = c.approval
      /\ d.kind = c.kind /\ d.w = c.w /\ d.id = c.id /\ d.query = c.query /\ d.from = c.from
  BY <1>1 DEF CallSet
<1> HIDE DEF d
<1> QED
  BY <1>2, <1>3, <1>4, Updated DEF Changes, Static

LEMMA Answering ==
  ASSUME calls \in Seq(CallSet), NEW n \in DOMAIN calls, NEW reply \in Replies, Answer(n, reply)
  PROVE  /\ Changes(n) /\ calls'[n].stage = "answered" /\ calls'[n].reply = reply
         /\ calls'[n].ears = calls[n].ears /\ calls'[n].approval = calls[n].approval
<1> DEFINE c == calls[n]
           d == [c EXCEPT !.stage = "answered", !.reply = reply, !.copy = <<>>]
<1>1. c \in CallSet /\ "answered" \in Stages /\ <<>> \in Copies
  BY DEF Stages, Copies
<1>2. d \in CallSet
  <2>1. [c EXCEPT !.stage = "answered"] \in CallSet
    BY <1>1, CallUpdates
  <2>2. [c EXCEPT !.stage = "answered", !.reply = reply] \in CallSet
    BY <1>1, <2>1, CallUpdates
  <2> QED
    BY <1>1, <2>2, CallUpdates
<1>3. calls' = [calls EXCEPT ![n] = d]
  BY <1>1 DEF Answer
<1>4. /\ d.stage = "answered" /\ d.ears = c.ears /\ d.reply = reply /\ d.approval = c.approval
      /\ d.kind = c.kind /\ d.w = c.w /\ d.id = c.id /\ d.query = c.query /\ d.from = c.from
  BY <1>1 DEF CallSet
<1> HIDE DEF d
<1> QED
  BY <1>2, <1>3, <1>4, Updated DEF Changes, Static

LEMMA Shutting ==
  ASSUME calls \in Seq(CallSet), NEW n \in DOMAIN calls
  PROVE  /\ Heard(n) \in Seq(CallSet) /\ DOMAIN Heard(n) = DOMAIN calls
         /\ \A m \in DOMAIN calls \ {n} : Heard(n)[m] = calls[m]
         /\ Heard(n)[n] = [calls[n] EXCEPT !.ears = "shut", !.reply = None]
<1> DEFINE c == calls[n]
           d == [c EXCEPT !.ears = "shut", !.reply = None]
<1>1. c \in CallSet /\ None \in Replies
  BY DEF Replies
<1>2. d \in CallSet
  BY <1>1, CallUpdates
<1>3. Heard(n) = [calls EXCEPT ![n] = d]
  BY <1>1 DEF Heard
<1> HIDE DEF d
<1>4. Heard(n) \in Seq(CallSet) /\ DOMAIN Heard(n) = DOMAIN calls /\ Heard(n)[n] = d
      /\ \A m \in DOMAIN calls \ {n} : Heard(n)[m] = calls[m]
  BY <1>2, <1>3
<1> QED
  BY <1>4 DEF d

LEMMA ShutCall ==
  ASSUME NEW c \in CallSet, NEW ears \in {"waiting", "shut"}, NEW d,
         d = [c EXCEPT !.ears = ears, !.reply = None]
  PROVE  /\ d \in CallSet /\ d.ears = ears /\ d.stage = c.stage
         /\ d.approval = c.approval /\ d.copy = c.copy
         /\ d.kind = c.kind /\ d.w = c.w /\ d.id = c.id /\ d.query = c.query /\ d.from = c.from
<1>1. None \in Replies
  BY DEF Replies
<1>2. [c EXCEPT !.ears = ears, !.reply = None] \in CallSet
  BY <1>1, CallUpdates
<1> QED
  BY <1>2 DEF CallSet

LEMMA Sequence ==
  ASSUME NEW S, NEW k \in Nat, NEW f, f = [i \in 1 .. k |-> f[i]], \A i \in 1 .. k : f[i] \in S
  PROVE  f \in Seq(S)
<1>1. f \in [1 .. k -> S]
  OBVIOUS
<1> QED
  BY <1>1

LEMMA Ignoring ==
  ASSUME calls \in Seq(CallSet), NEW w \in Windows
  PROVE  /\ Ignored(w) \in Seq(CallSet) /\ DOMAIN Ignored(w) = DOMAIN calls
         /\ \A n \in DOMAIN calls :
              IF calls[n].w = w /\ calls[n].ears = "open"
                THEN \E ears \in {"waiting", "shut"} :
                       Ignored(w)[n] = [calls[n] EXCEPT !.ears = ears, !.reply = None]
                ELSE Ignored(w)[n] = calls[n]
<1>1. \A n \in DOMAIN calls : calls[n] \in CallSet
  OBVIOUS
<1>2. \A n \in DOMAIN calls :
        IF calls[n].w = w /\ calls[n].ears = "open"
          THEN \E ears \in {"waiting", "shut"} :
                 Ignored(w)[n] = [calls[n] EXCEPT !.ears = ears, !.reply = None]
          ELSE Ignored(w)[n] = calls[n]
  BY DEF Ignored
<1>3. ASSUME NEW n \in DOMAIN calls PROVE Ignored(w)[n] \in CallSet
  <2>1. CASE calls[n].w = w /\ calls[n].ears = "open"
    <3>1. PICK ears \in {"waiting", "shut"} :
            Ignored(w)[n] = [calls[n] EXCEPT !.ears = ears, !.reply = None]
      BY <1>2, <2>1
    <3>2. [calls[n] EXCEPT !.ears = ears, !.reply = None] \in CallSet
      BY <1>1, ShutCall
    <3> QED
      BY <3>1, <3>2
  <2> QED
    BY <1>1, <1>2, <2>1
<1>4. DOMAIN Ignored(w) = DOMAIN calls
  BY DEF Ignored
<1>5. DOMAIN calls = 1 .. Len(calls) /\ Len(calls) \in Nat
  OBVIOUS
<1>6. Ignored(w) = [n \in DOMAIN calls |-> Ignored(w)[n]]
  BY DEF Ignored
<1>7. Ignored(w) \in Seq(CallSet)
  BY <1>3, <1>5, <1>6, Sequence
<1> QED
  BY <1>2, <1>4, <1>7

LEMMA Dying ==
  ASSUME calls \in Seq(CallSet)
  PROVE  /\ Crashed \in Seq(CallSet) /\ DOMAIN Crashed = DOMAIN calls
         /\ \A n \in DOMAIN calls :
              IF calls[n].stage \in {"sent", "copying", "verified"}
                THEN Crashed[n] = [calls[n] EXCEPT !.stage = "dead"]
                ELSE Crashed[n] = calls[n]
<1>1. \A n \in DOMAIN calls : calls[n] \in CallSet
  OBVIOUS
<1>2. \A n \in DOMAIN calls :
        IF calls[n].stage \in {"sent", "copying", "verified"}
          THEN Crashed[n] = [calls[n] EXCEPT !.stage = "dead"]
          ELSE Crashed[n] = calls[n]
  BY DEF Crashed
<1>3. \A n \in DOMAIN calls : Crashed[n] \in CallSet
  BY <1>1, <1>2, CallUpdates DEF Stages
<1>4. DOMAIN Crashed = DOMAIN calls
  BY DEF Crashed
<1>5. DOMAIN calls = 1 .. Len(calls) /\ Len(calls) \in Nat
  OBVIOUS
<1>6. Crashed = [n \in DOMAIN calls |-> Crashed[n]]
  BY DEF Crashed
<1>7. Crashed \in Seq(CallSet)
  BY <1>3, <1>5, <1>6, Sequence
<1> QED
  BY <1>2, <1>4, <1>7

LEMMA Appending ==
  ASSUME NEW s \in Seq(CallSet), NEW c \in CallSet
  PROVE  /\ Append(s, c) \in Seq(CallSet)
         /\ DOMAIN Append(s, c) = DOMAIN s \union {Len(s) + 1} /\ Len(s) + 1 \notin DOMAIN s
         /\ \A m \in DOMAIN s : Append(s, c)[m] = s[m]
         /\ Append(s, c)[Len(s) + 1] = c
OBVIOUS

LEMMA Calling ==
  ASSUME NEW kind \in {"preview", "execute", "context", "save"}, NEW w \in Windows, NEW id \in Id,
         NEW query \in Queries \union {None}, NEW from \in Sources
  PROVE  LET c == Call(kind, w, id, query, from) IN
         /\ c \in CallSet /\ c.kind = kind /\ c.w = w /\ c.ears = "open" /\ c.stage = "sent"
         /\ c.id = id /\ c.query = query /\ c.from = from /\ c.approval = None
<1>1. "sent" \in Stages /\ <<>> \in Copies /\ None \in Replies
  BY DEF Stages, Copies, Replies
<1> QED
  BY <1>1 DEF Call, CallSet

-----------------------------------------------------------------------------
(* What one step makes of one call.                                           *)
Rests(n) ==
  /\ calls'[n].stage = calls[n].stage /\ calls'[n].approval = calls[n].approval
  /\ calls'[n].copy = calls[n].copy /\ (n \in dirs' <=> n \in dirs)

Opens(n) ==
  /\ calls[n].stage = "sent" /\ calls'[n].stage = "copying"
  /\ Approves(calls[n]) /\ calls'[n].approval = approval /\ n \in dirs'
  /\ calls[n].kind = "execute" =>
       Confirmed(calls[n]) # {} /\ store' = store \ Consumed(calls[n])

Verifies(n) == LET a == calls[n].approval IN
  /\ calls[n].stage = "copying" /\ calls'[n].stage = "verified"
  /\ calls'[n].approval = a /\ calls'[n].copy = <<a.bytes, a.bytes>>
  /\ calls[n].kind = "execute" => calls[n].from.bytes = a.bytes
  /\ n \in dirs' <=> n \in dirs

Ends(n) ==
  /\ calls[n].stage \in {"sent", "copying", "verified"}
  /\ calls'[n].stage \in {"refused", "answered", "dead"}
  /\ calls'[n].stage = "answered" => calls[n].stage = "verified"
  /\ calls'[n].stage # "dead" => n \notin dirs'
  /\ calls'[n].approval = calls[n].approval

Fresh(n) ==
  /\ calls'[n].stage = "sent" /\ calls'[n].approval = None /\ n \notin dirs'
  /\ Sourced(calls'[n])

Saved(s) ==
  /\ s \in Preview /\ s.cid \in DOMAIN calls /\ calls[s.cid].kind = "preview"
  /\ calls[s.cid].stage = "verified" /\ calls'[s.cid].stage = "answered"

(* Every step of the system has this shape.                                   *)
StepShape ==
  /\ calls' \in Seq(CallSet) /\ dirs' \subseteq DOMAIN calls'
  /\ \A n \in DOMAIN calls :
       n \in DOMAIN calls' /\ Static(n) /\ (Rests(n) \/ Opens(n) \/ Verifies(n) \/ Ends(n))
  /\ \A m, n \in DOMAIN calls : Opens(m) /\ Opens(n) => m = n
  /\ \A n \in DOMAIN calls' \ DOMAIN calls : Fresh(n)
  /\ \A s \in store' : s \in store \/ Saved(s)

LEMMA OneShape ==
  ASSUME Typed, NEW n \in DOMAIN calls, Changes(n),
         dirs' \in {dirs, dirs \union {n}, dirs \ {n}},
         Rests(n) \/ Opens(n) \/ Verifies(n) \/ Ends(n),
         \A s \in store' : s \in store \/ Saved(s)
  PROVE  StepShape
<1>1. \A m \in DOMAIN calls \ {n} : Static(m) /\ Rests(m) /\ ~Opens(m)
  BY DEF Changes, Static, Rests, Opens
<1>2. DOMAIN calls' = DOMAIN calls /\ calls' \in Seq(CallSet) /\ dirs' \subseteq DOMAIN calls'
  BY DEF Changes, Typed
<1> QED
  BY <1>1, <1>2 DEF StepShape, Changes

LEMMA RestShape ==
  ASSUME Typed, calls' \in Seq(CallSet), UNCHANGED <<store, dirs>>,
         \A n \in DOMAIN calls : n \in DOMAIN calls' /\ Static(n) /\ Rests(n),
         \A n \in DOMAIN calls' \ DOMAIN calls : Fresh(n)
  PROVE  StepShape
BY DEF StepShape, Typed, Rests, Opens

(* The server's steps.                                                        *)
LEMMA RefuseShape ==
  ASSUME SqlIInv, NEW n \in DOMAIN calls, calls[n].stage \in {"sent", "copying", "verified"},
         Refuse(n), dirs' = dirs \ {n} \/ (calls[n].stage = "sent" /\ UNCHANGED dirs),
         store' \subseteq store
  PROVE  StepShape
<1>1. /\ Changes(n) /\ calls'[n].stage = "refused" /\ calls'[n].approval = calls[n].approval
  BY Refusing DEF SqlIInv, Typed
<1>2. n \notin dirs' /\ dirs' \in {dirs, dirs \union {n}, dirs \ {n}}
  BY DEF SqlIInv, SnapshotsHaveOwners
<1>3. Ends(n)
  BY <1>1, <1>2 DEF Ends
<1> QED
  BY <1>1, <1>2, <1>3, OneShape DEF SqlIInv

LEMMA OpenShape ==
  ASSUME SqlIInv, NEW n \in DOMAIN calls, calls[n].stage = "sent", OpenSnapshot(n),
         Approves(calls[n]), store' \subseteq store,
         calls[n].kind = "execute" =>
           Confirmed(calls[n]) # {} /\ store' = store \ Consumed(calls[n])
  PROVE  StepShape
<1>1. Changes(n) /\ calls'[n].stage = "copying" /\ calls'[n].approval = approval
  BY Opening DEF SqlIInv
<1>2. dirs' = dirs \union {n}
  BY DEF OpenSnapshot
<1>3. Opens(n)
  BY <1>1, <1>2 DEF Opens
<1> QED
  BY <1>1, <1>2, <1>3, OneShape DEF SqlIInv

LEMMA AnswerShape ==
  ASSUME SqlIInv, NEW n \in DOMAIN calls, calls[n].stage = "verified",
         NEW reply \in Replies, Answer(n, reply), \A s \in store' : s \in store \/ Saved(s)
  PROVE  StepShape
<1>1. /\ Changes(n) /\ calls'[n].stage = "answered" /\ calls'[n].approval = calls[n].approval
  BY Answering DEF SqlIInv, Typed
<1>2. dirs' = dirs \ {n}
  BY DEF Answer
<1>3. Ends(n)
  BY <1>1, <1>2 DEF Ends
<1> QED
  BY <1>1, <1>2, <1>3, OneShape DEF SqlIInv

LEMMA CallFacts ==
  ASSUME SqlIInv, NEW n \in DOMAIN calls
  PROVE  /\ n \in Nat /\ calls[n] \in CallSet /\ calls \in Seq(CallSet)
         /\ calls[n].id \in Id /\ calls[n].copy \in Seq(Contents) /\ calls[n].w \in Windows
         /\ calls[n].approval # None => calls[n].approval \in Approval
         /\ calls[n].kind \in {"preview", "execute", "context", "save"}
         /\ Opened(n) /\ Sourced(calls[n]) /\ Listens(n)
<1>1. n \in Nat /\ calls[n] \in CallSet /\ calls \in Seq(CallSet)
  BY DEF SqlIInv, Typed
<1> QED
  BY <1>1 DEF SqlIInv, CallSet, Copies

LEMMA ContextTyped ==
  ASSUME Typed, NEW a PROVE Context(a).revision \in Nat /\ Context(a).by \in Nat
BY DEF Typed, Memory, Context

(* The replies of the server.                                                 *)
LEMMA ReplyTyped ==
  ASSUME SqlIInv, NEW n \in DOMAIN calls, calls[n].stage = "verified"
  PROVE  LET c == calls[n] IN
         /\ c.approval \in Approval
         /\ c.kind = "preview" =>
              [cid |-> n, id |-> c.id, bytes |-> c.approval.bytes, query |-> c.query] \in Preview
         /\ c.kind = "execute" => [query |-> c.query, copy |-> c.copy] \in Result
         /\ [id |-> c.id, at |-> n, revision |-> Context(approval).revision,
             by |-> Context(approval).by] \in Editor
         /\ [id |-> c.approval.id, bytes |-> c.approval.bytes,
             revision |-> Context(c.approval).revision + 1, by |-> n] \in Memory
<1> DEFINE c == calls[n]
<1>1. c.approval \in Approval
  BY CallFacts DEF Opened
<1>2. c.approval.bytes \in Contents /\ c.approval.id \in Nat
  BY <1>1 DEF Approval
<1>3. ASSUME c.kind = "preview" PROVE c.query \in Queries
  BY <1>3, CallFacts DEF Sourced
<1>4. ASSUME c.kind = "execute" PROVE c.query \in Queries
  BY <1>4, CallFacts DEF Sourced, Preview
<1>5. c.id \in Id /\ c.copy \in Seq(Contents) /\ n \in Nat /\ Typed
  BY CallFacts DEF SqlIInv
<1>6. /\ Context(approval).revision \in Nat /\ Context(approval).by \in Nat
      /\ Context(c.approval).revision + 1 \in Nat
  BY <1>5, ContextTyped
<1>7. [cid |-> n, id |-> c.id, bytes |-> c.approval.bytes, query |-> c.query] \in Preview
      \/ c.kind # "preview"
  BY <1>2, <1>3, <1>5 DEF Preview
<1>8. [query |-> c.query, copy |-> c.copy] \in Result \/ c.kind # "execute"
  BY <1>4, <1>5 DEF Result
<1>9. [id |-> c.id, at |-> n, revision |-> Context(approval).revision,
       by |-> Context(approval).by] \in Editor
  BY <1>5, <1>6 DEF Editor
<1>10. [id |-> c.approval.id, bytes |-> c.approval.bytes,
        revision |-> Context(c.approval).revision + 1, by |-> n] \in Memory
  BY <1>2, <1>5, <1>6 DEF Memory
<1> QED
  BY <1>1, <1>7, <1>8, <1>9, <1>10

LEMMA ServerShape ==
  ASSUME SqlIInv, NEW n \in DOMAIN calls, ServerStep(n)
  PROVE  StepShape
<1> DEFINE c == calls[n]
<1>1. CASE Begin(n)
  BY <1>1, RefuseShape, OpenShape DEF Begin
<1>2. CASE BeginConfirmed(n)
  <2>1. store' = store \ Consumed(c) /\ c.stage = "sent"
    BY <1>2 DEF BeginConfirmed
  <2>2. CASE Approves(c) /\ Confirmed(c) # {} /\ OpenSnapshot(n)
    BY <2>1, <2>2, OpenShape
  <2>3. CASE Refuse(n) /\ UNCHANGED dirs
    BY <2>1, <2>3, RefuseShape
  <2> QED
    BY <1>2, <2>2, <2>3 DEF BeginConfirmed
<1>3. CASE CloseSnapshot(n)
  <2> DEFINE copy == Append(c.copy, file.bytes)
  <2>1. c.stage = "copying" /\ UNCHANGED store
    BY <1>3 DEF CloseSnapshot
  <2>2. CASE Exact(c, copy)
    <3>1. calls' = [calls EXCEPT ![n].stage = "verified", ![n].copy = copy] /\ UNCHANGED dirs
      BY <1>3, <2>2 DEF CloseSnapshot
    <3>2. copy \in Copies
      BY CallFacts DEF Copies, SqlIInv, Typed
    <3>3. /\ Changes(n) /\ calls'[n].stage = "verified" /\ calls'[n].copy = copy
          /\ calls'[n].approval = c.approval
      BY <3>1, <3>2, CallFacts, Verifying
    <3>4. Verifies(n)
      BY <2>1, <2>2, <3>1, <3>3 DEF Verifies, Exact
    <3> QED
      BY <2>1, <3>1, <3>3, <3>4, OneShape DEF SqlIInv
  <2>3. CASE ~Exact(c, copy)
    BY <1>3, <2>1, <2>3, RefuseShape DEF CloseSnapshot
  <2> QED
    BY <2>2, <2>3
<1>4. CASE Fail(n)
  BY <1>4, RefuseShape DEF Fail
<1>5. CASE SavePreview(n)
  <2> DEFINE s == [cid |-> n, id |-> c.id, bytes |-> c.approval.bytes, query |-> c.query]
  <2>1. /\ c.stage = "verified" /\ c.kind = "preview" /\ store' = store \union {s} /\ Answer(n, s)
    BY <1>5 DEF SavePreview
  <2>2. s \in Preview /\ s \in Replies /\ s.cid = n
    BY <2>1, ReplyTyped DEF Replies
  <2>3. calls'[n].stage = "answered"
    BY <2>1, <2>2, Answering DEF SqlIInv, Typed
  <2>4. Saved(s)
    BY <2>1, <2>2, <2>3 DEF Saved
  <2> HIDE DEF s
  <2> QED
    BY <2>1, <2>2, <2>4, AnswerShape
<1>6. CASE RunQuery(n)
  <2>1. [query |-> c.query, copy |-> c.copy] \in Replies
    BY <1>6, ReplyTyped DEF RunQuery, Replies
  <2> QED
    BY <1>6, <2>1, AnswerShape DEF RunQuery
<1>7. CASE ReadContext(n)
  <2> DEFINE f == [id |-> c.id, at |-> n, revision |-> Context(approval).revision,
                   by |-> Context(approval).by]
  <2>1. f \in Replies
    BY <1>7, ReplyTyped DEF ReadContext, Replies
  <2>2. Answer(n, f) \/ (Refuse(n) /\ dirs' = dirs \ {n})
    BY <1>7 DEF ReadContext
  <2>3. c.stage = "verified" /\ UNCHANGED store
    BY <1>7 DEF ReadContext
  <2> HIDE DEF f
  <2> QED
    BY <2>1, <2>2, <2>3, AnswerShape, RefuseShape
<1>8. CASE SaveContext(n)
  <2> DEFINE m == [id |-> c.approval.id, bytes |-> c.approval.bytes,
                   revision |-> Context(c.approval).revision + 1, by |-> n]
  <2>1. m \in Replies
    BY <1>8, ReplyTyped DEF SaveContext, Replies
  <2>2. Answer(n, m) \/ (Refuse(n) /\ dirs' = dirs \ {n})
    BY <1>8 DEF SaveContext
  <2>3. c.stage = "verified" /\ UNCHANGED store
    BY <1>8 DEF SaveContext
  <2> HIDE DEF m
  <2> QED
    BY <2>1, <2>2, <2>3, AnswerShape, RefuseShape
<1> QED
  BY <1>1, <1>2, <1>3, <1>4, <1>5, <1>6, <1>7, <1>8 DEF ServerStep

(* The panel's steps.                                                         *)
LEMMA SameShape == ASSUME SqlIInv, UNCHANGED <<calls, store, dirs>> PROVE StepShape
<1>1. Typed /\ calls' \in Seq(CallSet)
  BY DEF SqlIInv, Typed
<1>2. \A n \in DOMAIN calls : n \in DOMAIN calls' /\ Static(n) /\ Rests(n)
  BY DEF Static, Rests
<1> QED
  BY <1>1, <1>2, RestShape

LEMMA AppendShape ==
  ASSUME SqlIInv, NEW c \in CallSet, c.stage = "sent", c.approval = None, Sourced(c),
         calls' = Append(calls, c), UNCHANGED <<store, dirs>>
  PROVE  /\ StepShape /\ \A n \in DOMAIN calls : calls'[n] = calls[n]
         /\ DOMAIN calls' = DOMAIN calls \union {Len(calls) + 1}
         /\ Len(calls) + 1 \notin DOMAIN calls /\ calls'[Len(calls) + 1] = c
<1>1. Typed /\ calls \in Seq(CallSet) /\ dirs \subseteq DOMAIN calls
  BY DEF SqlIInv, Typed
<1>2. /\ calls' \in Seq(CallSet) /\ \A n \in DOMAIN calls : calls'[n] = calls[n]
      /\ DOMAIN calls' = DOMAIN calls \union {Len(calls) + 1}
      /\ Len(calls) + 1 \notin DOMAIN calls /\ calls'[Len(calls) + 1] = c
  BY <1>1, Appending
<1>3. \A n \in DOMAIN calls : n \in DOMAIN calls' /\ Static(n) /\ Rests(n)
  BY <1>2 DEF Static, Rests
<1>4. Fresh(Len(calls) + 1)
  BY <1>1, <1>2 DEF Fresh
<1> QED
  BY <1>1, <1>2, <1>3, <1>4, RestShape

LEMMA HeardShape ==
  ASSUME SqlIInv, NEW n \in DOMAIN calls, calls' = Heard(n), UNCHANGED <<store, dirs>>
  PROVE  /\ StepShape /\ DOMAIN calls' = DOMAIN calls
         /\ calls'[n].ears = "shut" /\ \A m \in DOMAIN calls \ {n} : calls'[m] = calls[m]
         /\ calls'[n].stage = calls[n].stage
<1>1. Typed /\ calls \in Seq(CallSet) /\ calls[n] \in CallSet
  BY DEF SqlIInv, Typed
<1>2. /\ calls' \in Seq(CallSet) /\ DOMAIN calls' = DOMAIN calls
      /\ \A m \in DOMAIN calls \ {n} : calls'[m] = calls[m]
      /\ calls'[n] = [calls[n] EXCEPT !.ears = "shut", !.reply = None]
  BY <1>1, Shutting
<1>3. /\ calls'[n].stage = calls[n].stage /\ calls'[n].approval = calls[n].approval
      /\ calls'[n].copy = calls[n].copy /\ calls'[n].ears = "shut" /\ Static(n)
  BY <1>1, <1>2 DEF Static, CallSet
<1>4. \A m \in DOMAIN calls : m \in DOMAIN calls' /\ Static(m) /\ Rests(m)
  BY <1>2, <1>3 DEF Static, Rests
<1> QED
  BY <1>1, <1>2, <1>3, <1>4, RestShape

LEMMA IgnoredShape ==
  ASSUME SqlIInv, NEW w \in Windows, calls' = Ignored(w), UNCHANGED <<store, dirs>>
  PROVE  /\ StepShape /\ DOMAIN calls' = DOMAIN calls
         /\ \A n \in DOMAIN calls : Hears(calls'[n]) => calls'[n] = calls[n] /\ calls[n].w # w
         /\ \A n \in DOMAIN calls : calls'[n].stage = calls[n].stage
<1>1. Typed /\ calls \in Seq(CallSet) /\ \A n \in DOMAIN calls : calls[n] \in CallSet
  BY DEF SqlIInv, Typed
<1>2. calls' \in Seq(CallSet) /\ DOMAIN calls' = DOMAIN calls
  BY <1>1, Ignoring
<1>3. ASSUME NEW n \in DOMAIN calls
      PROVE  /\ Static(n) /\ Rests(n)
             /\ Hears(calls'[n]) => calls'[n] = calls[n] /\ calls[n].w # w
             /\ calls'[n].stage = calls[n].stage
  <2>1. CASE calls[n].w = w /\ calls[n].ears = "open"
    <3>1. PICK ears \in {"waiting", "shut"} :
            calls'[n] = [calls[n] EXCEPT !.ears = ears, !.reply = None]
      BY <1>1, <2>1, Ignoring
    <3>2. /\ calls'[n].stage = calls[n].stage /\ calls'[n].approval = calls[n].approval
          /\ calls'[n].copy = calls[n].copy /\ calls'[n].ears = ears /\ Static(n)
      BY <1>1, <3>1 DEF Static, CallSet
    <3> QED
      BY <3>2 DEF Rests, Hears
  <2>2. CASE ~(calls[n].w = w /\ calls[n].ears = "open")
    <3>1. calls'[n] = calls[n]
      BY <1>1, <2>2, Ignoring
    <3> QED
      BY <2>2, <3>1 DEF Static, Rests, Hears
  <2> QED
    BY <2>1, <2>2
<1> QED
  BY <1>1, <1>2, <1>3, RestShape

LEMMA CrashShape ==
  ASSUME SqlIInv, calls' = Crashed, UNCHANGED <<store, dirs>>
  PROVE  /\ StepShape /\ DOMAIN calls' = DOMAIN calls
         /\ \A n \in DOMAIN calls :
              /\ calls'[n].ears = calls[n].ears
              /\ calls'[n].stage = "answered" => calls'[n] = calls[n]
<1>1. Typed /\ calls \in Seq(CallSet) /\ \A n \in DOMAIN calls : calls[n] \in CallSet
  BY DEF SqlIInv, Typed
<1>2. calls' \in Seq(CallSet) /\ DOMAIN calls' = DOMAIN calls
  BY <1>1, Dying
<1>3. ASSUME NEW n \in DOMAIN calls
      PROVE  /\ Static(n) /\ (Rests(n) \/ Ends(n)) /\ ~Opens(n)
             /\ calls'[n].ears = calls[n].ears
             /\ calls'[n].stage = "answered" => calls'[n] = calls[n]
  <2>1. CASE calls[n].stage \in {"sent", "copying", "verified"}
    <3>1. calls'[n] = [calls[n] EXCEPT !.stage = "dead"]
      BY <1>1, <2>1, Dying
    <3>2. /\ calls'[n].stage = "dead" /\ calls'[n].approval = calls[n].approval
          /\ calls'[n].ears = calls[n].ears /\ Static(n)
      BY <1>1, <3>1 DEF Static, CallSet
    <3> QED
      BY <2>1, <3>2 DEF Ends, Opens
  <2>2. CASE calls[n].stage \notin {"sent", "copying", "verified"}
    <3>1. calls'[n] = calls[n]
      BY <1>1, <2>2, Dying
    <3> QED
      BY <2>2, <3>1 DEF Static, Rests, Opens
  <2> QED
    BY <2>1, <2>2
<1> QED
  BY <1>1, <1>2, <1>3 DEF StepShape, Typed

LEMMA PanelFacts ==
  ASSUME SqlIInv, NEW w \in Windows
  PROVE  /\ panel \in [Windows -> PanelSet] /\ panel[w] \in PanelSet /\ Shows(w)
         /\ panel[w].open \in BOOLEAN /\ panel[w].ready \in BOOLEAN /\ panel[w].busy \in BOOLEAN
         /\ panel[w].chosen \in Id /\ panel[w].query \in Queries
         /\ panel[w].preview # None => panel[w].preview \in Preview
         /\ panel[w].result # None => panel[w].result \in Result
         /\ panel[w].editor # None => panel[w].editor \in Editor
BY DEF SqlIInv, Typed, PanelSet

(* A call that a panel makes has its source.                                  *)
LEMMA PreviewShape ==
  ASSUME SqlIInv, UNCHANGED <<store, dirs>>, NEW w \in Windows,
         NEW id \in Id, NEW query \in Queries,
         calls' = Append(calls, Call("preview", w, id, query, None))
  PROVE  /\ StepShape /\ \A n \in DOMAIN calls : calls'[n] = calls[n]
         /\ \A n \in DOMAIN calls' \ DOMAIN calls :
              calls'[n].kind = "preview" /\ calls'[n].w = w /\ calls'[n].stage = "sent" /\ calls'[n].query = query
         /\ \A m, n \in DOMAIN calls' \ DOMAIN calls : m = n
<1> DEFINE c == Call("preview", w, id, query, None)
<1>1. /\ c \in CallSet /\ c.kind = "preview" /\ c.w = w /\ c.stage = "sent" /\ c.id = id
      /\ c.query = query /\ c.from = None /\ c.approval = None
  BY Calling DEF Sources
<1>2. calls' = Append(calls, c)
  OBVIOUS
<1> HIDE DEF c
<1>3. Sourced(c)
  BY <1>1 DEF Sourced
<1> QED
  BY <1>1, <1>2, <1>3, AppendShape

LEMMA ExecuteShape ==
  ASSUME SqlIInv, UNCHANGED <<store, dirs>>, NEW w \in Windows,
         NEW p \in Preview, Previewed(p.cid),
         calls' = Append(calls, Call("execute", w, p.id, p.query, p))
  PROVE  /\ StepShape /\ \A n \in DOMAIN calls : calls'[n] = calls[n]
         /\ \A n \in DOMAIN calls' \ DOMAIN calls :
              calls'[n].kind = "execute" /\ calls'[n].w = w /\ calls'[n].stage = "sent" /\ calls'[n].from = p
         /\ \A m, n \in DOMAIN calls' \ DOMAIN calls : m = n
<1> DEFINE c == Call("execute", w, p.id, p.query, p)
<1>1. /\ c \in CallSet /\ c.kind = "execute" /\ c.w = w /\ c.stage = "sent" /\ c.id = p.id
      /\ c.query = p.query /\ c.from = p /\ c.approval = None
  BY Calling DEF Sources, Preview
<1>2. calls' = Append(calls, c)
  OBVIOUS
<1> HIDE DEF c
<1>3. Sourced(c)
  BY <1>1 DEF Sourced
<1> QED
  BY <1>1, <1>2, <1>3, AppendShape

LEMMA ContextShape ==
  ASSUME SqlIInv, UNCHANGED <<store, dirs>>, NEW w \in Windows,
         NEW id \in Id,
         calls' = Append(calls, Call("context", w, id, None, None))
  PROVE  /\ StepShape /\ \A n \in DOMAIN calls : calls'[n] = calls[n]
         /\ \A n \in DOMAIN calls' \ DOMAIN calls :
              calls'[n].kind = "context" /\ calls'[n].w = w /\ calls'[n].stage = "sent"
         /\ \A m, n \in DOMAIN calls' \ DOMAIN calls : m = n
<1> DEFINE c == Call("context", w, id, None, None)
<1>1. /\ c \in CallSet /\ c.kind = "context" /\ c.w = w /\ c.stage = "sent" /\ c.id = id
      /\ c.query = None /\ c.from = None /\ c.approval = None
  BY Calling DEF Sources
<1>2. calls' = Append(calls, c)
  OBVIOUS
<1> HIDE DEF c
<1>3. Sourced(c)
  BY <1>1 DEF Sourced
<1> QED
  BY <1>1, <1>2, <1>3, AppendShape

LEMMA SaveShape ==
  ASSUME SqlIInv, UNCHANGED <<store, dirs>>, NEW w \in Windows,
         NEW f \in Editor, Sound(f),
         calls' = Append(calls, Call("save", w, f.id, None, f))
  PROVE  /\ StepShape /\ \A n \in DOMAIN calls : calls'[n] = calls[n]
         /\ \A n \in DOMAIN calls' \ DOMAIN calls :
              calls'[n].kind = "save" /\ calls'[n].w = w /\ calls'[n].stage = "sent"
         /\ \A m, n \in DOMAIN calls' \ DOMAIN calls : m = n
<1> DEFINE c == Call("save", w, f.id, None, f)
<1>1. /\ c \in CallSet /\ c.kind = "save" /\ c.w = w /\ c.stage = "sent" /\ c.id = f.id
      /\ c.query = None /\ c.from = f /\ c.approval = None
  BY Calling DEF Sources, Editor
<1>2. calls' = Append(calls, c)
  OBVIOUS
<1> HIDE DEF c
<1>3. Sourced(c)
  BY <1>1 DEF Sourced
<1> QED
  BY <1>1, <1>2, <1>3, AppendShape

LEMMA ResendShape ==
  ASSUME SqlIInv, Resend
  PROVE  /\ StepShape /\ \A n \in DOMAIN calls : calls'[n] = calls[n]
         /\ \A n \in DOMAIN calls' \ DOMAIN calls : ~Hears(calls'[n])
<1>1. PICK n \in DOMAIN calls :
        /\ calls[n].kind = "execute"
        /\ calls' = Append(calls, [Call("execute", calls[n].w, calls[n].id, calls[n].query,
                                        calls[n].from) EXCEPT !.ears = "shut"])
  BY DEF Resend
<1> DEFINE c == Call("execute", calls[n].w, calls[n].id, calls[n].query, calls[n].from)
           d == [c EXCEPT !.ears = "shut"]
<1>2. /\ calls[n].w \in Windows /\ calls[n].id \in Id /\ calls[n].from \in Preview
      /\ Previewed(calls[n].from.cid) /\ calls[n].query = calls[n].from.query
      /\ calls[n].id = calls[n].from.id
  BY <1>1, CallFacts DEF Sourced
<1>3. /\ c \in CallSet /\ c.kind = "execute" /\ c.stage = "sent" /\ c.approval = None
      /\ c.id = calls[n].id /\ c.query = calls[n].query /\ c.from = calls[n].from
  BY <1>2, Calling DEF Sources, Preview
<1> HIDE DEF c
<1>4. d \in CallSet
  BY <1>3, CallUpdates
<1>5. /\ d.kind = "execute" /\ d.stage = "sent" /\ d.approval = None /\ d.ears = "shut"
      /\ d.id = calls[n].id /\ d.query = calls[n].query /\ d.from = calls[n].from
  BY <1>3 DEF CallSet
<1>6. calls' = Append(calls, d) /\ UNCHANGED <<store, dirs>>
  BY <1>1 DEF Resend, c
<1> HIDE DEF d
<1>7. Sourced(d)
  BY <1>2, <1>5 DEF Sourced
<1>8. /\ StepShape /\ \A m \in DOMAIN calls : calls'[m] = calls[m]
      /\ DOMAIN calls' = DOMAIN calls \union {Len(calls) + 1} /\ calls'[Len(calls) + 1] = d
  BY <1>4, <1>5, <1>6, <1>7, AppendShape
<1> QED
  BY <1>5, <1>8 DEF Hears

LEMMA LoseSaveShape ==
  ASSUME SqlIInv, NEW n \in DOMAIN calls, LoseSave(n)
  PROVE  /\ StepShape /\ \A m \in DOMAIN calls \ {n} : calls'[m] = calls[m]
         /\ ~Hears(calls'[n]) /\ calls'[n].stage = calls[n].stage
         /\ \A m \in DOMAIN calls' \ DOMAIN calls :
              calls'[m].kind = "context" /\ calls'[m].w = calls[n].w /\ calls'[m].stage = "sent"
         /\ \A l, m \in DOMAIN calls' \ DOMAIN calls : l = m
<1> PICK w, id : w = calls[n].w /\ id = calls[n].id
  OBVIOUS
<1> DEFINE c == Call("context", w, id, None, None)
<1>1. calls' = Append(Heard(n), c) /\ UNCHANGED <<store, dirs>>
  BY DEF LoseSave
<1>2. Typed /\ calls \in Seq(CallSet) /\ calls[n] \in CallSet /\ dirs \subseteq DOMAIN calls
  BY DEF SqlIInv, Typed
<1>3. /\ Heard(n) \in Seq(CallSet) /\ DOMAIN Heard(n) = DOMAIN calls
      /\ \A m \in DOMAIN calls \ {n} : Heard(n)[m] = calls[m]
      /\ Heard(n)[n] = [calls[n] EXCEPT !.ears = "shut", !.reply = None]
  BY <1>2, Shutting
<1>4. w \in Windows /\ id \in Id
  BY CallFacts
<1>5. /\ c \in CallSet /\ c.kind = "context" /\ c.w = w /\ c.stage = "sent"
      /\ c.approval = None
  BY <1>4, Calling DEF Sources
<1> HIDE DEF c
<1>12. Sourced(c)
  BY <1>5 DEF Sourced
<1> DEFINE k == Len(Heard(n)) + 1
<1>6. /\ calls' \in Seq(CallSet) /\ DOMAIN calls' = DOMAIN calls \union {k} /\ k \notin DOMAIN calls
      /\ \A m \in DOMAIN calls : calls'[m] = Heard(n)[m]
      /\ calls'[k] = c
  BY <1>1, <1>3, <1>5, Appending
<1> HIDE DEF k
<1>7. calls'[n] = [calls[n] EXCEPT !.ears = "shut", !.reply = None]
  BY <1>3, <1>6
<1>8. /\ calls'[n].stage = calls[n].stage /\ calls'[n].approval = calls[n].approval
      /\ calls'[n].copy = calls[n].copy /\ calls'[n].ears = "shut" /\ Static(n)
  BY <1>2, <1>7 DEF Static, CallSet
<1>9. \A m \in DOMAIN calls : m \in DOMAIN calls' /\ Static(m) /\ Rests(m)
  BY <1>1, <1>3, <1>6, <1>8 DEF Static, Rests
<1>10. Fresh(k)
  BY <1>1, <1>2, <1>5, <1>6, <1>12 DEF Fresh
<1>11. StepShape
  BY <1>1, <1>2, <1>6, <1>9, <1>10, RestShape
<1> QED
  BY <1>3, <1>5, <1>6, <1>8, <1>11 DEF Hears

LEMMA ApprovedFacts ==
  ASSUME SqlIInv
  PROVE  /\ Approved \in Approval /\ Approved # None
         /\ Approved.version = file.version /\ Approved.bytes = file.bytes
         /\ IF approval = None THEN Approved.id = approvals + 1 ELSE Approved.id = approval.id
         /\ Approved.id \in Id
<1>1. /\ file \in [version : Nat, bytes : Contents] /\ approvals \in Nat
      /\ approval \in Approval \union {None}
  BY DEF SqlIInv, Typed
<1>2. CASE approval = None
  <2>1. Approved = [id |-> approvals + 1, version |-> file.version, bytes |-> file.bytes]
    BY <1>2 DEF Approved
  <2> QED
    BY <1>1, <1>2, <2>1, NoneIsNoRecord DEF Approval, Id
<1>3. CASE approval # None
  <2>1. Approved = [approval EXCEPT !.version = file.version, !.bytes = file.bytes]
    BY <1>3 DEF Approved
  <2>2. /\ Approved = [id |-> approval.id, version |-> file.version, bytes |-> file.bytes]
        /\ approval.id \in Nat
    BY <1>1, <1>3, <2>1 DEF Approval
  <2> QED
    BY <1>1, <1>3, <2>2, NoneIsNoRecord DEF Approval, Id
<1> QED
  BY <1>2, <1>3

LEMMA PanelShape ==
  ASSUME SqlIInv, NEW w \in Windows, PanelStep(w)
  PROVE  StepShape
<1>1. CASE OpenPanel(w) \/ FirstList(w) \/ TypeQuery(w) \/ RevokeFile(w) \/ RejectPreview(w)
           \/ CloseContext(w)
  BY <1>1, SameShape DEF OpenPanel, FirstList, TypeQuery, RevokeFile, RejectPreview, CloseContext
<1>2. CASE ClosePanel(w)
  BY <1>2, IgnoredShape DEF ClosePanel
<1>3. CASE RevokeCrashes(w)
  BY <1>3, CrashShape DEF RevokeCrashes
<1>4. CASE ApproveFile(w)
  <2>1. UNCHANGED <<store, dirs>>
    BY <1>4 DEF ApproveFile
  <2>2. \/ UNCHANGED calls
        \/ calls' = Append(calls, Call("context", w, Approved.id, None, None))
    BY <1>4 DEF ApproveFile
  <2>3. CASE UNCHANGED calls
    BY <2>1, <2>3, SameShape
  <2>4. CASE calls' = Append(calls, Call("context", w, Approved.id, None, None))
    BY <2>1, <2>4, ContextShape, ApprovedFacts
  <2> QED
    BY <2>2, <2>3, <2>4
<1>5. CASE AskPreview(w)
  BY <1>5, PreviewShape, PanelFacts DEF AskPreview, Ask
<1>6. CASE RunOnce(w)
  <2>1. /\ panel[w].preview \in Preview /\ Previewed(panel[w].preview.cid)
        /\ panel[w].preview.id \in Id
    BY <1>6, PanelFacts DEF RunOnce, Shows, Preview
  <2>2. calls' = Append(calls, Call("execute", w, panel[w].preview.id, panel[w].preview.query,
                                    panel[w].preview))
    BY <1>6 DEF RunOnce, Ask
  <2> QED
    BY <1>6, <2>1, <2>2, ExecuteShape DEF RunOnce
<1>7. CASE OpenContext(w)
  BY <1>7, ContextShape, PanelFacts DEF OpenContext, Ask
<1>8. CASE SendContext(w)
  <2>1. /\ panel[w].editor \in Editor /\ Sound(panel[w].editor) /\ panel[w].editor.id \in Id
    BY <1>8, PanelFacts DEF SendContext, Shows, Editor
  <2>2. calls' = Append(calls, Call("save", w, panel[w].editor.id, None, panel[w].editor))
    BY <1>8 DEF SendContext, Ask
  <2> QED
    BY <1>8, <2>1, <2>2, SaveShape DEF SendContext
<1> QED
  BY <1>1, <1>2, <1>3, <1>4, <1>5, <1>6, <1>7, <1>8 DEF PanelStep

LEMMA Shape == ASSUME SqlIInv, [Next]_vars PROVE StepShape
<1>1. CASE UNCHANGED vars
  BY <1>1, SameShape DEF vars
<1>2. CASE WriteFile
  BY <1>2, SameShape DEF WriteFile
<1>3. CASE Crash
  BY <1>3, CrashShape DEF Crash
<1>4. CASE Resend
  BY <1>4, ResendShape
<1>5. ASSUME NEW w \in Windows, PanelStep(w) PROVE StepShape
  BY <1>5, PanelShape
<1>6. ASSUME NEW n \in DOMAIN calls, ServerStep(n) PROVE StepShape
  BY <1>6, ServerShape
<1>7. ASSUME NEW n \in DOMAIN calls, Reply(n) \/ Lose(n) PROVE StepShape
  BY <1>7, HeardShape DEF Reply, Lose
<1>8. ASSUME NEW n \in DOMAIN calls, LoseSave(n) PROVE StepShape
  BY <1>8, LoseSaveShape
<1> QED
  BY <1>1, <1>2, <1>3, <1>4, <1>5, <1>6, <1>7, <1>8 DEF Next

-----------------------------------------------------------------------------
(* What a step leaves true of calls, previews, approvals and contexts.        *)
LEMMA Later ==
  ASSUME SqlIInv, StepShape
  PROVE  /\ \A n \in DOMAIN calls :
              /\ n \in DOMAIN calls'
              /\ calls[n].approval # None => calls'[n].approval = calls[n].approval
              /\ calls[n].stage = "answered" => calls'[n].stage = "answered"
         /\ \A cid : Previewed(cid) => Previewed(cid)'
<1>1. ASSUME NEW n \in DOMAIN calls
      PROVE  /\ n \in DOMAIN calls' /\ Static(n)
             /\ calls[n].approval # None => calls'[n].approval = calls[n].approval
             /\ calls[n].stage = "answered" => calls'[n].stage = "answered"
  <2>1. n \in DOMAIN calls' /\ Static(n) /\ (Rests(n) \/ Opens(n) \/ Verifies(n) \/ Ends(n))
    BY DEF StepShape
  <2>2. Opened(n)
    BY DEF SqlIInv
  <2> QED
    BY <2>1, <2>2 DEF Rests, Opens, Verifies, Ends, Opened
<1> QED
  BY <1>1 DEF Previewed, Static

Saving(n) ==
  /\ calls[n].kind = "save" /\ calls[n].stage = "verified" /\ calls'[n].stage = "answered"
  /\ Saves(calls[n])
  /\ memory' = [id |-> approval.id, bytes |-> approval.bytes,
                revision |-> Context(approval).revision + 1, by |-> n]
  /\ UNCHANGED <<file, approval, approvals, faults, closes>>

Revoking(w) ==
  /\ approval # None /\ panel[w].chosen = approval.id /\ approval' = None
  /\ UNCHANGED <<file, approvals, closes>>
  /\ \/ memory' = Without(panel[w].chosen)
     \/ memory' = memory /\ "crash" \in faults'

Approving ==
  approval' = Approved /\ approvals < MaxApprovals /\ approvals' = approvals + 1
  /\ UNCHANGED <<file, memory, closes>>

LEMMA SaveContextWorld ==
  ASSUME SqlIInv, NEW n \in DOMAIN calls, SaveContext(n)
  PROVE  Saving(n) \/ UNCHANGED <<file, approval, approvals, memory, faults, closes>>
<1> DEFINE c == calls[n]
           m == [id |-> c.approval.id, bytes |-> c.approval.bytes,
                 revision |-> Context(c.approval).revision + 1, by |-> n]
<1>1. c.stage = "verified" /\ c.kind = "save" /\ UNCHANGED <<file, approval, approvals, faults, closes>>
  BY DEF SaveContext
<1>2. CASE Saves(c)
  <2>1. memory' = m /\ Answer(n, m)
    BY <1>2 DEF SaveContext
  <2>2. m \in Replies
    BY <1>1, ReplyTyped DEF Replies
  <2>3. calls'[n].stage = "answered"
    BY <2>1, <2>2, Answering DEF SqlIInv, Typed
  <2>4. c.approval = approval
    BY <1>2 DEF Saves
  <2> QED
    BY <1>1, <1>2, <2>1, <2>3, <2>4 DEF Saving
<1>3. CASE ~Saves(c)
  BY <1>1, <1>3 DEF SaveContext
<1> QED
  BY <1>2, <1>3

LEMMA ServerWorld ==
  ASSUME SqlIInv, NEW n \in DOMAIN calls, ServerStep(n)
  PROVE  \/ Saving(n)
         \/ /\ UNCHANGED <<file, approval, approvals, memory, closes>>
            /\ UNCHANGED faults \/ Goes("work")
<1>1. CASE Begin(n) \/ BeginConfirmed(n) \/ CloseSnapshot(n) \/ SavePreview(n) \/ RunQuery(n)
           \/ ReadContext(n)
  BY <1>1 DEF Begin, BeginConfirmed, CloseSnapshot, SavePreview, RunQuery, ReadContext
<1>2. CASE Fail(n)
  BY <1>2 DEF Fail
<1>3. CASE SaveContext(n)
  BY <1>3, SaveContextWorld
<1> QED
  BY <1>1, <1>2, <1>3 DEF ServerStep

LEMMA PanelWorld ==
  ASSUME SqlIInv, NEW w \in Windows, PanelStep(w)
  PROVE  /\ Revoking(w) \/ Approving
            \/ /\ UNCHANGED <<file, approval, approvals, memory>>
               /\ UNCHANGED closes \/ (closes < MaxCloses /\ closes' = closes + 1)
         /\ UNCHANGED faults \/ Goes("list") \/ Goes("crash")
<1>1. CASE OpenPanel(w) \/ FirstList(w) \/ TypeQuery(w) \/ RejectPreview(w)
           \/ CloseContext(w) \/ AskPreview(w) \/ RunOnce(w) \/ OpenContext(w) \/ SendContext(w)
           \/ ClosePanel(w)
  BY <1>1 DEF OpenPanel, FirstList, TypeQuery, RejectPreview, CloseContext, AskPreview,
              RunOnce, OpenContext, SendContext, ClosePanel, Refresh
<1>2. CASE RevokeFile(w) \/ RevokeCrashes(w)
  BY <1>2 DEF RevokeFile, RevokeCrashes, Revoking, Refresh, ApprovedId, Goes
<1>3. CASE ApproveFile(w)
  BY <1>3 DEF ApproveFile, Approving, Refresh
<1> QED
  BY <1>1, <1>2, <1>3 DEF PanelStep

(* Everything a step may do to the file, the approval and the context.        *)
WorldStep ==
  /\ \/ UNCHANGED <<file, approval, approvals, memory>>
     \/ /\ \E b \in Contents : file' = [version |-> file.version + 1, bytes |-> b]
        /\ file.version < MaxWrites /\ UNCHANGED <<approval, approvals, memory>>
     \/ \E n \in DOMAIN calls : Saving(n)
     \/ \E w \in Windows : Revoking(w)
     \/ Approving
  /\ UNCHANGED faults \/ \E wrong \in {"crash", "work", "reply", "list"} : Goes(wrong)
  /\ UNCHANGED closes \/ (closes < MaxCloses /\ closes' = closes + 1)

LEMMA World == ASSUME SqlIInv, [Next]_vars PROVE WorldStep
<1>1. CASE UNCHANGED vars
  BY <1>1 DEF vars, WorldStep
<1>2. CASE WriteFile
  BY <1>2 DEF WriteFile, WorldStep
<1>3. CASE Crash \/ Resend
  BY <1>3 DEF Crash, Resend, WorldStep
<1>4. ASSUME NEW w \in Windows, PanelStep(w) PROVE WorldStep
  BY <1>4, PanelWorld DEF WorldStep, Revoking, Approving
<1>5. ASSUME NEW n \in DOMAIN calls, ServerStep(n) PROVE WorldStep
  BY <1>5, ServerWorld DEF WorldStep, Saving
<1>6. ASSUME NEW n \in DOMAIN calls, Reply(n) \/ Lose(n) \/ LoseSave(n) PROVE WorldStep
  BY <1>6 DEF Reply, Lose, LoseSave, WorldStep
<1> QED
  BY <1>1, <1>2, <1>3, <1>4, <1>5, <1>6 DEF Next

LEMMA WorldTyped ==
  ASSUME SqlIInv, StepShape, WorldStep
  PROVE  /\ file' \in [version : Nat, bytes : Contents]
         /\ approval' \in Approval \union {None} /\ approvals' \in Nat
         /\ memory' \in Memory \union {None} /\ store' \subseteq Preview
<1>1. /\ file \in [version : Nat, bytes : Contents] /\ approvals \in Nat
      /\ approval \in Approval \union {None} /\ memory \in Memory \union {None}
      /\ store \subseteq Preview /\ Typed
  BY DEF SqlIInv, Typed
<1>2. store' \subseteq Preview
  BY <1>1 DEF StepShape, Saved
<1>3. ASSUME NEW n \in DOMAIN calls, Saving(n) PROVE memory' \in Memory
  <2>1. calls[n].approval = approval /\ calls[n].approval # None /\ n \in Nat
    BY <1>3, CallFacts DEF Saving, Saves, Opened
  <2>2. approval.id \in Nat /\ approval.bytes \in Contents
    BY <1>1, <2>1 DEF Approval
  <2>3. Context(approval).revision + 1 \in Nat
    BY <1>1, ContextTyped
  <2>4. memory' = [id |-> approval.id, bytes |-> approval.bytes,
                   revision |-> Context(approval).revision + 1, by |-> n]
    BY <1>3 DEF Saving
  <2> QED
    BY <2>1, <2>2, <2>3, <2>4 DEF Memory
<1>4. ASSUME NEW w \in Windows, Revoking(w)
      PROVE  memory' \in Memory \union {None} /\ approval' = None
  BY <1>1, <1>4 DEF Revoking, Without
<1>5. ASSUME NEW b \in Contents, file' = [version |-> file.version + 1, bytes |-> b]
      PROVE  file' \in [version : Nat, bytes : Contents]
  BY <1>1, <1>5
<1>6. CASE Approving
  BY <1>1, <1>2, <1>6, ApprovedFacts DEF Approving
<1>7. CASE UNCHANGED <<file, approval, approvals, memory>>
  BY <1>1, <1>2, <1>7
<1>8. CASE \E n \in DOMAIN calls : Saving(n)
  BY <1>1, <1>2, <1>3, <1>8 DEF Saving
<1>9. CASE \E w \in Windows : Revoking(w)
  BY <1>1, <1>2, <1>4, <1>9 DEF Revoking
<1>10. CASE /\ \E b \in Contents : file' = [version |-> file.version + 1, bytes |-> b]
            /\ file.version < MaxWrites /\ UNCHANGED <<approval, approvals, memory>>
  BY <1>1, <1>2, <1>5, <1>10
<1> QED
  BY <1>6, <1>7, <1>8, <1>9, <1>10 DEF WorldStep

LEMMA FileKept ==
  ASSUME SqlIInv, StepShape, WorldStep
  PROVE  /\ file' \in [version : 0 .. MaxWrites, bytes : Contents]
         /\ approvals' \in 0 .. MaxApprovals
         /\ approval' # None => approval'.id \in 1 .. approvals' /\ approval'.version \in 0 .. file'.version
         /\ FileApproved'
<1>1. /\ file \in [version : 0 .. MaxWrites, bytes : Contents] /\ approvals \in 0 .. MaxApprovals
      /\ approval # None => approval.id \in 1 .. approvals /\ approval.version \in 0 .. file.version
      /\ FileApproved /\ MaxWrites \in Nat /\ MaxApprovals \in Nat
  BY SqlConstants DEF SqlIInv, TypeOK
<1>2. CASE UNCHANGED <<file, approval, approvals, memory>>
  BY <1>1, <1>2 DEF FileApproved
<1>3. CASE /\ \E b \in Contents : file' = [version |-> file.version + 1, bytes |-> b]
           /\ file.version < MaxWrites /\ UNCHANGED <<approval, approvals, memory>>
  <2>1. PICK b \in Contents : file' = [version |-> file.version + 1, bytes |-> b]
    BY <1>3
  <2>2. file'.version = file.version + 1 /\ file'.version \in 0 .. MaxWrites
    BY <1>1, <1>3, <2>1
  <2>3. approval # None => approval.version # file'.version /\ approval.version \in 0 .. file'.version
    BY <1>1, <2>2
  <2>4. file' \in [version : 0 .. MaxWrites, bytes : Contents]
    BY <2>1, <2>2
  <2> QED
    BY <1>1, <1>3, <2>3, <2>4 DEF FileApproved
<1>4. CASE \E n \in DOMAIN calls : Saving(n)
  BY <1>1, <1>4 DEF Saving, FileApproved
<1>5. CASE \E w \in Windows : Revoking(w)
  BY <1>1, <1>5 DEF Revoking, FileApproved
<1>6. CASE Approving
  <2>1. /\ approval' = Approved /\ approvals' = approvals + 1 /\ approvals' \in 0 .. MaxApprovals
        /\ UNCHANGED file
    BY <1>1, <1>6 DEF Approving
  <2>2. Approved.id \in 1 .. approvals'
    BY <1>1, <2>1, ApprovedFacts
  <2> QED
    BY <1>1, <2>1, <2>2, ApprovedFacts DEF FileApproved
<1> QED
  BY <1>2, <1>3, <1>4, <1>5, <1>6 DEF WorldStep

LEMMA TaughtKept == ASSUME SqlIInv, StepShape, WorldStep PROVE TaughtIsApproved'
<1>1. TaughtIsApproved /\ faults \subseteq faults'
  BY DEF SqlIInv, WorldStep, Goes
<1>2. CASE UNCHANGED <<approval, memory>>
  BY <1>1, <1>2 DEF TaughtIsApproved, ApprovedId
<1>3. CASE \E n \in DOMAIN calls : Saving(n)
  <2>1. PICK n \in DOMAIN calls : Saving(n)
    BY <1>3
  <2>2. approval # None
    BY <2>1, CallFacts DEF Saving, Saves, Opened
  <2> QED
    BY <2>1, <2>2 DEF Saving, TaughtIsApproved, ApprovedId
<1>4. CASE \E w \in Windows : Revoking(w)
  BY <1>1, <1>4 DEF Revoking, Without, TaughtIsApproved, ApprovedId
<1>5. CASE Approving
  <2>1. approval' = Approved /\ UNCHANGED memory
    BY <1>5 DEF Approving
  <2>2. approval # None => approval'.id = approval.id /\ approval' # None
    BY <2>1, ApprovedFacts
  <2>3. memory \in Memory \union {None}
    BY DEF SqlIInv, Typed
  <2>4. memory # None => memory.id # None
    BY <2>3, SqlConstants DEF Memory
  <2> QED
    BY <1>1, <2>1, <2>2, <2>4 DEF TaughtIsApproved, ApprovedId
<1> QED
  BY <1>2, <1>3, <1>4, <1>5 DEF WorldStep

LEMMA TypeKept == ASSUME SqlIInv, StepShape, WorldStep PROVE TypeOK'
<1>1. SqlIInv /\ TypeOK
  BY DEF SqlIInv
<1>2. memory' # None => memory'.id \in 1 .. approvals' /\ memory'.by \in DOMAIN calls'
  <2>1. memory # None => memory.by \in DOMAIN calls'
    BY <1>1, Later DEF TypeOK
  <2>2. /\ approvals \in Nat
        /\ memory # None => memory.id \in 1 .. approvals
        /\ approval # None => approval.id \in 1 .. approvals
    BY <1>1 DEF TypeOK
  <2>3. CASE UNCHANGED <<approvals, memory>>
    BY <2>1, <2>2, <2>3
  <2>4. CASE \E n \in DOMAIN calls : Saving(n)
    <3>1. PICK n \in DOMAIN calls : Saving(n)
      BY <2>4
    <3>2. approval # None /\ n \in DOMAIN calls'
      BY <3>1, CallFacts, Later DEF Saving, Saves, Opened
    <3> QED
      BY <2>2, <3>1, <3>2 DEF Saving
  <2>5. CASE \E w \in Windows : Revoking(w)
    BY <2>1, <2>2, <2>5 DEF Revoking, Without
  <2>6. CASE Approving
    BY <2>1, <2>2, <2>6 DEF Approving
  <2> QED
    BY <2>3, <2>4, <2>5, <2>6 DEF WorldStep
<1>3. \A s \in store' : s.cid \in DOMAIN calls' /\ s.bytes \in Contents /\ s.query \in Queries
  <2>1. \A s \in store' : s \in Preview
    BY WorldTyped
  <2>2. \A s \in store' : s.cid \in DOMAIN calls
    BY <1>1 DEF StepShape, Saved, TypeOK
  <2> QED
    BY <2>1, <2>2, Later DEF Preview
<1>4. closes' \in 0 .. MaxCloses /\ faults' \subseteq {"crash", "work", "reply", "list"}
  <2>1. MaxCloses \in Nat /\ closes \in 0 .. MaxCloses
    BY <1>1, SqlConstants DEF TypeOK
  <2>2. UNCHANGED closes \/ (closes < MaxCloses /\ closes' = closes + 1)
    BY DEF WorldStep
  <2>3. faults \subseteq {"crash", "work", "reply", "list"}
    BY <1>1 DEF TypeOK
  <2>4. \/ UNCHANGED faults
        \/ \E wrong \in {"crash", "work", "reply", "list"} : faults' = faults \union {wrong}
    BY DEF WorldStep, Goes
  <2>5. faults' \subseteq {"crash", "work", "reply", "list"}
    BY <2>3, <2>4
  <2> QED
    BY <2>1, <2>2, <2>5
<1> QED
  BY <1>2, <1>3, <1>4, FileKept DEF TypeOK

LEMMA OlderKept ==
  ASSUME SqlIInv, WorldStep, NEW a \in Approval, Older(a)
  PROVE  a.id <= approvals' /\ (approval' # None /\ approval'.id = a.id => a.version <= approval'.version)
<1>1. /\ a.id \in Nat /\ a.version \in Nat /\ approvals \in Nat
      /\ approval # None => approval.version \in 0 .. file.version /\ approval.version \in Nat
      /\ file.version \in Nat
  BY DEF SqlIInv, Typed, TypeOK, Approval
<1>2. CASE UNCHANGED <<approval, approvals>>
  BY <1>2 DEF Older
<1>3. CASE \E w \in Windows : Revoking(w)
  BY <1>3 DEF Revoking, Older
<1>4. CASE Approving
  <2>1. approval' = Approved /\ approvals' = approvals + 1
    BY <1>4 DEF Approving
  <2>2. CASE approval = None
    BY <1>1, <2>1, <2>2, ApprovedFacts DEF Older
  <2>3. CASE approval # None
    BY <1>1, <2>1, <2>3, ApprovedFacts DEF Older
  <2> QED
    BY <2>2, <2>3
<1> QED
  BY <1>2, <1>3, <1>4 DEF WorldStep, Saving

LEMMA SoundKept ==
  ASSUME SqlIInv, StepShape, WorldStep
  PROVE  \A f \in Editor : Sound(f) => Sound(f)'
<1> SUFFICES ASSUME NEW f \in Editor, Sound(f) PROVE Sound(f)'
  OBVIOUS
<1> DEFINE a == calls[f.at].approval
<1>1. /\ f.at \in DOMAIN calls' /\ a # None /\ calls'[f.at].approval = a /\ f.at \in DOMAIN calls
  BY Later DEF Sound
<1>2. a \in Approval /\ Older(a)
  BY <1>1, CallFacts DEF Opened
<1>3. f.revision \in Nat /\ Context(approval).revision \in Nat
  BY ContextTyped DEF Editor, SqlIInv
<1>4. CASE UNCHANGED <<approval, memory>>
  <2>1. Context(approval)' = Context(approval)
    BY <1>4 DEF Context
  <2> QED
    BY <1>1, <1>4, <2>1 DEF Sound
<1>5. CASE \E n \in DOMAIN calls : Saving(n)
  <2>1. PICK n \in DOMAIN calls : Saving(n)
    BY <1>5
  <2>2. approval' = approval /\ memory' # None /\ approval # None
    <3>1. approval # None /\ n \in Nat
      BY <2>1, CallFacts DEF Saving, Saves, Opened
    <3>2. approval.id \in Nat /\ approval.bytes \in Contents
      BY <3>1 DEF SqlIInv, Typed, Approval
    <3>3. memory' \in Memory
      BY <1>3, <2>1, <3>1, <3>2 DEF Saving, Memory
    <3> QED
      BY <2>1, <3>1, <3>3, NoneIsNoRecord DEF Saving, Memory
  <2>3. Context(approval)'.revision = Context(approval).revision + 1
    BY <2>1, <2>2 DEF Saving, Context
  <2> QED
    BY <1>1, <1>3, <2>2, <2>3 DEF Sound
<1>6. CASE \E w \in Windows : Revoking(w)
  BY <1>1, <1>6 DEF Revoking, Sound
<1>7. CASE Approving
  <2>1. approval' = Approved /\ UNCHANGED memory
    BY <1>7 DEF Approving
  <2>2. ASSUME approval' = a PROVE approval' = approval
    <3>1. approval # None /\ approval.id = a.id
      <4>1. approval = None => Approved.id = approvals + 1
        BY ApprovedFacts
      <4>2. a.id <= approvals /\ a.id \in Nat /\ approvals \in Nat
        BY <1>2 DEF Older, Approval, SqlIInv, Typed
      <4> QED
        BY <2>1, <2>2, <4>1, <4>2, ApprovedFacts
    <3>2. approval.version = file.version
      <4>1. a.version <= approval.version /\ a.version = file.version
        BY <1>2, <2>1, <2>2, <3>1, ApprovedFacts DEF Older
      <4>2. approval.version \in 0 .. file.version /\ file.version \in Nat
        BY <3>1 DEF SqlIInv, TypeOK, Typed
      <4> QED
        BY <4>1, <4>2
    <3>3. approval.bytes = file.bytes
      BY <3>1, <3>2 DEF SqlIInv, FileApproved
    <3>4. Approved = [approval EXCEPT !.version = file.version, !.bytes = file.bytes]
      BY <3>1 DEF Approved
    <3>5. approval \in Approval
      BY <3>1 DEF SqlIInv, Typed
    <3> QED
      BY <2>1, <3>2, <3>3, <3>4, <3>5 DEF Approval
  <2>3. approval' = a => Context(approval)' = Context(approval) /\ approval = a
    BY <2>1, <2>2 DEF Context
  <2> QED
    BY <1>1, <2>3 DEF Sound
<1> QED
  BY <1>4, <1>5, <1>6, <1>7 DEF WorldStep

LEMMA SnapshotsKept == ASSUME SqlIInv, StepShape PROVE SnapshotsHaveOwners'
<1> SUFFICES ASSUME NEW n \in DOMAIN calls'
             PROVE  /\ n \in dirs' => calls'[n].stage \in {"copying", "verified", "dead"}
                    /\ calls'[n].stage \in {"copying", "verified"} => n \in dirs'
  BY DEF SnapshotsHaveOwners
<1>1. CASE n \in DOMAIN calls
  <2>1. /\ n \in dirs => calls[n].stage \in {"copying", "verified", "dead"}
        /\ calls[n].stage \in {"copying", "verified"} => n \in dirs
    BY <1>1 DEF SqlIInv, SnapshotsHaveOwners
  <2>2. Rests(n) \/ Opens(n) \/ Verifies(n) \/ Ends(n)
    BY <1>1 DEF StepShape
  <2> QED
    BY <2>1, <2>2 DEF Rests, Opens, Verifies, Ends
<1>2. CASE n \notin DOMAIN calls
  BY <1>2 DEF StepShape, Fresh
<1> QED
  BY <1>1, <1>2

LEMMA OpenedKept ==
  ASSUME SqlIInv, StepShape, WorldStep PROVE \A n \in DOMAIN calls' : Opened(n)'
<1> SUFFICES ASSUME NEW n \in DOMAIN calls' PROVE Opened(n)'
  OBVIOUS
<1>1. CASE n \in DOMAIN calls
  <2>1. Opened(n) /\ Static(n)
    BY <1>1 DEF SqlIInv, StepShape
  <2>2. calls[n].approval # None => calls[n].approval \in Approval
    BY <1>1, CallFacts
  <2>3. Rests(n) \/ Opens(n) \/ Verifies(n) \/ Ends(n)
    BY <1>1 DEF StepShape
  <2>4. CASE Opens(n)
    <3>1. approval # None /\ approval.id = calls[n].id /\ calls'[n].approval = approval
          /\ calls'[n].stage = "copying" /\ calls'[n].id = calls[n].id
      BY <2>1, <2>4 DEF Opens, Approves, Static
    <3>2. approval \in Approval /\ approval.id <= approvals /\ approval.version \in Nat
      BY <3>1 DEF SqlIInv, Typed, TypeOK, Approval
    <3>3. Older(approval)
      BY <3>2 DEF Older
    <3>4. /\ approval.id <= approvals'
          /\ approval' # None /\ approval'.id = approval.id => approval.version <= approval'.version
      BY <3>2, <3>3, OlderKept
    <3> QED
      BY <3>1, <3>4 DEF Opened, Older
  <2>5. CASE ~Opens(n)
    <3>1. calls'[n].approval = calls[n].approval /\ calls'[n].id = calls[n].id
          /\ calls'[n].kind = calls[n].kind /\ calls'[n].from = calls[n].from
      BY <2>1, <2>3, <2>5 DEF Rests, Verifies, Ends, Static
    <3>2. calls[n].approval # None =>
            /\ calls[n].approval.id = calls[n].id /\ calls[n].approval.id <= approvals'
            /\ approval' # None /\ approval'.id = calls[n].approval.id
               => calls[n].approval.version <= approval'.version
      BY <2>1, <2>2, OlderKept DEF Opened
    <3>3. /\ calls'[n].stage = "sent" => calls[n].approval = None
          /\ calls'[n].stage \in {"copying", "verified", "answered"} => calls[n].approval # None
      BY <2>1, <2>3, <2>5 DEF Opened, Rests, Verifies, Ends
    <3>4. calls'[n].stage = "verified" =>
            /\ calls'[n].copy = <<calls[n].approval.bytes, calls[n].approval.bytes>>
            /\ calls[n].kind = "execute" => calls[n].from.bytes = calls[n].approval.bytes
      BY <2>1, <2>3, <2>5 DEF Opened, Rests, Verifies, Ends
    <3> QED
      BY <3>1, <3>2, <3>3, <3>4 DEF Opened, Older
  <2> QED
    BY <2>4, <2>5
<1>2. CASE n \notin DOMAIN calls
  BY <1>2 DEF StepShape, Fresh, Opened
<1> QED
  BY <1>1, <1>2

LEMMA SourcedKept ==
  ASSUME SqlIInv, StepShape, WorldStep PROVE \A n \in DOMAIN calls' : Sourced(calls[n])'
<1> SUFFICES ASSUME NEW n \in DOMAIN calls' PROVE Sourced(calls[n])'
  OBVIOUS
<1>1. Sourced(calls'[n])
  <2>1. CASE n \in DOMAIN calls
    BY <2>1 DEF SqlIInv, StepShape, Static, Sourced
  <2>2. CASE n \notin DOMAIN calls
    BY <2>2 DEF StepShape, Fresh
  <2> QED
    BY <2>1, <2>2
<1>2. \A cid : Previewed(cid) => Previewed(cid)'
  BY Later
<1>3. \A f \in Editor : Sound(f) => Sound(f)'
  BY SoundKept
<1>4. calls'[n].kind = "execute" =>
        /\ calls'[n].from \in Preview /\ Previewed(calls'[n].from.cid)
        /\ calls'[n].query = calls'[n].from.query /\ calls'[n].id = calls'[n].from.id
  BY <1>1 DEF Sourced
<1>5. calls'[n].kind = "save" => calls'[n].from \in Editor /\ Sound(calls'[n].from)
  BY <1>1 DEF Sourced
<1>6. calls'[n].kind = "preview" => calls'[n].query \in Queries
  BY <1>1 DEF Sourced
<1>7. \A cid : cid = calls'[n].from.cid /\ Previewed(cid) => Previewed(calls[n].from.cid)'
  BY <1>2 DEF Previewed
<1>8. \A f \in Editor : f = calls'[n].from /\ Sound(f) => Sound(calls[n].from)'
  BY <1>3 DEF Sound
<1> QED
  BY <1>4, <1>5, <1>6, <1>7, <1>8 DEF Sourced

(* A confirmation runs once: what opens a call removes its confirmation, and  *)
(* no preview that is answered makes another.                                 *)
LEMMA UsedOnceKept == ASSUME SqlIInv, StepShape PROVE UsedOnce'
<1>1. \A s \in store' : Previewed(s.cid)'
  <2> SUFFICES ASSUME NEW s \in store' PROVE Previewed(s.cid)'
    OBVIOUS
  <2>1. CASE s \in store
    BY <2>1, Later DEF SqlIInv, UsedOnce
  <2>2. CASE Saved(s)
    BY <2>2 DEF Saved, StepShape, Static, Previewed
  <2> QED
    BY <2>1, <2>2 DEF StepShape
<1>2. \A n \in DOMAIN calls' : Runs(n)' => n \in DOMAIN calls /\ Static(n) /\ (Runs(n) \/ Opens(n))
  <2> SUFFICES ASSUME NEW n \in DOMAIN calls', calls'[n].kind = "execute", calls'[n].approval # None
               PROVE  n \in DOMAIN calls /\ Static(n) /\ (Runs(n) \/ Opens(n))
    BY DEF Runs
  <2>1. n \in DOMAIN calls
    BY DEF StepShape, Fresh
  <2> QED
    BY <2>1 DEF StepShape, Static, Runs, Rests, Verifies, Ends
<1>3. ASSUME NEW n \in DOMAIN calls, Runs(n)
      PROVE  /\ \A s \in store : s.cid # calls[n].from.cid
             /\ Previewed(calls[n].from.cid)
  BY <1>3, CallFacts DEF SqlIInv, UsedOnce, Runs, Sourced
<1>4. ASSUME NEW n \in DOMAIN calls, Opens(n), calls[n].kind = "execute"
      PROVE  /\ store' = store \ {s \in store : s.cid = calls[n].from.cid}
             /\ \E s \in store : s.cid = calls[n].from.cid
  BY <1>4 DEF Opens, Consumed, Confirmed
<1>5. ASSUME NEW n \in DOMAIN calls', Runs(n)', NEW s \in store'
      PROVE  s.cid # calls'[n].from.cid
  <2>1. n \in DOMAIN calls /\ calls'[n].from = calls[n].from /\ calls[n].kind = "execute"
        /\ (Runs(n) \/ Opens(n))
    BY <1>2, <1>5 DEF Static, Runs
  <2>2. CASE Opens(n)
    BY <1>4, <2>1, <2>2
  <2>3. CASE Runs(n)
    <3>1. s \in store => s.cid # calls[n].from.cid
      BY <1>3, <2>1, <2>3
    <3>2. Saved(s) => s.cid # calls[n].from.cid
      BY <1>3, <2>1, <2>3 DEF Saved, Previewed
    <3> QED
      BY <2>1, <3>1, <3>2 DEF StepShape
  <2> QED
    BY <2>1, <2>2, <2>3
<1>6. ASSUME NEW n \in DOMAIN calls', Runs(n)', NEW m \in DOMAIN calls', Runs(m)',
             calls'[m].from.cid = calls'[n].from.cid
      PROVE  m = n
  <2>1. /\ n \in DOMAIN calls /\ calls'[n].from = calls[n].from /\ calls[n].kind = "execute"
        /\ m \in DOMAIN calls /\ calls'[m].from = calls[m].from /\ calls[m].kind = "execute"
        /\ (Runs(n) \/ Opens(n)) /\ (Runs(m) \/ Opens(m))
    BY <1>2, <1>6 DEF Static, Runs
  <2>2. calls[m].from.cid = calls[n].from.cid
    BY <1>6, <2>1
  <2>3. CASE Runs(n) /\ Runs(m)
    BY <2>1, <2>2, <2>3 DEF SqlIInv, UsedOnce
  <2>4. CASE Opens(n) /\ Opens(m)
    BY <2>1, <2>4 DEF StepShape
  <2>5. CASE Runs(n) /\ Opens(m)
    BY <1>3, <1>4, <2>1, <2>2, <2>5
  <2>6. CASE Opens(n) /\ Runs(m)
    BY <1>3, <1>4, <2>1, <2>2, <2>6
  <2> QED
    BY <2>1, <2>3, <2>4, <2>5, <2>6
<1> QED
  BY <1>1, <1>5, <1>6 DEF UsedOnce

-----------------------------------------------------------------------------
(* The panels.                                                                *)
PanelsAreSound ==
  /\ panel \in [Windows -> PanelSet]
  /\ \A n \in DOMAIN calls : Listens(n)
  /\ \A w \in Windows : Shows(w)

(* A panel goes on listening to a call.                                       *)
StillHeard(n) ==
  /\ n \in DOMAIN calls /\ Hears(calls[n])
  /\ calls'[n] = calls[n] \/ (calls'[n].stage = "answered" => Replied(calls[n])')

(* What a panel may show, and what it may ask for.                            *)
Fits(q) ==
  /\ q.preview # None => Previewed(q.preview.cid) /\ q.preview.query = q.query
  /\ q.result # None => q.result.query = q.query
  /\ q.editor # None => Sound(q.editor)

Asked(c, q) ==
  /\ q.open /\ q.busy /\ q.ready /\ c.stage = "sent"
  /\ c.kind = "preview" => c.query = q.query
  /\ c.kind = "execute" => c.from.query = q.query

LEMMA FitsKept ==
  ASSUME SqlIInv, StepShape, WorldStep, NEW q \in PanelSet, Fits(q),
         NEW w \in Windows, panel'[w] = q
  PROVE  Shows(w)'
<1>1. q.editor # None => q.editor \in Editor
  BY DEF PanelSet
<1>2. \A cid : cid = q.preview.cid /\ Previewed(cid) => Previewed(cid)'
  BY Later
<1>3. \A f \in Editor : f = q.editor /\ Sound(f) => Sound(f)'
  BY SoundKept
<1>4. q.preview # None => Previewed(panel[w].preview.cid)' /\ q.preview.query = q.query
  BY <1>2 DEF Fits, Previewed
<1>5. q.editor # None => Sound(panel[w].editor)'
  BY <1>1, <1>3 DEF Fits, Sound
<1> QED
  BY <1>4, <1>5 DEF Fits, Shows

LEMMA RepliedKept ==
  ASSUME SqlIInv, StepShape, WorldStep, NEW n \in DOMAIN calls, calls'[n] = calls[n],
         Replied(calls[n])
  PROVE  Replied(calls[n])'
<1> DEFINE r == calls[n].reply
<1>1. \A cid : cid = r.cid /\ Previewed(cid) => Previewed(cid)'
  BY Later
<1>2. \A f \in Editor : f = r /\ Sound(f) => Sound(f)'
  BY SoundKept
<1>3. calls[n].kind = "preview" =>
        r \in Preview /\ Previewed(calls[n].reply.cid)' /\ r.query = calls[n].query
  BY <1>1 DEF Replied, Previewed
<1>4. calls[n].kind = "context" => r \in Editor /\ Sound(calls[n].reply)'
  BY <1>2 DEF Replied, Sound
<1> QED
  BY <1>3, <1>4 DEF Replied

LEMMA StillListens ==
  ASSUME SqlIInv, StepShape, WorldStep, NEW n, StillHeard(n),
         panel'[calls[n].w] = panel[calls[n].w]
  PROVE  LET c == calls'[n] IN
         /\ panel'[c.w].open /\ panel'[c.w].busy /\ panel'[c.w].ready
         /\ c.kind = "preview" => c.query = panel'[c.w].query
         /\ c.kind = "execute" => c.from.query = panel'[c.w].query
         /\ c.stage = "answered" => Replied(calls[n])'
<1>1. n \in DOMAIN calls /\ Hears(calls[n]) /\ Static(n) /\ Listens(n)
  BY CallFacts DEF StillHeard, StepShape
<1>2. calls'[n].stage = "answered" => Replied(calls[n])'
  BY <1>1, RepliedKept DEF StillHeard, Listens
<1> QED
  BY <1>1, <1>2 DEF Static, Listens

LEMMA PanelsStay ==
  ASSUME SqlIInv, StepShape, WorldStep, UNCHANGED panel,
         \A n \in DOMAIN calls' : Hears(calls'[n]) => StillHeard(n)
  PROVE  PanelsAreSound'
<1>1. panel \in [Windows -> PanelSet]
  BY DEF SqlIInv, Typed
<1>2. ASSUME NEW w \in Windows PROVE Shows(w)'
  <2>1. panel[w] \in PanelSet /\ Fits(panel[w])
    BY PanelFacts DEF Shows, Fits
  <2> QED
    BY <2>1, FitsKept
<1>3. ASSUME NEW n \in DOMAIN calls', Hears(calls'[n]) PROVE Listens(n)'
  <2>1. n \in DOMAIN calls /\ Hears(calls[n]) /\ Listens(n) /\ StillHeard(n)
    BY <1>3, CallFacts DEF StillHeard
  <2>2. ASSUME NEW m \in DOMAIN calls', calls'[m].w = calls'[n].w, Hears(calls'[m]) PROVE m = n
    <3>1. m \in DOMAIN calls /\ Hears(calls[m])
      BY <2>2 DEF StillHeard
    <3>2. calls[m].w = calls[n].w
      BY <2>1, <2>2, <3>1 DEF StepShape, Static
    <3> QED
      BY <2>1, <3>1, <3>2 DEF Listens
  <2> QED
    BY <2>1, <2>2, StillListens DEF Listens
<1>4. \A n \in DOMAIN calls' : Listens(n)'
  BY <1>3 DEF Listens
<1> QED
  BY <1>1, <1>2, <1>4 DEF PanelsAreSound

LEMMA PanelTurns ==
  ASSUME SqlIInv, StepShape, WorldStep, NEW w \in Windows, NEW q \in PanelSet, Fits(q),
         panel' = [panel EXCEPT ![w] = q],
         \A n \in DOMAIN calls' : Hears(calls'[n]) =>
           \/ StillHeard(n) /\ calls[n].w # w
           \/ calls'[n].w = w /\ Asked(calls'[n], q),
         \A m, n \in DOMAIN calls' :
           Hears(calls'[m]) /\ calls'[m].w = w /\ Hears(calls'[n]) /\ calls'[n].w = w => m = n
  PROVE  PanelsAreSound'
<1>1. panel \in [Windows -> PanelSet] /\ panel' \in [Windows -> PanelSet] /\ panel'[w] = q
      /\ \A v \in Windows \ {w} : panel'[v] = panel[v]
  BY DEF SqlIInv, Typed
<1>2. ASSUME NEW v \in Windows PROVE Shows(v)'
  <2>1. CASE v = w
    BY <1>1, <2>1, FitsKept
  <2>2. CASE v # w
    <3>1. panel[v] \in PanelSet /\ Fits(panel[v]) /\ panel'[v] = panel[v]
      BY <1>1, <2>2, PanelFacts DEF Shows, Fits
    <3> QED
      BY <3>1, FitsKept
  <2> QED
    BY <2>1, <2>2
<1>3. ASSUME NEW n \in DOMAIN calls', Hears(calls'[n]) PROVE Listens(n)'
  <2>1. CASE StillHeard(n) /\ calls[n].w # w
    <3>1. n \in DOMAIN calls /\ Hears(calls[n]) /\ Listens(n) /\ calls[n].w \in Windows
          /\ calls'[n].w = calls[n].w
      BY <2>1, CallFacts DEF StillHeard, StepShape, Static
    <3>2. ASSUME NEW m \in DOMAIN calls', calls'[m].w = calls'[n].w, Hears(calls'[m]) PROVE m = n
      <4>1. m \in DOMAIN calls /\ Hears(calls[m])
        BY <2>1, <3>1, <3>2 DEF StillHeard
      <4>2. calls[m].w = calls[n].w
        BY <3>1, <3>2, <4>1 DEF StepShape, Static
      <4> QED
        BY <3>1, <4>1, <4>2 DEF Listens
    <3>3. panel'[calls[n].w] = panel[calls[n].w]
      BY <1>1, <2>1, <3>1
    <3> QED
      BY <2>1, <3>2, <3>3, StillListens DEF Listens
  <2>2. CASE calls'[n].w = w /\ Asked(calls'[n], q)
    BY <1>1, <1>3, <2>2 DEF Listens, Asked
  <2> QED
    BY <1>3, <2>1, <2>2
<1>4. \A n \in DOMAIN calls' : Listens(n)'
  BY <1>3 DEF Listens
<1> QED
  BY <1>1, <1>2, <1>4 DEF PanelsAreSound

LEMMA ServerHears ==
  ASSUME SqlIInv, NEW n \in DOMAIN calls, ServerStep(n)
  PROVE  /\ Changes(n) /\ calls'[n].ears = calls[n].ears /\ UNCHANGED panel
         /\ calls'[n].stage = "answered" => Replied(calls[n])'
<1> DEFINE c == calls[n]
<1>1. Typed /\ calls \in Seq(CallSet) /\ UNCHANGED panel
  BY DEF SqlIInv, Typed, ServerStep, Begin, BeginConfirmed, CloseSnapshot, Fail, SavePreview,
         RunQuery, ReadContext, SaveContext
<1>2. CASE Refuse(n)
  BY <1>1, <1>2, Refusing
<1>3. CASE OpenSnapshot(n)
  BY <1>1, <1>3, Opening
<1>4. CASE CloseSnapshot(n) /\ ~Refuse(n)
  <2> DEFINE copy == Append(c.copy, file.bytes)
  <2>1. calls' = [calls EXCEPT ![n].stage = "verified", ![n].copy = copy]
    BY <1>4 DEF CloseSnapshot
  <2>2. copy \in Copies
    BY <1>1, CallFacts DEF Copies, Typed
  <2> QED
    BY <1>1, <2>1, <2>2, Verifying
<1>5. CASE SavePreview(n)
  <2> DEFINE s == [cid |-> n, id |-> c.id, bytes |-> c.approval.bytes, query |-> c.query]
  <2>1. c.stage = "verified" /\ c.kind = "preview" /\ Answer(n, s)
    BY <1>5 DEF SavePreview
  <2>2. s \in Preview /\ s \in Replies /\ s.cid = n /\ s.query = c.query
    BY <2>1, ReplyTyped DEF Replies
  <2> HIDE DEF s
  <2>3. /\ Changes(n) /\ calls'[n].stage = "answered" /\ calls'[n].reply = s
        /\ calls'[n].ears = calls[n].ears
    BY <1>1, <2>1, <2>2, Answering
  <2>4. calls'[n].kind = "preview" /\ calls'[n].query = c.query /\ n \in DOMAIN calls'
    BY <2>1, <2>3 DEF Changes, Static
  <2>5. Replied(calls[n])'
    BY <2>2, <2>3, <2>4 DEF Replied, Previewed
  <2> QED
    BY <1>1, <2>3, <2>5
<1>6. CASE RunQuery(n)
  <2> DEFINE r == [query |-> c.query, copy |-> c.copy]
  <2>1. c.stage = "verified" /\ c.kind = "execute" /\ Answer(n, r)
    BY <1>6 DEF RunQuery
  <2>2. r \in Result /\ r \in Replies
    BY <2>1, ReplyTyped DEF Replies
  <2> HIDE DEF r
  <2>3. /\ Changes(n) /\ calls'[n].reply = r /\ calls'[n].ears = calls[n].ears
        /\ calls'[n].kind = "execute"
    BY <1>1, <2>1, <2>2, Answering DEF Changes, Static
  <2> QED
    BY <1>1, <2>2, <2>3 DEF Replied
<1>7. CASE ReadContext(n) /\ ~Refuse(n)
  <2> DEFINE f == [id |-> c.id, at |-> n, revision |-> Context(approval).revision,
                   by |-> Context(approval).by]
  <2>1. /\ c.stage = "verified" /\ c.kind = "context" /\ Answer(n, f) /\ approval = c.approval
        /\ UNCHANGED <<approval, memory>>
    BY <1>7 DEF ReadContext
  <2>2. f \in Editor /\ f \in Replies
    BY <2>1, ReplyTyped DEF Replies
  <2>3. /\ f.at = n /\ f.revision = Context(approval).revision /\ f.by = Context(approval).by
    OBVIOUS
  <2>4. Context(approval).revision \in Nat
    BY <1>1, ContextTyped
  <2> HIDE DEF f
  <2>5. /\ Changes(n) /\ calls'[n].reply = f /\ calls'[n].ears = calls[n].ears
        /\ calls'[n].kind = "context" /\ calls'[n].approval = c.approval /\ n \in DOMAIN calls'
    BY <1>1, <2>1, <2>2, Answering DEF Changes, Static
  <2>6. c.approval # None
    BY <2>1, CallFacts DEF Opened
  <2>7. Context(approval)' = Context(approval)
    BY <2>1 DEF Context
  <2>8. Sound(calls[n].reply)'
    BY <2>3, <2>4, <2>5, <2>6, <2>7 DEF Sound
  <2> QED
    BY <1>1, <2>2, <2>5, <2>8 DEF Replied
<1>8. CASE SaveContext(n) /\ ~Refuse(n)
  <2> DEFINE m == [id |-> c.approval.id, bytes |-> c.approval.bytes,
                   revision |-> Context(c.approval).revision + 1, by |-> n]
  <2>1. c.stage = "verified" /\ c.kind = "save" /\ Answer(n, m)
    BY <1>8 DEF SaveContext
  <2>2. m \in Replies
    BY <2>1, ReplyTyped DEF Replies
  <2> HIDE DEF m
  <2>3. Changes(n) /\ calls'[n].ears = calls[n].ears /\ calls'[n].kind = "save"
    BY <1>1, <2>1, <2>2, Answering DEF Changes, Static
  <2> QED
    BY <1>1, <2>3 DEF Replied
<1> QED
  BY <1>2, <1>3, <1>4, <1>5, <1>6, <1>7, <1>8
  DEF ServerStep, Begin, BeginConfirmed, Fail

LEMMA ServerPanels ==
  ASSUME SqlIInv, NEW n \in DOMAIN calls, ServerStep(n), StepShape, WorldStep
  PROVE  PanelsAreSound'
<1>1. ASSUME NEW m \in DOMAIN calls', Hears(calls'[m]) PROVE StillHeard(m)
  <2>1. CASE m = n
    BY <1>1, <2>1, ServerHears DEF StillHeard, Hears
  <2>2. CASE m # n
    BY <1>1, <2>2, ServerHears DEF StillHeard, Changes
  <2> QED
    BY <2>1, <2>2
<1> QED
  BY <1>1, ServerHears, PanelsStay

LEMMA QuietPanels ==
  ASSUME SqlIInv, StepShape, WorldStep, UNCHANGED panel,
         UNCHANGED calls \/ (calls' = Crashed /\ UNCHANGED <<store, dirs>>) \/ Resend
  PROVE  PanelsAreSound'
<1>1. ASSUME NEW m \in DOMAIN calls', Hears(calls'[m]) PROVE StillHeard(m)
  <2>1. CASE UNCHANGED calls
    BY <1>1, <2>1 DEF StillHeard
  <2>2. CASE calls' = Crashed /\ UNCHANGED <<store, dirs>>
    <3>1. m \in DOMAIN calls /\ calls'[m].ears = calls[m].ears
          /\ (calls'[m].stage = "answered" => calls'[m] = calls[m])
      BY <2>2, CrashShape
    <3> QED
      BY <1>1, <3>1 DEF StillHeard, Hears
  <2>3. CASE Resend
    BY <1>1, <2>3, ResendShape DEF StillHeard
  <2> QED
    BY <2>1, <2>2, <2>3
<1> QED
  BY <1>1, PanelsStay

LEMMA PanelUpdates ==
  ASSUME NEW p \in PanelSet
  PROVE  /\ \A x \in BOOLEAN : [p EXCEPT !.busy = x] \in PanelSet
         /\ \A x \in BOOLEAN : [p EXCEPT !.ready = x] \in PanelSet
         /\ \A x \in BOOLEAN : [p EXCEPT !.open = x] \in PanelSet
         /\ \A x \in Id : [p EXCEPT !.chosen = x] \in PanelSet
         /\ \A x \in Queries : [p EXCEPT !.query = x] \in PanelSet
         /\ \A x \in Preview \union {None} : [p EXCEPT !.preview = x] \in PanelSet
         /\ \A x \in Result \union {None} : [p EXCEPT !.result = x] \in PanelSet
         /\ \A x \in Editor \union {None} : [p EXCEPT !.editor = x] \in PanelSet
BY DEF PanelSet

LEMMA ClosedPanel ==
  ASSUME NEW query \in Queries
  PROVE  /\ Closed(query) \in PanelSet /\ Fits(Closed(query))
         /\ ~Closed(query).busy
BY SqlConstants DEF Closed, PanelSet, Id, Fits

LEMMA ListedPanel ==
  ASSUME NEW p \in PanelSet, NEW id \in Id
  PROVE  /\ Listing(p, id) \in PanelSet /\ Unlisted(p) \in PanelSet /\ Forgotten(p) \in PanelSet
         /\ Fits(p) => Fits(Listing(p, id)) /\ Fits(Unlisted(p))
         /\ Fits(Forgotten(p))
         /\ Listing(p, id).ready /\ Listing(p, id).open = p.open
<1>1. Listing(p, id) \in PanelSet
  BY PanelUpdates DEF Listing
<1>2. Unlisted(p) \in PanelSet
  BY PanelUpdates DEF Unlisted, Id
<1>3. Forgotten(p) \in PanelSet
  BY PanelUpdates DEF Forgotten
<1>4. /\ Listing(p, id).query = p.query /\ Listing(p, id).preview = p.preview
      /\ Listing(p, id).result = p.result /\ Listing(p, id).editor = p.editor
      /\ Listing(p, id).ready /\ Listing(p, id).open = p.open
  BY DEF Listing, PanelSet
<1>5. /\ Unlisted(p).query = p.query /\ Unlisted(p).preview = p.preview
      /\ Unlisted(p).result = p.result /\ Unlisted(p).editor = p.editor
  BY DEF Unlisted, PanelSet
<1>6. Forgotten(p).preview = None /\ Forgotten(p).result = None /\ Forgotten(p).editor = None
  BY DEF Forgotten, PanelSet
<1> QED
  BY <1>1, <1>2, <1>3, <1>4, <1>5, <1>6 DEF Fits

(* No reply is on its way to a panel that is closed, not listed or not busy.  *)
LEMMA Unheard ==
  ASSUME SqlIInv, NEW w \in Windows, ~panel[w].open \/ ~panel[w].busy \/ ~panel[w].ready
  PROVE  \A n \in DOMAIN calls : Hears(calls[n]) => calls[n].w # w
BY CallFacts DEF Listens

(* A panel turns into q while nobody hears.                                   *)
LEMMA QuietTurn ==
  ASSUME SqlIInv, StepShape, WorldStep, NEW w \in Windows, NEW q \in PanelSet, Fits(q),
         panel' = [panel EXCEPT ![w] = q],
         ~panel[w].open \/ ~panel[w].busy \/ ~panel[w].ready,
         \A n \in DOMAIN calls' : Hears(calls'[n]) => StillHeard(n)
  PROVE  PanelsAreSound'
<1>1. \A n \in DOMAIN calls' : Hears(calls'[n]) => StillHeard(n) /\ calls[n].w # w
  BY Unheard DEF StillHeard
<1>2. \A n \in DOMAIN calls' : Hears(calls'[n]) => calls'[n].w # w
  BY <1>1 DEF StillHeard, StepShape, Static
<1> QED
  BY <1>1, <1>2, PanelTurns

LEMMA SameCallsHeard ==
  ASSUME UNCHANGED calls PROVE \A n \in DOMAIN calls' : Hears(calls'[n]) => StillHeard(n)
BY DEF StillHeard

LEMMA RefreshFits ==
  ASSUME SqlIInv, NEW w \in Windows, NEW p \in PanelSet, Fits(p), NEW id \in Id, Refresh(w, p, id)
  PROVE  \E q \in PanelSet : Fits(q) /\ panel' = [panel EXCEPT ![w] = q]
BY ListedPanel DEF Refresh

LEMMA QuietActions ==
  ASSUME SqlIInv, StepShape, WorldStep, NEW w \in Windows,
         OpenPanel(w) \/ FirstList(w) \/ TypeQuery(w) \/ RevokeFile(w) \/ RevokeCrashes(w)
         \/ RejectPreview(w) \/ CloseContext(w)
  PROVE  PanelsAreSound'
<1> DEFINE p == panel[w]
<1>1. /\ panel \in [Windows -> PanelSet] /\ p \in PanelSet /\ Fits(p) /\ p.query \in Queries
      /\ None \in Id
  BY PanelFacts DEF Shows, Fits, Id
<1>2. ~p.open \/ ~p.busy \/ ~p.ready
  BY DEF OpenPanel, FirstList, TypeQuery, RevokeFile, RevokeCrashes, RejectPreview, CloseContext,
         Usable
<1>3. ASSUME NEW q \in PanelSet, Fits(q), panel' = [panel EXCEPT ![w] = q], UNCHANGED calls
      PROVE  PanelsAreSound'
  BY <1>2, <1>3, QuietTurn, SameCallsHeard
<1>4. CASE OpenPanel(w)
  <2> DEFINE q == [Closed(p.query) EXCEPT !.open = TRUE, !.busy = TRUE]
  <2>1. Closed(p.query) \in PanelSet /\ Fits(Closed(p.query))
    BY <1>1, ClosedPanel
  <2>2. [Closed(p.query) EXCEPT !.open = TRUE] \in PanelSet
    BY <2>1, PanelUpdates
  <2>3. q \in PanelSet
    BY <2>2, PanelUpdates
  <2>4. q.preview = None /\ q.result = None /\ q.editor = None
    BY DEF Closed
  <2>5. panel' = [panel EXCEPT ![w] = q] /\ UNCHANGED calls
    BY <1>4 DEF OpenPanel
  <2> HIDE DEF q
  <2>6. Fits(q)
    BY <2>4 DEF Fits
  <2> QED
    BY <1>3, <2>3, <2>5, <2>6
<1>5. CASE FirstList(w)
  <2>1. ApprovedId \in Id
    BY DEF ApprovedId, Id, SqlIInv, Typed, Approval
  <2> QED
    BY <1>1, <1>3, <1>5, <2>1, RefreshFits DEF FirstList
<1>6. CASE TypeQuery(w)
  <2>1. PICK query \in Queries :
          panel' = [panel EXCEPT ![w].query = query, ![w].preview = None, ![w].result = None]
    BY <1>6 DEF TypeQuery
  <2> DEFINE q == [p EXCEPT !.query = query, !.preview = None, !.result = None]
  <2>2. [p EXCEPT !.query = query] \in PanelSet
    BY <1>1, PanelUpdates
  <2>3. [p EXCEPT !.query = query, !.preview = None] \in PanelSet
    BY <2>2, PanelUpdates
  <2>4. q \in PanelSet
    BY <2>3, PanelUpdates
  <2>5. q.preview = None /\ q.result = None /\ q.editor = p.editor
    BY <1>1 DEF PanelSet
  <2>6. panel' = [panel EXCEPT ![w] = q] /\ UNCHANGED calls
    BY <1>1, <1>6, <2>1 DEF TypeQuery
  <2> HIDE DEF q
  <2>7. Fits(q)
    BY <1>1, <2>5 DEF Fits
  <2> QED
    BY <1>3, <2>4, <2>6, <2>7
<1>7. CASE RevokeFile(w)
  <2>1. Forgotten(p) \in PanelSet /\ Fits(Forgotten(p))
    BY <1>1, ListedPanel
  <2> QED
    BY <1>1, <1>3, <1>7, <2>1, RefreshFits DEF RevokeFile
<1>8. CASE RevokeCrashes(w)
  <2> DEFINE q == Unlisted(Forgotten(p))
  <2>1. q \in PanelSet /\ Fits(q)
    BY <1>1, ListedPanel
  <2>2. panel' = [panel EXCEPT ![w] = q] /\ calls' = Crashed /\ UNCHANGED <<store, dirs>>
    BY <1>8 DEF RevokeCrashes
  <2>3. \A n \in DOMAIN calls' : Hears(calls'[n]) => StillHeard(n)
    BY <2>2, CrashShape DEF StillHeard, Hears
  <2> QED
    BY <1>2, <2>1, <2>2, <2>3, QuietTurn
<1>9. CASE RejectPreview(w)
  <2> DEFINE q == [p EXCEPT !.preview = None]
  <2>1. q \in PanelSet
    BY <1>1, PanelUpdates
  <2>2. q.preview = None /\ q.result = p.result /\ q.editor = p.editor /\ q.query = p.query
    BY <1>1 DEF PanelSet
  <2>3. panel' = [panel EXCEPT ![w] = q] /\ UNCHANGED calls
    BY <1>1, <1>9 DEF RejectPreview
  <2> HIDE DEF q
  <2>4. Fits(q)
    BY <1>1, <2>2 DEF Fits
  <2> QED
    BY <1>3, <2>1, <2>3, <2>4
<1>10. CASE CloseContext(w)
  <2> DEFINE q == [p EXCEPT !.editor = None]
  <2>1. q \in PanelSet
    BY <1>1, PanelUpdates
  <2>2. q.editor = None /\ q.result = p.result /\ q.preview = p.preview /\ q.query = p.query
    BY <1>1 DEF PanelSet
  <2>3. panel' = [panel EXCEPT ![w] = q] /\ UNCHANGED calls
    BY <1>1, <1>10 DEF CloseContext
  <2> HIDE DEF q
  <2>4. Fits(q)
    BY <1>1, <2>2 DEF Fits
  <2> QED
    BY <1>3, <2>1, <2>3, <2>4
<1> QED
  BY <1>4, <1>5, <1>6, <1>7, <1>8, <1>9, <1>10

LEMMA AskTurn ==
  ASSUME SqlIInv, StepShape, WorldStep, NEW w \in Windows, ~panel[w].busy,
         NEW q \in PanelSet, Fits(q), panel' = [panel EXCEPT ![w] = q],
         \A n \in DOMAIN calls : calls'[n] = calls[n],
         \A n \in DOMAIN calls' \ DOMAIN calls : calls'[n].w = w /\ Asked(calls'[n], q),
         \A m, n \in DOMAIN calls' \ DOMAIN calls : m = n
  PROVE  PanelsAreSound'
<1>1. ASSUME NEW n \in DOMAIN calls, Hears(calls'[n]) PROVE StillHeard(n) /\ calls[n].w # w
  BY <1>1, Unheard DEF StillHeard
<1>2. \A n \in DOMAIN calls' : Hears(calls'[n]) =>
        \/ StillHeard(n) /\ calls[n].w # w
        \/ calls'[n].w = w /\ Asked(calls'[n], q)
  BY <1>1
<1>3. \A n \in DOMAIN calls' : Hears(calls'[n]) /\ calls'[n].w = w => n \notin DOMAIN calls
  BY <1>1
<1>4. \A m, n \in DOMAIN calls' :
        Hears(calls'[m]) /\ calls'[m].w = w /\ Hears(calls'[n]) /\ calls'[n].w = w => m = n
  BY <1>3
<1> QED
  BY <1>2, <1>4, PanelTurns

LEMMA ClosePanels ==
  ASSUME SqlIInv, StepShape, WorldStep, NEW w \in Windows, ClosePanel(w)
  PROVE  PanelsAreSound'
<1> DEFINE p == panel[w]
           q == [Closed(p.query) EXCEPT !.busy = p.busy]
<1>1. Closed(p.query) \in PanelSet /\ p.busy \in BOOLEAN
  BY PanelFacts, ClosedPanel
<1>2. q \in PanelSet
  BY <1>1, PanelUpdates
<1>3. q.preview = None /\ q.result = None /\ q.editor = None
  BY DEF Closed
<1>4. panel' = [panel EXCEPT ![w] = q] /\ calls' = Ignored(w) /\ UNCHANGED <<store, dirs>>
  BY DEF ClosePanel
<1> HIDE DEF q
<1>5. Fits(q)
  BY <1>3 DEF Fits
<1>6. \A n \in DOMAIN calls' : Hears(calls'[n]) => StillHeard(n) /\ calls[n].w # w
  BY <1>4, IgnoredShape DEF StillHeard
<1>7. \A n \in DOMAIN calls' : Hears(calls'[n]) => calls'[n].w # w
  BY <1>6 DEF StillHeard, StepShape, Static
<1> QED
  BY <1>2, <1>4, <1>5, <1>6, <1>7, PanelTurns

LEMMA BusyPanel ==
  ASSUME NEW p \in PanelSet
  PROVE  LET q == [p EXCEPT !.busy = TRUE] IN
         /\ q \in PanelSet /\ q.busy /\ q.open = p.open /\ q.ready = p.ready /\ q.query = p.query
         /\ Fits(p) => Fits(q)
<1> DEFINE q == [p EXCEPT !.busy = TRUE]
<1>1. q \in PanelSet
  BY PanelUpdates
<1>2. /\ q.busy /\ q.open = p.open /\ q.ready = p.ready /\ q.query = p.query
      /\ q.preview = p.preview /\ q.result = p.result /\ q.editor = p.editor
  BY DEF PanelSet
<1> HIDE DEF q
<1>3. Fits(p) => Fits(q)
  BY <1>2 DEF Fits
<1> QED
  BY <1>1, <1>2, <1>3 DEF q

LEMMA AskActions ==
  ASSUME SqlIInv, StepShape, WorldStep, NEW w \in Windows,
         AskPreview(w) \/ RunOnce(w) \/ OpenContext(w) \/ SendContext(w)
  PROVE  PanelsAreSound'
<1> DEFINE p == panel[w]
           b == [p EXCEPT !.busy = TRUE]
<1>1. /\ panel \in [Windows -> PanelSet] /\ p \in PanelSet /\ Fits(p)
      /\ p.open /\ p.ready /\ ~p.busy /\ UNCHANGED <<store, dirs>>
  BY PanelFacts DEF Shows, Fits, AskPreview, RunOnce, OpenContext, SendContext, Usable
<1>2. /\ b \in PanelSet /\ Fits(b) /\ b.busy /\ b.open /\ b.ready /\ b.query = p.query
  BY <1>1, BusyPanel
<1>3. CASE AskPreview(w)
  <2> DEFINE q == [p EXCEPT !.busy = TRUE, !.preview = None, !.result = None]
  <2>1. [b EXCEPT !.preview = None] \in PanelSet
    BY <1>2, PanelUpdates
  <2>2. q \in PanelSet
    BY <2>1, PanelUpdates
  <2>3. /\ q.preview = None /\ q.result = None /\ q.editor = p.editor /\ q.query = p.query
        /\ q.busy /\ q.open /\ q.ready
    BY <1>1 DEF PanelSet
  <2>4. panel' = [panel EXCEPT ![w] = q]
    BY <1>1, <1>3 DEF AskPreview
  <2> HIDE DEF q
  <2>5. Fits(q)
    BY <1>1, <2>3 DEF Fits
  <2>6. calls' = Append(calls, Call("preview", w, p.chosen, p.query, None))
    BY <1>3 DEF AskPreview, Ask
  <2>7. /\ \A n \in DOMAIN calls : calls'[n] = calls[n]
        /\ \A n \in DOMAIN calls' \ DOMAIN calls :
             calls'[n].kind = "preview" /\ calls'[n].w = w /\ calls'[n].stage = "sent"
             /\ calls'[n].query = p.query
        /\ \A m, n \in DOMAIN calls' \ DOMAIN calls : m = n
    <3>1. UNCHANGED <<store, dirs>> /\ p.chosen \in Id /\ p.query \in Queries
      BY <1>1, PanelFacts
    <3> QED
      BY <2>6, <3>1, PreviewShape
  <2>8. \A n \in DOMAIN calls' \ DOMAIN calls : calls'[n].w = w /\ Asked(calls'[n], q)
    BY <2>3, <2>7 DEF Asked
  <2> QED
    BY <1>1, <2>2, <2>4, <2>5, <2>7, <2>8, AskTurn
<1>4. CASE RunOnce(w)
  <2>1. /\ p.preview \in Preview /\ Previewed(p.preview.cid) /\ p.preview.id \in Id
        /\ p.preview.query = p.query
    BY <1>4, PanelFacts DEF RunOnce, Shows, Preview
  <2>2. calls' = Append(calls, Call("execute", w, p.preview.id, p.preview.query, p.preview))
    BY <1>4 DEF RunOnce, Ask
  <2>3. /\ \A n \in DOMAIN calls : calls'[n] = calls[n]
        /\ \A n \in DOMAIN calls' \ DOMAIN calls :
             calls'[n].kind = "execute" /\ calls'[n].w = w /\ calls'[n].stage = "sent"
             /\ calls'[n].from = p.preview
        /\ \A m, n \in DOMAIN calls' \ DOMAIN calls : m = n
    BY <1>1, <2>1, <2>2, ExecuteShape
  <2>4. panel' = [panel EXCEPT ![w] = b]
    BY <1>1, <1>4 DEF RunOnce
  <2> HIDE DEF b
  <2>5. \A n \in DOMAIN calls' \ DOMAIN calls : calls'[n].w = w /\ Asked(calls'[n], b)
    BY <1>2, <2>1, <2>3 DEF Asked
  <2> QED
    BY <1>1, <1>2, <2>3, <2>4, <2>5, AskTurn
<1>5. CASE OpenContext(w)
  <2>1. calls' = Append(calls, Call("context", w, p.chosen, None, None))
    BY <1>5 DEF OpenContext, Ask
  <2>2. /\ \A n \in DOMAIN calls : calls'[n] = calls[n]
        /\ \A n \in DOMAIN calls' \ DOMAIN calls :
             calls'[n].kind = "context" /\ calls'[n].w = w /\ calls'[n].stage = "sent"
        /\ \A m, n \in DOMAIN calls' \ DOMAIN calls : m = n
    BY <1>1, <2>1, PanelFacts, ContextShape
  <2>3. panel' = [panel EXCEPT ![w] = b]
    BY <1>1, <1>5 DEF OpenContext
  <2> HIDE DEF b
  <2>4. \A n \in DOMAIN calls' \ DOMAIN calls : calls'[n].w = w /\ Asked(calls'[n], b)
    BY <1>2, <2>2 DEF Asked
  <2> QED
    BY <1>1, <1>2, <2>2, <2>3, <2>4, AskTurn
<1>6. CASE SendContext(w)
  <2>1. /\ p.editor \in Editor /\ Sound(p.editor) /\ p.editor.id \in Id
    BY <1>6, PanelFacts DEF SendContext, Shows, Editor
  <2>2. calls' = Append(calls, Call("save", w, p.editor.id, None, p.editor))
    BY <1>6 DEF SendContext, Ask
  <2>3. /\ \A n \in DOMAIN calls : calls'[n] = calls[n]
        /\ \A n \in DOMAIN calls' \ DOMAIN calls :
             calls'[n].kind = "save" /\ calls'[n].w = w /\ calls'[n].stage = "sent"
        /\ \A m, n \in DOMAIN calls' \ DOMAIN calls : m = n
    <3>1. UNCHANGED <<store, dirs>>
      BY <1>1
    <3> QED
      BY <2>1, <2>2, <3>1, SaveShape
  <2>4. panel' = [panel EXCEPT ![w] = b]
    BY <1>1, <1>6 DEF SendContext
  <2> HIDE DEF b
  <2>5. \A n \in DOMAIN calls' \ DOMAIN calls : calls'[n].w = w /\ Asked(calls'[n], b)
    BY <1>2, <2>3 DEF Asked
  <2> QED
    BY <1>1, <1>2, <2>3, <2>4, <2>5, AskTurn
<1> QED
  BY <1>3, <1>4, <1>5, <1>6

LEMMA ApprovePanels ==
  ASSUME SqlIInv, StepShape, WorldStep, NEW w \in Windows, ApproveFile(w)
  PROVE  PanelsAreSound'
<1> DEFINE p == panel[w]
           id == Approved.id
           l == Listing(p, id)
           e == [l EXCEPT !.preview = None, !.result = None]
<1>1. /\ panel \in [Windows -> PanelSet] /\ p \in PanelSet /\ Fits(p)
      /\ p.open /\ p.ready /\ ~p.busy /\ UNCHANGED <<store, dirs>> /\ id \in Id
  BY PanelFacts, ApprovedFacts DEF Shows, Fits, ApproveFile, Usable
<1>2. l \in PanelSet /\ l.ready /\ l.open
  BY <1>1, ListedPanel
<1>3. e \in PanelSet
  <2>1. [l EXCEPT !.preview = None] \in PanelSet
    BY <1>2, PanelUpdates
  <2> QED
    BY <2>1, PanelUpdates
<1>4. /\ e.preview = None /\ e.result = None /\ e.editor = p.editor /\ e.query = p.query
      /\ e.ready /\ e.open
  BY <1>1 DEF PanelSet, Listing
<1>5. CASE Refresh(w, p, id) /\ UNCHANGED calls
  BY <1>1, <1>5, RefreshFits, QuietTurn, SameCallsHeard
<1>6. CASE /\ panel' = [panel EXCEPT ![w] = [e EXCEPT !.busy = TRUE]]
           /\ calls' = Append(calls, Call("context", w, id, None, None))
  <2> DEFINE q == [e EXCEPT !.busy = TRUE]
  <2>1. q \in PanelSet
    BY <1>3, PanelUpdates
  <2>2. /\ q.preview = None /\ q.result = None /\ q.editor = p.editor
        /\ q.busy /\ q.ready /\ q.open
    BY <1>3, <1>4 DEF PanelSet
  <2> HIDE DEF q
  <2>3. Fits(q)
    BY <1>1, <2>2 DEF Fits
  <2>4. panel' = [panel EXCEPT ![w] = q]
    BY <1>6 DEF q
  <2>5. /\ \A n \in DOMAIN calls : calls'[n] = calls[n]
        /\ \A n \in DOMAIN calls' \ DOMAIN calls :
             calls'[n].kind = "context" /\ calls'[n].w = w /\ calls'[n].stage = "sent"
        /\ \A m, n \in DOMAIN calls' \ DOMAIN calls : m = n
    BY <1>1, <1>6, ContextShape
  <2>6. \A n \in DOMAIN calls' \ DOMAIN calls : calls'[n].w = w /\ Asked(calls'[n], q)
    BY <2>2, <2>5 DEF Asked
  <2> QED
    BY <1>1, <2>1, <2>3, <2>4, <2>5, <2>6, AskTurn
<1>7. CASE /\ panel' = [panel EXCEPT ![w] = [e EXCEPT !.busy = FALSE]]
           /\ UNCHANGED calls
  <2> DEFINE q == [e EXCEPT !.busy = FALSE]
  <2>1. q \in PanelSet
    BY <1>3, PanelUpdates
  <2>2. q.preview = None /\ q.result = None /\ q.editor = p.editor
    BY <1>3, <1>4 DEF PanelSet
  <2> HIDE DEF q
  <2>3. Fits(q)
    BY <1>1, <2>2 DEF Fits
  <2>4. panel' = [panel EXCEPT ![w] = q]
    BY <1>7 DEF q
  <2> QED
    BY <1>1, <1>7, <2>1, <2>3, <2>4, QuietTurn, SameCallsHeard
<1>8. CASE /\ panel' = [panel EXCEPT ![w] = [Listing(@, Approved.id) EXCEPT
                          !.preview = None, !.result = None, !.busy = Asks("context")]]
           /\ calls' = IF Asks("context")
                        THEN Append(calls, Call("context", w, Approved.id, None, None))
                        ELSE calls
  <2>1. panel' = [panel EXCEPT ![w] = [e EXCEPT !.busy = Asks("context")]]
    BY <1>8
  <2>2. Asks("context") \in BOOLEAN
    BY DEF Asks
  <2>3. CASE Asks("context") = TRUE
    <3>1. panel' = [panel EXCEPT ![w] = [e EXCEPT !.busy = TRUE]]
      BY <2>1, <2>3
    <3> QED
      BY <1>6, <1>8, <2>3, <3>1
  <2>4. CASE Asks("context") = FALSE
    <3>1. panel' = [panel EXCEPT ![w] = [e EXCEPT !.busy = FALSE]]
      BY <2>1, <2>4
    <3> QED
      BY <1>7, <1>8, <2>4, <3>1
  <2> QED
    BY <2>2, <2>3, <2>4
<1> QED
  BY <1>5, <1>8 DEF ApproveFile

(* What a panel makes of the reply to a call it listens to.                   *)
LEMMA ShownFits ==
  ASSUME SqlIInv, NEW n \in DOMAIN calls, Hears(calls[n]),
         calls[n].stage \in {"answered", "refused"}
  PROVE  LET q == Shown(panel[calls[n].w], calls[n]) IN q \in PanelSet /\ Fits(q)
<1> DEFINE c == calls[n]
           p == panel[c.w]
           b == [p EXCEPT !.busy = FALSE]
           q == Shown(p, c)
<1>1. /\ c.kind \in {"preview", "execute", "context", "save"} /\ c.w \in Windows
      /\ c.kind = "preview" => c.query = p.query
      /\ c.kind = "execute" => c.from.query = p.query
      /\ c.stage = "answered" => Replied(c)
  BY CallFacts DEF Listens
<1>2. p \in PanelSet /\ Fits(p)
  BY <1>1, PanelFacts DEF Shows, Fits
<1>3. b \in PanelSet
  BY <1>2, PanelUpdates
<1>4. /\ b.query = p.query /\ b.preview = p.preview /\ b.result = p.result /\ b.editor = p.editor
  BY <1>2 DEF PanelSet
<1> HIDE DEF b
<1>5. CASE c.kind = "preview"
  <2> DEFINE r == IF c.stage = "answered" THEN c.reply ELSE None
  <2>1. q = [b EXCEPT !.preview = r]
    BY <1>5 DEF Shown, b
  <2>2. /\ r \in Preview \union {None}
        /\ r # None => Previewed(r.cid) /\ r.query = p.query
    BY <1>1, <1>5 DEF Replied
  <2> HIDE DEF r, q
  <2>3. q \in PanelSet
    BY <1>3, <2>1, <2>2, PanelUpdates
  <2>4. q.preview = r /\ q.query = p.query /\ q.result = p.result /\ q.editor = p.editor
    BY <1>3, <1>4, <2>1 DEF PanelSet
  <2> QED
    BY <1>2, <2>2, <2>3, <2>4 DEF Fits, q
<1>6. CASE c.kind = "execute"
  <2> DEFINE r == IF c.stage = "answered" /\ Accepts(c) THEN c.reply ELSE None
  <2>1. q = [b EXCEPT !.preview = None, !.result = r]
    BY <1>6 DEF Shown, b
  <2>2. /\ r \in Result \union {None}
        /\ r # None => r.query = p.query
    BY <1>1, <1>6 DEF Replied, Accepts
  <2> HIDE DEF r, q
  <2>3. [b EXCEPT !.preview = None] \in PanelSet
    BY <1>3, PanelUpdates
  <2>4. q \in PanelSet
    BY <2>1, <2>2, <2>3, PanelUpdates
  <2>5. q.preview = None /\ q.query = p.query /\ q.result = r /\ q.editor = p.editor
    BY <1>3, <1>4, <2>1 DEF PanelSet
  <2> QED
    BY <1>2, <2>2, <2>4, <2>5 DEF Fits, q
<1>7. CASE c.kind \in {"context", "save"}
  <2> DEFINE r == IF c.stage = "answered" THEN IF c.kind = "context" THEN c.reply ELSE None
                                          ELSE p.editor
  <2>1. q = [b EXCEPT !.editor = r]
    BY <1>4, <1>7 DEF Shown, b
  <2>2. /\ r \in Editor \union {None}
        /\ r # None => Sound(r)
    <3>1. p.editor \in Editor \union {None} /\ (p.editor # None => Sound(p.editor))
      BY <1>2 DEF PanelSet, Fits
    <3>2. c.stage = "answered" /\ c.kind = "context" => c.reply \in Editor /\ Sound(c.reply)
      BY <1>1 DEF Replied
    <3> QED
      BY <3>1, <3>2
  <2> HIDE DEF r, q
  <2>3. q \in PanelSet
    BY <1>3, <2>1, <2>2, PanelUpdates
  <2>4. q.preview = p.preview /\ q.query = p.query /\ q.result = p.result /\ q.editor = r
    BY <1>3, <1>4, <2>1 DEF PanelSet
  <2> QED
    BY <1>2, <2>2, <2>3, <2>4 DEF Fits, q
<1> QED
  BY <1>1, <1>5, <1>6, <1>7

LEMMA HeardPanels ==
  ASSUME SqlIInv, StepShape, WorldStep, NEW n \in DOMAIN calls, calls' = Heard(n),
         UNCHANGED <<store, dirs>>,
         IF Hears(calls[n])
           THEN \E q \in PanelSet : Fits(q) /\ panel' = [panel EXCEPT ![calls[n].w] = q]
           ELSE UNCHANGED panel
  PROVE  PanelsAreSound'
<1> PICK w : w = calls[n].w
  OBVIOUS
<1>1. /\ DOMAIN calls' = DOMAIN calls /\ calls'[n].ears = "shut"
      /\ \A m \in DOMAIN calls \ {n} : calls'[m] = calls[m]
  BY HeardShape
<1>2. \A m \in DOMAIN calls' : Hears(calls'[m]) => StillHeard(m) /\ m # n
  BY <1>1 DEF Hears, StillHeard
<1>3. CASE Hears(calls[n])
  <2>1. PICK q \in PanelSet : Fits(q) /\ panel' = [panel EXCEPT ![w] = q]
    BY <1>3
  <2>2. w \in Windows /\ \A m \in DOMAIN calls : calls[m].w = w /\ Hears(calls[m]) => m = n
    BY <1>3, CallFacts DEF Listens
  <2>3. \A m \in DOMAIN calls' : Hears(calls'[m]) => StillHeard(m) /\ calls[m].w # w
    BY <1>2, <2>2 DEF StillHeard
  <2>4. \A m \in DOMAIN calls' : Hears(calls'[m]) => calls'[m].w # w
    BY <1>1, <1>2, <2>3
  <2>5. w \in Windows
    BY <2>2
  <2>6. \A m \in DOMAIN calls' : Hears(calls'[m]) =>
          \/ StillHeard(m) /\ calls[m].w # w
          \/ calls'[m].w = w /\ Asked(calls'[m], q)
    BY <2>3
  <2>7. \A l, m \in DOMAIN calls' :
          Hears(calls'[l]) /\ calls'[l].w = w /\ Hears(calls'[m]) /\ calls'[m].w = w => l = m
    BY <2>4
  <2>8. Fits(q) /\ panel' = [panel EXCEPT ![w] = q]
    BY <2>1
  <2> QED
    BY <2>5, <2>6, <2>7, <2>8, PanelTurns
<1>4. CASE ~Hears(calls[n])
  BY <1>2, <1>4, PanelsStay
<1> QED
  BY <1>3, <1>4

LEMMA ReplyPanels ==
  ASSUME SqlIInv, StepShape, WorldStep, NEW n \in DOMAIN calls, Reply(n)
  PROVE  PanelsAreSound'
<1>1. /\ calls[n].stage \in {"answered", "refused"} /\ calls' = Heard(n) /\ UNCHANGED <<store, dirs>>
      /\ panel' = IF Hears(calls[n])
                    THEN [panel EXCEPT ![calls[n].w] = Shown(@, calls[n])] ELSE panel
  BY DEF Reply
<1>2. CASE Hears(calls[n])
  <2>1. PICK q \in PanelSet : q = Shown(panel[calls[n].w], calls[n]) /\ Fits(q)
    BY <1>1, <1>2, ShownFits
  <2>2. panel' = [panel EXCEPT ![calls[n].w] = q]
    BY <1>1, <1>2, <2>1
  <2> QED
    BY <1>1, <1>2, <2>1, <2>2, HeardPanels
<1>3. CASE ~Hears(calls[n])
  BY <1>1, <1>3, HeardPanels
<1> QED
  BY <1>2, <1>3

LEMMA LosePanels ==
  ASSUME SqlIInv, StepShape, WorldStep, NEW n \in DOMAIN calls, Lose(n)
  PROVE  PanelsAreSound'
<1> DEFINE c == calls[n]
           p == panel[c.w]
<1>1. calls' = Heard(n) /\ UNCHANGED <<store, dirs>>
  BY DEF Lose
<1>2. CASE Hears(c)
  <2>1. /\ panel \in [Windows -> PanelSet] /\ c.w \in Windows /\ p \in PanelSet /\ Fits(p)
    BY CallFacts, PanelFacts DEF Shows, Fits
  <2> DEFINE r == IF c.kind = "execute" THEN None ELSE p.preview
             t == IF c.kind = "execute" THEN None ELSE p.result
             q == [p EXCEPT !.busy = FALSE, !.preview = r, !.result = t]
  <2>2. panel' = [panel EXCEPT ![c.w] = q]
    BY <1>2, <2>1 DEF Lose
  <2>3. r \in Preview \union {None} /\ t \in Result \union {None}
    BY <2>1 DEF PanelSet
  <2>4. (r = None \/ r = p.preview) /\ (t = None \/ t = p.result)
    OBVIOUS
  <2> HIDE DEF r, t
  <2>5. [p EXCEPT !.busy = FALSE] \in PanelSet
    BY <2>1, PanelUpdates
  <2>6. [p EXCEPT !.busy = FALSE, !.preview = r] \in PanelSet
    BY <2>3, <2>5, PanelUpdates
  <2>7. q \in PanelSet
    BY <2>3, <2>6, PanelUpdates
  <2>8. q.preview = r /\ q.result = t /\ q.editor = p.editor /\ q.query = p.query
    BY <2>1 DEF PanelSet
  <2> HIDE DEF q
  <2>9. Fits(q)
    BY <2>1, <2>4, <2>8 DEF Fits
  <2> QED
    BY <1>1, <1>2, <2>2, <2>7, <2>9, HeardPanels
<1>3. CASE ~Hears(c)
  <2>1. UNCHANGED panel
    BY <1>3 DEF Lose
  <2> QED
    BY <1>1, <1>3, <2>1, HeardPanels
<1> QED
  BY <1>2, <1>3

LEMMA LoseSavePanels ==
  ASSUME SqlIInv, StepShape, WorldStep, NEW n \in DOMAIN calls, LoseSave(n)
  PROVE  PanelsAreSound'
<1> DEFINE w == calls[n].w
           p == panel[w]
<1>1. Hears(calls[n]) /\ UNCHANGED panel
  BY DEF LoseSave
<1>2. /\ w \in Windows /\ p.open /\ p.busy /\ p.ready
      /\ \A m \in DOMAIN calls : calls[m].w = w /\ Hears(calls[m]) => m = n
  BY <1>1, CallFacts DEF Listens
<1>3. /\ panel \in [Windows -> PanelSet] /\ p \in PanelSet /\ Fits(p)
  BY <1>2, PanelFacts DEF Shows, Fits
<1>4. panel' = [panel EXCEPT ![w] = p]
  BY <1>1, <1>3
<1>5. /\ \A m \in DOMAIN calls \ {n} : calls'[m] = calls[m]
      /\ ~Hears(calls'[n])
      /\ \A m \in DOMAIN calls' \ DOMAIN calls :
           calls'[m].kind = "context" /\ calls'[m].w = w /\ calls'[m].stage = "sent"
      /\ \A l, m \in DOMAIN calls' \ DOMAIN calls : l = m
  BY LoseSaveShape
<1> HIDE DEF p, w
<1>6. \A m \in DOMAIN calls : Hears(calls'[m]) => StillHeard(m) /\ calls[m].w # w /\ calls'[m].w # w
  BY <1>2, <1>5 DEF StillHeard
<1>7. \A m \in DOMAIN calls' \ DOMAIN calls : Asked(calls'[m], p) /\ calls'[m].w = w
  BY <1>2, <1>5 DEF Asked, p
<1>8. \A m \in DOMAIN calls' : Hears(calls'[m]) =>
        \/ StillHeard(m) /\ calls[m].w # w
        \/ calls'[m].w = w /\ Asked(calls'[m], p)
  BY <1>6, <1>7
<1>9. \A l, m \in DOMAIN calls' :
        Hears(calls'[l]) /\ calls'[l].w = w /\ Hears(calls'[m]) /\ calls'[m].w = w => l = m
  BY <1>5, <1>6
<1> QED
  BY <1>2, <1>3, <1>4, <1>8, <1>9, PanelTurns

-----------------------------------------------------------------------------
LEMMA PanelsKept == ASSUME SqlIInv, [Next]_vars, StepShape, WorldStep PROVE PanelsAreSound'
<1>1. CASE UNCHANGED vars
  BY <1>1, QuietPanels DEF vars
<1>2. CASE WriteFile \/ Crash \/ Resend
  BY <1>2, QuietPanels DEF WriteFile, Crash, Resend
<1>3. ASSUME NEW w \in Windows, PanelStep(w) PROVE PanelsAreSound'
  BY <1>3, QuietActions, ClosePanels, AskActions, ApprovePanels DEF PanelStep
<1>4. ASSUME NEW n \in DOMAIN calls, ServerStep(n) PROVE PanelsAreSound'
  BY <1>4, ServerPanels
<1>5. ASSUME NEW n \in DOMAIN calls, Reply(n) \/ Lose(n) \/ LoseSave(n) PROVE PanelsAreSound'
  BY <1>5, ReplyPanels, LosePanels, LoseSavePanels
<1> QED
  BY <1>1, <1>2, <1>3, <1>4, <1>5 DEF Next

LEMMA SqlIInit == Init => SqlIInv
<1> SUFFICES ASSUME Init PROVE SqlIInv
  OBVIOUS
<1>1. PICK q \in Queries, b \in Contents :
        /\ panel = [w \in Windows |-> Closed(q)] /\ file = [version |-> 0, bytes |-> b]
  BY SqlConstants DEF Init
<1>2. /\ approval = None /\ approvals = 0 /\ memory = None /\ store = {} /\ dirs = {}
      /\ calls = <<>> /\ closes = 0 /\ faults = {}
  BY DEF Init
<1>3. calls \in Seq(CallSet) /\ DOMAIN calls = {}
  BY <1>2
<1>4. Closed(q) \in PanelSet /\ Fits(Closed(q))
  BY ClosedPanel
<1>5. Typed
  BY <1>1, <1>2, <1>3, <1>4 DEF Typed
<1>6. TypeOK
  BY <1>1, <1>2, <1>3, SqlConstants DEF TypeOK
<1>7. \A w \in Windows : Shows(w)
  BY <1>1, <1>4 DEF Shows, Fits
<1>8. SnapshotsHaveOwners /\ TaughtIsApproved /\ UsedOnce /\ FileApproved
  BY <1>2, <1>3 DEF SnapshotsHaveOwners, TaughtIsApproved, UsedOnce, FileApproved
<1> QED
  BY <1>3, <1>5, <1>6, <1>7, <1>8 DEF SqlIInv

LEMMA SqlIStep == SqlIInv /\ [Next]_vars => SqlIInv'
<1> SUFFICES ASSUME SqlIInv, [Next]_vars PROVE SqlIInv'
  OBVIOUS
<1>1. StepShape /\ WorldStep
  BY Shape, World
<1>2. PanelsAreSound'
  BY <1>1, PanelsKept
<1>3. Typed'
  BY <1>1, <1>2, WorldTyped DEF Typed, PanelsAreSound, StepShape
<1>4. TypeOK' /\ FileApproved' /\ TaughtIsApproved' /\ SnapshotsHaveOwners' /\ UsedOnce'
  BY <1>1, TypeKept, FileKept, TaughtKept, SnapshotsKept, UsedOnceKept
<1>5. \A n \in DOMAIN calls' : Opened(n)' /\ Sourced(calls[n])'
  BY <1>1, OpenedKept, SourcedKept
<1> QED
  BY <1>2, <1>3, <1>4, <1>5 DEF SqlIInv, PanelsAreSound

LEMMA SqlIInvHolds == Spec => []SqlIInv
BY SqlIInit, SqlIStep, PTL DEF Spec

(* Private copies of the user's data are on disk only while their call uses   *)
(* them or after a crash; a panel waits for at most one call and shows what   *)
(* its text box says; what was taught about a dataset goes with its approval  *)
(* (executeConfirmedSql, sql-analysis-panel.tsx, revokeDataset).              *)
THEOREM SqlInvHolds == Spec => []SqlInv
<1>1. SqlIInv => SqlInv
  <2> SUFFICES ASSUME SqlIInv PROVE PanelsAgree
    BY DEF SqlIInv, SqlInv
  <2>1. \A n \in DOMAIN calls : Hears(calls[n]) =>
          /\ panel[calls[n].w].open /\ panel[calls[n].w].busy
          /\ \A m \in DOMAIN calls : calls[m].w = calls[n].w /\ Hears(calls[m]) => m = n
    BY DEF SqlIInv, Listens
  <2>2. \A w \in Windows :
          /\ panel[w].preview # None => panel[w].preview.query = panel[w].query
          /\ panel[w].result # None => panel[w].result.query = panel[w].query
    BY DEF SqlIInv, Shows
  <2> QED
    BY <2>1, <2>2 DEF PanelsAgree
<1> QED
  BY <1>1, SqlIInvHolds, PTL

(* A confirmation starts one execution at most, and it runs the previewed     *)
(* query on the previewed bytes of the approved dataset, whoever writes the   *)
(* file, approves it anew or sends the request again (executeConfirmedSql).   *)
THEOREM RunsAsPreviewedHolds == Spec => []RunsAsPreviewed
<1>1. SqlIInv => RunsAsPreviewed
  <2> SUFFICES ASSUME SqlIInv, NEW n \in DOMAIN calls, calls[n].kind = "execute",
                      calls[n].approval # None
               PROVE  /\ \A m \in DOMAIN calls \ {n} :
                           ~(calls[m].kind = "execute" /\ calls[m].from.cid = calls[n].from.cid
                             /\ calls[m].approval # None)
                      /\ calls[n].stage = "verified" =>
                           /\ calls[n].copy = <<calls[n].from.bytes, calls[n].from.bytes>>
                           /\ calls[n].query = calls[n].from.query
                           /\ calls[n].approval.id = calls[n].from.id
    BY DEF RunsAsPreviewed
  <2>1. Opened(n) /\ Sourced(calls[n])
    BY DEF SqlIInv
  <2>2. \A m \in DOMAIN calls : Runs(m) /\ calls[m].from.cid = calls[n].from.cid => m = n
    BY DEF SqlIInv, UsedOnce, Runs
  <2> QED
    BY <2>1, <2>2 DEF Opened, Sourced, Runs
<1> QED
  BY <1>1, SqlIInvHolds, PTL

(* Only the server answers a call, and a save only over what it has seen.     *)
LEMMA AnswersAreTheServers ==
  ASSUME SqlIInv, [Next]_vars, NEW n \in DOMAIN calls, calls[n].stage = "verified",
         calls'[n].stage = "answered"
  PROVE  ServerStep(n)
<1>1. UNCHANGED calls => FALSE
  OBVIOUS
<1>2. ASSUME NEW c, calls' = Append(calls, c) PROVE FALSE
  <2>1. calls \in Seq(CallSet)
    BY DEF SqlIInv, Typed
  <2>2. calls'[n] = calls[n]
    BY <1>2, <2>1
  <2> QED
    BY <2>2
<1>3. calls' = Crashed /\ UNCHANGED <<store, dirs>> => FALSE
  BY CrashShape
<1>4. ASSUME NEW w \in Windows, PanelStep(w) PROVE FALSE
  <2>1. CASE ClosePanel(w)
    BY <2>1, IgnoredShape DEF ClosePanel
  <2>2. CASE RevokeCrashes(w)
    BY <1>3, <2>2 DEF RevokeCrashes
  <2>3. CASE AskPreview(w) \/ RunOnce(w) \/ OpenContext(w) \/ SendContext(w)
    BY <1>2, <2>3 DEF AskPreview, RunOnce, OpenContext, SendContext, Ask
  <2>4. CASE ApproveFile(w)
    <3>1. UNCHANGED calls \/ calls' = Append(calls, Call("context", w, Approved.id, None, None))
      BY <2>4 DEF ApproveFile
    <3> QED
      BY <1>1, <1>2, <3>1
  <2>5. CASE OpenPanel(w) \/ FirstList(w) \/ TypeQuery(w) \/ RevokeFile(w) \/ RejectPreview(w)
             \/ CloseContext(w)
    BY <1>1, <2>5 DEF OpenPanel, FirstList, TypeQuery, RevokeFile, RejectPreview, CloseContext
  <2> QED
    BY <1>4, <2>1, <2>2, <2>3, <2>4, <2>5 DEF PanelStep
<1>5. ASSUME NEW m \in DOMAIN calls, ServerStep(m) PROVE m = n
  BY <1>1, <1>5, ServerHears DEF Changes
<1>6. ASSUME NEW m \in DOMAIN calls, Reply(m) \/ Lose(m) PROVE FALSE
  BY <1>6, HeardShape DEF Reply, Lose
<1>7. ASSUME NEW m \in DOMAIN calls, LoseSave(m) PROVE FALSE
  BY <1>7, LoseSaveShape
<1>8. CASE UNCHANGED vars \/ WriteFile
  BY <1>1, <1>8 DEF vars, WriteFile
<1>9. CASE Crash
  BY <1>3, <1>9 DEF Crash
<1>10. CASE Resend
  BY <1>10, ResendShape
<1> QED
  BY <1>4, <1>5, <1>6, <1>7, <1>8, <1>9, <1>10 DEF Next

LEMMA SavesAreChecked ==
  ASSUME SqlIInv, NEW n \in DOMAIN calls, ServerStep(n), calls[n].kind = "save",
         calls[n].stage = "verified", calls'[n].stage = "answered"
  PROVE  Saves(calls[n])
<1>1. ~Refuse(n)
  <2>1. calls \in Seq(CallSet)
    BY DEF SqlIInv, Typed
  <2> QED
    BY <2>1, Refusing
<1>2. SaveContext(n)
  BY <1>1 DEF ServerStep, Begin, BeginConfirmed, CloseSnapshot, Fail, SavePreview, RunQuery,
              ReadContext
<1> QED
  BY <1>1, <1>2 DEF SaveContext

(* While the approval it was opened under stands, an editor replaces only the *)
(* context it shows, however many windows save (saveDatasetSemanticMemory).   *)
THEOREM SavesOverSeenHolds == Spec => SavesOverSeen
<1>1. SqlIInv /\ [Next]_vars =>
        [\A n \in 1 .. MaxCalls : Commits(n) =>
           LET f == calls[n].from IN
           approval = calls[f.at].approval => Context(approval).by = f.by]_vars
  <2> SUFFICES ASSUME SqlIInv, Next, NEW n \in 1 .. MaxCalls, Commits(n),
                      approval = calls[calls[n].from.at].approval
               PROVE  Context(approval).by = calls[n].from.by
    OBVIOUS
  <2> DEFINE f == calls[n].from
  <2>1. /\ n \in DOMAIN calls /\ calls[n].kind = "save" /\ calls[n].stage = "verified"
        /\ calls'[n].stage = "answered"
    BY DEF Commits
  <2>2. Saves(calls[n])
    BY <2>1, AnswersAreTheServers, SavesAreChecked
  <2>3. f.revision = Context(approval).revision /\ Sound(f)
    BY <2>1, <2>2, CallFacts DEF Saves, Sourced
  <2> QED
    BY <2>3 DEF Sound
<1> QED
  BY <1>1, SqlIInvHolds, PTL DEF Spec, SavesOverSeen
=============================================================================
