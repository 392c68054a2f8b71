---------------------------- MODULE ChatPageProofs ----------------------------
(***************************************************************************)
(* Proofs about the chat page, for any conversations, any number of sends  *)
(* and any bounds: PageInv and DraftsAreUnanswered follow from an inductive *)
(* invariant.  Its first half relates what the page remembers of a turn to *)
(* what the server has of it; its second half says who holds the sending   *)
(* slot, until one request takes it from another (page.taken).             *)
(***************************************************************************)
EXTENDS ChatPage, TLAPS

Under == {"start", "chat", "replay", "cancel", "reconcile"}   \* sends at a request
Waiting == {"start", "replay"}                                \* for a receipt
Displays == {"hidden", "active", "settled", "unrefreshed"}
Statuses == Ended \cup {"none", "pending"}
Answers == Ended \cup {None}
Knowledge == Ended \cup {"pending", None}
Places == Conversations \cup {None}
Turns == Sends \cup {None}
Receipts == [conversation : Conversations, version : Nat] \cup {None}
TurnSets == SUBSET Sends

Requests == [turn : Sends, conversation : Places, expects : Nat]

Pages ==
  [open : Places, epoch : Nat, loading : BOOLEAN, sending : BOOLEAN, owner : Turns,
   active : Turns, adopted : Turns, receipt : Receipts, unsure : BOOLEAN, lost : BOOLEAN,
   revision : Nat, draft : Turns, taken : BOOLEAN, left : TurnSets]

Started ==
  [pc : Under, conversation : Places, epoch : Nat, revision : Nat, retried : BOOLEAN,
   stopped : BOOLEAN, expects : Nat, presented : BOOLEAN, ambiguous : BOOLEAN,
   known : Knowledge, asked : Nat]
Tasks == Started \cup {Idle, [pc |-> "feedback"], [pc |-> "done"]}

Stopping == [pc : {"cancel", "reconcile"}, epoch : Nat, known : Answers, asked : Nat]
Openings == [pc : {"cancel", "read"}, conversation : Conversations, turn : Turns]
Changes == [pc : {"patch", "reread"}, conversation : Conversations, epoch : Nat, expects : Nat]
Recoveries ==
  [pc : {"asked"}, turn : Sends, conversation : Places, epoch : Nat, revision : Nat]

(* Types that are complete, so that a step can be followed field by field.   *)
Types ==
  /\ server \in [Sends -> Statuses] /\ home \in [Sends -> Places] /\ base \in [Sends -> Nat]
  /\ exists \subseteq Conversations /\ binding \in [Conversations -> Nat]
  /\ wire \subseteq Requests /\ claimed \subseteq Sends
  /\ page \in Pages /\ shown \in [Sends -> Displays]
  /\ task \in [Sends -> Tasks] /\ stop \in [Sends -> Stopping \cup {Idle}]
  /\ opening \in Openings \cup {Idle}
  /\ change \in Changes \cup {Idle}
  /\ recovery \in Recoveries \cup {Idle}

-----------------------------------------------------------------------------
(* The ledger by itself: a turn that began has a conversation that exists,   *)
(* and no two turns of a conversation are pending.                           *)
LedgerOK ==
  /\ \A t \in Sends : /\ server[t] = "none" <=> home[t] = None
                      /\ home[t] \in exists \cup {None}
  /\ \A t, u \in Sends : server[t] = "pending" /\ server[u] = "pending" /\ home[t] = home[u] => t = u

(* What the page and its handlers remember of turn t is true of it.          *)
Remembers(t) ==
  /\ home[t] # None => task[t].pc # "idle"
  /\ page.active = t \/ page.adopted = t \/ stop[t].pc # "idle" \/ shown[t] # "hidden"
       => home[t] # None
  /\ task[t].pc \in {"chat", "cancel", "reconcile"} =>
       home[t] # None /\ home[t] = task[t].conversation
  /\ task[t].pc \in Waiting /\ task[t].conversation # None /\ home[t] # None =>
       home[t] = task[t].conversation
  /\ shown[t] \in {"settled", "unrefreshed"} => server[t] \in Ended
  /\ task[t].pc \in Under /\ task[t].known \in Ended => server[t] = task[t].known
  /\ stop[t].pc # "idle" /\ stop[t].known \in Ended => server[t] = stop[t].known

(* A turn whose text is in the composer has no answer and cannot get one.    *)
Unasked(t) ==
  /\ task[t].pc \in Waiting \cup {"idle"} => t \notin claimed
  /\ page.draft = t => \/ server[t] = "unanswered"
                       \/ t \notin claimed /\ task[t].pc = "done"

(* Handlers were started in this chat or an earlier one.                     *)
Past(t) ==
  /\ task[t].pc \in Under => task[t].epoch <= page.epoch
  /\ stop[t].pc # "idle" => stop[t].epoch <= page.epoch

(* A request on the wire is one of a send that was made, for its place.      *)
WireOK ==
  \A r \in wire : /\ task[r.turn].pc # "idle"
                  /\ task[r.turn].pc \in Waiting => r.conversation = task[r.turn].conversation

Memory == LedgerOK /\ WireOK /\ \A t \in Sends : Remembers(t) /\ Unasked(t) /\ Past(t)

-----------------------------------------------------------------------------
(* A send that waits in the open chat, a Stop that was pressed in it.        *)
Here1(s) == task[s].pc \in Under /\ task[s].epoch = page.epoch
StopHere(t) == stop[t].pc # "idle" /\ stop[t].epoch = page.epoch

(* The send that owns the slot.                                              *)
Owns(s) == page.owner = s =>
  /\ page.sending /\ page.adopted = None
  /\ task[s].pc \in Under \cup {"feedback"}
  /\ task[s].pc \in Under => /\ task[s].epoch = page.epoch /\ ~task[s].stopped
                             /\ task[s].presented <=> page.active = s
  /\ task[s].pc = "feedback" => page.active = s /\ shown[s] # "active"

(* A send of the open chat: it owns the slot until its turn is displayed.    *)
Runs(s) ==
  /\ task[s].pc = "start" /\ ~task[s].stopped => task[s].epoch = page.epoch
  /\ task[s].pc = "chat" => task[s].presented
  /\ task[s].pc = "chat" /\ ~task[s].stopped => page.owner = s
  /\ task[s].pc \in Waiting => ~task[s].presented
  /\ Here1(s) => IF task[s].presented THEN shown[s] # "hidden" ELSE
       /\ page.owner = s /\ shown[s] = "hidden"
       /\ \/ page.open = task[s].conversation
          \/ page.open = None /\ task[s].pc \notin Waiting

(* The turn the page takes for the active one, and the one it polls.         *)
Active(t) ==
  /\ page.active = t /\ page.sending /\ page.owner = None => page.adopted = t
  /\ page.adopted = t => page.active = t /\ page.owner = None /\ page.sending

(* A Stop has taken the slot from the send it stops, for itself.             *)
Stops(t) ==
  /\ stop[t].pc # "idle" => page.owner # t
  /\ StopHere(t) /\ shown[t] = "active" =>
       page.sending /\ page.owner = None /\ page.active \in {None, t}

Spins(t) ==
  shown[t] = "active" =>
    page.owner = t \/ page.adopted = t \/ StopHere(t) \/ t \in page.left

(* While a chat is being read nothing runs in the page.                      *)
Reads ==
  /\ page.loading <=> opening # Idle
  /\ page.loading =>
       /\ ~page.sending
       /\ \A t \in Sends : ~Here1(t) /\ ~StopHere(t) /\ (shown[t] = "active" => t \in page.left)

HasHolder ==
  page.sending => page.owner # None \/ page.adopted # None \/ \E t \in Sends : StopHere(t)

Slot ==
  /\ Reads /\ HasHolder /\ ShownAtHome
  /\ \A t \in Sends : Owns(t) /\ Runs(t) /\ Active(t) /\ Stops(t) /\ Spins(t)

PageIInv == Types /\ Memory /\ (page.taken \/ Slot)

-----------------------------------------------------------------------------
LEMMA SendsAreNumbers ==
  /\ Sends \subseteq Nat /\ None \notin Sends /\ None \notin Conversations
  /\ None \notin Ended \cup {"pending", "none"}
BY PageConstants DEF Sends

(* The functions that make a page of a page.                                 *)
LEMMA PagesStay ==
  ASSUME NEW p \in Pages
  PROVE  /\ Touched(p) \in Pages
         /\ \A s \in Sends : Released(p, s) \in Pages
         /\ \A r \in BOOLEAN : Abandoned(p, r) \in Pages
         /\ \A t \in Sends : Adopted(p, t) \in Pages
         /\ \A c \in Places : [p EXCEPT !.owner = None, !.open = c] \in Pages
<1>1. Touched(p) \in Pages
  BY DEF Pages, Touched
<1>2. \A s \in Sends : Released(p, s) \in Pages
  BY DEF Pages, Released, Turns
<1>3. \A r \in BOOLEAN : Abandoned(p, r) \in Pages
  BY DEF Pages, Abandoned, Turns
<1>4. \A t \in Sends : Adopted(p, t) \in Pages
  BY DEF Pages, Adopted, Turns
<1>5. \A c \in Places : [p EXCEPT !.owner = None, !.open = c] \in Pages
  BY DEF Pages, Turns
<1> QED  BY <1>1, <1>2, <1>3, <1>4, <1>5

LEMMA OvertakingStays ==
  ASSUME NEW p \in Pages, NEW t \in Sends
  PROVE  /\ Overtaking(p, t) \in Pages
         /\ Overtaking(p, t) = [p EXCEPT !.taken = p.taken \/ Held(p, t)]
<1>1. Held(p, t) \in BOOLEAN
  BY DEF Held
<1>2. \A b \in BOOLEAN : [p EXCEPT !.taken = p.taken \/ b] \in Pages
  BY DEF Pages
<1> QED  BY <1>1, <1>2 DEF Overtaking

LEMMA RereadStays ==
  ASSUME Types, NEW p \in Pages, NEW t \in Sends, home[t] # None, NEW e
  PROVE  Reread(p, t, e) \in Pages
<1>1. home[t] \in Conversations /\ binding[home[t]] \in Nat
  BY DEF Types, Places
<1>2. Receipt(home[t], binding[home[t]]) \in Receipts
  BY <1>1 DEF Receipt, Receipts
<1>3. \A r \in Receipts : [p EXCEPT !.receipt = r, !.unsure = FALSE] \in Pages
  BY DEF Pages
<1> QED  BY <1>2, <1>3 DEF Reread

(* The slot of a page: all that the second half of the invariant looks at.    *)
SameSlot(p, q) ==
  /\ q.open = p.open /\ q.epoch = p.epoch /\ q.loading = p.loading /\ q.sending = p.sending
  /\ q.owner = p.owner /\ q.active = p.active /\ q.adopted = p.adopted
  /\ q.taken = p.taken /\ q.left = p.left

LEMMA RereadSlot ==
  ASSUME NEW p \in Pages, NEW t, NEW e
  PROVE  SameSlot(p, Reread(p, t, e)) /\ Reread(p, t, e).draft = p.draft
BY DEF SameSlot, Reread, Pages

LEMMA TasksGet ==
  ASSUME NEW k \in Tasks
  PROVE  /\ k.pc \in Under \cup {"idle", "feedback", "done"}
         /\ k.pc \in Under => k \in Started
BY DEF Tasks, Started, Idle, Under

LEMMA StopsGet ==
  ASSUME NEW k \in Stopping \cup {Idle}
  PROVE  /\ k.pc \in {"idle", "cancel", "reconcile"}
         /\ k.pc # "idle" => k \in Stopping
         /\ k # Idle => k.pc # "idle"
BY DEF Stopping, Idle

-----------------------------------------------------------------------------
(* What a step may do to the ledger.                                          *)
Grows ==
  /\ \A t \in Sends : /\ home[t] # None => home'[t] = home[t]
                      /\ server[t] \in Ended => server'[t] = server[t]
  /\ exists \subseteq exists'

LedgerTypes ==
  /\ server \in [Sends -> Statuses] /\ home \in [Sends -> Places] /\ base \in [Sends -> Nat]
  /\ exists \subseteq Conversations

LEMMA SameLedger ==
  ASSUME LedgerOK, UNCHANGED <<server, home, exists>>
  PROVE  LedgerOK' /\ Grows
BY DEF LedgerOK, Grows

LEMMA BeginLedger ==
  ASSUME LedgerTypes, LedgerOK, binding \in [Conversations -> Nat], NEW r \in Requests,
         Admits(r), NEW S, S \subseteq {"pending", "unanswered"}, Begin(r, S)
  PROVE  /\ LedgerTypes' /\ LedgerOK' /\ Grows
         /\ server'[r.turn] # "none" /\ home'[r.turn] # None /\ home'[r.turn] \in Conversations
         /\ r.conversation # None /\ home[r.turn] = None => home'[r.turn] = r.conversation
         /\ \A t \in Sends : t # r.turn => server'[t] = server[t] /\ home'[t] = home[t]
<1> DEFINE u == r.turn
<1>0. u \in Sends /\ r.conversation \in Places
  BY DEF Requests
<1>1. CASE server[u] # "none"
  <2>1. UNCHANGED <<server, home, base, exists>>
    BY <1>1 DEF Begin, ledger
  <2>2. home[u] # None /\ home[u] \in Conversations
    BY <1>0, <1>1, SendsAreNumbers DEF LedgerOK, LedgerTypes
  <2> QED  BY <1>0, <1>1, <2>1, <2>2, SameLedger DEF LedgerTypes
<1>2. CASE server[u] = "none"
  <2>1. PICK c \in (IF r.conversation = None THEN Conversations \ exists ELSE {r.conversation}),
             status \in S :
          /\ server' = [server EXCEPT ![u] = status]
          /\ home' = [home EXCEPT ![u] = c]
          /\ base' = [base EXCEPT ![u] = binding[c]]
          /\ exists' = exists \cup {c}
    BY <1>2 DEF Begin
  <2>2. c \in Conversations /\ c # None /\ binding[c] \in Nat
    BY <1>0, SendsAreNumbers DEF Places
  <2>3. status \in {"pending", "unanswered"}
    OBVIOUS
  <2>4. LedgerTypes'
    BY <1>0, <2>1, <2>2, <2>3 DEF LedgerTypes, Statuses, Ended, Places
  <2>5. /\ server'[u] = status /\ home'[u] = c
        /\ \A t \in Sends : t # u => server'[t] = server[t] /\ home'[t] = home[t]
    BY <1>0, <2>1 DEF LedgerTypes
  <2>6. home[u] = None
    BY <1>0, <1>2 DEF LedgerOK
  <2>7. Grows
    BY <1>2, <2>1, <2>5, <2>6 DEF Grows, Ended
  <2>8. \A t \in Sends : home[t] = c => server[t] # "pending"
    <3>1. CASE r.conversation = None
      BY <2>1, <2>2, <3>1 DEF LedgerOK
    <3>2. CASE r.conversation # None
      BY <1>2, <2>1, <3>2 DEF Admits, Busy
    <3> QED  BY <3>1, <3>2
  <2>9. LedgerOK'
    <3>1. \A t \in Sends : /\ server'[t] = "none" <=> home'[t] = None
                           /\ home'[t] \in exists' \cup {None}
      BY <2>1, <2>2, <2>3, <2>5 DEF LedgerOK
    <3>2. ASSUME NEW t \in Sends, NEW v \in Sends, server'[t] = "pending", server'[v] = "pending",
                 home'[t] = home'[v]
          PROVE  t = v
      BY <2>5, <2>8, <3>2 DEF LedgerOK
    <3> QED  BY <3>1, <3>2 DEF LedgerOK
  <2>10. r.conversation # None => c = r.conversation
    OBVIOUS
  <2> QED  BY <2>2, <2>3, <2>4, <2>5, <2>7, <2>9, <2>10
<1> QED  BY <1>1, <1>2

(* Turn t ends, if it was pending.                                            *)
LEMMA EndLedger ==
  ASSUME LedgerTypes, LedgerOK, NEW t, NEW status \in Ended,
         server' = [server EXCEPT ![t] = IF @ = "pending" THEN status ELSE @],
         UNCHANGED <<home, base, exists>>
  PROVE  LedgerTypes' /\ LedgerOK' /\ Grows
<1>1. LedgerTypes'
  BY DEF LedgerTypes, Statuses
<1>2. \A u \in Sends : server'[u] = server[u] \/ (server[u] = "pending" /\ server'[u] = status)
  BY DEF LedgerTypes
<1>3. LedgerOK'
  BY <1>2 DEF LedgerOK, Ended
<1>4. Grows
  BY <1>2 DEF Grows, Ended
<1> QED  BY <1>1, <1>3, <1>4

LEMMA CancellationLedger ==
  ASSUME LedgerTypes, LedgerOK, NEW t, NEW answer, Cancellation(t, answer)
  PROVE  /\ LedgerTypes' /\ LedgerOK' /\ Grows
         /\ t \in Sends /\ answer \in Ended => server'[t] = answer
<1>1. UNCHANGED <<home, base, exists>>
  BY DEF Cancellation
<1>2. CASE UNCHANGED server
  <2>1. answer = None \/ answer = server'[t]
    BY DEF Cancellation
  <2> QED  BY <1>1, <1>2, <2>1, SameLedger, SendsAreNumbers DEF LedgerTypes
<1>3. CASE CancelAtServer(t)
  <2>1. answer = None \/ answer = server'[t]
    BY DEF Cancellation
  <2> QED  BY <1>1, <1>3, <2>1, EndLedger, SendsAreNumbers DEF CancelAtServer, Ended
<1> QED  BY <1>2, <1>3 DEF Cancellation

LEMMA RequestTypes ==
  ASSUME Types, NEW s \in Sends, task[s].pc \in Waiting
  PROVE  /\ Request(s) \in Requests
         /\ Request(s).turn = s /\ Request(s).conversation = task[s].conversation
BY TasksGet DEF Types, Request, Requests, Started, Waiting, Under

LEMMA UnheardLedger ==
  ASSUME Types, LedgerOK, NEW r \in Requests, Unheard(r)
  PROVE  /\ LedgerTypes' /\ LedgerOK' /\ Grows
         /\ \A t \in Sends : t # r.turn => server'[t] = server[t] /\ home'[t] = home[t]
         /\ r.conversation # None /\ home[r.turn] = None =>
              home'[r.turn] \in {None, r.conversation}
         /\ wire' \in {wire, wire \cup {r}} /\ UNCHANGED <<binding, claimed>>
<1>0. LedgerTypes /\ binding \in [Conversations -> Nat] /\ r.turn \in Sends
  BY DEF Types, LedgerTypes, Requests
<1>1. CASE UNCHANGED <<server, home, base, exists>>
  <2>1. LedgerTypes' /\ LedgerOK' /\ Grows
    BY <1>0, <1>1, SameLedger DEF LedgerTypes
  <2> QED  BY <1>0, <1>1, <2>1 DEF Unheard
<1>2. CASE Admits(r) /\ Begin(r, {"pending", "unanswered"}) /\ UNCHANGED wire
  BY <1>0, <1>2, BeginLedger DEF Unheard
<1> QED  BY <1>1, <1>2 DEF Unheard, ledger

LEMMA LedgerStep ==
  ASSUME Types, Memory, Next
  PROVE  LedgerTypes' /\ LedgerOK' /\ Grows
<1>0. LedgerTypes /\ LedgerOK /\ binding \in [Conversations -> Nat]
  BY DEF Types, LedgerTypes, Memory
<1>1. ASSUME UNCHANGED <<server, home, base, exists>>
      PROVE  LedgerTypes' /\ LedgerOK' /\ Grows
  BY <1>0, <1>1, SameLedger DEF LedgerTypes
<1>2. ASSUME NEW s \in Sends, StartAccepted(s) \/ ReplayAnswered(s)
      PROVE  LedgerTypes' /\ LedgerOK' /\ Grows
  <2>1. task[s].pc \in Waiting /\ Admits(Request(s)) /\ Begin(Request(s), {"pending"})
    BY <1>2 DEF StartAccepted, ReplayAnswered, Waiting
  <2> QED  BY <1>0, <2>1, RequestTypes, BeginLedger
<1>3. ASSUME NEW s \in Sends, StartUnanswered(s) \/ ReplayUnanswered(s)
      PROVE  LedgerTypes' /\ LedgerOK' /\ Grows
  <2>1. task[s].pc \in Waiting
    BY <1>3 DEF StartUnanswered, ReplayUnanswered, Waiting
  <2>2. Unheard(Request(s)) \/ UNCHANGED <<server, home, base, exists>>
    BY <1>3 DEF StartUnanswered, ReplayUnanswered, serverVars
  <2> QED  BY <1>0, <1>1, <2>1, <2>2, RequestTypes, UnheardLedger
<1>4. ASSUME NEW t, NEW answer, Cancellation(t, answer)
      PROVE  LedgerTypes' /\ LedgerOK' /\ Grows
  BY <1>0, <1>4, CancellationLedger
<1>5. ASSUME NEW t \in Sends, Settle(t)
      PROVE  LedgerTypes' /\ LedgerOK' /\ Grows
  <2>1. /\ UNCHANGED <<home, base, exists>>
        /\ \E status \in Ended : server' = [server EXCEPT ![t] = IF @ = "pending" THEN status ELSE @]
    BY <1>5 DEF Settle, Ended
  <2> QED  BY <1>0, <2>1, EndLedger
<1>6. ASSUME NEW r \in wire, LateStart(r)
      PROVE  LedgerTypes' /\ LedgerOK' /\ Grows
  <2>1. r \in Requests
    BY DEF Types
  <2>2. \/ Admits(r) /\ Begin(r, {"pending", "unanswered"})
        \/ UNCHANGED <<server, home, base, exists>>
    BY <1>6 DEF LateStart, ledger
  <2> QED  BY <1>0, <1>1, <2>1, <2>2, BeginLedger
<1>7. ASSUME NEW s \in Sends, Send(s) \/ Sending(s) \/ StopSent(s) \/ StopReconciled(s)
      PROVE  LedgerTypes' /\ LedgerOK' /\ Grows
  <2>1. CASE StartAccepted(s) \/ ReplayAnswered(s)  BY <2>1, <1>2
  <2>2. CASE StartUnanswered(s) \/ ReplayUnanswered(s)  BY <2>2, <1>3
  <2>3. CASE CancelSent(s)  BY <2>3, <1>4 DEF CancelSent
  <2>4. CASE StopSent(s)  BY <2>4, <1>4 DEF StopSent
  <2>5. CASE Send(s)  BY <2>5, <1>1 DEF Send, serverVars
  <2>6. CASE StartRefused(s)  BY <2>6, <1>1 DEF StartRefused, serverVars
  <2>7. CASE StartBroken(s)  BY <2>7, <1>1 DEF StartBroken, serverVars
  <2>8. CASE Answered(s)  BY <2>8, <1>1 DEF Answered, serverVars
  <2>9. CASE SendReturns(s)  BY <2>9, <1>1 DEF SendReturns, serverVars
  <2>10. CASE ChatFails(s)  BY <2>10, <1>1 DEF ChatFails, serverVars
  <2>11. CASE SendReconciled(s)  BY <2>11, <1>1 DEF SendReconciled, serverVars
  <2>12. CASE StopReconciled(s)  BY <2>12, <1>1 DEF StopReconciled, serverVars
  <2> QED
    BY <1>7, <2>1, <2>2, <2>3, <2>4, <2>5, <2>6, <2>7, <2>8, <2>9, <2>10, <2>11, <2>12 DEF Sending
<1>8. CASE OpenAbandons  BY <1>4, <1>8 DEF OpenAbandons
<1>9. CASE Stop \/ OpenRead \/ StartNewChat \/ Reload \/ Poll \/ Rebind \/ RebindSent
           \/ RebindReread \/ Restored
  <2>1. UNCHANGED <<server, home, base, exists>>
    BY <1>9 DEF Stop, OpenRead, StartNewChat, Reload, Poll, Rebind, RebindSent, RebindReread, Restored,
       serverVars, ledger
  <2> QED  BY <1>1, <2>1
<1>10. ASSUME NEW c, OpenConversation(c) \/ Restore(c)
       PROVE  LedgerTypes' /\ LedgerOK' /\ Grows
  <2>1. UNCHANGED <<server, home, base, exists>>
    BY <1>10 DEF OpenConversation, Restore, serverVars
  <2> QED  BY <1>1, <2>1
<1> QED  BY <1>5, <1>6, <1>7, <1>8, <1>9, <1>10 DEF Next

-----------------------------------------------------------------------------
(* The other types, which the lemmas on the ledger do not speak of.           *)
RestTypes ==
  /\ binding \in [Conversations -> Nat] /\ wire \subseteq Requests /\ claimed \subseteq Sends
  /\ page \in Pages /\ shown \in [Sends -> Displays]
  /\ task \in [Sends -> Tasks] /\ stop \in [Sends -> Stopping \cup {Idle}]
  /\ opening \in Openings \cup {Idle}
  /\ change \in Changes \cup {Idle}
  /\ recovery \in Recoveries \cup {Idle}

LEMMA TypesAre == Types <=> LedgerTypes /\ RestTypes
BY DEF Types, LedgerTypes, RestTypes

LEMMA TasksStay ==
  /\ Idle \in Tasks /\ [pc |-> "done"] \in Tasks /\ [pc |-> "feedback"] \in Tasks
  /\ \A s \in Sends, k \in Tasks : task \in [Sends -> Tasks] =>
       [task EXCEPT ![s] = k] \in [Sends -> Tasks]
  /\ \A k \in Started : [k EXCEPT !.stopped = TRUE] \in Started
  /\ Started \subseteq Tasks
BY DEF Tasks, Started

LEMMA AbortedStays ==
  ASSUME Types, NEW s \in Turns
  PROVE  /\ Aborted(s) \in [Sends -> Tasks]
         /\ \A q \in Sends : Aborted(s)[q] =
              IF q = s /\ task[s].pc \in {"start", "chat"} THEN [task[q] EXCEPT !.stopped = TRUE]
              ELSE task[q]
<1>1. CASE s # None /\ task[s].pc \in {"start", "chat"}
  <2>1. task[s] \in Started
    BY <1>1, TasksGet DEF Types, Turns, Under
  <2>2. [task[s] EXCEPT !.stopped = TRUE] \in Tasks
    BY <2>1, TasksStay
  <2>3. Aborted(s) = [task EXCEPT ![s] = [task[s] EXCEPT !.stopped = TRUE]]
    BY <1>1 DEF Aborted
  <2> QED  BY <1>1, <2>2, <2>3, TasksStay DEF Types, Turns
<1>2. CASE ~(s # None /\ task[s].pc \in {"start", "chat"})
  <2>1. Aborted(s) = task
    BY <1>2 DEF Aborted
  <2> QED  BY <1>2, <2>1, SendsAreNumbers DEF Types
<1> QED  BY <1>1, <1>2

LEMMA DisplaysStay ==
  ASSUME Types, NEW t \in Sends
  PROVE  /\ \A u \in Sends : Status(u) \in {"hidden", "active", "settled"}
         /\ Redisplayed(t) \in [Sends -> Displays]
         /\ \A h \in Displays : Displayed(t, h) \in [Sends -> Displays]
         /\ \A c : Timeline(c) \in [Sends -> Displays]
<1>1. \A u \in Sends : Status(u) \in {"hidden", "active", "settled"}
  BY DEF Status
<1> QED  BY <1>1 DEF Redisplayed, Displayed, Timeline, Types, Displays

LEMMA SendTypes ==
  ASSUME Types, NEW s \in Sends, Send(s)
  PROVE  RestTypes'
<1>1. page \in Pages
  BY DEF Types
<1>2. [page EXCEPT !.sending = TRUE, !.adopted = None, !.owner = s, !.draft = None] \in Pages
  BY <1>1 DEF Pages, Turns
<1>3. page.open # None => page.receipt.version \in Nat
  BY <1>1 DEF Send, Pages, Receipts
<1>4. task'[s] \in Started /\ task' \in [Sends -> Tasks]
  <2>1. PICK k : task' = [task EXCEPT ![s] = k] /\ k =
          [pc |-> "start", conversation |-> page.open, epoch |-> page.epoch,
           revision |-> page.revision, retried |-> FALSE, stopped |-> FALSE,
           expects |-> IF page.open = None THEN 0 ELSE page.receipt.version,
           presented |-> FALSE, ambiguous |-> FALSE, known |-> None, asked |-> 0]
    BY DEF Send
  <2>2. k \in Started
    BY <1>1, <1>3, <2>1 DEF Pages, Started, Under, Knowledge
  <2> QED  BY <2>1, <2>2, TasksStay DEF Types
<1> QED  BY <1>2, <1>4 DEF Send, Types, RestTypes, serverVars

(* A send whose record is replaced or changed, and a page with a receipt.     *)
LEMMA StartAcceptedTypes ==
  ASSUME Types, LedgerTypes', NEW s \in Sends, StartAccepted(s), home'[s] \in Conversations
  PROVE  RestTypes'
<1>1. task[s] \in Started /\ page \in Pages /\ base'[s] \in Nat
  BY TasksGet DEF StartAccepted, Types, Under, LedgerTypes
<1>2. Receipt(home'[s], base'[s]) \in Receipts
  BY <1>1 DEF Receipt, Receipts
<1>3. page' \in Pages
  <2>1. \A r \in Receipts, c \in Conversations :
          [page EXCEPT !.receipt = r, !.lost = FALSE, !.active = s, !.open = c] \in Pages
    BY <1>1 DEF Pages, Turns, Places
  <2> QED  BY <1>2, <2>1 DEF StartAccepted
<1>4. task' \in [Sends -> Tasks]
  <2>1. [task[s] EXCEPT !.pc = "chat", !.conversation = home'[s], !.presented = TRUE, !.expects = 0] \in Tasks
    BY <1>1, TasksStay DEF Started, Places, Under
  <2>2. task' = [task EXCEPT ![s] =
          [task[s] EXCEPT !.pc = "chat", !.conversation = home'[s], !.presented = TRUE, !.expects = 0]]
    BY <1>1 DEF StartAccepted, Types
  <2> QED  BY <2>1, <2>2, TasksStay DEF Types
<1> QED  BY <1>3, <1>4 DEF StartAccepted, Types, RestTypes, Displays

LEMMA ReplayAnsweredTypes ==
  ASSUME Types, LedgerTypes', NEW s \in Sends, ReplayAnswered(s), home'[s] \in Conversations,
         server'[s] # "none"
  PROVE  RestTypes'
<1>1. task[s] \in Started /\ page \in Pages /\ base'[s] \in Nat
  BY TasksGet DEF ReplayAnswered, Types, Under, LedgerTypes
<1>2. Receipt(home'[s], base'[s]) \in Receipts /\ server'[s] \in Knowledge
  BY <1>1 DEF Receipt, Receipts, LedgerTypes, Statuses, Knowledge
<1>3. page' \in Pages
  <2>1. \A r \in Receipts : [page EXCEPT !.receipt = r] \in Pages
    BY <1>1 DEF Pages
  <2> QED  BY <1>2, <2>1 DEF ReplayAnswered
<1>4. task' \in [Sends -> Tasks]
  <2>1. [task[s] EXCEPT !.pc = "cancel", !.conversation = home'[s],
                        !.ambiguous = TRUE, !.known = server'[s], !.expects = 0] \in Tasks
    BY <1>1, <1>2, TasksStay DEF Started, Places, Under
  <2>2. task' = [task EXCEPT ![s] =
          [task[s] EXCEPT !.pc = "cancel", !.conversation = home'[s],
                          !.ambiguous = TRUE, !.known = server'[s], !.expects = 0]]
    BY <1>1 DEF ReplayAnswered, Types
  <2> QED  BY <2>1, <2>2, TasksStay DEF Types
<1> QED  BY <1>3, <1>4 DEF ReplayAnswered, Types, RestTypes

(* The send ends, or waits for something else.                                *)
LEMMA ShortTypes ==
  ASSUME Types, NEW s \in Sends,
         \/ StartRefused(s) \/ StartBroken(s) \/ Answered(s) \/ SendReturns(s)
         \/ ChatFails(s) \/ CancelSent(s)
  PROVE  RestTypes'
<1>0. page \in Pages
  BY DEF Types
<1>1. CASE StartRefused(s) \/ StartBroken(s)
  <2>1. \E d \in Turns : page' = Released([page EXCEPT !.draft = d], s)
    BY <1>0, <1>1 DEF StartRefused, StartBroken, Pages, Turns
  <2>2. \A d \in Turns : [page EXCEPT !.draft = d] \in Pages
    BY <1>0 DEF Pages
  <2>3. task' \in [Sends -> Tasks]
    BY <1>1, TasksStay DEF StartRefused, StartBroken, Finished, Types
  <2>4. page' \in Pages
    BY <2>1, <2>2, PagesStay
  <2> QED  BY <1>1, <2>3, <2>4 DEF StartRefused, StartBroken, Types, RestTypes, serverVars
<1>2. CASE Answered(s)
  <2>1. page' \in Pages
    <3>1. CASE page.receipt = None
      BY <1>0, <1>2, <3>1 DEF Answered
    <3>2. CASE page.receipt # None
      <4>1. page.receipt \in [conversation : Conversations, version : Nat]
        BY <1>0, <3>2 DEF Pages, Receipts
      <4>2. [page.receipt EXCEPT !.version = @ + 1] \in Receipts
        BY <4>1 DEF Receipts
      <4>3. \A r \in Receipts : [page EXCEPT !.receipt = r] \in Pages
        BY <1>0 DEF Pages
      <4>4. page' \in {page, [page EXCEPT !.receipt = [page.receipt EXCEPT !.version = @ + 1]]}
        BY <1>0, <1>2 DEF Answered
      <4> QED  BY <1>0, <4>2, <4>3, <4>4
    <3> QED  BY <3>1, <3>2
  <2>2. task' \in [Sends -> Tasks]
    BY <1>2, TasksStay DEF Answered, Types
  <2>3. shown' \in [Sends -> Displays]
    BY <1>2, DisplaysStay DEF Answered, Displays
  <2> QED  BY <1>2, <2>1, <2>2, <2>3 DEF Answered, Types, RestTypes, serverVars
<1>3. CASE SendReturns(s)
  <2>1. task' \in [Sends -> Tasks]
    BY <1>3, TasksStay DEF SendReturns, Finished, Types
  <2> QED  BY <1>0, <1>3, <2>1, PagesStay DEF SendReturns, Types, RestTypes, serverVars
<1>4. CASE ChatFails(s)
  <2>1. task[s] \in Started /\ page.epoch \in Nat
    BY <1>0, <1>4, TasksGet DEF ChatFails, Types, Under, Pages
  <2>2. \A pc \in {"cancel", "reconcile"} :
          [task[s] EXCEPT !.pc = pc, !.asked = page.epoch] \in Tasks
    BY <2>1, TasksStay DEF Started, Under
  <2>3. \E pc \in {"cancel", "reconcile"} :
          task' = [task EXCEPT ![s] = [task[s] EXCEPT !.pc = pc, !.asked = page.epoch]]
    BY <1>4, <2>1 DEF ChatFails, Types
  <2>4. task' \in [Sends -> Tasks]
    BY <2>2, <2>3, TasksStay DEF Types
  <2> QED  BY <1>4, <2>4 DEF ChatFails, Types, RestTypes, serverVars
<1>5. CASE CancelSent(s)
  <2>1. task[s] \in Started /\ page.epoch \in Nat
    BY <1>0, <1>5, TasksGet DEF CancelSent, Types, Under, Pages
  <2>2. \A known \in Knowledge :
          [task[s] EXCEPT !.pc = "reconcile", !.asked = page.epoch, !.known = known] \in Tasks
    BY <2>1, TasksStay DEF Started, Under
  <2>3. \E known \in Knowledge :
          task' = [task EXCEPT ![s] =
            [task[s] EXCEPT !.pc = "reconcile", !.asked = page.epoch, !.known = known]]
    <3>1. PICK answer \in Ended \cup {None} :
            task' = [task EXCEPT ![s].pc = "reconcile", ![s].asked = page.epoch,
                                 ![s].known = IF answer = None THEN @ ELSE answer]
      BY <1>5 DEF CancelSent
    <3>2. task[s].known \in Knowledge /\ (answer # None => answer \in Knowledge)
      BY <2>1 DEF Started, Knowledge
    <3>3. task' = [task EXCEPT ![s] =
            [task[s] EXCEPT !.pc = "reconcile", !.asked = page.epoch,
                            !.known = IF answer = None THEN task[s].known ELSE answer]]
      BY <2>1, <3>1 DEF Types, Started
    <3> QED  BY <3>2, <3>3
  <2>4. task' \in [Sends -> Tasks]
    BY <2>2, <2>3, TasksStay DEF Types
  <2>5. UNCHANGED <<binding, wire, claimed>>
    BY <1>5 DEF CancelSent, Cancellation
  <2> QED  BY <1>5, <2>4, <2>5 DEF CancelSent, Types, RestTypes
<1> QED  BY <1>1, <1>2, <1>3, <1>4, <1>5

LEMMA UnansweredTypes ==
  ASSUME Types, LedgerOK, NEW s \in Sends, StartUnanswered(s) \/ ReplayUnanswered(s)
  PROVE  RestTypes'
<1>0. /\ page \in Pages /\ task[s] \in Started /\ Request(s) \in Requests
      /\ task \in [Sends -> Tasks] /\ wire \subseteq Requests
  BY TasksGet, RequestTypes
  DEF StartUnanswered, ReplayUnanswered, Types, Under, Waiting
<1>1. wire' \subseteq Requests /\ UNCHANGED <<binding, claimed>>
  <2>1. Unheard(Request(s)) \/ UNCHANGED <<wire, binding, claimed>>
    BY DEF StartUnanswered, ReplayUnanswered, serverVars
  <2>2. Unheard(Request(s)) => wire' \in {wire, wire \cup {Request(s)}} /\ UNCHANGED <<binding, claimed>>
    BY DEF Unheard
  <2> QED  BY <1>0, <2>1, <2>2
<1>2. CASE StartUnanswered(s)
  <2>1. \A pc \in Waiting : [task[s] EXCEPT !.retried = TRUE, !.pc = pc] \in Tasks
    BY <1>0, TasksStay DEF Started, Under, Waiting
  <2>2. \E pc \in Waiting : task' = [task EXCEPT ![s] = [task[s] EXCEPT !.retried = TRUE, !.pc = pc]]
    BY <1>0, <1>2 DEF StartUnanswered, Waiting, Started
  <2>3. task' \in [Sends -> Tasks]
    BY <1>0, <2>1, <2>2, TasksStay
  <2> QED  BY <1>1, <1>2, <2>3 DEF StartUnanswered, Types, RestTypes
<1>3. CASE ReplayUnanswered(s)
  <2>1. \A b \in BOOLEAN : [page EXCEPT !.lost = b] \in Pages
    BY <1>0 DEF Pages
  <2>2. \E b \in BOOLEAN : page' = Released([page EXCEPT !.lost = b], s)
    BY <1>0, <1>3 DEF ReplayUnanswered, Pages
  <2>3. page' \in Pages
    BY <2>1, <2>2, PagesStay
  <2>4. task' \in [Sends -> Tasks]
    BY <1>0, <1>3, TasksStay DEF ReplayUnanswered, Finished
  <2> QED  BY <1>1, <1>3, <2>3, <2>4 DEF ReplayUnanswered, Types, RestTypes
<1> QED  BY <1>2, <1>3

(* How the catch clause of a send ends: the turn goes to the poll, or the     *)
(* slot is freed if it is still the send's; in between only flags change.     *)
CatchAdopts(s, status, p) ==
  /\ status \in {"pending", None} /\ StillHere(s, p) /\ ~p.loading
  /\ p.owner \in {None, s} /\ p.active \in {None, s}

AdoptsTurn(p, q, t) ==
  /\ q.epoch = p.epoch /\ q.loading = p.loading /\ q.sending = TRUE
  /\ q.active = t /\ q.adopted = t /\ q.left = p.left /\ q.taken = (p.taken \/ Held(p, t))

FreesSlot(p, q, s) ==
  /\ q.open = p.open /\ q.epoch = p.epoch /\ q.loading = p.loading /\ q.adopted = p.adopted
  /\ q.left = p.left /\ q.taken = p.taken
  /\ IF p.owner = s
     THEN q.owner = None /\ q.sending = FALSE /\ q.active = (IF p.active = s THEN None ELSE p.active)
     ELSE q.owner = p.owner /\ q.sending = p.sending /\ q.active = p.active

LEMMA ReleasedSlot ==
  ASSUME NEW p \in Pages, NEW s \in Sends
  PROVE  FreesSlot(p, Released(p, s), s) /\ Released(p, s).draft = p.draft
BY DEF Pages, FreesSlot, Released

LEMMA CatchEndsPage ==
  ASSUME Types, NEW s \in Sends, NEW status, NEW p \in Pages, NEW display,
         task[s] \in Started, CatchEnds(s, status, p, display)
  PROVE  /\ page' \in Pages
         /\ IF CatchAdopts(s, status, p)
            THEN /\ AdoptsTurn(p, page', s) /\ page'.owner = None
                 /\ page'.open = IF task[s].presented THEN p.open ELSE task[s].conversation
            ELSE FreesSlot(p, page', s)
         /\ page'.draft = p.draft \/ (page'.draft = s /\ status = "unanswered")
         /\ task' = Finished(s)
         /\ shown' = IF CatchAdopts(s, status, p) /\ (~task[s].presented \/ status = None)
                     THEN [display EXCEPT ![s] = "active"] ELSE display
<1> DEFINE k == task[s]
           here == StillHere(s, p)
           unlocked == [p EXCEPT !.lost = @ /\ ~(k.ambiguous /\ here /\ status \in Ended)]
           restored == [unlocked EXCEPT !.draft =
                          IF /\ ~k.presented /\ (k.stopped \/ k.ambiguous)
                             /\ status = "unanswered" /\ here /\ k.revision = p.revision
                          THEN s ELSE @]
           adopting == [Overtaking(Adopted(restored, s), s) EXCEPT
                          !.owner = IF @ = s THEN None ELSE @,
                          !.open = IF k.presented THEN @ ELSE k.conversation]
<1>0. here \in BOOLEAN
  BY DEF StillHere
<1>1. /\ restored \in Pages /\ SameSlot(p, restored)
      /\ restored.draft = p.draft \/ (restored.draft = s /\ status = "unanswered")
  <2>1. unlocked \in Pages /\ SameSlot(p, unlocked) /\ unlocked.draft = p.draft
    <3>1. \A b \in BOOLEAN : /\ [p EXCEPT !.lost = b] \in Pages /\ SameSlot(p, [p EXCEPT !.lost = b])
                             /\ [p EXCEPT !.lost = b].draft = p.draft
      BY DEF Pages, SameSlot
    <3>2. unlocked = [p EXCEPT !.lost = p.lost /\ ~(k.ambiguous /\ here /\ status \in Ended)]
      BY DEF Pages
    <3>3. (p.lost /\ ~(k.ambiguous /\ here /\ status \in Ended)) \in BOOLEAN
      OBVIOUS
    <3> HIDE DEF here, unlocked
    <3> QED  BY <3>1, <3>2, <3>3
  <2> HIDE DEF unlocked, here
  <2>2. restored = unlocked \/ (status = "unanswered" /\ restored = [unlocked EXCEPT !.draft = s])
    BY <2>1 DEF Pages
  <2>3. [unlocked EXCEPT !.draft = s] \in Pages /\ SameSlot(unlocked, [unlocked EXCEPT !.draft = s])
        /\ [unlocked EXCEPT !.draft = s].draft = s
    BY <2>1 DEF Pages, SameSlot, Turns
  <2> HIDE DEF restored
  <2> QED  BY <2>1, <2>2, <2>3 DEF SameSlot
<1>2. CatchAdopts(s, status, p) <=>
        /\ status \in {"pending", None}
        /\ ~(p.owner \notin {None, s} \/ p.active \notin {None, s})
        /\ here /\ ~p.loading
  BY DEF CatchAdopts
<1>3. /\ page' = Released(IF CatchAdopts(s, status, p) THEN adopting ELSE restored, s)
      /\ shown' = IF CatchAdopts(s, status, p) /\ (~k.presented \/ status = None)
                  THEN [display EXCEPT ![s] = "active"] ELSE display
      /\ task' = Finished(s)
  <2>1. CASE CatchAdopts(s, status, p)
    BY <1>2, <2>1 DEF CatchEnds
  <2>2. CASE ~CatchAdopts(s, status, p)
    BY <1>2, <2>2 DEF CatchEnds
  <2> QED  BY <2>1, <2>2
<1> HIDE DEF restored, here
<1>4. CASE ~CatchAdopts(s, status, p)
  <2>1. page' = Released(restored, s)
    BY <1>3, <1>4
  <2>2. FreesSlot(restored, page', s) /\ page'.draft = restored.draft /\ page' \in Pages
    BY <1>1, <2>1, ReleasedSlot, PagesStay
  <2> QED  BY <1>1, <1>3, <1>4, <2>2 DEF FreesSlot, SameSlot
<1>5. CASE CatchAdopts(s, status, p)
  <2> DEFINE a == Overtaking(Adopted(restored, s), s)
  <2>1. Adopted(restored, s) \in Pages
    BY <1>1, PagesStay
  <2>2. a \in Pages /\ a = [Adopted(restored, s) EXCEPT !.taken = Adopted(restored, s).taken \/ Held(Adopted(restored, s), s)]
    BY <2>1, OvertakingStays
  <2>3. Held(Adopted(restored, s), s) <=> Held(p, s)
    BY <1>1 DEF Held, Adopted, Pages, SameSlot
  <2>4. /\ AdoptsTurn(p, a, s) /\ a.owner = p.owner /\ a.open = p.open /\ a.draft = restored.draft
    BY <1>1, <2>1, <2>2, <2>3 DEF AdoptsTurn, Adopted, Pages, SameSlot
  <2>5. task[s].conversation \in Places
    BY DEF Started
  <2> HIDE DEF a
  <2>6. /\ adopting \in Pages /\ AdoptsTurn(p, adopting, s) /\ adopting.owner = None
        /\ adopting.open = (IF k.presented THEN p.open ELSE k.conversation)
        /\ adopting.draft = restored.draft
    <3>1. adopting = [a EXCEPT !.owner = IF @ = s THEN None ELSE @,
                               !.open = IF k.presented THEN @ ELSE k.conversation]
      BY DEF a
    <3>2. p.owner \in {None, s}
      BY <1>5 DEF CatchAdopts
    <3> HIDE DEF adopting
    <3>3. adopting = [a EXCEPT !.owner = None, !.open = IF k.presented THEN a.open ELSE k.conversation]
      BY <2>2, <2>4, <3>1, <3>2 DEF Pages
    <3> DEFINE o == IF k.presented THEN a.open ELSE k.conversation
    <3>4. o \in Places /\ o = (IF k.presented THEN p.open ELSE k.conversation)
      BY <2>2, <2>4, <2>5 DEF Pages
    <3> HIDE DEF o
    <3> DEFINE b == [a EXCEPT !.owner = None, !.open = o]
    <3>8. b \in Pages
      BY <2>2, <3>4, PagesStay
    <3>9. /\ b.epoch = a.epoch /\ b.loading = a.loading /\ b.sending = a.sending /\ b.active = a.active
          /\ b.adopted = a.adopted /\ b.left = a.left /\ b.taken = a.taken
      BY <2>2 DEF Pages
    <3>5. b \in Pages /\ AdoptsTurn(p, b, s)
      <4> HIDE DEF b
      <4> QED  BY <2>4, <3>8, <3>9 DEF AdoptsTurn
    <3>6. /\ [a EXCEPT !.owner = None, !.open = o].owner = None
          /\ [a EXCEPT !.owner = None, !.open = o].open = o
          /\ [a EXCEPT !.owner = None, !.open = o].draft = a.draft
      BY <2>2 DEF Pages
    <3>7. adopting = [a EXCEPT !.owner = None, !.open = o]
      BY <3>3 DEF o
    <3> QED  BY <2>4, <3>4, <3>5, <3>6, <3>7
  <2>7. page' = Released(adopting, s)
    BY <1>3, <1>5
  <2> HIDE DEF adopting
  <2>8. page' = adopting
    BY <2>6, <2>7, SendsAreNumbers DEF Released
  <2> QED  BY <1>1, <1>3, <1>5, <2>6, <2>8
<1> QED  BY <1>4, <1>5

(* How stopGenerating ends.                                                   *)
StopAdopts(t, status, p) ==
  /\ status \in {"pending", None} /\ p.active \in {None, t}
  /\ stop[t].epoch = p.epoch /\ ~p.loading
StopFrees(t, status, p) ==
  p.active \in {None, t} /\ stop[t].epoch = p.epoch /\ ~StopAdopts(t, status, p)

StopEnded(t, status, p, display, unread) ==
  /\ page' \in Pages /\ page'.open = p.open /\ page'.owner = p.owner /\ page'.draft = p.draft
  /\ stop' = [stop EXCEPT ![t] = Idle]
  /\ StopAdopts(t, status, p) =>
       /\ AdoptsTurn(p, page', t)
       /\ shown' = IF status = None /\ display[t] # "hidden"
                   THEN [display EXCEPT ![t] = "active"] ELSE display
  /\ StopFrees(t, status, p) =>
       /\ page'.epoch = p.epoch /\ page'.loading = p.loading /\ page'.active = p.active
       /\ page'.left = p.left /\ page'.taken = (p.taken \/ Held(p, t))
       /\ page'.sending = FALSE /\ page'.adopted = None
       /\ shown' = IF unread /\ status # None /\ display[t] # "hidden"
                   THEN [display EXCEPT ![t] = IF status = "completed"
                                               THEN "unrefreshed" ELSE "settled"]
                   ELSE display
  /\ ~StopAdopts(t, status, p) /\ ~StopFrees(t, status, p) =>
       page' = p /\ shown' = display

LEMMA StopEndsPage ==
  ASSUME Types, NEW t \in Sends, NEW status, NEW p \in Pages, NEW display, NEW unread,
         StopEnds(t, status, p, display, unread)
  PROVE  StopEnded(t, status, p, display, unread)
<1>1. /\ StopAdopts(t, status, p) <=> /\ status \in {"pending", None} /\ ~(p.active \notin {None, t})
                                      /\ stop[t].epoch = p.epoch /\ ~p.loading
      /\ StopFrees(t, status, p) \/ StopAdopts(t, status, p) <=>
           ~(p.active \notin {None, t}) /\ stop[t].epoch = p.epoch
  BY DEF StopAdopts, StopFrees
<1>2. stop' = [stop EXCEPT ![t] = Idle]
  BY DEF StopEnds
<1>3. CASE StopAdopts(t, status, p)
  <2>1. /\ page' = Overtaking(Adopted(p, t), t)
        /\ shown' = IF status = None /\ display[t] # "hidden"
                    THEN [display EXCEPT ![t] = "active"] ELSE display
    BY <1>1, <1>3 DEF StopEnds
  <2>2. Adopted(p, t) \in Pages
    BY PagesStay
  <2>3. page' \in Pages /\ page' = [Adopted(p, t) EXCEPT !.taken = Adopted(p, t).taken \/ Held(Adopted(p, t), t)]
    BY <2>1, <2>2, OvertakingStays
  <2>4. Held(Adopted(p, t), t) <=> Held(p, t)
    BY DEF Held, Adopted, Pages
  <2>5. AdoptsTurn(p, page', t) /\ page'.open = p.open /\ page'.owner = p.owner /\ page'.draft = p.draft
    BY <2>2, <2>3, <2>4 DEF AdoptsTurn, Adopted, Pages
  <2> QED  BY <1>2, <1>3, <2>1, <2>3, <2>5 DEF StopFrees, StopEnded
<1>4. CASE StopFrees(t, status, p)
  <2> DEFINE q == [p EXCEPT !.sending = FALSE, !.adopted = None]
  <2>1. /\ page' = Overtaking(q, t)
        /\ shown' = IF unread /\ status # None /\ display[t] # "hidden"
                    THEN [display EXCEPT ![t] = IF status = "completed"
                                                THEN "unrefreshed" ELSE "settled"]
                    ELSE display
    <3>1. /\ ~(status \in {"pending", None} /\ ~(p.active \notin {None, t})
               /\ stop[t].epoch = p.epoch /\ ~p.loading)
          /\ ~(p.active \notin {None, t}) /\ stop[t].epoch = p.epoch
      BY <1>1, <1>4 DEF StopFrees
    <3> QED  BY <3>1 DEF StopEnds
  <2>2. q \in Pages
    BY DEF Pages, Turns
  <2>3. /\ q.open = p.open /\ q.owner = p.owner /\ q.draft = p.draft /\ q.epoch = p.epoch
        /\ q.loading = p.loading /\ q.active = p.active /\ q.left = p.left /\ q.taken = p.taken
        /\ q.sending = FALSE /\ q.adopted = None
    BY DEF Pages
  <2> HIDE DEF q
  <2>4. page' \in Pages /\ page' = [q EXCEPT !.taken = q.taken \/ Held(q, t)]
    BY <2>1, <2>2, OvertakingStays
  <2>5. Held(q, t) <=> Held(p, t)
    BY <2>3 DEF Held
  <2>6. /\ page'.open = q.open /\ page'.owner = q.owner /\ page'.draft = q.draft /\ page'.epoch = q.epoch
        /\ page'.loading = q.loading /\ page'.active = q.active /\ page'.left = q.left
        /\ page'.sending = q.sending /\ page'.adopted = q.adopted /\ page'.taken = (q.taken \/ Held(q, t))
    BY <2>2, <2>4 DEF Pages
  <2> QED  BY <1>2, <1>4, <2>1, <2>3, <2>4, <2>5, <2>6 DEF StopFrees, StopEnded
<1>5. CASE ~StopAdopts(t, status, p) /\ ~StopFrees(t, status, p)
  <2>1. p.active \notin {None, t} \/ stop[t].epoch # p.epoch
    BY <1>1, <1>5
  <2>2. page' = p /\ shown' = display
    BY <2>1 DEF StopEnds
  <2> QED  BY <1>2, <1>5, <2>2 DEF StopEnded
<1> QED  BY <1>3, <1>4, <1>5

(* What is displayed of turn t after its conversation was read again, or was  *)
(* not; `status` is the best the page knows of it.                            *)
Renewed(t, display) ==
  /\ display \in [Sends -> Displays]
  /\ \A u \in Sends : u # t => display[u] = shown[u]
  /\ display[t] = "hidden" <=> shown[t] = "hidden"
  /\ display[t] = "active" => shown[t] = "active"
  /\ display[t] \in {"settled", "unrefreshed"} => server[t] \in Ended

LEMMA RedisplayedRenews ==
  ASSUME Types, Memory, NEW t \in Sends, home[t] # None
  PROVE  Renewed(t, Redisplayed(t)) /\ (Redisplayed(t)[t] = "active" => server[t] = "pending")
<1>1. server[t] \in Ended \cup {"pending"} /\ shown[t] \in Displays
  BY DEF Types, Memory, LedgerOK, Statuses
<1>2. shown[t] \in {"settled", "unrefreshed"} => server[t] \in Ended
  BY DEF Memory, Remembers
<1>3. Status(t) = IF server[t] = "pending" THEN "active" ELSE "settled"
  BY <1>1 DEF Status, Ended
<1>4. Redisplayed(t) \in [Sends -> Displays]
  BY DisplaysStay
<1>5. CASE shown[t] = "hidden"
  BY <1>1, <1>4, <1>5 DEF Renewed, Redisplayed, Types
<1>6. CASE shown[t] # "hidden"
  <2>1. Redisplayed(t) = [shown EXCEPT ![t] = Status(t)]
    BY <1>6 DEF Redisplayed
  <2>2. Redisplayed(t)[t] = Status(t) /\ \A u \in Sends : u # t => Redisplayed(t)[u] = shown[u]
    BY <2>1 DEF Types
  <2> QED  BY <1>1, <1>2, <1>3, <1>4, <1>6, <2>2 DEF Renewed, Ended, Displays
<1> QED  BY <1>5, <1>6

LEMMA SendReconciledAs ==
  ASSUME Types, Memory, NEW s \in Sends, SendReconciled(s)
  PROVE  \E status \in Knowledge, p \in Pages, display \in [Sends -> Displays] :
           /\ SameSlot(page, p) /\ p.draft = page.draft
           /\ CatchEnds(s, status, p, display)
           /\ status \in Ended => server[s] = status
           /\ Renewed(s, display)
           /\ display[s] = "active" => status \in {"pending", None}
<1>0. /\ page \in Pages /\ task[s] \in Started /\ task[s].known \in Knowledge /\ home[s] # None
      /\ server[s] \in Ended \cup {"pending"} /\ shown \in [Sends -> Displays]
      /\ task[s].known \in Ended => server[s] = task[s].known
      /\ shown[s] \in {"settled", "unrefreshed"} => server[s] \in Ended
  <2>1. task[s].pc = "reconcile"
    BY DEF SendReconciled
  <2>2. task[s] \in Started
    BY <2>1, TasksGet DEF Types, Under
  <2>3. home[s] # None /\ (task[s].known \in Ended => server[s] = task[s].known)
        /\ (shown[s] \in {"settled", "unrefreshed"} => server[s] \in Ended)
    BY <2>1 DEF Memory, Remembers, Under
  <2> QED  BY <2>2, <2>3 DEF Types, Started, Memory, LedgerOK, Statuses
<1>1. CASE CatchEnds(s, server[s], Reread(page, s, task[s].asked), Redisplayed(s))
  <2>1. Reread(page, s, task[s].asked) \in Pages
    BY <1>0, RereadStays
  <2>2. SameSlot(page, Reread(page, s, task[s].asked)) /\ Reread(page, s, task[s].asked).draft = page.draft
    BY <1>0, RereadSlot
  <2>3. Renewed(s, Redisplayed(s)) /\ (Redisplayed(s)[s] = "active" => server[s] = "pending")
    BY <1>0, RedisplayedRenews
  <2>4. server[s] \in Knowledge /\ Redisplayed(s) \in [Sends -> Displays]
    BY <1>0, <2>3 DEF Knowledge, Renewed
  <2> QED  BY <1>1, <2>1, <2>2, <2>3, <2>4
<1>2. CASE CatchEnds(s, task[s].known, page,
                     IF task[s].known \in {"pending", None} THEN shown
                     ELSE Displayed(s, IF task[s].known = "completed" THEN "unrefreshed" ELSE "settled"))
  <2> DEFINE d == IF task[s].known \in {"pending", None} THEN shown
                  ELSE Displayed(s, IF task[s].known = "completed" THEN "unrefreshed" ELSE "settled")
  <2>1. CASE task[s].known \in {"pending", None}
    <3>1. Renewed(s, d)
      BY <1>0, <2>1 DEF Renewed
    <3> QED  BY <1>0, <1>2, <2>1, <3>1 DEF Renewed, SameSlot
  <2>2. CASE task[s].known \notin {"pending", None}
    <3>1. PICK h \in {"unrefreshed", "settled"} : d = Displayed(s, h)
      BY <2>2
    <3>2. task[s].known \in Ended /\ server[s] \in Ended
      BY <1>0, <2>2 DEF Knowledge
    <3>3. Renewed(s, d) /\ d[s] # "active"
      <4>1. CASE shown[s] = "hidden"
        BY <1>0, <3>1, <4>1 DEF Renewed, Displayed
      <4>2. CASE shown[s] # "hidden"
        BY <1>0, <3>1, <3>2, <4>2 DEF Renewed, Displayed, Displays
      <4> QED  BY <4>1, <4>2
    <3>4. CatchEnds(s, task[s].known, page, d)
      BY <1>2
    <3> HIDE DEF d
    <3> QED  BY <1>0, <3>2, <3>3, <3>4 DEF Renewed, SameSlot
  <2> QED  BY <2>1, <2>2
<1> QED  BY <1>1, <1>2 DEF SendReconciled

LEMMA StopReconciledAs ==
  ASSUME Types, Memory, NEW t \in Sends, StopReconciled(t)
  PROVE  \E status \in Knowledge, p \in Pages, display \in [Sends -> Displays], unread \in BOOLEAN :
           /\ SameSlot(page, p) /\ p.draft = page.draft
           /\ StopEnds(t, status, p, display, unread)
           /\ status \in Ended => server[t] = status
           /\ Renewed(t, display)
           /\ ~unread /\ display[t] = "active" => status = "pending"
           /\ unread => status # "pending" /\ display = shown
<1>0. /\ page \in Pages /\ stop[t] \in Stopping /\ stop[t].known \in Knowledge /\ stop[t].known # "pending" /\ home[t] # None
      /\ server[t] \in Ended \cup {"pending"} /\ shown \in [Sends -> Displays]
      /\ stop[t].known \in Ended => server[t] = stop[t].known
      /\ shown[t] \in {"settled", "unrefreshed"} => server[t] \in Ended
  <2>1. stop[t].pc = "reconcile"
    BY DEF StopReconciled
  <2>2. stop[t] \in Stopping
    BY <2>1, StopsGet DEF Types
  <2>3. home[t] # None /\ (stop[t].known \in Ended => server[t] = stop[t].known)
        /\ (shown[t] \in {"settled", "unrefreshed"} => server[t] \in Ended)
    BY <2>1 DEF Memory, Remembers
  <2> QED  BY <2>2, <2>3, SendsAreNumbers DEF Types, Stopping, Answers, Ended, Knowledge, Memory, LedgerOK, Statuses
<1>1. CASE StopEnds(t, server[t], Reread(page, t, stop[t].asked), Redisplayed(t), FALSE)
  <2>1. Reread(page, t, stop[t].asked) \in Pages
    BY <1>0, RereadStays
  <2>2. SameSlot(page, Reread(page, t, stop[t].asked)) /\ Reread(page, t, stop[t].asked).draft = page.draft
    BY <1>0, RereadSlot
  <2>3. Renewed(t, Redisplayed(t)) /\ (Redisplayed(t)[t] = "active" => server[t] = "pending")
    BY <1>0, RedisplayedRenews
  <2>4. server[t] \in Knowledge /\ Redisplayed(t) \in [Sends -> Displays]
    BY <1>0, <2>3 DEF Knowledge, Renewed
  <2> QED  BY <1>1, <2>1, <2>2, <2>3, <2>4
<1>2. CASE StopEnds(t, stop[t].known, page, shown, TRUE)
  <2>1. Renewed(t, shown) /\ SameSlot(page, page)
    BY <1>0 DEF Renewed, SameSlot
  <2> QED  BY <1>0, <1>2, <2>1
<1> QED  BY <1>1, <1>2 DEF StopReconciled

LEMMA ReconciledTypes ==
  ASSUME Types, Memory, NEW s \in Sends, SendReconciled(s) \/ StopReconciled(s)
  PROVE  RestTypes'
<1>1. CASE SendReconciled(s)
  <2>1. PICK status \in Knowledge, p \in Pages, display \in [Sends -> Displays] :
          CatchEnds(s, status, p, display)
    BY <1>1, SendReconciledAs
  <2>2. task[s] \in Started
    BY <1>1, TasksGet DEF SendReconciled, Types, Under
  <2>3. /\ page' \in Pages /\ task' = Finished(s)
        /\ shown' = display \/ shown' = [display EXCEPT ![s] = "active"]
    BY <2>1, <2>2, CatchEndsPage
  <2>4. shown' \in [Sends -> Displays] /\ task' \in [Sends -> Tasks]
    BY <2>3, TasksStay DEF Displays, Finished, Types
  <2> QED  BY <1>1, <2>3, <2>4 DEF SendReconciled, Types, RestTypes, serverVars
<1>2. CASE StopReconciled(s)
  <2>1. PICK status \in Knowledge, p \in Pages, display \in [Sends -> Displays], unread \in BOOLEAN :
          StopEnds(s, status, p, display, unread)
    BY <1>2, StopReconciledAs
  <2>2. /\ page' \in Pages /\ stop' = [stop EXCEPT ![s] = Idle]
        /\ \E h \in Displays : shown' = display \/ shown' = [display EXCEPT ![s] = h]
    <3>1. StopEnded(s, status, p, display, unread)
      BY <2>1, StopEndsPage
    <3> QED  BY <3>1 DEF StopEnded, Displays
  <2>3. shown' \in [Sends -> Displays] /\ stop' \in [Sends -> Stopping \cup {Idle}]
    BY <2>2 DEF Types
  <2> QED  BY <1>2, <2>2, <2>3 DEF StopReconciled, Types, RestTypes, serverVars
<1> QED  BY <1>1, <1>2

LEMMA StopTypes ==
  ASSUME Types, Stop \/ \E t \in Sends : StopSent(t)
  PROVE  RestTypes'
<1>0. page \in Pages /\ page.owner \in Turns /\ page.active \in Turns
  BY DEF Types, Pages
<1>1. CASE Stop
  <2>1. page' \in Pages
    <3>1. \A p \in Pages, b \in BOOLEAN : [p EXCEPT !.taken = b] \in Pages
      BY DEF Pages
    <3>2. /\ Abandoned(page, FALSE) \in Pages /\ Abandoned(page, FALSE).taken \in BOOLEAN
          /\ Abandoned(page, TRUE) \in Pages /\ Abandoned(page, TRUE).taken \in BOOLEAN
      <4>1. Abandoned(page, FALSE) \in Pages /\ Abandoned(page, TRUE) \in Pages
        BY <1>0, PagesStay
      <4> QED  BY <4>1 DEF Pages
    <3>3. \E r, b \in BOOLEAN : page' = [Abandoned(page, r) EXCEPT !.taken = b]
      <4>1. CASE page.active = None
        BY <1>1, <4>1 DEF Stop
      <4>2. CASE page.active # None
        <5>1. page' = [Abandoned(page, TRUE) EXCEPT !.taken = @ \/ page.owner \notin {None, page.active}]
          BY <1>1, <4>2 DEF Stop
        <5>2. page' = [Abandoned(page, TRUE) EXCEPT
                         !.taken = Abandoned(page, TRUE).taken \/ page.owner \notin {None, page.active}]
          BY <3>2, <5>1 DEF Pages
        <5> QED  BY <3>2, <5>2
      <4> QED  BY <4>1, <4>2
    <3> QED  BY <3>1, <3>2, <3>3
  <2>2. task' \in [Sends -> Tasks]
    BY <1>0, <1>1, AbortedStays DEF Stop
  <2>3. stop' \in [Sends -> Stopping \cup {Idle}]
    <3>1. [pc |-> "cancel", epoch |-> page.epoch, known |-> None, asked |-> 0] \in Stopping
      BY <1>0 DEF Stopping, Answers, Pages
    <3>2. CASE page.active = None
      BY <1>1, <3>2 DEF Stop, Types
    <3>3. CASE page.active # None
      BY <1>1, <3>1, <3>3 DEF Stop, Types
    <3> QED  BY <3>2, <3>3
  <2> QED  BY <1>1, <2>1, <2>2, <2>3 DEF Stop, Types, RestTypes, serverVars
<1>2. ASSUME NEW t \in Sends, StopSent(t)
      PROVE  RestTypes'
  <2>1. stop[t] \in Stopping
    BY <1>2, StopsGet DEF StopSent, Types
  <2>2. PICK answer \in Ended \cup {None} :
          /\ Cancellation(t, answer)
          /\ stop' = [stop EXCEPT ![t].pc = "reconcile", ![t].known = answer, ![t].asked = page.epoch]
    BY <1>2 DEF StopSent
  <2>3. stop' = [stop EXCEPT ![t] =
          [stop[t] EXCEPT !.pc = "reconcile", !.known = answer, !.asked = page.epoch]]
    BY <2>1, <2>2 DEF Types, Stopping
  <2>4. [stop[t] EXCEPT !.pc = "reconcile", !.known = answer, !.asked = page.epoch] \in Stopping
    BY <1>0, <2>1 DEF Stopping, Answers, Pages
  <2>5. stop' \in [Sends -> Stopping \cup {Idle}]
    BY <2>3, <2>4 DEF Types
  <2> QED  BY <1>2, <2>2, <2>5 DEF StopSent, Cancellation, Types, RestTypes
<1> QED  BY <1>1, <1>2

LEMMA ChatTypes ==
  ASSUME Types, Memory,
         \/ \E c \in Conversations : OpenConversation(c)
         \/ OpenAbandons \/ OpenRead \/ StartNewChat \/ Reload \/ Poll
  PROVE  RestTypes'
<1>0. page \in Pages /\ page.owner \in Turns /\ page.active \in Turns /\ page.epoch \in Nat
  BY DEF Types, Pages
<1>1. ASSUME NEW c \in Conversations, OpenConversation(c)
      PROVE  RestTypes'
  <2>1. page' \in Pages
    <3> DEFINE p == IF page.sending THEN Abandoned(page, FALSE) ELSE page
               S == {q \in Sends : shown[q] = "active"}
    <3>1. p \in Pages
      BY <1>0, PagesStay
    <3>2. page' = [p EXCEPT !.epoch = @ + 1, !.loading = TRUE, !.left = @ \cup S]
      BY <1>1 DEF OpenConversation
    <3>3. S \in TurnSets
      BY DEF TurnSets
    <3> HIDE DEF p, S
    <3>4. p.epoch + 1 \in Nat /\ (p.left \cup S) \in TurnSets
      BY <3>1, <3>3 DEF Pages, TurnSets
    <3>5. \A e \in Nat, L \in TurnSets : [p EXCEPT !.epoch = e, !.loading = TRUE, !.left = L] \in Pages
      BY <3>1 DEF Pages
    <3>6. page' = [p EXCEPT !.epoch = p.epoch + 1, !.loading = TRUE, !.left = p.left \cup S]
      BY <3>1, <3>2 DEF Pages
    <3> QED  BY <3>4, <3>5, <3>6
  <2>2. task' \in [Sends -> Tasks]
    BY <1>0, <1>1, AbortedStays DEF OpenConversation, Types
  <2>3. opening' \in Openings
    BY <1>0, <1>1 DEF OpenConversation, Openings
  <2> QED  BY <1>1, <2>1, <2>2, <2>3 DEF OpenConversation, Types, RestTypes, serverVars
<1>2. CASE OpenAbandons
  <2>1. opening \in Openings
    BY <1>2 DEF OpenAbandons, Types, Idle
  <2>2. opening' \in Openings
    BY <1>2, <2>1 DEF OpenAbandons, Openings
  <2> QED  BY <1>2, <2>2 DEF OpenAbandons, Cancellation, Types, RestTypes
<1>3. CASE OpenRead
  <2> DEFINE c == opening.conversation
             waiting == {t \in Sends : home[t] = c /\ server[t] = "pending"}
             opened == [page EXCEPT !.open = c, !.receipt = Receipt(c, binding[c]),
                               !.loading = FALSE, !.unsure = FALSE, !.lost = FALSE, !.left = {}]
  <2>1. c \in Conversations
    BY <1>3 DEF OpenRead, Types, Openings, Idle
  <2>2. opened \in Pages
    <3>1. Receipt(c, binding[c]) \in Receipts
      BY <2>1 DEF Receipt, Receipts, Types
    <3>2. \A o \in Places, r \in Receipts :
            [page EXCEPT !.open = o, !.receipt = r, !.loading = FALSE, !.unsure = FALSE,
                         !.lost = FALSE, !.left = {}] \in Pages
      BY <1>0 DEF Pages, TurnSets
    <3> QED  BY <2>1, <3>1, <3>2 DEF Places
  <2>3. page' \in Pages
    <3>1. \/ waiting # {} /\ page' = Adopted(opened, CHOOSE t \in waiting : TRUE)
          \/ page' = [opened EXCEPT !.adopted = None, !.sending = FALSE]
          \/ page' = opened
          \/ page' = [page EXCEPT !.loading = FALSE]
      BY <1>3 DEF OpenRead
    <3>2. waiting # {} => (CHOOSE t \in waiting : TRUE) \in Sends
      OBVIOUS
    <3>3. \A p \in Pages : [p EXCEPT !.adopted = None, !.sending = FALSE] \in Pages
      BY DEF Pages, Turns
    <3>4. [page EXCEPT !.loading = FALSE] \in Pages
      BY <1>0 DEF Pages
    <3> HIDE DEF opened, waiting
    <3> QED  BY <2>2, <3>1, <3>2, <3>3, <3>4, PagesStay
  <2>4. shown' \in [Sends -> Displays]
    <3>1. shown' = shown \/ shown' = Timeline(c)
      BY <1>3 DEF OpenRead
    <3>2. \A u \in Sends : Status(u) \in Displays
      BY DisplaysStay DEF Displays
    <3> QED  BY <3>1, <3>2 DEF Timeline, Types, Displays
  <2> QED  BY <1>3, <2>3, <2>4 DEF OpenRead, Types, RestTypes, serverVars
<1>4. CASE StartNewChat
  <2>1. page' \in Pages
    <3> DEFINE p == IF page.sending THEN Abandoned(page, FALSE) ELSE page
    <3>1. p \in Pages
      BY <1>0, PagesStay
    <3>2. page' = [p EXCEPT !.epoch = @ + 1, !.loading = FALSE, !.adopted = None, !.open = None,
                            !.receipt = None, !.draft = None, !.unsure = FALSE, !.left = {}]
      BY <1>4 DEF StartNewChat
    <3> HIDE DEF p
    <3>3. None \in Turns /\ None \in Places /\ None \in Receipts /\ {} \in TurnSets /\ p.epoch + 1 \in Nat
      BY <3>1 DEF Pages, TurnSets, Turns, Places, Receipts
    <3>4. page' = [p EXCEPT !.epoch = p.epoch + 1, !.loading = FALSE, !.adopted = None, !.open = None,
                            !.receipt = None, !.draft = None, !.unsure = FALSE, !.left = {}]
      BY <3>1, <3>2 DEF Pages
    <3> QED  BY <3>1, <3>3, <3>4 DEF Pages
  <2>2. task' \in [Sends -> Tasks]
    BY <1>0, <1>4, AbortedStays DEF StartNewChat, Types
  <2> QED  BY <1>4, <2>1, <2>2 DEF StartNewChat, Types, RestTypes, serverVars, Displays
<1>5. CASE Reload
  <2>1. page' \in Pages
    BY <1>0, <1>5 DEF Reload, NewPage, Pages, TurnSets, Turns, Places, Receipts
  <2>2. task' \in [Sends -> Tasks]
    BY <1>5, TasksStay DEF Reload
  <2>3. wire' \subseteq Requests
    <3>1. \A s \in Sends : task[s].pc = "start" => Request(s) \in Requests
      BY RequestTypes DEF Waiting
    <3> QED  BY <1>5, <3>1 DEF Reload, Types
  <2> QED  BY <1>5, <2>1, <2>2, <2>3 DEF Reload, Types, RestTypes, Displays, ledger
<1>6. CASE Poll
  <2>1. page.adopted \in Sends /\ home[page.adopted] # None
    BY <1>0, <1>6 DEF Poll, Pages, Turns, Memory, Remembers
  <2> DEFINE p == Reread(page, page.adopted, page.epoch)
  <2>2. p \in Pages
    BY <1>0, <2>1, RereadStays
  <2>3. page' \in Pages
    <3>1. page' = p \/ page' = [p EXCEPT !.adopted = None,
                                  !.active = IF @ = page.adopted THEN None ELSE @,
                                  !.sending = @ /\ p.active # page.adopted]
      BY <1>6 DEF Poll
    <3> HIDE DEF p
    <3>2. [p EXCEPT !.adopted = None, !.active = IF @ = page.adopted THEN None ELSE @,
                    !.sending = @ /\ p.active # page.adopted] \in Pages
      BY <2>2 DEF Pages, Turns
    <3> QED  BY <2>2, <3>1, <3>2
  <2>4. shown' \in [Sends -> Displays]
    BY <1>6, <2>1, DisplaysStay DEF Poll
  <2> QED  BY <1>6, <2>3, <2>4 DEF Poll, Types, RestTypes, serverVars
<1> QED  BY <1>1, <1>2, <1>3, <1>4, <1>5, <1>6

LEMMA BindingTypes ==
  ASSUME Types,
         \/ Rebind \/ RebindSent \/ RebindReread \/ Restored
         \/ \E t \in Sends : Restore(t)
  PROVE  RestTypes'
<1>0. /\ page \in Pages /\ page.epoch \in Nat /\ page.revision \in Nat /\ page.open \in Places
      /\ change # Idle => change \in Changes
      /\ recovery # Idle => recovery \in Recoveries
  BY DEF Types, Pages
<1>1. CASE Rebind
  <2>1. page.receipt \in [conversation : Conversations, version : Nat] /\ page.open \in Conversations
    BY <1>0, <1>1 DEF Rebind, Pages, Receipts, Places
  <2>2. change' \in Changes
    BY <1>0, <1>1, <2>1 DEF Rebind, Changes
  <2>3. page' \in Pages
    BY <1>0, <1>1, PagesStay DEF Rebind
  <2> QED  BY <1>1, <2>2, <2>3 DEF Rebind, Types, RestTypes, serverVars
<1>2. CASE RebindSent
  <2>1. change \in Changes /\ change.conversation \in Conversations /\ change.epoch \in Nat
    BY <1>0, <1>2 DEF RebindSent, Idle, Changes
  <2>2. change' \in Changes \cup {Idle}
    <3>1. [change EXCEPT !.pc = "reread"] \in Changes
      BY <2>1 DEF Changes
    <3>2. change' \in {Idle, [change EXCEPT !.pc = "reread"]}
      BY <1>2 DEF RebindSent, Questioned
    <3> QED  BY <3>1, <3>2
  <2>3. binding' \in [Conversations -> Nat]
    <3>1. \/ binding' = binding
          \/ binding' = [binding EXCEPT ![change.conversation] = @ + 1]
      BY <1>2 DEF RebindSent
    <3> QED  BY <2>1, <3>1 DEF Types
  <2>4. page' \in Pages
    <3>1. Receipt(change.conversation, binding'[change.conversation]) \in Receipts
      BY <2>1, <2>3 DEF Receipt, Receipts
    <3>2. Touched(page) \in Pages
      BY <1>0, PagesStay
    <3>3. \A p \in Pages, r \in Receipts : [p EXCEPT !.receipt = r, !.unsure = FALSE] \in Pages
      BY DEF Pages
    <3>4. \/ page' = page
          \/ page' = [Touched(page) EXCEPT
                        !.receipt = Receipt(change.conversation, binding'[change.conversation]),
                        !.unsure = FALSE]
      BY <1>2 DEF RebindSent
    <3> QED  BY <1>0, <3>1, <3>2, <3>3, <3>4
  <2>5. recovery' \in Recoveries \cup {Idle}
    BY <1>2 DEF RebindSent, Types
  <2> QED  BY <1>2, <2>2, <2>3, <2>4, <2>5 DEF RebindSent, Types, RestTypes
<1>3. CASE RebindReread
  <2>1. change \in Changes /\ change.conversation \in Conversations
    BY <1>0, <1>3 DEF RebindReread, Idle, Changes
  <2>2. page' \in Pages
    <3>1. Receipt(change.conversation, binding[change.conversation]) \in Receipts
      BY <2>1 DEF Receipt, Receipts, Types
    <3>2. Touched(page) \in Pages
      BY <1>0, PagesStay
    <3>3. \A p \in Pages, r \in Receipts : [p EXCEPT !.receipt = r, !.unsure = FALSE] \in Pages
      BY DEF Pages
    <3>4. [page EXCEPT !.unsure = TRUE] \in Pages
      BY <1>0 DEF Pages
    <3>5. \/ page' = [page EXCEPT !.unsure = TRUE]
          \/ page' = [Touched(page) EXCEPT
                        !.receipt = Receipt(change.conversation, binding[change.conversation]),
                        !.unsure = FALSE]
      BY <1>3 DEF RebindReread
    <3> QED  BY <1>0, <3>1, <3>2, <3>3, <3>4, <3>5
  <2>3. recovery' \in Recoveries \cup {Idle} /\ change' = Idle
    BY <1>3 DEF RebindReread, Types
  <2> QED  BY <1>3, <2>2, <2>3 DEF RebindReread, Types, RestTypes, serverVars
<1>4. CASE Restored
  <2>1. recovery \in Recoveries /\ recovery.turn \in Sends
    BY <1>0, <1>4 DEF Restored, Recoveries
  <2>2. page' \in Pages
    <3>1. page' = page \/ page' = [page EXCEPT !.draft = recovery.turn, !.revision = @ + 1]
      BY <1>4 DEF Restored
    <3>2. \A d \in Turns, n \in Nat : [page EXCEPT !.draft = d, !.revision = n] \in Pages
      BY <1>0 DEF Pages
    <3>3. recovery.turn \in Turns /\ page.revision + 1 \in Nat
      BY <1>0, <2>1 DEF Turns
    <3>4. page' = page \/ page' = [page EXCEPT !.draft = recovery.turn, !.revision = page.revision + 1]
      BY <1>0, <3>1 DEF Pages
    <3> QED  BY <1>0, <3>2, <3>3, <3>4
  <2> QED  BY <1>4, <2>2 DEF Restored, Types, RestTypes, serverVars
<1>5. ASSUME NEW t \in Sends, Restore(t)
      PROVE  RestTypes'
  <2>1. recovery' \in Recoveries
    BY <1>0, <1>5 DEF Restore, Recoveries
  <2> QED  BY <1>5, <2>1 DEF Restore, Types, RestTypes, serverVars
<1> QED  BY <1>1, <1>2, <1>3, <1>4, <1>5

LEMMA ServerTypes ==
  ASSUME Types, Memory,
         \/ \E t \in Sends : Settle(t)
         \/ \E r \in wire : LateStart(r)
  PROVE  RestTypes'
<1>1. ASSUME NEW t \in Sends, Settle(t)
      PROVE  RestTypes'
  <2>1. home[t] \in Conversations
    BY <1>1 DEF Settle, Types, Memory, LedgerOK, Places
  <2>2. binding' \in [Conversations -> Nat]
    <3>1. binding' = binding \/ binding' = [binding EXCEPT ![home[t]] = @ + 1]
      BY <1>1 DEF Settle
    <3> QED  BY <2>1, <3>1 DEF Types
  <2> QED  BY <1>1, <2>2 DEF Settle, Types, RestTypes
<1>2. ASSUME NEW r \in wire, LateStart(r)
      PROVE  RestTypes'
  BY <1>2 DEF LateStart, Types, RestTypes
<1> QED  BY <1>1, <1>2

LEMMA AcceptedGets ==
  ASSUME Types, Memory, NEW s \in Sends, StartAccepted(s) \/ ReplayAnswered(s)
  PROVE  /\ home'[s] \in Conversations /\ home'[s] # None /\ server'[s] # "none"
         /\ task[s].conversation # None => home'[s] = task[s].conversation
         /\ task[s] \in Started /\ task[s].pc \in Waiting
<1>1. task[s].pc \in Waiting /\ Admits(Request(s)) /\ Begin(Request(s), {"pending"})
  BY DEF StartAccepted, ReplayAnswered, Waiting
<1>2. Request(s) \in Requests /\ Request(s).turn = s /\ Request(s).conversation = task[s].conversation
  BY <1>1, RequestTypes
<1>3. LedgerTypes /\ LedgerOK /\ binding \in [Conversations -> Nat]
  BY DEF Types, LedgerTypes, Memory
<1>4. /\ home'[s] \in Conversations /\ home'[s] # None /\ server'[s] # "none" /\ Grows
      /\ task[s].conversation # None /\ home[s] = None => home'[s] = task[s].conversation
  BY <1>1, <1>2, <1>3, BeginLedger
<1>5. task[s].conversation # None /\ home[s] # None => home[s] = task[s].conversation
  BY <1>1 DEF Memory, Remembers
<1>6. task[s] \in Started
  BY <1>1, TasksGet DEF Types, Waiting, Under
<1> QED  BY <1>1, <1>4, <1>5, <1>6 DEF Grows

LEMMA TypesStep ==
  ASSUME Types, Memory, Next
  PROVE  Types' /\ LedgerOK' /\ Grows
<1>1. LedgerTypes' /\ LedgerOK' /\ Grows
  BY LedgerStep
<1>2. LedgerOK
  BY DEF Memory
<1>3. ASSUME NEW s \in Sends, Sending(s)
      PROVE  RestTypes'
  <2>1. CASE StartAccepted(s)
    BY <1>1, <2>1, AcceptedGets, StartAcceptedTypes
  <2>2. CASE ReplayAnswered(s)
    BY <1>1, <2>2, AcceptedGets, ReplayAnsweredTypes
  <2> QED
    BY <1>2, <1>3, <2>1, <2>2, ShortTypes, UnansweredTypes, ReconciledTypes DEF Sending
<1>4. RestTypes'
  BY <1>3, SendTypes, StopTypes, ReconciledTypes, ChatTypes, BindingTypes, ServerTypes DEF Next
<1>5. Types'
  BY <1>1, <1>4 DEF Types, LedgerTypes, RestTypes
<1> QED  BY <1>1, <1>5

-----------------------------------------------------------------------------
(* A turn begins only while its send waits for the receipt, or after it gave  *)
(* up, by a request that is still on the wire; always where it was asked.     *)
LEMMA TurnsBegin ==
  ASSUME Types, Memory, Next, NEW t \in Sends, home[t] = None, home'[t] # None
  PROVE  /\ task[t].pc # "idle"
         /\ task[t].pc \in Waiting /\ task[t].conversation # None => home'[t] = task[t].conversation
<1>0. LedgerTypes /\ LedgerOK /\ binding \in [Conversations -> Nat]
  BY DEF Types, LedgerTypes, Memory
<1> DEFINE Goal == /\ task[t].pc # "idle"
                   /\ task[t].pc \in Waiting /\ task[t].conversation # None =>
                        home'[t] = task[t].conversation
<1>1. ASSUME NEW s \in Sends, StartAccepted(s) \/ ReplayAnswered(s)
      PROVE  Goal
  <2>1. task[s].pc \in Waiting /\ Admits(Request(s)) /\ Begin(Request(s), {"pending"})
    BY <1>1 DEF StartAccepted, ReplayAnswered, Waiting
  <2>2. Request(s) \in Requests /\ Request(s).turn = s /\ Request(s).conversation = task[s].conversation
    BY <2>1, RequestTypes
  <2>3. s = t
    BY <1>0, <2>1, <2>2, BeginLedger
  <2> QED  BY <1>0, <2>1, <2>2, <2>3, BeginLedger DEF Waiting
<1>2. ASSUME NEW s \in Sends, StartUnanswered(s) \/ ReplayUnanswered(s)
      PROVE  Goal
  <2>1. task[s].pc \in Waiting
    BY <1>2 DEF StartUnanswered, ReplayUnanswered, Waiting
  <2>2. Request(s) \in Requests /\ Request(s).turn = s /\ Request(s).conversation = task[s].conversation
    BY <2>1, RequestTypes
  <2>3. Unheard(Request(s)) \/ UNCHANGED home
    BY <1>2 DEF StartUnanswered, ReplayUnanswered, serverVars
  <2>4. Unheard(Request(s))
    BY <2>3
  <2>5. s = t /\ (task[s].conversation # None => home'[s] = task[s].conversation)
    BY <1>0, <2>2, <2>4, UnheardLedger
  <2> QED  BY <2>1, <2>5 DEF Waiting
<1>3. ASSUME NEW r \in wire, LateStart(r)
      PROVE  Goal
  <2>1. r \in Requests
    BY DEF Types
  <2>2. Admits(r) /\ Begin(r, {"pending", "unanswered"})
    BY <1>3 DEF LateStart, ledger
  <2>3. r.turn = t /\ (r.conversation # None => home'[t] = r.conversation)
    BY <1>0, <2>1, <2>2, BeginLedger
  <2>4. task[t].pc # "idle" /\ (task[t].pc \in Waiting => r.conversation = task[t].conversation)
    BY <2>3 DEF Memory, WireOK
  <2> QED  BY <2>3, <2>4
<1>4. ASSUME UNCHANGED home  PROVE Goal
  BY <1>4
<1>5. ASSUME NEW s \in Sends, Send(s) \/ Sending(s) \/ StopSent(s) \/ StopReconciled(s)
      PROVE  Goal
  <2>1. CASE StartAccepted(s) \/ ReplayAnswered(s)  BY <2>1, <1>1
  <2>2. CASE StartUnanswered(s) \/ ReplayUnanswered(s)  BY <2>2, <1>2
  <2>3. CASE CancelSent(s) \/ StopSent(s) \/ Send(s) \/ StopReconciled(s) \/ SendReconciled(s)
    BY <2>3, <1>4 DEF CancelSent, StopSent, Cancellation, Send, StopReconciled, SendReconciled, serverVars
  <2>4. CASE StartRefused(s) \/ StartBroken(s) \/ Answered(s) \/ SendReturns(s) \/ ChatFails(s)
    BY <2>4, <1>4 DEF StartRefused, StartBroken, Answered, SendReturns, ChatFails, serverVars
  <2> QED  BY <1>5, <2>1, <2>2, <2>3, <2>4 DEF Sending
<1>6. CASE Stop \/ OpenAbandons \/ OpenRead \/ StartNewChat \/ Reload \/ Poll \/ Rebind
           \/ RebindSent \/ RebindReread \/ Restored
  <2>1. UNCHANGED home
    BY <1>6 DEF Stop, OpenAbandons, Cancellation, OpenRead, StartNewChat, Reload, Poll, Rebind,
       RebindSent, RebindReread, Restored, serverVars, ledger
  <2> QED  BY <1>4, <2>1
<1>7. ASSUME NEW c, OpenConversation(c) \/ Restore(c) \/ Settle(c)
      PROVE  Goal
  <2>1. UNCHANGED home
    BY <1>7 DEF OpenConversation, Restore, Settle, serverVars
  <2> QED  BY <1>4, <2>1
<1> QED  BY <1>3, <1>5, <1>6, <1>7 DEF Next

(* What a step does to the record of send t.                                  *)
SameTask(t) ==
  /\ task'[t].pc = task[t].pc
  /\ task[t].pc \in Under =>
       /\ task'[t].conversation = task[t].conversation /\ task'[t].epoch = task[t].epoch
       /\ task'[t].known = task[t].known /\ task'[t].presented = task[t].presented
       /\ task[t].stopped => task'[t].stopped

TaskStep(t) ==
  \/ SameTask(t)
  \/ task[t].pc # "idle" /\ task'[t].pc = "done"
  \/ task[t].pc = "chat" /\ task'[t].pc = "feedback"
  \/ /\ task[t].pc = "idle" /\ task'[t].pc = "start" /\ task'[t].conversation = page.open
     /\ task'[t].epoch = page.epoch /\ task'[t].known = None /\ ~task'[t].presented
  \/ /\ task[t].pc \in Under /\ task'[t].pc \in Under /\ task'[t].epoch = task[t].epoch
     /\ \/ /\ task[t].pc = "start" /\ task'[t].pc \in Waiting
           /\ task'[t].conversation = task[t].conversation /\ task'[t].known = task[t].known
        \/ /\ task'[t].pc \in {"chat", "cancel", "reconcile"}
           /\ \/ home'[t] # None /\ task'[t].conversation = home'[t]
              \/ /\ task[t].pc \in {"chat", "cancel"}
                 /\ task'[t].conversation = task[t].conversation
           /\ task'[t].known \in {task[t].known, None, server'[t]}

LEMMA TasksStep ==
  ASSUME Types, Memory, Next, NEW t \in Sends
  PROVE  TaskStep(t) /\ (t \in claimed' => t \in claimed \/ task'[t].pc = "chat")
<1> DEFINE Goal == TaskStep(t) /\ (t \in claimed' => t \in claimed \/ task'[t].pc = "chat")
<1>0. task \in [Sends -> Tasks] /\ page \in Pages /\ page.owner \in Turns
  BY DEF Types, Pages
<1>1. task'[t] = task[t] => SameTask(t)
  BY DEF SameTask
<1>2. \A s \in Turns : task' = Aborted(s) => SameTask(t)
  <2> SUFFICES ASSUME NEW s \in Turns, task' = Aborted(s)  PROVE SameTask(t)
    OBVIOUS
  <2>1. CASE t = s /\ task[s].pc \in {"start", "chat"}
    <3>1. task'[t] = [task[t] EXCEPT !.stopped = TRUE] /\ task[t] \in Started
      BY <1>0, <2>1, AbortedStays, TasksGet DEF Under
    <3> QED  BY <3>1 DEF SameTask, Started
  <2>2. CASE ~(t = s /\ task[s].pc \in {"start", "chat"})
    BY <1>1, <2>2, AbortedStays
  <2> QED  BY <2>1, <2>2
<1>3. ASSUME UNCHANGED claimed, UNCHANGED task \/ \E s \in Turns : task' = Aborted(s)
      PROVE  Goal
  BY <1>1, <1>2, <1>3 DEF TaskStep
<1>4. ASSUME NEW s \in Sends, UNCHANGED claimed, task' = Finished(s), task[s].pc # "idle"
      PROVE  Goal
  BY <1>0, <1>1, <1>4 DEF TaskStep, Finished
<1>5. ASSUME NEW s \in Sends, Send(s)
      PROVE  Goal
  <2>1. CASE t = s
    <3>1. /\ task[t].pc = "idle" /\ task'[t].pc = "start" /\ task'[t].conversation = page.open
          /\ task'[t].epoch = page.epoch /\ task'[t].known = None /\ ~task'[t].presented
      BY <1>0, <1>5, <2>1 DEF Send
    <3> QED  BY <1>5, <3>1 DEF TaskStep, Send, serverVars
  <2>2. CASE t # s
    BY <1>0, <1>1, <1>5, <2>2 DEF TaskStep, Send, serverVars
  <2> QED  BY <2>1, <2>2
<1>6. ASSUME NEW s \in Sends, Sending(s)
      PROVE  Goal
  <2>1. CASE StartAccepted(s)
    <3>1. CASE t = s
      <4>1. home'[t] # None /\ task[t] \in Started /\ task[t].pc = "start"
        BY <2>1, <3>1, AcceptedGets DEF StartAccepted
      <4>2. /\ task'[t].pc = "chat" /\ task'[t].epoch = task[t].epoch /\ task'[t].known = task[t].known
            /\ task'[t].conversation = home'[t]
        BY <1>0, <2>1, <3>1, <4>1 DEF StartAccepted, Started
      <4> QED  BY <4>1, <4>2 DEF TaskStep, Under
    <3>2. CASE t # s
      BY <1>0, <1>1, <2>1, <3>2 DEF TaskStep, StartAccepted
    <3> QED  BY <3>1, <3>2
  <2>2. CASE ReplayAnswered(s)
    <3>1. CASE t = s
      <4>1. home'[t] # None /\ task[t] \in Started /\ task[t].pc = "replay"
        BY <2>2, <3>1, AcceptedGets DEF ReplayAnswered
      <4>2. /\ task'[t].pc = "cancel" /\ task'[t].epoch = task[t].epoch /\ task'[t].known = server'[t]
            /\ task'[t].conversation = home'[t]
        BY <1>0, <2>2, <3>1, <4>1 DEF ReplayAnswered, Started
      <4> QED  BY <2>2, <4>1, <4>2 DEF TaskStep, Under, ReplayAnswered
    <3>2. CASE t # s
      BY <1>0, <1>1, <2>2, <3>2 DEF TaskStep, ReplayAnswered
    <3> QED  BY <3>1, <3>2
  <2>3. CASE StartUnanswered(s)
    <3>0. UNCHANGED claimed
      BY <2>3 DEF StartUnanswered, Unheard
    <3>1. CASE t = s
      <4>1. task[t] \in Started /\ task[t].pc = "start"
        BY <1>0, <2>3, <3>1, TasksGet DEF StartUnanswered, Under
      <4>2. /\ task'[t].pc \in Waiting /\ task'[t].epoch = task[t].epoch
            /\ task'[t].known = task[t].known /\ task'[t].conversation = task[t].conversation
        BY <1>0, <2>3, <3>1, <4>1 DEF StartUnanswered, Started, Waiting
      <4> QED  BY <3>0, <4>1, <4>2 DEF TaskStep, Under, Waiting
    <3>2. CASE t # s
      BY <1>0, <1>1, <2>3, <3>0, <3>2 DEF TaskStep, StartUnanswered
    <3> QED  BY <3>1, <3>2
  <2>4. CASE StartRefused(s) \/ StartBroken(s) \/ SendReturns(s) \/ ReplayUnanswered(s)
    <3>1. task' = Finished(s) /\ task[s].pc # "idle" /\ UNCHANGED claimed
      BY <2>4 DEF StartRefused, StartBroken, SendReturns, ReplayUnanswered, Unheard, serverVars
    <3> QED  BY <1>4, <3>1
  <2>5. CASE Answered(s)
    <3>1. CASE t = s
      BY <1>0, <2>5, <3>1 DEF TaskStep, Answered, serverVars
    <3>2. CASE t # s
      BY <1>0, <1>1, <2>5, <3>2 DEF TaskStep, Answered, serverVars
    <3> QED  BY <3>1, <3>2
  <2>6. CASE ChatFails(s)
    <3>1. CASE t = s
      <4>1. task[t] \in Started /\ task[t].pc = "chat"
        BY <1>0, <2>6, <3>1, TasksGet DEF ChatFails, Under
      <4>2. /\ task'[t].pc \in {"cancel", "reconcile"} /\ task'[t].epoch = task[t].epoch
            /\ task'[t].known = task[t].known /\ task'[t].conversation = task[t].conversation
        BY <1>0, <2>6, <3>1, <4>1 DEF ChatFails, Started
      <4> QED  BY <2>6, <4>1, <4>2 DEF TaskStep, Under, ChatFails, serverVars
    <3>2. CASE t # s
      BY <1>0, <1>1, <2>6, <3>2 DEF TaskStep, ChatFails, serverVars
    <3> QED  BY <3>1, <3>2
  <2>7. CASE CancelSent(s)
    <3>0. PICK answer \in Ended \cup {None} :
             /\ Cancellation(s, answer)
             /\ task' = [task EXCEPT ![s].pc = "reconcile", ![s].asked = page.epoch,
                                     ![s].known = IF answer = None THEN @ ELSE answer]
      BY <2>7 DEF CancelSent
    <3>9. UNCHANGED claimed
      BY <3>0 DEF Cancellation
    <3>1. CASE t = s
      <4>1. task[t] \in Started /\ task[t].pc = "cancel"
        BY <1>0, <2>7, <3>1, TasksGet DEF CancelSent, Under
      <4>2. /\ task'[t].pc = "reconcile" /\ task'[t].epoch = task[t].epoch
            /\ task'[t].known \in {task[t].known, answer} /\ task'[t].conversation = task[t].conversation
        BY <1>0, <3>0, <3>1, <4>1 DEF Started
      <4>3. answer \in {None, server'[t]}
        BY <3>0, <3>1 DEF Cancellation
      <4> QED  BY <3>9, <4>1, <4>2, <4>3 DEF TaskStep, Under
    <3>2. CASE t # s
      BY <1>0, <1>1, <3>0, <3>9, <3>2 DEF TaskStep
    <3> QED  BY <3>1, <3>2
  <2>8. CASE SendReconciled(s)
    <3>1. task[s] \in Started
      BY <1>0, <2>8, TasksGet DEF SendReconciled, Under
    <3>2. task' = Finished(s)
      BY <2>8, <3>1, SendReconciledAs, CatchEndsPage
    <3> QED  BY <1>4, <2>8, <3>2 DEF SendReconciled, serverVars
  <2> QED  BY <1>6, <2>1, <2>2, <2>3, <2>4, <2>5, <2>6, <2>7, <2>8 DEF Sending
<1>7. ASSUME NEW s \in Sends, StopSent(s) \/ StopReconciled(s) \/ Settle(s) \/ Restore(s)
      PROVE  Goal
  <2>1. UNCHANGED <<task, claimed>>
    BY <1>7 DEF StopSent, Cancellation, StopReconciled, Settle, Restore, serverVars
  <2> QED  BY <1>3, <2>1
<1>8. ASSUME NEW c \in Conversations, OpenConversation(c)
      PROVE  Goal
  BY <1>0, <1>3, <1>8 DEF OpenConversation, serverVars
<1>9. CASE Stop \/ StartNewChat
  BY <1>0, <1>3, <1>9 DEF Stop, StartNewChat, serverVars
<1>10. CASE OpenAbandons \/ OpenRead \/ Poll \/ Rebind \/ RebindSent \/ RebindReread \/ Restored
           \/ \E r \in wire : LateStart(r)
  <2>1. UNCHANGED <<task, claimed>>
    BY <1>10 DEF OpenAbandons, Cancellation, OpenRead, Poll, Rebind, RebindSent, RebindReread,
       Restored, LateStart, serverVars
  <2> QED  BY <1>3, <2>1
<1>11. CASE Reload
  <2>1. task'[t] = (IF task[t].pc = "idle" THEN Idle ELSE [pc |-> "done"]) /\ UNCHANGED claimed
    BY <1>11 DEF Reload
  <2>2. CASE task[t].pc = "idle"
    BY <2>1, <2>2 DEF TaskStep, SameTask, Idle, Under
  <2>3. CASE task[t].pc # "idle"
    BY <2>1, <2>3 DEF TaskStep
  <2> QED  BY <2>2, <2>3
<1> QED  BY <1>5, <1>6, <1>7, <1>8, <1>9, <1>10, <1>11 DEF Next

(* The page's marks after a step: they name turns of the ledger, and a text   *)
(* in the composer has no answer.                                             *)
PageStep ==
  /\ page.epoch \in Nat /\ page'.epoch \in {page.epoch, page.epoch + 1}
  /\ \A t \in Sends :
       /\ page'.active = t => page.active = t \/ home'[t] # None
       /\ page'.adopted = t => page.adopted = t \/ home'[t] # None
       /\ page'.draft = t => \/ page.draft = t
                             \/ server'[t] = "unanswered"
                             \/ task[t].pc \in Waiting /\ task'[t].pc = "done"

LEMMA PagesStep ==
  ASSUME Types, Memory, Next
  PROVE  PageStep
<1>0. page \in Pages /\ page.epoch \in Nat /\ page.owner \in Turns /\ Grows
  BY TypesStep DEF Types, Pages
<1>1. ASSUME NEW p \in Pages, p.epoch = page.epoch, p.draft = page.draft,
             p.active \in {page.active, None}, p.adopted \in {page.adopted, None},
             page' = p
      PROVE  PageStep
  BY <1>0, <1>1, SendsAreNumbers DEF PageStep
<1>2. UNCHANGED page => PageStep
  BY <1>0 DEF PageStep
<1>3. ASSUME NEW s \in Sends, Sending(s)
      PROVE  PageStep
  <2>1. CASE StartAccepted(s) \/ ReplayAnswered(s)
    <3>1. home'[s] # None /\ home'[s] \in Conversations
      BY <2>1, AcceptedGets
    <3>2. /\ page'.epoch = page.epoch /\ page'.draft = page.draft /\ page'.adopted = page.adopted
          /\ page'.active \in {page.active, s}
      BY <1>0, <2>1 DEF StartAccepted, ReplayAnswered, Pages
    <3> QED  BY <1>0, <3>1, <3>2 DEF PageStep
  <2>2. CASE StartRefused(s) \/ StartBroken(s)
    <3>1. /\ \E d \in {page.draft, s} : page' = Released([page EXCEPT !.draft = d], s)
          /\ task[s].pc \in Waiting /\ task'[s].pc = "done"
      BY <1>0, <2>2 DEF StartRefused, StartBroken, Pages, Waiting, Finished, Types
    <3>2. \A d \in {page.draft, s} : /\ [page EXCEPT !.draft = d] \in Pages
                                     /\ [page EXCEPT !.draft = d].draft = d
                                     /\ [page EXCEPT !.draft = d].epoch = page.epoch
                                     /\ [page EXCEPT !.draft = d].active = page.active
                                     /\ [page EXCEPT !.draft = d].adopted = page.adopted
      BY <1>0 DEF Pages, Turns
    <3>3. PICK p \in Pages : /\ page' = Released(p, s) /\ p.draft \in {page.draft, s}
                            /\ p.epoch = page.epoch /\ p.active = page.active
                            /\ p.adopted = page.adopted
      BY <3>1, <3>2
    <3>4. FreesSlot(p, page', s) /\ page'.draft = p.draft
      BY <3>3, ReleasedSlot
    <3>5. /\ page'.epoch = page.epoch /\ page'.draft \in {page.draft, s}
          /\ page'.adopted = page.adopted /\ page'.active \in {page.active, None}
      BY <3>3, <3>4 DEF FreesSlot
    <3> QED  BY <1>0, <3>1, <3>5, SendsAreNumbers DEF PageStep
  <2>3. CASE StartUnanswered(s) \/ ChatFails(s) \/ CancelSent(s)
    BY <1>2, <2>3 DEF StartUnanswered, ChatFails, CancelSent
  <2>4. CASE Answered(s)
    <3>1. /\ page'.epoch = page.epoch /\ page'.draft = page.draft
          /\ page'.adopted = page.adopted /\ page'.active = page.active
      BY <1>0, <2>4 DEF Answered, Pages
    <3> QED  BY <1>0, <3>1 DEF PageStep
  <2>5. CASE SendReturns(s) \/ ReplayUnanswered(s)
    <3>1. \E b \in BOOLEAN : page' = Released([page EXCEPT !.lost = b], s)
      <4>1. [page EXCEPT !.lost = page.lost] = page
        BY <1>0 DEF Pages
      <4> QED  BY <1>0, <2>5, <4>1 DEF SendReturns, ReplayUnanswered, Pages
    <3>2. \A b \in BOOLEAN : /\ [page EXCEPT !.lost = b] \in Pages
                             /\ [page EXCEPT !.lost = b].draft = page.draft
                             /\ [page EXCEPT !.lost = b].epoch = page.epoch
                             /\ [page EXCEPT !.lost = b].active = page.active
                             /\ [page EXCEPT !.lost = b].adopted = page.adopted
      BY <1>0 DEF Pages
    <3>3. PICK p \in Pages : /\ page' = Released(p, s) /\ p.draft = page.draft
                            /\ p.epoch = page.epoch /\ p.active = page.active
                            /\ p.adopted = page.adopted
      BY <3>1, <3>2
    <3>4. FreesSlot(p, page', s) /\ page'.draft = p.draft
      BY <3>3, ReleasedSlot
    <3>5. /\ page'.epoch = page.epoch /\ page'.draft = page.draft
          /\ page'.adopted = page.adopted /\ page'.active \in {page.active, None}
      BY <3>3, <3>4 DEF FreesSlot
    <3> QED  BY <1>0, <3>5, SendsAreNumbers DEF PageStep
  <2>6. CASE SendReconciled(s)
    <3>1. PICK status \in Knowledge, p \in Pages, display \in [Sends -> Displays] :
            /\ SameSlot(page, p) /\ p.draft = page.draft
            /\ CatchEnds(s, status, p, display) /\ (status \in Ended => server[s] = status)
      BY <2>6, SendReconciledAs
    <3>2. task[s] \in Started /\ home[s] # None
      BY <2>6, TasksGet DEF SendReconciled, Types, Under, Memory, Remembers
    <3>3. /\ IF CatchAdopts(s, status, p) THEN AdoptsTurn(p, page', s) ELSE FreesSlot(p, page', s)
          /\ page'.draft = p.draft \/ (page'.draft = s /\ status = "unanswered")
      BY <3>1, <3>2, CatchEndsPage
    <3>4. /\ page'.epoch = page.epoch
          /\ page'.adopted \in {page.adopted, s} /\ page'.active \in {page.active, None, s}
      BY <3>1, <3>3 DEF SameSlot, AdoptsTurn, FreesSlot
    <3>5. page'.draft = page.draft \/ (page'.draft = s /\ server'[s] = "unanswered")
      BY <1>0, <3>1, <3>3 DEF Grows, Ended
    <3> QED  BY <1>0, <3>2, <3>4, <3>5, SendsAreNumbers DEF PageStep, Grows
  <2> QED  BY <1>3, <2>1, <2>2, <2>3, <2>4, <2>5, <2>6 DEF Sending
<1>4. ASSUME NEW t \in Sends, StopReconciled(t)
      PROVE  PageStep
  <2>1. PICK status \in Knowledge, p \in Pages, display \in [Sends -> Displays], unread \in BOOLEAN :
          /\ SameSlot(page, p) /\ p.draft = page.draft
          /\ StopEnds(t, status, p, display, unread)
    BY <1>4, StopReconciledAs
  <2>2. home[t] # None
    BY <1>4 DEF StopReconciled, Memory, Remembers
  <2>3. /\ page'.epoch = page.epoch /\ page'.draft = page.draft
        /\ page'.adopted \in {page.adopted, t, None} /\ page'.active \in {page.active, t}
    <3>1. StopEnded(t, status, p, display, unread)
      BY <2>1, StopEndsPage
    <3> QED  BY <2>1, <3>1 DEF StopEnded, SameSlot, AdoptsTurn
  <2> QED  BY <1>0, <2>2, <2>3, SendsAreNumbers DEF PageStep, Grows
<1>5. ASSUME NEW t \in Sends, StopSent(t) \/ Settle(t) \/ Restore(t) \/ Send(t)
      PROVE  PageStep
  <2>1. CASE Send(t)
    <3>1. /\ page'.epoch = page.epoch /\ page'.draft = None /\ page'.adopted = None
          /\ page'.active = page.active
      BY <1>0, <2>1 DEF Send, Pages
    <3> QED  BY <1>0, <3>1, SendsAreNumbers DEF PageStep
  <2> QED  BY <1>2, <1>5, <2>1 DEF StopSent, Settle, Restore
<1>6. CASE Stop
  <2>1. /\ page'.epoch = page.epoch /\ page'.draft = page.draft
        /\ page'.adopted \in {page.adopted, None} /\ page'.active = None
    BY <1>0, <1>6 DEF Stop, Abandoned, Pages
  <2> QED  BY <1>0, <2>1, SendsAreNumbers DEF PageStep
<1>7. ASSUME NEW c \in Conversations, OpenConversation(c)
      PROVE  PageStep
  <2>1. /\ page'.epoch = page.epoch + 1 /\ page'.draft = page.draft
        /\ page'.adopted \in {page.adopted, None} /\ page'.active \in {page.active, None}
    BY <1>0, <1>7 DEF OpenConversation, Abandoned, Pages
  <2> QED  BY <1>0, <2>1, SendsAreNumbers DEF PageStep
<1>8. CASE OpenRead
  <2> DEFINE c == opening.conversation
             waiting == {t \in Sends : home[t] = c /\ server[t] = "pending"}
             opened == [page EXCEPT !.open = c, !.receipt = Receipt(c, binding[c]),
                               !.loading = FALSE, !.unsure = FALSE, !.lost = FALSE, !.left = {}]
             w == CHOOSE t \in waiting : TRUE
  <2>1. c \in Conversations /\ c # None
    BY <1>8, SendsAreNumbers DEF OpenRead, Types, Openings, Idle
  <2>2. /\ opened.epoch = page.epoch /\ opened.draft = page.draft
        /\ opened.adopted = page.adopted /\ opened.active = page.active
    BY <1>0 DEF Pages
  <2>3. \/ waiting # {} /\ page' = Adopted(opened, w)
        \/ page' = [opened EXCEPT !.adopted = None, !.sending = FALSE]
        \/ page' = opened
        \/ page' = [page EXCEPT !.loading = FALSE]
    BY <1>8 DEF OpenRead
  <2>4. waiting # {} => w \in waiting
    OBVIOUS
  <2>5. waiting # {} => w \in Sends /\ home[w] # None
    BY <2>1, <2>4
  <2>6. /\ [page EXCEPT !.loading = FALSE].epoch = page.epoch
        /\ [page EXCEPT !.loading = FALSE].draft = page.draft
        /\ [page EXCEPT !.loading = FALSE].adopted = page.adopted
        /\ [page EXCEPT !.loading = FALSE].active = page.active
        /\ [page EXCEPT !.loading = FALSE] \in Pages
    BY <1>0 DEF Pages
  <2>7. opened \in Pages
    <3>1. \A o \in Places, r \in Receipts :
            [page EXCEPT !.open = o, !.receipt = r, !.loading = FALSE, !.unsure = FALSE,
                         !.lost = FALSE, !.left = {}] \in Pages
      BY <1>0 DEF Pages, TurnSets
    <3>2. Receipt(c, binding[c]) \in Receipts
      BY <2>1 DEF Receipt, Receipts, Types
    <3> QED  BY <2>1, <3>1, <3>2 DEF Places
  <2> HIDE DEF opened, waiting, w
  <2>8. /\ page'.epoch = page.epoch /\ page'.draft = page.draft
        /\ \/ waiting # {} /\ page'.adopted = w /\ page'.active = w
           \/ page'.adopted \in {page.adopted, None} /\ page'.active = page.active
    BY <1>0, <2>2, <2>3, <2>6, <2>7 DEF Adopted, Pages
  <2> QED  BY <1>0, <2>5, <2>8, SendsAreNumbers DEF PageStep, Grows
<1>9. CASE StartNewChat
  <2>1. /\ page'.epoch = page.epoch + 1 /\ page'.draft = None
        /\ page'.adopted = None /\ page'.active \in {page.active, None}
    BY <1>0, <1>9 DEF StartNewChat, Abandoned, Pages
  <2> QED  BY <1>0, <2>1, SendsAreNumbers DEF PageStep
<1>10. CASE Reload
  <2>1. page'.epoch = page.epoch + 1 /\ page'.draft = None /\ page'.adopted = None /\ page'.active = None
    BY <1>10 DEF Reload, NewPage
  <2> QED  BY <1>0, <2>1, SendsAreNumbers DEF PageStep
<1>11. CASE Poll
  <2> DEFINE p == Reread(page, page.adopted, page.epoch)
  <2>1. page.adopted \in Sends /\ home[page.adopted] # None
    BY <1>0, <1>11 DEF Poll, Pages, Turns, Memory, Remembers
  <2>2. p \in Pages /\ SameSlot(page, p) /\ p.draft = page.draft
    BY <1>0, <2>1, RereadStays, RereadSlot
  <2>3. page' = p \/ page' = [p EXCEPT !.adopted = None, !.active = IF @ = page.adopted THEN None ELSE @,
                                       !.sending = @ /\ p.active # page.adopted]
    BY <1>11 DEF Poll
  <2> HIDE DEF p
  <2>4. /\ page'.epoch = page.epoch /\ page'.draft = page.draft
        /\ page'.adopted \in {page.adopted, None} /\ page'.active \in {page.active, None}
    BY <2>2, <2>3 DEF Pages, SameSlot
  <2> QED  BY <1>0, <2>4, SendsAreNumbers DEF PageStep
<1>12. CASE Rebind \/ RebindSent \/ RebindReread
  <2>1. /\ page'.epoch = page.epoch /\ page'.draft = page.draft
        /\ page'.adopted = page.adopted /\ page'.active = page.active
    <3>1. \/ page' = page \/ page' = Touched(page) \/ page' = [page EXCEPT !.unsure = TRUE]
          \/ \E r : page' = [Touched(page) EXCEPT !.receipt = r, !.unsure = FALSE]
      BY <1>12 DEF Rebind, RebindSent, RebindReread
    <3> QED  BY <1>0, <3>1 DEF Pages, Touched
  <2> QED  BY <1>0, <2>1 DEF PageStep
<1>13. CASE Restored
  <2>1. \/ page' = page
        \/ /\ Recoverable(recovery.turn, recovery.conversation)
           /\ page' = [page EXCEPT !.draft = recovery.turn, !.revision = @ + 1]
           /\ UNCHANGED server
    BY <1>13 DEF Restored, serverVars
  <2>2. CASE page' # page
    <3>1. /\ page'.epoch = page.epoch /\ page'.draft = recovery.turn
          /\ page'.adopted = page.adopted /\ page'.active = page.active
          /\ server'[recovery.turn] = "unanswered"
      BY <1>0, <2>1, <2>2 DEF Pages, Recoverable
    <3> QED  BY <1>0, <3>1 DEF PageStep
  <2> QED  BY <1>2, <2>2
<1>14. CASE OpenAbandons \/ \E r \in wire : LateStart(r)
  BY <1>2, <1>14 DEF OpenAbandons, LateStart
<1> QED
  BY <1>3, <1>4, <1>5, <1>6, <1>7, <1>8, <1>9, <1>10, <1>11, <1>12, <1>13, <1>14 DEF Next

(* What a step does to the Stop of turn t, and to its display.                *)
StopStep(t) ==
  \/ stop'[t].pc = "idle"
  \/ stop[t].pc # "idle" /\ stop'[t].epoch = stop[t].epoch
     /\ stop'[t].known \in {stop[t].known, None, server'[t]}
  \/ page.active = t /\ stop'[t].epoch = page.epoch /\ stop'[t].known = None

LEMMA StopsStep ==
  ASSUME Types, Memory, Next, NEW t \in Sends
  PROVE  StopStep(t)
<1>0. stop \in [Sends -> Stopping \cup {Idle}] /\ page \in Pages /\ page.active \in Turns
  BY DEF Types, Pages
<1>1. stop'[t] = stop[t] => StopStep(t)
  BY DEF StopStep
<1>2. CASE Stop
  <2>1. CASE page.active = t
    <3>1. stop' = [stop EXCEPT ![t] =
                     [pc |-> "cancel", epoch |-> page.epoch, known |-> None, asked |-> 0]]
      BY <1>2, <2>1, SendsAreNumbers DEF Stop
    <3>2. stop'[t].epoch = page.epoch /\ stop'[t].known = None
      BY <1>0, <3>1
    <3> QED  BY <2>1, <3>2 DEF StopStep
  <2>2. CASE page.active # t
    BY <1>0, <1>1, <1>2, <2>2 DEF Stop
  <2> QED  BY <2>1, <2>2
<1>3. ASSUME NEW u \in Sends, StopSent(u)
      PROVE  StopStep(t)
  <2>1. CASE u = t
    <3>1. PICK answer \in Ended \cup {None} :
            /\ Cancellation(t, answer)
            /\ stop' = [stop EXCEPT ![t].pc = "reconcile", ![t].known = answer, ![t].asked = page.epoch]
      BY <1>3, <2>1 DEF StopSent
    <3>2. stop[t] \in Stopping /\ stop[t].pc # "idle"
      BY <1>0, <1>3, <2>1, StopsGet DEF StopSent
    <3>3. stop'[t].epoch = stop[t].epoch /\ stop'[t].known = answer
      BY <1>0, <3>1, <3>2 DEF Stopping
    <3> QED  BY <3>1, <3>2, <3>3 DEF Cancellation, StopStep
  <2>2. CASE u # t
    BY <1>0, <1>1, <1>3, <2>2 DEF StopSent
  <2> QED  BY <2>1, <2>2
<1>4. ASSUME NEW u \in Sends, StopReconciled(u)
      PROVE  StopStep(t)
  <2>1. stop' = [stop EXCEPT ![u] = Idle]
    <3>1. PICK status \in Knowledge, p \in Pages, display \in [Sends -> Displays], unread \in BOOLEAN :
            StopEnds(u, status, p, display, unread)
      BY <1>4, StopReconciledAs
    <3>2. StopEnded(u, status, p, display, unread)
      BY <3>1, StopEndsPage
    <3> QED  BY <3>2 DEF StopEnded
  <2> QED  BY <1>0, <1>1, <2>1 DEF StopStep, Idle
<1>5. CASE Reload
  BY <1>5 DEF Reload, StopStep, Idle
<1>6. ASSUME NEW s \in Sends, Sending(s) \/ Send(s) \/ Settle(s) \/ Restore(s)
      PROVE  StopStep(t)
  <2>1. UNCHANGED stop
    BY <1>6 DEF Sending, Send, Settle, Restore, StartAccepted, StartRefused, StartUnanswered, StartBroken,
       Answered, SendReturns, ChatFails, ReplayAnswered, ReplayUnanswered, CancelSent, SendReconciled
  <2> QED  BY <1>1, <2>1
<1>7. CASE \/ \E c \in Conversations : OpenConversation(c)
           \/ OpenAbandons \/ OpenRead \/ StartNewChat \/ Poll \/ Rebind \/ RebindSent \/ RebindReread
           \/ Restored \/ \E r \in wire : LateStart(r)
  <2>1. UNCHANGED stop
    BY <1>7 DEF OpenConversation, OpenAbandons, OpenRead, StartNewChat, Poll, Rebind, RebindSent,
       RebindReread, Restored, LateStart
  <2> QED  BY <1>1, <2>1
<1> QED  BY <1>2, <1>3, <1>4, <1>5, <1>6, <1>7 DEF Next

ShownStep(t) ==
  \/ shown'[t] \in {"hidden", shown[t]}
  \/ home'[t] # None /\ (shown'[t] \in {"settled", "unrefreshed"} => server'[t] \in Ended)

LEMMA ShownsStep ==
  ASSUME Types, Memory, Next, NEW t \in Sends
  PROVE  ShownStep(t)
<1>0. shown \in [Sends -> Displays] /\ Grows /\ home \in [Sends -> Places]
  BY TypesStep DEF Types
<1>1. UNCHANGED shown => ShownStep(t)
  BY DEF ShownStep
<1>2. ASSUME NEW s \in Sends, StartAccepted(s)
      PROVE  ShownStep(t)
  BY <1>0, <1>2, AcceptedGets DEF StartAccepted, ShownStep
<1>3. ASSUME NEW s \in Sends, Answered(s)
      PROVE  ShownStep(t)
  <2>1. home[s] # None /\ server[s] \in Ended /\ shown' = Displayed(s, "settled")
    BY <1>3 DEF Answered, Memory, Remembers, Ended
  <2> QED  BY <1>0, <2>1 DEF Displayed, ShownStep, Grows
<1>4. ASSUME NEW s \in Sends, SendReconciled(s)
      PROVE  ShownStep(t)
  <2>1. PICK status \in Knowledge, p \in Pages, display \in [Sends -> Displays] :
          CatchEnds(s, status, p, display) /\ Renewed(s, display)
    BY <1>4, SendReconciledAs
  <2>2. task[s] \in Started /\ home[s] # None
    BY <1>4, TasksGet DEF SendReconciled, Types, Under, Memory, Remembers
  <2>3. shown' = display \/ shown' = [display EXCEPT ![s] = "active"]
    BY <2>1, <2>2, CatchEndsPage
  <2> QED  BY <1>0, <2>1, <2>2, <2>3 DEF Renewed, ShownStep, Grows
<1>5. ASSUME NEW s \in Sends, StopReconciled(s)
      PROVE  ShownStep(t)
  <2>1. PICK status \in Knowledge, p \in Pages, display \in [Sends -> Displays], unread \in BOOLEAN :
          /\ StopEnds(s, status, p, display, unread) /\ Renewed(s, display)
          /\ status \in Ended => server[s] = status
          /\ unread => status # "pending"
    BY <1>5, StopReconciledAs
  <2>2. home[s] # None
    BY <1>5 DEF StopReconciled, Memory, Remembers
  <2>3. \/ shown' = display \/ shown' = [display EXCEPT ![s] = "active"]
        \/ unread /\ status # None /\ \E h \in Displays : shown' = [display EXCEPT ![s] = h]
    <3>0. StopEnded(s, status, p, display, unread)
      BY <2>1, StopEndsPage
    <3>1. CASE StopAdopts(s, status, p)
      BY <3>0, <3>1 DEF StopEnded
    <3>2. CASE StopFrees(s, status, p)
      <4>1. shown' = IF unread /\ status # None /\ display[s] # "hidden"
                     THEN [display EXCEPT ![s] = IF status = "completed" THEN "unrefreshed" ELSE "settled"]
                     ELSE display
        BY <3>0, <3>2 DEF StopEnded
      <4> QED  BY <4>1 DEF Displays
    <3>3. CASE ~StopAdopts(s, status, p) /\ ~StopFrees(s, status, p)
      BY <3>0, <3>3 DEF StopEnded
    <3> QED  BY <3>1, <3>2, <3>3
  <2>4. unread /\ status # None => server[s] \in Ended
    BY <2>1 DEF Knowledge
  <2> QED  BY <1>0, <2>1, <2>2, <2>3, <2>4 DEF Renewed, ShownStep, Grows
<1>6. CASE OpenRead
  <2>1. opening.conversation # None
    BY <1>6, SendsAreNumbers DEF OpenRead, Types, Openings, Idle
  <2>2. UNCHANGED <<home, server>> /\ shown' \in {Timeline(opening.conversation), shown}
    BY <1>6 DEF OpenRead, serverVars
  <2>3. server[t] \in Statuses
    BY DEF Types
  <2> QED  BY <1>1, <2>1, <2>2, <2>3 DEF Timeline, Status, Statuses, ShownStep
<1>7. CASE Poll
  <2>1. page.adopted \in Sends /\ home[page.adopted] # None
    BY <1>7 DEF Poll, Types, Pages, Turns, Memory, Remembers
  <2>2. Renewed(page.adopted, Redisplayed(page.adopted)) /\ shown' = Redisplayed(page.adopted)
    BY <1>7, <2>1, RedisplayedRenews DEF Poll
  <2> QED  BY <1>0, <2>1, <2>2 DEF Renewed, ShownStep, Grows
<1>8. CASE StartNewChat \/ Reload
  BY <1>8 DEF StartNewChat, Reload, ShownStep
<1>9. ASSUME NEW s \in Sends, Sending(s) \/ Send(s) \/ Settle(s) \/ Restore(s) \/ StopSent(s)
      PROVE  ShownStep(t)
  <2>1. StartAccepted(s) \/ Answered(s) \/ SendReconciled(s) \/ UNCHANGED shown
    BY <1>9 DEF Sending, Send, Settle, Restore, StopSent, StartRefused, StartUnanswered, StartBroken,
       SendReturns, ChatFails, ReplayAnswered, ReplayUnanswered, CancelSent
  <2> QED  BY <1>1, <1>2, <1>3, <1>4, <2>1
<1>10. CASE \/ \E c \in Conversations : OpenConversation(c)
            \/ Stop \/ OpenAbandons \/ Rebind \/ RebindSent \/ RebindReread
            \/ Restored \/ \E r \in wire : LateStart(r)
  <2>1. UNCHANGED shown
    BY <1>10 DEF OpenConversation, Stop, OpenAbandons, Rebind, RebindSent, RebindReread, Restored, LateStart
  <2> QED  BY <1>1, <2>1
<1> QED  BY <1>5, <1>6, <1>7, <1>8, <1>9, <1>10 DEF Next

LEMMA WireStep ==
  ASSUME Types, Memory, Next, NEW r \in wire'
  PROVE  r \in wire \/ \E s \in Sends : task[s].pc \in Waiting /\ r = Request(s)
<1>1. ASSUME NEW s \in Sends, Sending(s)
      PROVE  r \in wire \/ \E q \in Sends : task[q].pc \in Waiting /\ r = Request(q)
  <2>1. CASE StartUnanswered(s) \/ ReplayUnanswered(s)
    BY <2>1 DEF StartUnanswered, ReplayUnanswered, Unheard, Waiting, serverVars
  <2>2. CASE CancelSent(s)
    BY <2>2 DEF CancelSent, Cancellation
  <2>3. CASE UNCHANGED wire
    BY <2>3
  <2> QED
    BY <1>1, <2>1, <2>2, <2>3 DEF Sending, StartAccepted, StartRefused, StartBroken, Answered, SendReturns,
       ChatFails, ReplayAnswered, SendReconciled, serverVars
<1>2. CASE Reload
  BY <1>2 DEF Reload, Waiting
<1>3. CASE \E q \in wire : LateStart(q)
  BY <1>3 DEF LateStart
<1>4. ASSUME NEW s \in Sends, Send(s) \/ Settle(s) \/ Restore(s) \/ StopSent(s) \/ StopReconciled(s)
      PROVE  r \in wire
  BY <1>4 DEF Send, Settle, Restore, StopSent, Cancellation, StopReconciled, serverVars
<1>5. CASE \/ \E c \in Conversations : OpenConversation(c)
           \/ Stop \/ OpenAbandons \/ OpenRead \/ StartNewChat \/ Poll \/ Rebind \/ RebindSent
           \/ RebindReread \/ Restored
  BY <1>5 DEF OpenConversation, Stop, OpenAbandons, Cancellation, OpenRead, StartNewChat, Poll, Rebind,
     RebindSent, RebindReread, Restored, serverVars
<1> QED  BY <1>1, <1>2, <1>3, <1>4, <1>5 DEF Next

(* The first half of the invariant is kept, whoever holds the slot.           *)
LEMMA MemoryStep ==
  ASSUME Types, Memory, Next
  PROVE  Memory'
<1>0. Types' /\ LedgerOK' /\ Grows /\ PageStep
  BY TypesStep, PagesStep
<1>1. WireOK'
  <2> SUFFICES ASSUME NEW r \in wire'
               PROVE  /\ task'[r.turn].pc # "idle"
                      /\ task'[r.turn].pc \in Waiting => r.conversation = task'[r.turn].conversation
    BY DEF WireOK
  <2>1. r.turn \in Sends
    BY <1>0 DEF Types, Requests
  <2>2. /\ task[r.turn].pc # "idle"
        /\ task[r.turn].pc \in Waiting => r.conversation = task[r.turn].conversation
    <3>1. CASE r \in wire
      BY <3>1 DEF Memory, WireOK
    <3>2. CASE \E s \in Sends : task[s].pc \in Waiting /\ r = Request(s)
      BY <3>2, RequestTypes DEF Waiting
    <3> QED  BY <3>1, <3>2, WireStep
  <2>3. TaskStep(r.turn)
    BY <2>1, TasksStep
  <2> QED  BY <2>2, <2>3 DEF TaskStep, SameTask, Waiting, Under
<1>2. ASSUME NEW t \in Sends
      PROVE  Remembers(t)'
  <2>0. /\ Remembers(t) /\ TaskStep(t) /\ StopStep(t) /\ ShownStep(t)
        /\ home[t] = None <=> server[t] = "none"
    BY <1>2, TasksStep, StopsStep, ShownsStep DEF Memory, LedgerOK
  <2>1. home'[t] # None => task'[t].pc # "idle"
    BY <1>0, <2>0, TurnsBegin DEF Remembers, TaskStep, SameTask, Under
  <2>2. page'.active = t \/ page'.adopted = t \/ stop'[t].pc # "idle" \/ shown'[t] # "hidden"
          => home'[t] # None
    BY <1>0, <2>0 DEF Remembers, PageStep, Grows, StopStep, ShownStep
  <2>3. task'[t].pc \in {"chat", "cancel", "reconcile"} =>
          home'[t] # None /\ home'[t] = task'[t].conversation
    BY <1>0, <2>0 DEF Remembers, TaskStep, SameTask, Grows, Under, Waiting
  <2>4. task'[t].pc \in Waiting /\ task'[t].conversation # None /\ home'[t] # None =>
          home'[t] = task'[t].conversation
    <3>1. CASE task[t].pc \in Waiting
      <4>1. task'[t].pc \in Waiting => task'[t].conversation = task[t].conversation
        BY <2>0, <3>1 DEF TaskStep, SameTask, Under, Waiting
      <4> QED  BY <1>0, <2>0, <3>1, <4>1, TurnsBegin DEF Remembers, Grows
    <3>2. CASE task[t].pc = "idle"
      <4>1. home[t] = None /\ home'[t] = None
        BY <1>0, <2>0, <3>2, TurnsBegin DEF Remembers
      <4> QED  BY <4>1
    <3>3. CASE task[t].pc \notin Waiting \cup {"idle"}
      BY <2>0, <3>3 DEF TaskStep, SameTask, Under, Waiting
    <3> QED  BY <3>1, <3>2, <3>3
  <2>5. shown'[t] \in {"settled", "unrefreshed"} => server'[t] \in Ended
    BY <1>0, <2>0 DEF Remembers, ShownStep, Grows
  <2>6. task'[t].pc \in Under /\ task'[t].known \in Ended => server'[t] = task'[t].known
    BY <1>0, <2>0, SendsAreNumbers DEF Remembers, TaskStep, SameTask, Grows, Under
  <2>7. stop'[t].pc # "idle" /\ stop'[t].known \in Ended => server'[t] = stop'[t].known
    BY <1>0, <2>0, SendsAreNumbers DEF Remembers, StopStep, Grows
  <2> QED  BY <2>1, <2>2, <2>3, <2>4, <2>5, <2>6, <2>7 DEF Remembers
<1>3. ASSUME NEW t \in Sends
      PROVE  Unasked(t)'
  <2>0. /\ Unasked(t) /\ TaskStep(t) /\ Grows
        /\ t \in claimed' => t \in claimed \/ task'[t].pc = "chat"
    BY <1>0, <1>3, TasksStep DEF Memory
  <2>1. task'[t].pc \in Waiting \cup {"idle"} => t \notin claimed'
    BY <2>0 DEF Unasked, TaskStep, SameTask, Under, Waiting
  <2>2. page'.draft = t => \/ server'[t] = "unanswered"
                           \/ t \notin claimed' /\ task'[t].pc = "done"
    <3>1. task[t].pc = "done" => task'[t].pc = "done"
      BY <2>0 DEF TaskStep, SameTask, Under
    <3>2. server[t] = "unanswered" => server'[t] = "unanswered"
      BY <2>0 DEF Grows, Ended
    <3> QED  BY <1>0, <2>0, <3>1, <3>2 DEF Unasked, PageStep
  <2> QED  BY <2>1, <2>2 DEF Unasked
<1>4. ASSUME NEW t \in Sends
      PROVE  Past(t)'
  <2>0. Past(t) /\ TaskStep(t) /\ StopStep(t) /\ stop[t] \in Stopping \cup {Idle} /\ task[t] \in Tasks
    BY <1>4, TasksStep, StopsStep DEF Memory, Types
  <2>1. /\ task[t].pc \in Under => task[t].epoch \in Nat
        /\ stop[t].pc # "idle" => stop[t].epoch \in Nat
        /\ page.epoch \in Nat /\ page'.epoch >= page.epoch
    BY <1>0, <2>0, TasksGet, StopsGet DEF Started, Stopping, PageStep
  <2>2. task'[t].pc \in Under => task'[t].epoch <= page'.epoch
    BY <1>0, <2>0, <2>1 DEF Past, TaskStep, SameTask, PageStep, Under, Waiting
  <2>3. stop'[t].pc # "idle" => stop'[t].epoch <= page'.epoch
    BY <1>0, <2>0, <2>1 DEF Past, StopStep, PageStep
  <2> QED  BY <2>2, <2>3 DEF Past
<1> QED  BY <1>0, <1>1, <1>2, <1>3, <1>4 DEF Memory

-----------------------------------------------------------------------------
(* Steps that leave the slot alone: the record of a send goes on to its next  *)
(* request, a display is renewed.                                             *)
TaskKept(q) ==
  /\ task[q].pc \notin Under => task'[q].pc = task[q].pc
  /\ task[q].pc \in Under =>
       /\ task'[q].pc \in Under
       /\ task'[q].pc \in {"start", "chat"} => task'[q].pc = task[q].pc
       /\ task'[q].pc \in Waiting => task[q].pc \in Waiting
       /\ task'[q].epoch = task[q].epoch /\ task'[q].stopped = task[q].stopped
       /\ task'[q].presented = task[q].presented
       /\ \/ task'[q].conversation = task[q].conversation
          \/ task[q].conversation = None /\ task'[q].pc \notin Waiting

StopKept(t) ==
  /\ stop'[t].pc = "idle" <=> stop[t].pc = "idle"
  /\ stop[t].pc # "idle" => stop'[t].epoch = stop[t].epoch

ShownKept(t) ==
  /\ shown'[t] = "hidden" <=> shown[t] = "hidden"
  /\ shown'[t] = "active" => shown[t] = "active"

LEMMA ShownsStayHome ==
  ASSUME Memory, Grows, ShownAtHome, page'.open = page.open, \A t \in Sends : ShownKept(t)
  PROVE  ShownAtHome'
<1> SUFFICES ASSUME NEW t \in Sends, shown'[t] # "hidden"  PROVE home'[t] = page'.open
  BY DEF ShownAtHome
<1>1. shown[t] # "hidden"
  BY DEF ShownKept
<1> QED  BY <1>1 DEF ShownAtHome, Memory, Remembers, Grows

LEMMA SlotFrame ==
  ASSUME Memory, Slot, Grows, SameSlot(page, page'), opening' = Idle <=> opening = Idle,
         \A t \in Sends : TaskKept(t) /\ StopKept(t) /\ ShownKept(t)
  PROVE  Slot'
<1>0. /\ page'.open = page.open /\ page'.epoch = page.epoch /\ page'.loading = page.loading
      /\ page'.sending = page.sending /\ page'.owner = page.owner /\ page'.active = page.active
      /\ page'.adopted = page.adopted /\ page'.left = page.left
  BY DEF SameSlot
<1>1. \A t \in Sends : (Here1(t)' <=> Here1(t)) /\ (StopHere(t)' <=> StopHere(t))
  BY <1>0 DEF Here1, StopHere, TaskKept, StopKept, Under
<1>2. Reads' /\ HasHolder'
  BY <1>0, <1>1 DEF Slot, Reads, HasHolder, ShownKept
<1>3. ShownAtHome'
  BY <1>0, ShownsStayHome DEF Slot
<1>4. ASSUME NEW t \in Sends
      PROVE  (Owns(t) /\ Runs(t) /\ Active(t) /\ Stops(t) /\ Spins(t))'
  <2>0. Owns(t) /\ Runs(t) /\ Active(t) /\ Stops(t) /\ Spins(t) /\ TaskKept(t) /\ StopKept(t) /\ ShownKept(t)
    BY <1>4 DEF Slot
  <2>1. Owns(t)'
    BY <1>0, <2>0 DEF Owns, TaskKept, ShownKept, Under
  <2>2. Runs(t)'
    BY <1>0, <1>1, <2>0 DEF Runs, TaskKept, ShownKept, Here1, Under, Waiting
  <2>3. Active(t)'
    BY <1>0, <2>0 DEF Active
  <2>4. Stops(t)'
    BY <1>0, <1>1, <2>0 DEF Stops, StopKept, ShownKept
  <2>5. Spins(t)'
    BY <1>0, <1>1, <2>0 DEF Spins, ShownKept
  <2> QED  BY <2>1, <2>2, <2>3, <2>4, <2>5
<1> QED  BY <1>2, <1>3, <1>4 DEF Slot

(* The sends after a step that leaves the slot without an owner.              *)
Unowned(t) ==
  /\ task[t].pc \in {"start", "chat"} => task[t].stopped
  /\ task[t].pc = "chat" => task[t].presented
  /\ task[t].pc \in Waiting => ~task[t].presented
  /\ Here1(t) => task[t].presented /\ shown[t] # "hidden"

(* A page on which nothing is sent, and one that polls turn u.                *)
LEMMA FreeSlot ==
  ASSUME page'.owner = None, page'.adopted = None, ~page'.sending,
         page'.loading <=> opening' # Idle, ShownAtHome',
         \A t \in Sends :
            /\ page'.loading => ~Here1(t)' /\ ~StopHere(t)'
            /\ Unowned(t)'
            /\ StopHere(t)' => shown'[t] # "active"
            /\ shown'[t] = "active" => t \in page'.left
  PROVE  Slot'
<1>1. Reads' /\ HasHolder'
  BY DEF Reads, HasHolder
<1>2. ASSUME NEW t \in Sends
      PROVE  (Owns(t) /\ Runs(t) /\ Active(t) /\ Stops(t) /\ Spins(t))'
  <2>1. Owns(t)' /\ Active(t)' /\ Spins(t)'
    BY <1>2, SendsAreNumbers DEF Owns, Active, Spins
  <2>2. Runs(t)'
    BY <1>2 DEF Runs, Unowned
  <2>3. Stops(t)'
    BY <1>2, SendsAreNumbers DEF Stops
  <2> QED  BY <2>1, <2>2, <2>3
<1> QED  BY <1>1, <1>2 DEF Slot

LEMMA PollingSlot ==
  ASSUME NEW u \in Sends, page'.owner = None, page'.adopted = u, page'.active = u, page'.sending,
         ~page'.loading, opening' = Idle, ShownAtHome',
         \A t \in Sends :
            /\ Unowned(t)'
            /\ StopHere(t)' => t = u
            /\ shown'[t] = "active" => t \in page'.left \cup {u}
  PROVE  Slot'
<1>1. Reads' /\ HasHolder'
  BY SendsAreNumbers DEF Reads, HasHolder
<1>2. ASSUME NEW t \in Sends
      PROVE  (Owns(t) /\ Runs(t) /\ Active(t) /\ Stops(t) /\ Spins(t))'
  <2>1. Owns(t)' /\ Active(t)' /\ Spins(t)'
    BY <1>2, SendsAreNumbers DEF Owns, Active, Spins
  <2>2. Runs(t)'
    BY <1>2 DEF Runs, Unowned
  <2>3. Stops(t)'
    BY <1>2, SendsAreNumbers DEF Stops
  <2> QED  BY <2>1, <2>2, <2>3
<1> QED  BY <1>1, <1>2 DEF Slot

(* What the invariant says of a page without an owner, and of the owner.      *)
LEMMA NobodyOwns ==
  ASSUME Slot, NEW t \in Sends, page.owner # t
  PROVE  Unowned(t)
<1>1. Runs(t)
  BY DEF Slot
<1>2. task[t].pc = "start" => task[t].stopped
  BY <1>1 DEF Runs, Here1, Under, Waiting
<1> QED  BY <1>1, <1>2 DEF Runs, Unowned

LEMMA HereAlone ==
  ASSUME Slot, NEW s \in Sends, Here1(s), ~task[s].presented
  PROVE  /\ page.owner = s /\ page.sending /\ page.adopted = None /\ ~page.loading
         /\ shown[s] = "hidden" /\ page.active # s /\ ~task[s].stopped
         /\ page.open = task[s].conversation \/ (page.open = None /\ task[s].pc \notin Waiting)
BY DEF Slot, Runs, Owns, Reads, Here1

(* Send takes a free slot.                                                    *)
LEMMA SendSlot ==
  ASSUME Types, Memory, Slot, Grows, NEW s \in Sends, Send(s)
  PROVE  Slot'
<1>0. /\ page'.open = page.open /\ page'.epoch = page.epoch /\ page'.loading = page.loading
      /\ page'.left = page.left /\ page'.active = page.active
      /\ page'.sending = TRUE /\ page'.adopted = None /\ page'.owner = s
      /\ ~page.sending /\ ~page.loading /\ task[s].pc = "idle"
      /\ UNCHANGED <<shown, stop, opening>>
  BY DEF Send, Types, Pages
<1>1. /\ task'[s].pc = "start" /\ task'[s].conversation = page.open /\ task'[s].epoch = page.epoch
      /\ ~task'[s].stopped /\ ~task'[s].presented
      /\ \A q \in Sends : q # s => task'[q] = task[q]
  BY DEF Send, Types
<1>2. home[s] = None /\ page.active # s /\ stop[s].pc = "idle" /\ shown[s] = "hidden"
  BY <1>0 DEF Memory, Remembers
<1>3. \A q \in Sends : page.owner # q /\ page.adopted # q /\ Unowned(q)
  BY <1>0, NobodyOwns DEF Slot, Owns, Active
<1>4. Reads' /\ HasHolder'
  BY <1>0, SendsAreNumbers DEF Slot, Reads, HasHolder
<1>5. ShownAtHome'
  BY <1>0, ShownsStayHome DEF ShownKept, Slot
<1>6. ASSUME NEW t \in Sends
      PROVE  (Owns(t) /\ Runs(t) /\ Active(t) /\ Stops(t) /\ Spins(t))'
  <2>0. Runs(t) /\ Stops(t) /\ Spins(t)
    BY <1>6 DEF Slot
  <2>1. Owns(t)'
    BY <1>0, <1>1, <1>2 DEF Owns, Under
  <2>2. Runs(t)'
    <3>1. CASE t = s
      BY <1>0, <1>1, <1>2, <3>1 DEF Runs, Waiting
    <3>2. CASE t # s
      <4>1. Unowned(t) /\ task'[t] = task[t] /\ (Here1(t)' <=> Here1(t))
        BY <1>0, <1>1, <1>3, <3>2 DEF Here1
      <4> QED  BY <1>0, <4>1 DEF Runs, Unowned
    <3> QED  BY <3>1, <3>2
  <2>3. Active(t)'
    BY <1>0, SendsAreNumbers DEF Active
  <2>4. Stops(t)'
    BY <1>0, <1>2, <2>0 DEF Stops, StopHere
  <2>5. Spins(t)'
    BY <1>0, <1>3, <2>0 DEF Spins, StopHere
  <2> QED  BY <2>1, <2>2, <2>3, <2>4, <2>5
<1> QED  BY <1>4, <1>5, <1>6 DEF Slot

(* The send whose start is answered is the owner: its turn is displayed.      *)
LEMMA AcceptedSlot ==
  ASSUME Types, Memory, Slot, Grows, NEW s \in Sends, StartAccepted(s)
  PROVE  Slot'
<1>0. /\ page'.open = home'[s] /\ page'.epoch = page.epoch /\ page'.loading = page.loading
      /\ page'.left = page.left /\ page'.active = s /\ page'.sending = page.sending
      /\ page'.adopted = page.adopted /\ page'.owner = page.owner
      /\ shown' = [shown EXCEPT ![s] = "active"] /\ UNCHANGED <<stop, opening>>
      /\ task[s].pc = "start" /\ ~task[s].stopped
  BY DEF StartAccepted, Types, Pages
<1>1. /\ home'[s] # None /\ task[s] \in Started
      /\ task[s].conversation # None => home'[s] = task[s].conversation
  BY AcceptedGets
<1>2. /\ task'[s].pc = "chat" /\ task'[s].epoch = task[s].epoch /\ ~task'[s].stopped
      /\ task'[s].presented = TRUE
      /\ \A q \in Sends : q # s => task'[q] = task[q]
  BY <1>0, <1>1 DEF StartAccepted, Types, Started
<1>3. Here1(s) /\ ~task[s].presented
  BY <1>0 DEF Slot, Runs, Here1, Under, Waiting
<1>4. /\ page.owner = s /\ page.sending /\ page.adopted = None /\ ~page.loading
      /\ page.open = task[s].conversation
  BY <1>0, <1>3, HereAlone DEF Waiting
<1>5. /\ shown'[s] = "active" /\ \A q \in Sends : q # s => shown'[q] = shown[q]
  BY <1>0 DEF Types
<1>6. Reads' /\ HasHolder'
  BY <1>0, <1>4, SendsAreNumbers DEF Slot, Reads, HasHolder
<1>7. ShownAtHome'
  <2>1. \A t \in Sends : shown[t] # "hidden" => home[t] # None /\ home[t] = page.open /\ home'[t] = home[t]
    BY DEF Slot, ShownAtHome, Memory, Remembers, Grows
  <2> QED  BY <1>0, <1>1, <1>4, <1>5, <2>1 DEF ShownAtHome
<1>8. ASSUME NEW t \in Sends
      PROVE  (Owns(t) /\ Runs(t) /\ Active(t) /\ Stops(t) /\ Spins(t))'
  <2>0. Runs(t) /\ Stops(t) /\ Spins(t) /\ Stops(s)
    BY <1>8 DEF Slot
  <2>1. Owns(t)'
    BY <1>0, <1>2, <1>3, <1>4, SendsAreNumbers DEF Owns, Under, Here1
  <2>2. Runs(t)'
    <3>1. CASE t = s
      BY <1>0, <1>2, <1>4, <1>5, <3>1 DEF Runs, Waiting
    <3>2. CASE t # s
      <4>1. Unowned(t) /\ task'[t] = task[t] /\ (Here1(t)' <=> Here1(t)) /\ shown'[t] = shown[t]
        BY <1>0, <1>2, <1>4, <1>5, <3>2, NobodyOwns DEF Here1
      <4> QED  BY <1>0, <4>1 DEF Runs, Unowned
    <3> QED  BY <3>1, <3>2
  <2>3. Active(t)'
    BY <1>0, <1>4, SendsAreNumbers DEF Active
  <2>4. Stops(t)'
    BY <1>0, <1>4, <1>5, <2>0, SendsAreNumbers DEF Stops, StopHere
  <2>5. Spins(t)'
    BY <1>0, <1>4, <1>5, <2>0 DEF Spins, StopHere
  <2> QED  BY <2>1, <2>2, <2>3, <2>4, <2>5
<1> QED  BY <1>6, <1>7, <1>8 DEF Slot

(* A send ends: the slot is freed if it was still the send's.                 *)
LEMMA ReleasingSlot ==
  ASSUME Types, Memory, Slot, Grows, NEW s \in Sends, FreesSlot(page, page', s),
         task' = Finished(s), UNCHANGED <<stop, opening>>, \A t \in Sends : ShownKept(t),
         page.owner = s => shown'[s] # "active"
  PROVE  Slot'
<1>0. /\ page'.open = page.open /\ page'.epoch = page.epoch /\ page'.loading = page.loading
      /\ page'.adopted = page.adopted /\ page'.left = page.left
  BY DEF FreesSlot
<1>1. task'[s].pc = "done" /\ \A q \in Sends : q # s => task'[q] = task[q]
  BY DEF Finished, Types
<1>2. ShownAtHome'
  BY <1>0, ShownsStayHome DEF Slot
<1>3. \A t \in Sends : StopHere(t)' <=> StopHere(t)
  BY <1>0 DEF StopHere
<1>4. CASE page.owner = s
  <2>1. page'.owner = None /\ ~page'.sending /\ page.sending /\ page.adopted = None /\ ~page.loading
    BY <1>4 DEF FreesSlot, Slot, Owns, Reads
  <2>2. ASSUME NEW t \in Sends
        PROVE  /\ Unowned(t)' /\ (StopHere(t)' => shown'[t] # "active")
               /\ shown'[t] = "active" => t \in page'.left
    <3>0. Stops(t) /\ Spins(t) /\ ShownKept(t)
      BY <2>2 DEF Slot
    <3>1. Unowned(t)'
      <4>1. CASE t = s
        BY <1>1, <4>1 DEF Unowned, Here1, Under, Waiting
      <4>2. CASE t # s
        <5>1. Unowned(t) /\ (Here1(t)' <=> Here1(t)) /\ task'[t] = task[t]
          BY <1>0, <1>1, <1>4, <4>2, NobodyOwns DEF Here1
        <5> QED  BY <3>0, <5>1 DEF Unowned, ShownKept
      <4> QED  BY <4>1, <4>2
    <3>2. StopHere(t)' => shown'[t] # "active"
      BY <1>3, <1>4, <3>0, SendsAreNumbers DEF Stops, ShownKept
    <3>3. shown'[t] = "active" => t \in page'.left
      BY <1>0, <1>3, <1>4, <2>1, <3>0, <3>2, SendsAreNumbers DEF Spins, ShownKept
    <3> QED  BY <3>1, <3>2, <3>3
  <2>3. opening = Idle
    BY <2>1 DEF Slot, Reads
  <2> QED  BY <1>0, <1>2, <2>1, <2>2, <2>3, FreeSlot
<1>5. CASE page.owner # s
  <2>1. page'.owner = page.owner /\ page'.sending = page.sending /\ page'.active = page.active
    BY <1>5 DEF FreesSlot
  <2>2. \A t \in Sends : Here1(t)' => Here1(t)
    BY <1>0, <1>1 DEF Here1, Under
  <2>3. Reads' /\ HasHolder'
    BY <1>0, <1>3, <2>1, <2>2 DEF Slot, Reads, HasHolder, ShownKept
  <2>4. ASSUME NEW t \in Sends
        PROVE  (Owns(t) /\ Runs(t) /\ Active(t) /\ Stops(t) /\ Spins(t))'
    <3>0. Owns(t) /\ Runs(t) /\ Active(t) /\ Stops(t) /\ Spins(t) /\ ShownKept(t)
      BY <2>4 DEF Slot
    <3>1. Owns(t)'
      BY <1>0, <1>1, <1>5, <2>1, <3>0 DEF Owns, ShownKept
    <3>2. Runs(t)'
      <4>1. CASE t = s
        BY <1>1, <4>1 DEF Runs, Here1, Under, Waiting
      <4>2. CASE t # s
        <5>1. (Here1(t)' <=> Here1(t)) /\ task'[t] = task[t]
          BY <1>0, <1>1, <4>2 DEF Here1
        <5> QED  BY <1>0, <2>1, <3>0, <5>1 DEF Runs, ShownKept
      <4> QED  BY <4>1, <4>2
    <3>3. Active(t)'
      BY <1>0, <2>1, <3>0 DEF Active
    <3>4. Stops(t)'
      BY <1>0, <1>3, <2>1, <3>0 DEF Stops, ShownKept
    <3>5. Spins(t)'
      BY <1>0, <1>3, <2>1, <3>0 DEF Spins, ShownKept
    <3> QED  BY <3>1, <3>2, <3>3, <3>4, <3>5
  <2> QED  BY <1>2, <2>3, <2>4 DEF Slot
<1> QED  BY <1>4, <1>5

LEMMA EndsSlot ==
  ASSUME Types, Memory, Slot, Grows, NEW s \in Sends,
         StartRefused(s) \/ StartBroken(s) \/ SendReturns(s) \/ ReplayUnanswered(s)
  PROVE  Slot'
<1>1. /\ task' = Finished(s) /\ UNCHANGED <<shown, stop, opening>>
      /\ task[s].pc \in Waiting \cup {"feedback"}
  BY DEF StartRefused, StartBroken, SendReturns, ReplayUnanswered, Waiting
<1>2. PICK p \in Pages : page' = Released(p, s) /\ SameSlot(page, p)
  <2>1. \E d \in Turns, b \in BOOLEAN : page' = Released([page EXCEPT !.draft = d, !.lost = b], s)
    <3>1. page \in Pages /\ page = [page EXCEPT !.draft = page.draft, !.lost = page.lost]
      BY DEF Types, Pages
    <3>2. CASE StartRefused(s) \/ StartBroken(s)
      <4>1. \E d \in {page.draft, s} : page' = Released([page EXCEPT !.draft = d], s)
        BY <3>1, <3>2 DEF StartRefused, StartBroken, Pages
      <4>2. \A d \in {page.draft, s} :
              d \in Turns /\ [page EXCEPT !.draft = d] = [page EXCEPT !.draft = d, !.lost = page.lost]
        BY <3>1 DEF Pages, Turns
      <4>3. page.lost \in BOOLEAN
        BY <3>1 DEF Pages
      <4>4. PICK d \in {page.draft, s} : page' = Released([page EXCEPT !.draft = d], s)
        BY <4>1
      <4>5. page' = Released([page EXCEPT !.draft = d, !.lost = page.lost], s) /\ d \in Turns
        BY <4>2, <4>4
      <4> QED  BY <4>3, <4>5
    <3>3. CASE SendReturns(s)
      BY <3>1, <3>3 DEF SendReturns, Pages
    <3>4. CASE ReplayUnanswered(s)
      <4>1. page' = Released([page EXCEPT !.lost = page.lost \/ task[s].epoch = page.epoch], s)
        BY <3>1, <3>4 DEF ReplayUnanswered, Pages
      <4>2. \A b \in BOOLEAN : [page EXCEPT !.lost = b] = [page EXCEPT !.draft = page.draft, !.lost = b]
        BY <3>1 DEF Pages
      <4>3. (page.lost \/ task[s].epoch = page.epoch) \in BOOLEAN
        OBVIOUS
      <4> QED  BY <3>1, <4>1, <4>2, <4>3 DEF Pages
    <3> QED  BY <3>2, <3>3, <3>4
  <2>2. \A d \in Turns, b \in BOOLEAN :
          [page EXCEPT !.draft = d, !.lost = b] \in Pages
          /\ SameSlot(page, [page EXCEPT !.draft = d, !.lost = b])
    BY DEF Types, Pages, SameSlot
  <2> QED  BY <2>1, <2>2
<1>3. FreesSlot(page, page', s)
  <2>1. FreesSlot(p, page', s)
    BY <1>2, ReleasedSlot
  <2> QED  BY <1>2, <2>1 DEF FreesSlot, SameSlot
<1>4. page.owner = s => shown'[s] # "active"
  <2>1. page.owner = s /\ task[s].pc \in Waiting => Here1(s) /\ ~task[s].presented
    BY DEF Slot, Owns, Runs, Here1, Under, Waiting
  <2>2. page.owner = s /\ task[s].pc = "feedback" => shown[s] # "active"
    BY DEF Slot, Owns
  <2> QED  BY <1>1, <2>1, <2>2, HereAlone
<1> QED  BY <1>1, <1>3, <1>4, ReleasingSlot DEF ShownKept

(* The catch clause hands the turn over to the poll, or ends.                 *)
LEMMA SendReconciledSlot ==
  ASSUME Types, Memory, Slot, Grows, NEW s \in Sends, SendReconciled(s), ~page'.taken
  PROVE  Slot'
<1>0. task[s] \in Started /\ task[s].pc = "reconcile" /\ home[s] # None /\ home[s] = task[s].conversation
      /\ home'[s] = home[s] /\ page \in Pages /\ UNCHANGED <<stop, opening>>
  BY TasksGet DEF SendReconciled, Types, Under, Memory, Remembers, Grows
<1>1. PICK status \in Knowledge, p \in Pages, display \in [Sends -> Displays] :
        /\ SameSlot(page, p) /\ CatchEnds(s, status, p, display) /\ Renewed(s, display)
        /\ display[s] = "active" => status \in {"pending", None}
  BY SendReconciledAs
<1>2. /\ task' = Finished(s)
      /\ CatchAdopts(s, status, p) =>
            /\ AdoptsTurn(p, page', s) /\ page'.owner = None
            /\ page'.open = IF task[s].presented THEN p.open ELSE task[s].conversation
      /\ ~CatchAdopts(s, status, p) => FreesSlot(p, page', s)
      /\ shown' = IF CatchAdopts(s, status, p) /\ (~task[s].presented \/ status = None)
                  THEN [display EXCEPT ![s] = "active"] ELSE display
  BY <1>0, <1>1, CatchEndsPage
<1>3. CatchAdopts(s, status, p) <=>
        /\ status \in {"pending", None} /\ task[s].epoch = page.epoch /\ ~page.loading
        /\ page.owner \in {None, s} /\ page.active \in {None, s}
  BY <1>1 DEF CatchAdopts, StillHere, SameSlot
<1>4. \A t \in Sends : /\ display[t] = "hidden" <=> shown[t] = "hidden"
                       /\ display[t] = "active" => shown[t] = "active"
  BY <1>1 DEF Renewed
<1>5. CASE ~CatchAdopts(s, status, p)
  <2>1. FreesSlot(page, page', s) /\ shown' = display
    BY <1>1, <1>2, <1>5 DEF FreesSlot, SameSlot
  <2>2. page.owner = s => display[s] # "active"
    <3>1. SUFFICES ASSUME page.owner = s  PROVE display[s] # "active"
      OBVIOUS
    <3>2. Here1(s) /\ ~page.loading /\ (task[s].presented <=> page.active = s)
      BY <1>0, <3>1 DEF Slot, Owns, Reads, Here1, Under
    <3>3. CASE ~task[s].presented
      BY <1>4, <3>2, <3>3, HereAlone
    <3>4. CASE task[s].presented
      BY <1>1, <1>3, <1>5, <3>1, <3>2, <3>4 DEF Here1
    <3> QED  BY <3>3, <3>4
  <2> QED  BY <1>0, <1>2, <1>4, <2>1, <2>2, ReleasingSlot DEF ShownKept
<1>6. CASE CatchAdopts(s, status, p)
  <2>1. Here1(s) /\ ~page.loading /\ page.owner \in {None, s} /\ page.active \in {None, s}
    BY <1>0, <1>3, <1>6 DEF Here1, Under
  <2>2. /\ page'.epoch = page.epoch /\ page'.loading = page.loading /\ page'.sending
        /\ page'.active = s /\ page'.adopted = s /\ page'.left = page.left /\ page'.owner = None
        /\ ~Held(page, s)
        /\ page'.open = IF task[s].presented THEN page.open ELSE task[s].conversation
    <3>1. Held(p, s) <=> Held(page, s)
      BY <1>1 DEF Held, SameSlot
    <3> QED  BY <1>1, <1>2, <1>6, <3>1 DEF AdoptsTurn, SameSlot
  <2>3. \A t \in Sends : t # s => /\ task'[t] = task[t] /\ shown'[t] = display[t]
                                  /\ Unowned(t) /\ ~StopHere(t)
    <3>1. \A t \in Sends : t # s => task'[t] = task[t] /\ shown'[t] = display[t]
      BY <1>2 DEF Finished, Types
    <3>2. \A t \in Sends : t # s => ~StopHere(t)
      BY <2>2 DEF Held, StopHere
    <3>3. \A t \in Sends : t # s => page.owner # t
      BY <2>1, SendsAreNumbers
    <3> QED  BY <3>1, <3>2, <3>3, NobodyOwns
  <2>4. task'[s].pc = "done" /\ (shown'[s] # "hidden" /\ task[s].presented => shown[s] # "hidden")
    <3>1. task'[s].pc = "done"
      BY <1>2 DEF Finished, Types
    <3>2. task[s].presented => shown[s] # "hidden"
      BY <2>1 DEF Slot, Runs
    <3> QED  BY <3>1, <3>2
  <2>5. ShownAtHome'
    <3> SUFFICES ASSUME NEW t \in Sends, shown'[t] # "hidden"  PROVE home'[t] = page'.open
      BY DEF ShownAtHome
    <3>1. \A u \in Sends : shown[u] # "hidden" => home'[u] = page.open /\ page.open # None
      BY DEF Slot, ShownAtHome, Memory, Remembers, Grows
    <3>2. ~task[s].presented => page.open \in {None, task[s].conversation}
      BY <2>1, HereAlone
    <3>3. CASE t = s
      BY <1>0, <2>2, <2>4, <3>1, <3>3
    <3>4. CASE t # s
      BY <1>4, <2>2, <2>3, <3>1, <3>2, <3>4
    <3> QED  BY <3>3, <3>4
  <2>6. ASSUME NEW t \in Sends
        PROVE  /\ Unowned(t)' /\ (StopHere(t)' => t = s)
               /\ shown'[t] = "active" => t \in page'.left \cup {s}
    <3>1. CASE t = s
      BY <2>4, <3>1 DEF Unowned, Here1, Under, Waiting
    <3>2. CASE t # s
      <4>1. Unowned(t)'
        BY <1>4, <2>2, <2>3, <3>2 DEF Unowned, Here1
      <4>2. ~StopHere(t)'
        BY <1>0, <2>2, <2>3, <3>2 DEF StopHere
      <4>3. page.owner # t /\ page.adopted # t
        BY <2>1, <3>2, SendsAreNumbers DEF Slot, Active
      <4>4. shown'[t] = "active" => t \in page'.left
        BY <1>4, <2>2, <2>3, <3>2, <4>3 DEF Slot, Spins
      <4> QED  BY <4>1, <4>2, <4>4
    <3> QED  BY <3>1, <3>2
  <2>7. opening' = Idle
    BY <1>0, <2>1 DEF Slot, Reads
  <2> QED  BY <2>1, <2>2, <2>5, <2>6, <2>7, PollingSlot
<1> QED  BY <1>5, <1>6

LEMMA StopReconciledSlot ==
  ASSUME Types, Memory, Slot, Grows, NEW t \in Sends, StopReconciled(t), ~page'.taken
  PROVE  Slot'
<1>0. stop[t].pc = "reconcile" /\ UNCHANGED <<task, opening>> /\ page \in Pages /\ page.owner # t
  BY DEF StopReconciled, Types, Slot, Stops
<1>1. PICK status \in Knowledge, p \in Pages, display \in [Sends -> Displays], unread \in BOOLEAN :
        /\ SameSlot(page, p) /\ StopEnds(t, status, p, display, unread) /\ Renewed(t, display)
        /\ ~unread /\ display[t] = "active" => status = "pending"
        /\ unread => status # "pending" /\ display = shown
  BY StopReconciledAs
<1>2. StopEnded(t, status, p, display, unread)
  BY <1>1, StopEndsPage
<1>3. /\ StopAdopts(t, status, p) <=> /\ status \in {"pending", None} /\ page.active \in {None, t}
                                      /\ StopHere(t) /\ ~page.loading
      /\ StopFrees(t, status, p) <=> /\ page.active \in {None, t} /\ StopHere(t)
                                     /\ ~StopAdopts(t, status, p)
      /\ Held(p, t) <=> Held(page, t)
  BY <1>0, <1>1 DEF StopAdopts, StopFrees, StopHere, SameSlot, Held
<1>4. \A u \in Sends : /\ display[u] = "hidden" <=> shown[u] = "hidden"
                       /\ display[u] = "active" => shown[u] = "active"
  BY <1>1 DEF Renewed
<1>5. stop'[t].pc = "idle" /\ \A u \in Sends : u # t => stop'[u] = stop[u]
  BY <1>2 DEF StopEnded, Types, Idle
<1>6. page'.open = page.open /\ page'.owner = page.owner
  BY <1>1, <1>2 DEF StopEnded, SameSlot
<1>7. ASSUME ~Held(page, t), StopHere(t), page.active \in {None, t}
      PROVE  /\ page.owner = None /\ ~page.loading /\ opening = Idle
             /\ \A u \in Sends : /\ Unowned(u) /\ (u # t => ~StopHere(u))
                                 /\ shown[u] = "active" => u = t \/ u \in page.left
  <2>1. page.owner = None
    BY <1>0, <1>7 DEF Held
  <2>2. ~page.loading /\ opening = Idle
    BY <1>7 DEF Slot, Reads
  <2>3. ASSUME NEW u \in Sends
        PROVE  /\ Unowned(u) /\ (u # t => ~StopHere(u))
               /\ shown[u] = "active" => u = t \/ u \in page.left
    <3>1. Unowned(u)
      BY <2>1, NobodyOwns, SendsAreNumbers
    <3>2. u # t => ~StopHere(u)
      BY <1>7 DEF Held, StopHere
    <3>3. page.adopted = u => u = t
      BY <1>7, SendsAreNumbers DEF Slot, Active
    <3> QED  BY <2>1, <3>1, <3>2, <3>3, SendsAreNumbers DEF Slot, Spins
  <2> QED  BY <2>1, <2>2, <2>3
<1>8. CASE StopAdopts(t, status, p)
  <2>1. /\ AdoptsTurn(p, page', t)
        /\ shown' = IF status = None /\ display[t] # "hidden" THEN [display EXCEPT ![t] = "active"] ELSE display
    BY <1>2, <1>8 DEF StopEnded
  <2>2. /\ page'.epoch = page.epoch /\ page'.loading = page.loading /\ page'.sending
        /\ page'.active = t /\ page'.adopted = t /\ page'.left = page.left /\ ~Held(page, t)
    BY <1>1, <1>3, <2>1 DEF AdoptsTurn, SameSlot
  <2>3. /\ StopHere(t) /\ page.active \in {None, t}
    BY <1>3, <1>8
  <2>4. \A u \in Sends : /\ shown'[u] = "hidden" <=> shown[u] = "hidden"
                         /\ u # t /\ shown'[u] = "active" => shown[u] = "active"
    BY <1>4, <2>1
  <2>5. ShownAtHome'
    BY <1>6, <2>4 DEF Slot, ShownAtHome, Memory, Remembers, Grows
  <2>6. ASSUME NEW u \in Sends
        PROVE  /\ Unowned(u)' /\ (StopHere(u)' => u = t)
               /\ shown'[u] = "active" => u \in page'.left \cup {t}
    BY <1>0, <1>5, <1>7, <2>2, <2>3, <2>4 DEF Unowned, Here1, StopHere
  <2> QED  BY <1>0, <1>6, <1>7, <2>2, <2>3, <2>5, <2>6, PollingSlot
<1>9. CASE StopFrees(t, status, p)
  <2>1. /\ page'.epoch = page.epoch /\ page'.loading = page.loading /\ page'.left = page.left
        /\ page'.sending = FALSE /\ page'.adopted = None /\ ~Held(page, t)
    BY <1>1, <1>2, <1>3, <1>9 DEF StopEnded, SameSlot
  <2>2. StopHere(t) /\ page.active \in {None, t} /\ ~StopAdopts(t, status, p)
    BY <1>3, <1>9
  <2>3. status \in Ended
    BY <1>3, <1>7, <2>1, <2>2 DEF Knowledge
  <2>4. shown' = IF unread /\ status # None /\ display[t] # "hidden"
                 THEN [display EXCEPT ![t] = IF status = "completed" THEN "unrefreshed" ELSE "settled"]
                 ELSE display
    BY <1>2, <1>9 DEF StopEnded
  <2>5. \A u \in Sends : /\ shown'[u] = "hidden" <=> shown[u] = "hidden"
                         /\ shown'[u] = "active" => shown[u] = "active"
    <3>1. CASE shown' = display
      BY <1>4, <3>1
    <3>2. CASE unread /\ display[t] # "hidden"
               /\ shown' = [display EXCEPT ![t] = IF status = "completed" THEN "unrefreshed" ELSE "settled"]
      BY <1>4, <3>2
    <3> QED  BY <2>4, <3>1, <3>2
  <2>6. shown'[t] # "active"
    <3>1. CASE ~unread
      <4>1. shown' = display
        BY <2>4, <3>1
      <4> QED  BY <1>1, <2>3, <3>1, <4>1, SendsAreNumbers DEF Ended
    <3>2. CASE unread
      BY <2>3, <2>4, <3>2, SendsAreNumbers
    <3> QED  BY <3>1, <3>2
  <2>7. ShownAtHome'
    BY <1>6, <2>5 DEF Slot, ShownAtHome, Memory, Remembers, Grows
  <2>8. ASSUME NEW u \in Sends
        PROVE  /\ page'.loading => ~Here1(u)' /\ ~StopHere(u)'
               /\ Unowned(u)' /\ (StopHere(u)' => shown'[u] # "active")
               /\ shown'[u] = "active" => u \in page'.left
    BY <1>0, <1>5, <1>7, <2>1, <2>2, <2>5, <2>6 DEF Unowned, Here1, StopHere
  <2> QED  BY <1>0, <1>6, <1>7, <2>1, <2>2, <2>7, <2>8, FreeSlot
<1>10. CASE ~StopAdopts(t, status, p) /\ ~StopFrees(t, status, p)
  <2>1. SameSlot(page, page') /\ shown' = display
    BY <1>1, <1>2, <1>10 DEF StopEnded
  <2>2. StopHere(t) => page.active \notin {None, t}
    BY <1>3, <1>10
  <2>3. /\ page'.epoch = page.epoch /\ page'.loading = page.loading /\ page'.left = page.left
        /\ page'.sending = page.sending /\ page'.active = page.active /\ page'.adopted = page.adopted
    BY <2>1 DEF SameSlot
  <2>4. \A u \in Sends : (Here1(u)' <=> Here1(u)) /\ (StopHere(u)' <=> StopHere(u) /\ u # t)
    BY <1>0, <1>5, <2>3 DEF Here1, StopHere
  <2>5. StopHere(t) => shown[t] # "active"
    BY <2>2 DEF Slot, Stops
  <2>6. Reads'
    BY <1>0, <1>4, <2>1, <2>3, <2>4 DEF Slot, Reads
  <2>7. HasHolder'
    <3>1. page.sending => page.owner # None \/ page.adopted # None \/ \E u \in Sends : StopHere(u)
      BY DEF Slot, HasHolder
    <3>2. CASE StopHere(t)
      <4>1. page.active \in Sends
        BY <1>0, <2>2, <3>2 DEF Pages, Turns
      <4>2. page.sending /\ page.owner = None => page.adopted = page.active
        BY <4>1 DEF Slot, Active
      <4> QED  BY <1>6, <2>3, <4>1, <4>2, SendsAreNumbers DEF HasHolder
    <3>3. CASE ~StopHere(t)
      BY <1>6, <2>3, <2>4, <3>1, <3>3 DEF HasHolder
    <3> QED  BY <3>2, <3>3
  <2>8. ShownAtHome'
    BY <1>4, <1>6, <2>1, ShownsStayHome DEF ShownKept, Slot
  <2>9. ASSUME NEW u \in Sends
        PROVE  (Owns(u) /\ Runs(u) /\ Active(u) /\ Stops(u) /\ Spins(u))'
    <3>0. Owns(u) /\ Runs(u) /\ Active(u) /\ Stops(u) /\ Spins(u) /\ task'[u] = task[u]
      BY <1>0, <2>9 DEF Slot
    <3>1. Owns(u)'
      BY <1>4, <1>6, <2>1, <2>3, <3>0 DEF Owns
    <3>2. Runs(u)'
      BY <1>4, <1>6, <2>1, <2>3, <2>4, <3>0 DEF Runs
    <3>3. Active(u)'
      BY <1>6, <2>3, <3>0 DEF Active
    <3>4. Stops(u)'
      BY <1>4, <1>5, <1>6, <2>1, <2>3, <2>4, <3>0 DEF Stops
    <3>5. Spins(u)'
      BY <1>4, <1>6, <2>1, <2>3, <2>4, <2>5, <3>0 DEF Spins
    <3> QED  BY <3>1, <3>2, <3>3, <3>4, <3>5
  <2> QED  BY <2>6, <2>7, <2>8, <2>9 DEF Slot
<1> QED  BY <1>8, <1>9, <1>10

(* Answered: the owner has its answer, and keeps the slot for the feedback.   *)
LEMMA AnsweredSlot ==
  ASSUME Types, Memory, Slot, Grows, NEW s \in Sends, Answered(s)
  PROVE  Slot'
<1>0. /\ SameSlot(page, page') /\ shown' = Displayed(s, "settled") /\ UNCHANGED <<stop, opening>>
      /\ task[s].pc = "chat" /\ ~task[s].stopped
  BY DEF Answered, Types, Pages, SameSlot
<1>1. task'[s].pc = "feedback" /\ \A q \in Sends : q # s => task'[q] = task[q]
  BY DEF Answered, Types
<1>2. page.owner = s /\ page.active = s
  BY <1>0 DEF Slot, Runs, Owns, Under
<1>3. \A t \in Sends : ShownKept(t) /\ (t = s => shown'[t] # "active")
  BY <1>0 DEF ShownKept, Displayed, Types
<1>4. /\ page'.open = page.open /\ page'.epoch = page.epoch /\ page'.loading = page.loading
      /\ page'.sending = page.sending /\ page'.owner = page.owner /\ page'.active = page.active
      /\ page'.adopted = page.adopted /\ page'.left = page.left
  BY <1>0 DEF SameSlot
<1>5. \A t \in Sends : /\ Here1(t)' => Here1(t)
                       /\ t # s => (Here1(t)' <=> Here1(t))
                       /\ StopHere(t)' <=> StopHere(t)
  BY <1>0, <1>1, <1>4 DEF Here1, StopHere, Under
<1>6. Reads' /\ HasHolder'
  BY <1>0, <1>3, <1>4, <1>5 DEF Slot, Reads, HasHolder, ShownKept
<1>7. ShownAtHome'
  BY <1>3, <1>4, ShownsStayHome DEF Slot
<1>8. ASSUME NEW t \in Sends
      PROVE  (Owns(t) /\ Runs(t) /\ Active(t) /\ Stops(t) /\ Spins(t))'
  <2>0. Owns(t) /\ Runs(t) /\ Active(t) /\ Stops(t) /\ Spins(t) /\ ShownKept(t)
    BY <1>3, <1>8 DEF Slot
  <2>1. Owns(t)'
    BY <1>1, <1>2, <1>3, <1>4, <2>0 DEF Owns, Under
  <2>2. Runs(t)'
    <3>1. CASE t = s
      BY <1>1, <3>1 DEF Runs, Here1, Under, Waiting
    <3>2. CASE t # s
      BY <1>1, <1>4, <1>5, <2>0, <3>2 DEF Runs, ShownKept
    <3> QED  BY <3>1, <3>2
  <2>3. Active(t)'
    BY <1>4, <2>0 DEF Active
  <2>4. Stops(t)'
    BY <1>0, <1>4, <1>5, <2>0 DEF Stops, ShownKept
  <2>5. Spins(t)'
    BY <1>4, <1>5, <2>0 DEF Spins, ShownKept
  <2> QED  BY <2>1, <2>2, <2>3, <2>4, <2>5
<1> QED  BY <1>6, <1>7, <1>8 DEF Slot

(* Steps within a request.                                                    *)
LEMMA RequestsSlot ==
  ASSUME Types, Memory, Slot, Grows, NEW s \in Sends,
         StartUnanswered(s) \/ ChatFails(s) \/ CancelSent(s) \/ ReplayAnswered(s)
  PROVE  Slot'
<1>0. task \in [Sends -> Tasks] /\ task[s] \in Started /\ UNCHANGED <<shown, stop, opening>>
  BY TasksGet DEF StartUnanswered, ChatFails, CancelSent, ReplayAnswered, Types, Under
<1>1. SameSlot(page, page')
  <2>1. page' = page \/ \E r : page' = [page EXCEPT !.receipt = r]
    BY DEF StartUnanswered, ChatFails, CancelSent, ReplayAnswered
  <2> QED  BY <2>1 DEF SameSlot, Types, Pages
<1>2. TaskKept(s)
  <2>1. CASE StartUnanswered(s)
    BY <1>0, <2>1 DEF StartUnanswered, Started, TaskKept, Under, Waiting
  <2>2. CASE ChatFails(s)
    BY <1>0, <2>2 DEF ChatFails, Started, TaskKept, Under, Waiting
  <2>3. CASE CancelSent(s)
    <3>1. PICK answer \in Ended \cup {None} :
            task' = [task EXCEPT ![s].pc = "reconcile", ![s].asked = page.epoch,
                                 ![s].known = IF answer = None THEN @ ELSE answer]
      BY <2>3 DEF CancelSent
    <3>2. /\ task'[s].pc = "reconcile" /\ task'[s].epoch = task[s].epoch
          /\ task'[s].stopped = task[s].stopped /\ task'[s].presented = task[s].presented
          /\ task'[s].conversation = task[s].conversation /\ task[s].pc = "cancel"
      BY <1>0, <2>3, <3>1 DEF CancelSent, Started
    <3> QED  BY <3>2 DEF TaskKept, Under, Waiting
  <2>4. CASE ReplayAnswered(s)
    <3>1. task[s].conversation # None => home'[s] = task[s].conversation
      BY <2>4, AcceptedGets
    <3> QED  BY <1>0, <2>4, <3>1 DEF ReplayAnswered, Started, TaskKept, Under, Waiting
  <2> QED  BY <2>1, <2>2, <2>3, <2>4
<1>3. \A q \in Sends : q # s => TaskKept(q)
  <2>1. \A q \in Sends : q # s => task'[q] = task[q]
    BY <1>0 DEF StartUnanswered, ChatFails, CancelSent, ReplayAnswered
  <2> QED  BY <2>1 DEF TaskKept
<1> QED  BY <1>0, <1>1, <1>2, <1>3, SlotFrame DEF StopKept, ShownKept

(* Steps of the server and of the bindings, which do not touch the slot.      *)
LEMMA ElsewhereSlot ==
  ASSUME Types, Memory, Slot, Grows,
         \/ \E t \in Sends : StopSent(t) \/ Settle(t) \/ Restore(t)
         \/ \E r \in wire : LateStart(r)
         \/ OpenAbandons \/ Rebind \/ RebindSent \/ RebindReread \/ Restored
  PROVE  Slot'
<1>1. UNCHANGED <<task, shown>>
  BY DEF StopSent, Settle, Restore, LateStart, OpenAbandons, Rebind, RebindSent, RebindReread, Restored
<1>2. opening' = Idle <=> opening = Idle
  <2>1. CASE OpenAbandons
    <3>1. opening \in Openings
      BY <2>1 DEF OpenAbandons, Types, Idle
    <3>2. opening' = [opening EXCEPT !.pc = "read"]
      BY <2>1 DEF OpenAbandons
    <3>3. opening.turn = opening.turn /\ opening \in Openings /\ opening' \in Openings
      BY <3>1, <3>2 DEF Openings
    <3>4. \A o \in Openings : o # Idle
      <4>1. \A o \in Openings : o.pc # "idle"
        BY DEF Openings
      <4> QED  BY <4>1 DEF Idle
    <3> QED  BY <3>3, <3>4
  <2>2. CASE UNCHANGED opening
    BY <2>2
  <2> QED
    BY <2>1, <2>2 DEF StopSent, Settle, Restore, LateStart, Rebind, RebindSent, RebindReread, Restored
<1>3. \A t \in Sends : StopKept(t)
  <2>1. ASSUME NEW t \in Sends, StopSent(t)
        PROVE  \A u \in Sends : StopKept(u)
    <3>1. stop[t] \in Stopping /\ stop[t].pc = "cancel"
      BY <2>1, StopsGet DEF StopSent, Types
    <3>2. stop'[t].pc = "reconcile" /\ stop'[t].epoch = stop[t].epoch
          /\ \A u \in Sends : u # t => stop'[u] = stop[u]
      <4>1. PICK answer : stop' = [stop EXCEPT ![t].pc = "reconcile", ![t].known = answer,
                                               ![t].asked = page.epoch]
        BY <2>1 DEF StopSent
      <4> QED  BY <3>1, <4>1 DEF Stopping, Types
    <3> QED  BY <3>1, <3>2 DEF StopKept
  <2>2. CASE UNCHANGED stop
    BY <2>2 DEF StopKept
  <2> QED
    BY <2>1, <2>2 DEF Settle, Restore, LateStart, OpenAbandons, Rebind, RebindSent, RebindReread, Restored
<1>4. SameSlot(page, page')
  <2>1. \/ page' = page \/ page' = Touched(page) \/ page' = [page EXCEPT !.unsure = TRUE]
        \/ \E r : page' = [Touched(page) EXCEPT !.receipt = r, !.unsure = FALSE]
        \/ \E d : page' = [page EXCEPT !.draft = d, !.revision = @ + 1]
    BY DEF StopSent, Settle, Restore, LateStart, OpenAbandons, Rebind, RebindSent, RebindReread, Restored
  <2> QED  BY <2>1 DEF SameSlot, Types, Pages, Touched
<1> QED  BY <1>1, <1>2, <1>3, <1>4, SlotFrame DEF TaskKept, ShownKept

(* Stop: the slot passes from the send that owns it to the Stop itself.       *)
LEMMA StopSlot ==
  ASSUME Types, Memory, Slot, Grows, Stop, ~page'.taken
  PROVE  Slot'
<1> DEFINE t == page.active
<1>0. page \in Pages /\ page.sending /\ UNCHANGED <<shown, opening>> /\ task' = Aborted(page.owner)
  BY DEF Stop, Types
<1>1. t # None /\ t \in Sends
  <2>1. t # None
    <3>1. t = None => page' = [Abandoned(page, FALSE) EXCEPT !.taken = TRUE]
      BY DEF Stop
    <3>2. [Abandoned(page, FALSE) EXCEPT !.taken = TRUE].taken = TRUE
      BY <1>0 DEF Abandoned, Pages
    <3> QED  BY <3>1, <3>2
  <2> QED  BY <1>0, <2>1 DEF Pages, Turns
<1>2. /\ page' = [Abandoned(page, TRUE) EXCEPT !.taken = @ \/ page.owner \notin {None, t}]
      /\ stop' = [stop EXCEPT ![t] = [pc |-> "cancel", epoch |-> page.epoch, known |-> None, asked |-> 0]]
  BY <1>1 DEF Stop
<1>3. /\ page'.open = page.open /\ page'.epoch = page.epoch /\ page'.loading = page.loading
      /\ page'.left = page.left /\ page'.owner = None /\ page'.active = None
      /\ page'.adopted = (IF page.adopted = t THEN None ELSE page.adopted)
      /\ page'.sending = page.sending /\ page.owner \in {None, t}
  <2>1. /\ Abandoned(page, TRUE) \in Pages
        /\ Abandoned(page, TRUE).open = page.open /\ Abandoned(page, TRUE).epoch = page.epoch
        /\ Abandoned(page, TRUE).loading = page.loading /\ Abandoned(page, TRUE).left = page.left
        /\ Abandoned(page, TRUE).owner = None /\ Abandoned(page, TRUE).active = None
        /\ Abandoned(page, TRUE).adopted = (IF page.adopted = t THEN None ELSE page.adopted)
        /\ Abandoned(page, TRUE).sending = page.sending
    <3>1. Abandoned(page, TRUE) \in Pages
      BY <1>0, PagesStay
    <3> QED  BY <1>0, <1>1, <3>1 DEF Abandoned, Pages
  <2> QED  BY <1>2, <2>1 DEF Pages
<1>4. page'.adopted = None
  <2>1. page.adopted \in Turns
    BY <1>0 DEF Pages
  <2>2. page.adopted # None => page.adopted = t
    BY <2>1 DEF Turns, Slot, Active
  <2> QED  BY <1>3, <2>2
<1>5. /\ stop'[t].pc # "idle" /\ stop'[t].epoch = page.epoch
      /\ \A u \in Sends : u # t => stop'[u] = stop[u]
  BY <1>1, <1>2 DEF Types
<1>6. ASSUME NEW u \in Sends
      PROVE  /\ task'[u].pc = task[u].pc
             /\ task[u].pc \in Under => /\ task'[u].epoch = task[u].epoch
                                        /\ task'[u].presented = task[u].presented
             /\ task[u].pc \in {"start", "chat"} => task'[u].stopped
  <2>1. page.owner \in Turns
    BY <1>0 DEF Pages
  <2>2. task[u].pc \in Under => task[u] \in Started
    BY TasksGet DEF Types
  <2>3. CASE u = page.owner /\ task[u].pc \in {"start", "chat"}
    <3>1. task'[u] = [task[u] EXCEPT !.stopped = TRUE] /\ task[u] \in Started
      BY <1>0, <2>1, <2>2, <2>3, AbortedStays DEF Under
    <3> QED  BY <3>1 DEF Started
  <2>4. CASE ~(u = page.owner /\ task[u].pc \in {"start", "chat"})
    <3>1. task'[u] = task[u]
      BY <1>0, <2>1, <2>4, AbortedStays
    <3>2. page.owner # u => Unowned(u)
      BY NobodyOwns
    <3> QED  BY <2>4, <3>1, <3>2 DEF Unowned
  <2> QED  BY <2>3, <2>4
<1>7. ASSUME NEW u \in Sends
      PROVE  Runs(u)'
  <2>0. Runs(u) /\ Owns(u)
    BY <1>7 DEF Slot
  <2>1. Here1(u)' <=> Here1(u)
    BY <1>3, <1>6 DEF Here1
  <2>2. Here1(u) => task[u].presented
    BY <1>1, <1>3, HereAlone, SendsAreNumbers
  <2> QED  BY <1>0, <1>6, <2>0, <2>1, <2>2 DEF Runs, Here1, Under, Waiting
<1>8. Reads'
  <2>1. ~page.loading /\ opening = Idle
    BY <1>0 DEF Slot, Reads
  <2> QED  BY <1>0, <1>3, <2>1 DEF Reads
<1>9. HasHolder'
  BY <1>1, <1>3, <1>5 DEF HasHolder, StopHere
<1>10. ShownAtHome'
  BY <1>0, <1>3, ShownsStayHome DEF ShownKept, Slot
<1>11. ASSUME NEW u \in Sends
       PROVE  (Owns(u) /\ Active(u) /\ Stops(u) /\ Spins(u))'
  <2>0. Owns(u) /\ Active(u) /\ Spins(u)
    BY <1>11 DEF Slot
  <2>1. Owns(u)' /\ Active(u)'
    BY <1>3, <1>4, SendsAreNumbers DEF Owns, Active
  <2>2. Stops(u)'
    BY <1>0, <1>3, SendsAreNumbers DEF Stops
  <2>3. Spins(u)'
    <3>1. CASE u = t
      BY <1>3, <1>5, <3>1 DEF Spins, StopHere
    <3>2. CASE u # t
      <4>1. page.owner # u /\ page.adopted # u
        BY <1>3, <2>0, <3>2, SendsAreNumbers DEF Active
      <4> QED  BY <1>0, <1>3, <1>5, <2>0, <3>2, <4>1 DEF Spins, StopHere
    <3> QED  BY <3>1, <3>2
  <2> QED  BY <2>1, <2>2, <2>3
<1> QED  BY <1>7, <1>8, <1>9, <1>10, <1>11 DEF Slot

(* A chat is opened or a new one started: what was under way is not of it.    *)
LEMMA AbandonedTasks ==
  ASSUME Types, Memory, Slot, page'.epoch = page.epoch + 1,
         task' = (IF page.sending THEN Aborted(page.owner) ELSE task), NEW u \in Sends
  PROVE  Unowned(u)' /\ ~Here1(u)'
<1>0. page \in Pages /\ page.owner \in Turns /\ task[u] \in Tasks /\ page.epoch \in Nat
  BY DEF Types, Pages
<1>1. task[u].pc \in Under => task[u] \in Started
  BY <1>0, TasksGet
<1>2. /\ task'[u].pc = task[u].pc
      /\ task[u].pc \in Under => /\ task'[u].epoch = task[u].epoch
                                 /\ task'[u].presented = task[u].presented
      /\ task[u].pc \in {"start", "chat"} => task'[u].stopped
  <2>1. CASE page.sending /\ u = page.owner /\ task[u].pc \in {"start", "chat"}
    <3>1. task'[u] = [task[u] EXCEPT !.stopped = TRUE] /\ task[u] \in Started
      BY <1>0, <1>1, <2>1, AbortedStays DEF Under
    <3> QED  BY <3>1 DEF Started
  <2>2. CASE ~(page.sending /\ u = page.owner /\ task[u].pc \in {"start", "chat"})
    <3>1. task'[u] = task[u]
      BY <1>0, <2>2, AbortedStays
    <3>2. page.owner = u => page.sending
      BY DEF Slot, Owns
    <3>3. page.owner # u => Unowned(u)
      BY NobodyOwns
    <3> QED  BY <2>2, <3>1, <3>2, <3>3 DEF Unowned
  <2> QED  BY <2>1, <2>2
<1>3. Runs(u) /\ Past(u)
  BY DEF Slot, Memory
<1>4. ~Here1(u)'
  <2>1. task[u].pc \in Under => task[u].epoch \in Nat /\ task[u].epoch <= page.epoch
    BY <1>1, <1>3 DEF Past, Started
  <2> QED  BY <1>0, <1>2, <2>1 DEF Here1
<1> QED  BY <1>2, <1>3, <1>4 DEF Runs, Unowned, Under, Waiting

LEMMA OpenSlot ==
  ASSUME Types, Memory, Slot, Grows,
         StartNewChat \/ \E c \in Conversations : OpenConversation(c)
  PROVE  Slot'
<1> DEFINE p == IF page.sending THEN Abandoned(page, FALSE) ELSE page
<1>0. page \in Pages /\ p \in Pages /\ page.epoch \in Nat /\ page.owner \in Turns /\ page.adopted \in Turns
  BY PagesStay DEF Types, Pages
<1>1. p.owner = None /\ p.adopted = None /\ ~p.sending /\ p.open = page.open /\ p.epoch = page.epoch
      /\ p.left = page.left
  <2>1. CASE page.sending
    <3>1. /\ p.owner = None /\ p.sending = FALSE /\ p.open = page.open /\ p.epoch = page.epoch
          /\ p.left = page.left
          /\ p.adopted = (IF page.active # None /\ page.adopted = page.active THEN None ELSE page.adopted)
      BY <1>0, <2>1 DEF Abandoned, Pages
    <3>2. page.adopted # None => page.active = page.adopted
      BY <1>0 DEF Turns, Slot, Active
    <3> QED  BY <3>1, <3>2
  <2>2. CASE ~page.sending
    BY <1>0, <2>2 DEF Turns, Slot, Active, Owns
  <2> QED  BY <2>1, <2>2
<1>2. page'.owner = None /\ page'.adopted = None /\ ~page'.sending /\ page'.epoch = page.epoch + 1
  <2> HIDE DEF p
  <2>1. \/ page' = [p EXCEPT !.epoch = @ + 1, !.loading = TRUE, !.left = @ \cup {q \in Sends : shown[q] = "active"}]
        \/ page' = [p EXCEPT !.epoch = @ + 1, !.loading = FALSE, !.adopted = None, !.open = None,
                             !.receipt = None, !.draft = None, !.unsure = FALSE, !.left = {}]
    BY DEF OpenConversation, StartNewChat, p
  <2> QED  BY <1>0, <1>1, <2>1 DEF Pages
<1>3. task' = (IF page.sending THEN Aborted(page.owner) ELSE task) /\ UNCHANGED stop
  BY DEF OpenConversation, StartNewChat
<1>4. ASSUME NEW u \in Sends
      PROVE  Unowned(u)' /\ ~Here1(u)' /\ ~StopHere(u)'
  <2>1. Unowned(u)' /\ ~Here1(u)'
    BY <1>2, <1>3, <1>4, AbandonedTasks
  <2>2. stop[u].pc # "idle" => stop[u].epoch \in Nat /\ stop[u].epoch <= page.epoch
    BY <1>4, StopsGet DEF Types, Stopping, Memory, Past
  <2> QED  BY <1>0, <1>2, <1>3, <2>1, <2>2 DEF StopHere
<1>5. CASE StartNewChat
  <2>1. ~page'.loading /\ opening' = Idle /\ \A t \in Sends : shown'[t] = "hidden"
    BY <1>0, <1>5 DEF StartNewChat, Abandoned, Pages
  <2>2. ShownAtHome'
    BY <2>1 DEF ShownAtHome
  <2> QED  BY <1>2, <1>4, <2>1, <2>2, FreeSlot
<1>6. ASSUME NEW c \in Conversations, OpenConversation(c)
      PROVE  Slot'
  <2> DEFINE S == {q \in Sends : shown[q] = "active"}
  <2>1. page'.loading /\ page'.open = page.open /\ page'.left = page.left \cup S
    <3> HIDE DEF p, S
    <3>1. page' = [p EXCEPT !.epoch = @ + 1, !.loading = TRUE, !.left = @ \cup S]
      BY <1>6 DEF OpenConversation, p, S
    <3> QED  BY <1>0, <1>1, <3>1 DEF Pages
  <2>2. opening' # Idle /\ UNCHANGED shown
    <3>1. opening'.pc # "idle"
      BY <1>6 DEF OpenConversation
    <3> QED  BY <1>6, <3>1 DEF OpenConversation, Idle
  <2>3. ShownAtHome'
    BY <2>1, <2>2, ShownsStayHome DEF ShownKept, Slot
  <2>4. \A u \in Sends : shown'[u] = "active" => u \in page'.left
    BY <2>1, <2>2
  <2> QED  BY <1>2, <1>4, <2>1, <2>2, <2>3, <2>4, FreeSlot
<1> QED  BY <1>5, <1>6

(* A page that is loaded again has no slot taken, whatever went on before.    *)
LEMMA ReloadSlot ==
  ASSUME Types, Memory, Reload
  PROVE  Slot'
<1>1. /\ page'.owner = None /\ page'.adopted = None /\ ~page'.sending /\ ~page'.loading
      /\ opening' = Idle
  BY DEF Reload, NewPage
<1>2. ASSUME NEW t \in Sends
      PROVE  shown'[t] = "hidden" /\ stop'[t].pc = "idle" /\ task'[t].pc \in {"idle", "done"}
  BY <1>2 DEF Reload, Idle
<1>3. ShownAtHome'
  BY <1>2 DEF ShownAtHome
<1> QED
  BY <1>1, <1>2, <1>3, FreeSlot DEF Unowned, Here1, StopHere, Under, Waiting

(* The chat has been read: its pending turn, if it has one, is polled.        *)
LEMMA OpenReadSlot ==
  ASSUME Types, Memory, Slot, Grows, OpenRead
  PROVE  Slot'
<1> DEFINE c == opening.conversation
           waiting == {t \in Sends : home[t] = c /\ server[t] = "pending"}
           opened == [page EXCEPT !.open = c, !.receipt = Receipt(c, binding[c]),
                             !.loading = FALSE, !.unsure = FALSE, !.lost = FALSE, !.left = {}]
           w == CHOOSE t \in waiting : TRUE
<1>0. /\ page \in Pages /\ UNCHANGED <<server, home, task, stop>> /\ opening' = Idle
      /\ shown \in [Sends -> Displays] /\ server \in [Sends -> Statuses]
  BY DEF OpenRead, Types, serverVars
<1>1. page.loading /\ ~page.sending /\ page.owner = None /\ page.adopted = None
  <2>1. page.loading
    BY DEF OpenRead, Idle, Slot, Reads
  <2>2. page.owner \in Turns /\ page.adopted \in Turns
    BY <1>0 DEF Pages
  <2> QED  BY <2>1, <2>2 DEF Turns, Slot, Reads, Owns, Active
<1>2. ASSUME NEW t \in Sends, page'.epoch = page.epoch
      PROVE  Unowned(t)' /\ ~Here1(t)' /\ ~StopHere(t)'
  <2>1. Unowned(t) /\ ~Here1(t) /\ ~StopHere(t)
    BY <1>1, <1>2, NobodyOwns, SendsAreNumbers DEF Slot, Reads
  <2>2. ~Here1(t)' /\ ~StopHere(t)'
    BY <1>0, <1>2, <2>1 DEF Here1, StopHere
  <2> QED  BY <1>0, <2>1, <2>2 DEF Unowned
<1>3. CASE page' = [page EXCEPT !.loading = FALSE] /\ UNCHANGED shown
  <2>1. /\ page'.owner = None /\ page'.adopted = None /\ ~page'.sending /\ ~page'.loading
        /\ page'.epoch = page.epoch /\ page'.left = page.left /\ page'.open = page.open
    BY <1>0, <1>1, <1>3 DEF Pages
  <2>2. ShownAtHome'
    BY <1>3, <2>1, ShownsStayHome DEF ShownKept, Slot
  <2>3. \A t \in Sends : shown'[t] = "active" => t \in page'.left
    BY <1>1, <1>3, <2>1 DEF Slot, Reads
  <2> QED  BY <1>0, <1>2, <2>1, <2>2, <2>3, FreeSlot
<1>4. CASE /\ shown' = Timeline(c)
           /\ \/ waiting # {} /\ page' = Adopted(opened, w)
              \/ waiting = {} /\ page' = [opened EXCEPT !.adopted = None, !.sending = FALSE]
              \/ waiting = {} /\ page' = opened
  <2>1. /\ opened.owner = None /\ opened.adopted = None /\ ~opened.sending /\ ~opened.loading
        /\ opened.epoch = page.epoch /\ opened.left = {} /\ opened.open = c
    BY <1>0, <1>1 DEF Pages
  <2>2. opened \in Pages
    <3>1. c \in Conversations
      BY DEF OpenRead, Types, Openings, Idle
    <3>2. \A o \in Places, r \in Receipts :
            [page EXCEPT !.open = o, !.receipt = r, !.loading = FALSE, !.unsure = FALSE,
                         !.lost = FALSE, !.left = {}] \in Pages
      BY <1>0 DEF Pages, TurnSets
    <3>3. Receipt(c, binding[c]) \in Receipts
      BY <3>1 DEF Receipt, Receipts, Types
    <3> QED  BY <3>1, <3>2, <3>3 DEF Places
  <2>3. \A t \in Sends : /\ shown'[t] # "hidden" => home[t] = c
                         /\ shown'[t] = "active" => t \in waiting
    BY <1>4 DEF Timeline, Status
  <2>4. waiting # {} => w \in waiting
    OBVIOUS
  <2>5. \A t, u \in waiting : t = u
    BY DEF Memory, LedgerOK
  <2> HIDE DEF opened, w
  <2>6. CASE waiting # {}
    <3> HIDE DEF waiting
    <3>1. page' = Adopted(opened, w)
      BY <1>4, <2>6
    <3>2. /\ page'.owner = None /\ page'.adopted = w /\ page'.active = w /\ page'.sending
          /\ ~page'.loading /\ page'.epoch = page.epoch /\ page'.open = c
      BY <2>1, <2>2, <3>1 DEF Adopted, Pages
    <3>3. ShownAtHome'
      BY <1>0, <2>3, <3>2 DEF ShownAtHome
    <3>4. w \in Sends
      BY <2>4, <2>6 DEF waiting
    <3>5. \A t \in Sends : shown'[t] = "active" => t = w
      BY <2>3, <2>4, <2>5, <2>6
    <3> QED  BY <1>0, <1>2, <3>2, <3>3, <3>4, <3>5, PollingSlot
  <2>7. CASE waiting = {}
    <3>1. page' = opened \/ page' = [opened EXCEPT !.adopted = None, !.sending = FALSE]
      BY <1>4, <2>7
    <3>2. /\ page'.owner = None /\ page'.adopted = None /\ ~page'.sending /\ ~page'.loading
          /\ page'.epoch = page.epoch /\ page'.open = c
      BY <2>1, <2>2, <3>1 DEF Pages
    <3>3. ShownAtHome'
      BY <1>0, <2>3, <3>2 DEF ShownAtHome
    <3>4. \A t \in Sends : shown'[t] # "active"
      BY <2>3, <2>7
    <3> QED  BY <1>0, <1>2, <3>2, <3>3, <3>4, FreeSlot
  <2> QED  BY <2>6, <2>7
<1>5. \/ /\ shown' = Timeline(c)
         /\ page' = CASE waiting # {} -> Adopted(opened, w)
                      [] waiting = {} /\ page.active = None -> [opened EXCEPT !.adopted = None, !.sending = FALSE]
                      [] OTHER -> opened
      \/ page' = [page EXCEPT !.loading = FALSE] /\ UNCHANGED shown
  BY DEF OpenRead
<1> HIDE DEF waiting, opened, w
<1> QED  BY <1>3, <1>4, <1>5

(* The poll frees the slot when its turn has ended.                           *)
LEMMA PollSlot ==
  ASSUME Types, Memory, Slot, Grows, Poll
  PROVE  Slot'
<1> DEFINE t == page.adopted
           p == Reread(page, t, page.epoch)
<1>0. page \in Pages /\ t \in Sends /\ home[t] # None /\ UNCHANGED <<task, stop, opening>>
  BY DEF Poll, Types, Pages, Turns, Memory, Remembers
<1>1. page.active = t /\ page.owner = None /\ page.sending /\ ~page.loading /\ opening = Idle
  BY <1>0 DEF Slot, Active, Reads
<1>2. p \in Pages /\ SameSlot(page, p)
  BY <1>0, RereadStays, RereadSlot
<1>3. shown' = Redisplayed(t) /\ Renewed(t, shown') /\ (shown'[t] = "active" => server[t] = "pending")
  BY <1>0, RedisplayedRenews DEF Poll
<1>4. \A u \in Sends : ShownKept(u)
  BY <1>3 DEF Renewed, ShownKept
<1>5. CASE server[t] = "pending"
  <2>1. page' = p
    BY <1>5 DEF Poll
  <2> QED  BY <1>0, <1>2, <1>4, <2>1, SlotFrame DEF TaskKept, StopKept
<1>6. CASE server[t] # "pending"
  <2>1. page' = [p EXCEPT !.adopted = None, !.active = IF @ = t THEN None ELSE @,
                          !.sending = @ /\ p.active # t]
    BY <1>6 DEF Poll
  <2> HIDE DEF p
  <2>2. /\ page'.owner = None /\ page'.adopted = None /\ page'.sending = FALSE /\ ~page'.loading
        /\ page'.epoch = page.epoch /\ page'.open = page.open /\ page'.left = page.left
    BY <1>1, <1>2, <2>1 DEF Pages, SameSlot
  <2>3. ShownAtHome'
    BY <1>4, <2>2, ShownsStayHome DEF Slot
  <2>4. ASSUME NEW u \in Sends
        PROVE  Unowned(u)' /\ (StopHere(u)' => shown'[u] # "active") /\ (shown'[u] = "active" => u \in page'.left)
    <3>0. Unowned(u) /\ Stops(u) /\ Spins(u) /\ ShownKept(u)
      BY <1>1, <1>4, <2>4, NobodyOwns, SendsAreNumbers DEF Slot
    <3>1. Unowned(u)'
      BY <1>0, <2>2, <3>0 DEF Unowned, Here1, ShownKept
    <3>2. shown'[u] = "active" => u # t /\ shown[u] = "active"
      BY <1>3, <1>6, <3>0 DEF ShownKept
    <3>3. StopHere(u)' <=> StopHere(u)
      BY <1>0, <2>2 DEF StopHere
    <3>4. StopHere(u)' => shown'[u] # "active"
      BY <1>0, <1>1, <3>0, <3>2, <3>3, SendsAreNumbers DEF Stops
    <3>5. shown'[u] = "active" => u \in page'.left
      BY <1>1, <2>2, <3>0, <3>2, <3>3, <3>4, SendsAreNumbers DEF Spins
    <3> QED  BY <3>1, <3>4, <3>5
  <2> QED  BY <1>0, <1>1, <2>2, <2>3, <2>4, FreeSlot
<1> QED  BY <1>5, <1>6

LEMMA SlotStep ==
  ASSUME Types, Memory, Slot, Next, ~page'.taken
  PROVE  Slot'
<1>0. Grows
  BY TypesStep
<1>1. ASSUME NEW s \in Sends, Sending(s)
      PROVE  Slot'
  BY <1>0, <1>1, AcceptedSlot, EndsSlot, AnsweredSlot, RequestsSlot, SendReconciledSlot DEF Sending
<1> QED
  BY <1>0, <1>1, SendSlot, StopReconciledSlot, ElsewhereSlot, StopSlot, OpenSlot, OpenReadSlot,
     ReloadSlot, PollSlot DEF Next

(* Once the slot was taken, only a page that is loaded again forgets it.      *)
LEMMA TakenStays ==
  ASSUME Types, Memory, Next, page.taken
  PROVE  page'.taken \/ Reload
<1>0. page \in Pages
  BY DEF Types
<1>1. ASSUME NEW p \in Pages, SameSlot(page, p), page' = p
      PROVE  page'.taken
  BY <1>1 DEF SameSlot
<1>2. ASSUME NEW s \in Sends, Sending(s)
      PROVE  page'.taken
  <2>1. CASE StartAccepted(s) \/ ReplayAnswered(s)
    BY <1>0, <2>1 DEF StartAccepted, ReplayAnswered, Pages
  <2>2. CASE StartRefused(s) \/ StartBroken(s) \/ SendReturns(s) \/ ReplayUnanswered(s)
    <3>1. \E d \in BOOLEAN \cup Turns : \/ page' = Released([page EXCEPT !.draft = d], s)
                                        \/ page' = Released([page EXCEPT !.lost = d], s)
                                        \/ page' = Released(page, s)
      BY <1>0, <2>2 DEF StartRefused, StartBroken, SendReturns, ReplayUnanswered, Pages, Turns
    <3> QED  BY <1>0, <3>1 DEF Released, Pages
  <2>3. CASE Answered(s)
    BY <1>0, <2>3 DEF Answered, Pages
  <2>4. CASE SendReconciled(s)
    <3>1. PICK status \in Knowledge, p \in Pages, display \in [Sends -> Displays] :
            SameSlot(page, p) /\ CatchEnds(s, status, p, display)
      BY <2>4, SendReconciledAs
    <3>2. task[s] \in Started
      BY <2>4, TasksGet DEF SendReconciled, Types, Under
    <3>3. AdoptsTurn(p, page', s) \/ FreesSlot(p, page', s)
      BY <3>1, <3>2, CatchEndsPage
    <3> QED  BY <3>1, <3>3 DEF SameSlot, AdoptsTurn, FreesSlot
  <2>5. CASE UNCHANGED page
    BY <2>5
  <2> QED
    BY <1>2, <2>1, <2>2, <2>3, <2>4, <2>5 DEF Sending, StartUnanswered, ChatFails, CancelSent
<1>3. ASSUME NEW t \in Sends, StopReconciled(t)
      PROVE  page'.taken
  <2>1. PICK status \in Knowledge, p \in Pages, display \in [Sends -> Displays], unread \in BOOLEAN :
          SameSlot(page, p) /\ StopEnds(t, status, p, display, unread)
    BY <1>3, StopReconciledAs
  <2>2. StopEnded(t, status, p, display, unread)
    BY <2>1, StopEndsPage
  <2> QED  BY <2>1, <2>2 DEF StopEnded, SameSlot, AdoptsTurn
<1>4. CASE Stop
  <2>1. \/ page' = [Abandoned(page, FALSE) EXCEPT !.taken = TRUE]
        \/ page' = [Abandoned(page, TRUE) EXCEPT !.taken = @ \/ page.owner \notin {None, page.active}]
    BY <1>4 DEF Stop
  <2> QED  BY <1>0, <2>1 DEF Abandoned, Pages
<1>5. ASSUME NEW c \in Conversations, OpenConversation(c)
      PROVE  page'.taken
  BY <1>0, <1>5 DEF OpenConversation, Abandoned, Pages
<1>6. CASE StartNewChat
  BY <1>0, <1>6 DEF StartNewChat, Abandoned, Pages
<1>7. CASE OpenRead
  <2> DEFINE c == opening.conversation
             opened == [page EXCEPT !.open = c, !.receipt = Receipt(c, binding[c]),
                               !.loading = FALSE, !.unsure = FALSE, !.lost = FALSE, !.left = {}]
  <2>1. opened.taken = TRUE /\ opened \in Pages
    <3>1. c \in Conversations
      BY <1>7 DEF OpenRead, Types, Openings, Idle
    <3>2. \A o \in Places, r \in Receipts :
            [page EXCEPT !.open = o, !.receipt = r, !.loading = FALSE, !.unsure = FALSE,
                         !.lost = FALSE, !.left = {}] \in Pages
      BY <1>0 DEF Pages, TurnSets
    <3>3. Receipt(c, binding[c]) \in Receipts
      BY <3>1 DEF Receipt, Receipts, Types
    <3> QED  BY <1>0, <3>1, <3>2, <3>3 DEF Places, Pages
  <2>2. \/ \E t : page' = Adopted(opened, t)
        \/ page' = [opened EXCEPT !.adopted = None, !.sending = FALSE]
        \/ page' = opened
        \/ page' = [page EXCEPT !.loading = FALSE]
    BY <1>7 DEF OpenRead
  <2> HIDE DEF opened
  <2> QED  BY <1>0, <2>1, <2>2 DEF Adopted, Pages
<1>8. CASE Poll
  <2> DEFINE p == Reread(page, page.adopted, page.epoch)
  <2>1. p \in Pages /\ SameSlot(page, p)
    <3>1. page.adopted \in Sends /\ home[page.adopted] # None
      BY <1>0, <1>8 DEF Poll, Pages, Turns, Memory, Remembers
    <3> QED  BY <1>0, <3>1, RereadStays, RereadSlot
  <2>2. page' = p \/ page' = [p EXCEPT !.adopted = None, !.active = IF @ = page.adopted THEN None ELSE @,
                                       !.sending = @ /\ p.active # page.adopted]
    BY <1>8 DEF Poll
  <2> HIDE DEF p
  <2> QED  BY <2>1, <2>2 DEF Pages, SameSlot
<1>9. CASE Rebind \/ RebindSent \/ RebindReread \/ Restored
  <2>1. \/ page' = page \/ page' = Touched(page) \/ page' = [page EXCEPT !.unsure = TRUE]
        \/ \E r : page' = [Touched(page) EXCEPT !.receipt = r, !.unsure = FALSE]
        \/ \E d : page' = [page EXCEPT !.draft = d, !.revision = @ + 1]
    BY <1>9 DEF Rebind, RebindSent, RebindReread, Restored
  <2> QED  BY <1>0, <2>1 DEF Touched, Pages
<1>10. ASSUME NEW s \in Sends, Send(s) \/ StopSent(s) \/ Settle(s) \/ Restore(s)
       PROVE  page'.taken
  BY <1>0, <1>10 DEF Send, StopSent, Settle, Restore, Pages
<1>11. CASE OpenAbandons \/ \E r \in wire : LateStart(r)
  BY <1>11 DEF OpenAbandons, LateStart
<1> QED  BY <1>2, <1>3, <1>4, <1>5, <1>6, <1>7, <1>8, <1>9, <1>10, <1>11 DEF Next

-----------------------------------------------------------------------------
LEMMA PageInitial ==
  Init => PageIInv
<1> SUFFICES ASSUME Init  PROVE PageIInv
  OBVIOUS
<1>0. page = NewPage(0) /\ opening = Idle /\ \A t \in Sends :
        /\ server[t] = "none" /\ home[t] = None /\ task[t].pc = "idle" /\ stop[t].pc = "idle"
        /\ shown[t] = "hidden"
  BY DEF Init, Idle
<1>1. Types
  <2>1. page \in Pages
    BY <1>0 DEF NewPage, Pages, Turns, Places, Receipts, TurnSets
  <2>2. task \in [Sends -> Tasks]
    BY DEF Init, Tasks
  <2> QED  BY <2>1, <2>2, PageConstants DEF Init, Types, Statuses, Places, Displays
<1>2. Memory
  <2>1. LedgerOK /\ WireOK
    BY <1>0 DEF Init, LedgerOK, WireOK
  <2>2. ASSUME NEW t \in Sends
        PROVE  Remembers(t) /\ Unasked(t) /\ Past(t)
    <3>1. page.active = None /\ page.adopted = None /\ page.draft = None /\ t # None
      BY <1>0, SendsAreNumbers DEF NewPage
    <3>2. Remembers(t)
      BY <1>0, <3>1 DEF Remembers, Waiting, Under
    <3>3. Unasked(t) /\ Past(t)
      BY <1>0, <3>1 DEF Init, Unasked, Past, Under
    <3> QED  BY <3>2, <3>3
  <2> QED  BY <2>1, <2>2 DEF Memory
<1>3. Slot
  <2>1. /\ page.owner = None /\ page.adopted = None /\ page.active = None /\ ~page.sending /\ ~page.loading
    BY <1>0 DEF NewPage
  <2>2. Reads /\ HasHolder /\ ShownAtHome
    BY <1>0, <2>1 DEF Reads, HasHolder, ShownAtHome
  <2>3. ASSUME NEW t \in Sends
        PROVE  Owns(t) /\ Runs(t) /\ Active(t) /\ Stops(t) /\ Spins(t)
    BY <1>0, <2>1, SendsAreNumbers DEF Owns, Runs, Active, Stops, Spins, Here1, StopHere, Under, Waiting
  <2> QED  BY <2>2, <2>3 DEF Slot
<1> QED  BY <1>1, <1>2, <1>3 DEF PageIInv

LEMMA PageStutters ==
  PageIInv /\ UNCHANGED vars => PageIInv'
<1> SUFFICES ASSUME PageIInv, UNCHANGED vars  PROVE PageIInv'
  OBVIOUS
<1>0. /\ UNCHANGED <<server, home, base, exists, binding, wire, claimed>>
      /\ UNCHANGED <<page, shown, task, stop, opening, change, recovery>>
  BY DEF vars, serverVars
<1>1. Types'
  BY <1>0 DEF PageIInv, Types
<1>2. Memory'
  <2>1. LedgerOK' /\ WireOK'
    BY <1>0 DEF PageIInv, Memory, LedgerOK, WireOK
  <2>2. \A t \in Sends : Remembers(t)' /\ Unasked(t)' /\ Past(t)'
    BY <1>0 DEF PageIInv, Memory, Remembers, Unasked, Past
  <2> QED  BY <2>1, <2>2 DEF Memory
<1>3. Slot => Slot'
  <2>1. Grows /\ SameSlot(page, page')
    BY <1>0 DEF Grows, SameSlot
  <2>2. \A t \in Sends : TaskKept(t) /\ StopKept(t) /\ ShownKept(t)
    BY <1>0 DEF TaskKept, StopKept, ShownKept
  <2> QED  BY <1>0, <2>1, <2>2, SlotFrame DEF PageIInv
<1> QED  BY <1>0, <1>1, <1>2, <1>3 DEF PageIInv

LEMMA PageStays ==
  PageIInv /\ [Next]_vars => PageIInv'
<1>1. ASSUME PageIInv, Next  PROVE PageIInv'
  <2>1. Types /\ Memory
    BY <1>1 DEF PageIInv
  <2>2. Types' /\ Memory'
    BY <1>1, <2>1, TypesStep, MemoryStep
  <2>3. page'.taken \/ Slot'
    BY <1>1, <2>1, SlotStep, TakenStays, ReloadSlot DEF PageIInv
  <2> QED  BY <2>2, <2>3 DEF PageIInv
<1> QED  BY <1>1, PageStutters

(* The properties at one state. *)
LEMMA PageImplies ==
  PageIInv => PageInv /\ DraftsAreUnanswered
<1> SUFFICES ASSUME PageIInv  PROVE PageInv /\ DraftsAreUnanswered
  OBVIOUS
<1>0. Types /\ Memory /\ (page.taken \/ Slot)
  BY DEF PageIInv
<1>1. TypeOK
  <2>1. page.open \in Places /\ page.draft \in Turns
    BY <1>0 DEF Types, Pages
  <2> QED  BY <1>0, <2>1 DEF TypeOK, Types, Statuses, Places, Turns, Displays
<1>2. DraftsAreUnanswered
  BY <1>0 DEF DraftsAreUnanswered, Memory, Unasked
<1>3. ASSUME Slot  PROVE SendingHasOwner /\ SpinnersAreFollowed /\ ShownAtHome
  <2>1. SendingHasOwner
    BY <1>3 DEF Slot, HasHolder, StopHere, SendingHasOwner
  <2>2. ASSUME NEW t \in Sends, shown[t] = "active"  PROVE Followed(t)
    <3>1. page.owner = t => task[t].pc \notin {"idle", "done"}
      BY <1>3 DEF Slot, Owns, Under
    <3> QED  BY <1>3, <2>2, <3>1 DEF Slot, Spins, StopHere, Followed
  <2> QED  BY <1>3, <2>1, <2>2 DEF Slot, SpinnersAreFollowed
<1> QED  BY <1>0, <1>1, <1>2, <1>3 DEF PageInv

-----------------------------------------------------------------------------
(* As long as no request took the composer's slot from another one: a page    *)
(* that says it is sending has somebody who will end that, a message shown as *)
(* being answered is followed by somebody, and only turns of the open chat    *)
(* are displayed (abortRef, activeTurnRef and the poll of src/app/page.tsx),  *)
(* for any number of sends, stops, chats, changes and lost replies.           *)
THEOREM PageInvHolds == Spec => []PageInv
<1>1. PageIInv /\ [Next]_vars => PageIInv'
  BY PageStays
<1> QED  BY PageInitial, <1>1, PageImplies, PTL DEF Spec

(* A text that the page puts back in the composer has no answer and gets      *)
(* none, whoever holds the slot and whichever replies are lost: sending it    *)
(* again does not ask twice (the catch clause of sendMessage and              *)
(* restoreTurnRequest).                                                       *)
THEOREM DraftsAreUnansweredHolds == Spec => []DraftsAreUnanswered
<1>1. PageIInv /\ [Next]_vars => PageIInv'
  BY PageStays
<1> QED  BY PageInitial, <1>1, PageImplies, PTL DEF Spec

(* A turn is begun at most once and a send that gave up stays so: what the    *)
(* page remembers of a turn is true of the ledger after any step.             *)
THEOREM PageRemembers == Spec => [](\A t \in Sends : Remembers(t))
<1>1. PageIInv /\ [Next]_vars => PageIInv'
  BY PageStays
<1>2. PageIInv => \A t \in Sends : Remembers(t)
  BY DEF PageIInv, Memory
<1> QED  BY PageInitial, <1>1, <1>2, PTL DEF Spec
===============================================================================
