------------------------------ MODULE ChatPage ------------------------------
(***************************************************************************)
(* The chat page of src/app/page.tsx: one JavaScript thread whose handlers *)
(* suspend at every request, a server reached over requests whose replies  *)
(* may be lost, and a user who stops, reopens, edits and sends meanwhile.  *)
(*                                                                         *)
(* A request and its reply are one step: what the page does in between is  *)
(* covered by the outcomes in which the server has acted and the page does *)
(* not know. `wire` holds start requests the page gave up on and the       *)
(* server may still receive. The server is the promise of TurnLedger: a    *)
(* turn is begun at most once, and ends completed, cancelled or failed.    *)
(***************************************************************************)
EXTENDS Naturals, FiniteSets

CONSTANTS Conversations,  \* the conversations there may be
          Saved,          \* those that exist when the page is loaded
          MaxSends,       \* presses of Send
          None,
          Impatient,      \* whether Stop is pressed while no turn is known
          MaxEpoch,       \* chats opened or started
          MaxRevision,    \* changes of the composer by the user
          MaxFailures     \* requests whose reply the page never gets

Ended == {"completed", "unanswered"}   \* the latter: cancelled or failed

ASSUME PageConstants ==
    /\ Saved \subseteq Conversations
    /\ None \notin Conversations \cup Nat \cup Ended \cup {"pending", "none"}
    /\ MaxSends \in Nat
    /\ Impatient \in BOOLEAN
    /\ MaxEpoch \in Nat /\ MaxRevision \in Nat /\ MaxFailures \in Nat

(* Each press of Send makes a turn of its own. *)
Sends == 1 .. MaxSends

VARIABLES
    server,    \* the status of each turn in the ledger
    home,      \* the conversation the ledger gave the turn
    base,      \* the binding of the conversation when the turn began
    exists,    \* the conversations on disk
    binding,   \* the version of each conversation's binding on disk
    wire,      \* start requests given up by the page that may still arrive
    claimed,   \* turns whose generation the page has asked for
    page,      \* the refs of the page
    shown,     \* how the message pair of each turn is displayed
    task,      \* the run of sendMessage for each press of Send
    stop,      \* the run of stopGenerating for each turn
    opening,   \* the latest run of openConversation
    change,    \* the run of attachDatasetToChat or moveConversation
    recovery,  \* the run of restoreTurnRequest
    failures   \* replies lost so far

serverVars == <<server, home, base, exists, binding, wire, claimed>>
vars == <<serverVars, page, shown, task, stop, opening, change, recovery, failures>>

Idle == [pc |-> "idle"]
Receipt(c, v) == [conversation |-> c, version |-> v]

(* The refs after the page is loaded, in the `epoch`-th chat. *)
NewPage(epoch) ==
    [open |-> None, epoch |-> epoch, loading |-> FALSE, sending |-> FALSE,
     owner |-> None,       \* abortRef: the send that owns the sending slot
     active |-> None,      \* activeTurnRef
     adopted |-> None,     \* the turn the page polls
     receipt |-> None,     \* activeConversationBindingRef
     unsure |-> FALSE,     \* conversationBindingUncertainRef
     lost |-> FALSE,       \* turnStartUncertainRef
     revision |-> 0,       \* composerMutationRef
     draft |-> None,       \* the turn whose text was put back in the composer
     taken |-> FALSE,      \* history: the slot was taken from a request under way
     left |-> {}]          \* history: spinners on display when a chat was opened

Init ==
    /\ server = [t \in Sends |-> "none"]
    /\ home = [t \in Sends |-> None]
    /\ base = [t \in Sends |-> 0]
    /\ exists = Saved
    /\ binding = [c \in Conversations |-> 0]
    /\ wire = {}
    /\ claimed = {}
    /\ page = NewPage(0)
    /\ shown = [t \in Sends |-> "hidden"]
    /\ task = [s \in Sends |-> Idle]
    /\ stop = [t \in Sends |-> Idle]
    /\ opening = Idle
    /\ change = Idle
    /\ recovery = Idle
    /\ failures = 0

-----------------------------------------------------------------------------
(* The server, as the page uses it. *)

ledger == <<server, home, base, exists>>

Busy(c) == \E t \in Sends : home[t] = c /\ server[t] = "pending"

Request(s) == [turn |-> s, conversation |-> task[s].conversation, expects |-> task[s].expects]

(* beginConversationTurn replays a turn it knows, and begins one only in an *)
(* idle conversation whose binding is the one the request expects.          *)
Admits(r) ==
    server[r.turn] = "none" /\ r.conversation # None =>
        ~Busy(r.conversation) /\ binding[r.conversation] = r.expects

(* A connection the client has closed makes the route cancel what it began. *)
Begin(r, statuses) ==
    IF server[r.turn] # "none"
    THEN UNCHANGED ledger
    ELSE \E c \in IF r.conversation = None THEN Conversations \ exists ELSE {r.conversation},
            status \in statuses :
           /\ server' = [server EXCEPT ![r.turn] = status]
           /\ home' = [home EXCEPT ![r.turn] = c]
           /\ base' = [base EXCEPT ![r.turn] = binding[c]]
           /\ exists' = exists \cup {c}

(* What the server may have made of a start whose reply never came. *)
Unheard(r) ==
    /\ \/ Admits(r) /\ Begin(r, {"pending", "unanswered"}) /\ UNCHANGED wire
       \/ wire' = wire \cup {r} /\ UNCHANGED ledger
       \/ UNCHANGED <<ledger, wire>>
    /\ UNCHANGED <<binding, claimed>>

(* A start that arrives after the page stopped waiting for it. *)
LateStart(r) ==
    /\ wire' = wire \ {r}
    /\ IF Admits(r) THEN Begin(r, {"pending", "unanswered"}) ELSE UNCHANGED ledger
    /\ UNCHANGED <<binding, claimed>>
    /\ UNCHANGED <<page, shown, task, stop, opening, change, recovery, failures>>

(* A pending turn ends: the model answers, fails or is cut off, the client  *)
(* disconnects, or the sweep for turns nobody executes reaches it.          *)
Settle(t) ==
    /\ server[t] = "pending"
    /\ \/ /\ t \in claimed
          /\ server' = [server EXCEPT ![t] = "completed"]
          /\ binding' = [binding EXCEPT ![home[t]] = @ + 1]
       \/ /\ server' = [server EXCEPT ![t] = "unanswered"]
          /\ UNCHANGED binding
    /\ UNCHANGED <<home, base, exists, wire, claimed>>
    /\ UNCHANGED <<page, shown, task, stop, opening, change, recovery, failures>>

(* requestTurnCancellation: the turn is cancelled if it is still pending,   *)
(* and the page reads how it ended, or nothing within the time it waits.    *)
CancelAtServer(t) ==
    server' = [server EXCEPT ![t] = IF @ = "pending" THEN "unanswered" ELSE @]

Cancellation(t, answer) ==
    /\ UNCHANGED <<home, base, exists, binding, wire, claimed>>
    /\ \/ /\ server[t] # "none"
          /\ CancelAtServer(t)
          /\ answer = server'[t]
          /\ UNCHANGED failures
       \/ /\ failures < MaxFailures
          /\ failures' = failures + 1
          /\ answer = None
          /\ CancelAtServer(t) \/ UNCHANGED server

-----------------------------------------------------------------------------
(* What the handlers share. *)

Hears == UNCHANGED failures
Misses == failures < MaxFailures /\ failures' = failures + 1

Status(t) == CASE server[t] = "pending" -> "active"
               [] server[t] = "none" -> "hidden"
               [] OTHER -> "settled"

(* displayMessagesFromTimeline: the message pairs of conversation c. *)
Timeline(c) == [t \in Sends |-> IF home[t] = c THEN Status(t) ELSE "hidden"]

(* cancelTurnRecoveryPreparation and recordComposerMutation *)
Touched(p) == [p EXCEPT !.revision = @ + 1]

(* abandonActiveTurn without its request: the owner's requests are aborted, *)
(* which only a send that still waits for its start or its answer notices.  *)
Aborted(s) == IF s # None /\ task[s].pc \in {"start", "chat"}
              THEN [task EXCEPT ![s].stopped = TRUE] ELSE task

Abandoned(p, retain) ==
    [p EXCEPT !.owner = None, !.active = None,
              !.adopted = IF p.active # None /\ @ = p.active THEN None ELSE @,
              !.sending = retain /\ @]

(* reconcileTurnFromServer: the conversation of turn t is read again, and   *)
(* its receipt replaces the page's if no other chat was opened meanwhile.   *)
Reread(p, t, epoch) ==
    IF epoch = p.epoch /\ p.open = home[t]
    THEN [p EXCEPT !.receipt = Receipt(home[t], binding[home[t]]), !.unsure = FALSE]
    ELSE p

Redisplayed(t) == IF shown[t] = "hidden" THEN shown ELSE [shown EXCEPT ![t] = Status(t)]
Displayed(t, how) == IF shown[t] = "hidden" THEN shown ELSE [shown EXCEPT ![t] = how]

(* Variant: the poll is not told. *)
AdoptedUnpolled(p, t) == [p EXCEPT !.active = t, !.sending = TRUE]

(* Ownership of a turn whose end is unknown goes to the poll. *)
Adopted(p, t) == [p EXCEPT !.active = t, !.adopted = t, !.sending = TRUE]

-----------------------------------------------------------------------------
(* sendMessage *)

(* Bound: a conversation is left for every start that may still create one. *)
Room == LET creating == {q \in Sends : task[q].pc \in {"start", "replay"}
                                          /\ task[q].conversation = None}
                        \cup {r.turn : r \in {w \in wire : w.conversation = None}}
        IN  Cardinality(exists) + Cardinality({q \in creating : server[q] = "none"})
              < Cardinality(Conversations)

Send(s) ==
    /\ task[s].pc = "idle" /\ \A q \in 1 .. s - 1 : task[q].pc # "idle"
    /\ ~page.sending /\ ~page.loading /\ recovery = Idle
    /\ change = Idle /\ ~page.unsure /\ ~page.lost
    /\ page.open # None => page.receipt # None
    /\ page.open = None => Room
    /\ task' = [task EXCEPT ![s] =
         [pc |-> "start", conversation |-> page.open, epoch |-> page.epoch,
          revision |-> page.revision, retried |-> FALSE, stopped |-> FALSE,
          expects |-> IF page.open = None THEN 0 ELSE page.receipt.version,
          presented |-> FALSE, ambiguous |-> FALSE, known |-> None, asked |-> 0]]
    /\ page' = [page EXCEPT !.sending = TRUE, !.adopted = None, !.owner = s, !.draft = None]
    /\ UNCHANGED <<serverVars, shown, stop, opening, change, recovery, failures>>

(* The finally clause: only the send that still owns the slot frees it. *)
Released(p, s) ==
    IF p.owner # s THEN p
    ELSE [p EXCEPT !.owner = None, !.sending = FALSE, !.active = IF @ = s THEN None ELSE @]

Finished(s) == [task EXCEPT ![s] = [pc |-> "done"]]

ComposerUntouched(s) ==
    task[s].epoch = page.epoch /\ task[s].revision = page.revision

(* The start is answered with a receipt: the pair is displayed and the      *)
(* generation asked for.                                                    *)
StartAccepted(s) ==
    /\ task[s].pc = "start" /\ ~task[s].stopped /\ Admits(Request(s))
    /\ Begin(Request(s), {"pending"})
    /\ claimed' = claimed \cup {s}
    /\ page' = [page EXCEPT !.receipt = Receipt(home'[s], base'[s]), !.lost = FALSE,
                            !.active = s, !.open = home'[s]]
    /\ shown' = [shown EXCEPT ![s] = "active"]
    /\ task' = [task EXCEPT ![s].pc = "chat", ![s].conversation = home'[s],
                            ![s].presented = TRUE, ![s].expects = 0]
    /\ UNCHANGED <<binding, wire, stop, opening, change, recovery, failures>>

(* The start is refused, by the first or by the second attempt: nothing     *)
(* began, and the draft goes back to a composer nobody has touched.         *)
StartRefused(s) ==
    /\ task[s].pc = "start" /\ ~task[s].stopped /\ ~Admits(Request(s))
    /\ page' = Released([page EXCEPT !.draft = IF ComposerUntouched(s) THEN s ELSE @], s)
    /\ task' = Finished(s)
    /\ UNCHANGED <<serverVars, shown, stop, opening, change, recovery, failures>>

(* No reply, or the user has stopped the send: one retry with the same turn *)
(* unless it was stopped, then the receipt is asked for once more.          *)
StartUnanswered(s) ==
    /\ task[s].pc = "start"
    /\ Unheard(Request(s))
    /\ IF task[s].stopped THEN Hears ELSE Misses
    /\ task' = [task EXCEPT ![s].retried = TRUE,
                            ![s].pc = IF task[s].stopped \/ task[s].retried
                                      THEN "replay" ELSE "start"]
    /\ UNCHANGED <<page, shown, stop, opening, change, recovery>>

(* The second attempt ends in a server error: the page takes it for a       *)
(* refusal, although the first attempt may have begun the turn. Bound: it   *)
(* counts as one failure with the first attempt's, which it follows.        *)
StartBroken(s) ==
    /\ task[s].pc = "start" /\ ~task[s].stopped /\ task[s].retried
    /\ page' = Released([page EXCEPT !.draft = IF ComposerUntouched(s) THEN s ELSE @], s)
    /\ task' = Finished(s)
    /\ UNCHANGED <<serverVars, shown, stop, opening, change, recovery, failures>>

(* The stream ends with the answer: the page counts the new pair itself. *)
Answered(s) ==
    /\ task[s].pc = "chat" /\ ~task[s].stopped /\ server[s] = "completed"
    /\ shown' = Displayed(s, "settled")
    /\ page' = IF page.open = task[s].conversation /\ page.receipt # None
               THEN [page EXCEPT !.receipt.version = @ + 1] ELSE page
    /\ task' = [task EXCEPT ![s] = [pc |-> "feedback"]]
    /\ UNCHANGED <<serverVars, stop, opening, change, recovery, failures>>

(* The feedback of the conversation is refreshed before the slot is freed. *)
SendReturns(s) ==
    /\ task[s].pc = "feedback"
    /\ page' = Released(page, s)
    /\ task' = Finished(s)
    /\ UNCHANGED <<serverVars, shown, stop, opening, change, recovery, failures>>

(* The generation fails, its connection breaks, or the user has stopped it. *)
ChatFails(s) ==
    /\ task[s].pc = "chat"
    /\ IF task[s].stopped \/ server[s] = "unanswered" THEN Hears ELSE Misses
    /\ task' = [task EXCEPT ![s].pc = IF task[s].stopped THEN "cancel" ELSE "reconcile",
                            ![s].asked = page.epoch]
    /\ UNCHANGED <<serverVars, page, shown, stop, opening, change, recovery>>

(* replayAmbiguousTurnStart: the same start again. A receipt makes the turn *)
(* one to cancel; without one, sending is locked and nothing is put back.   *)
ReplayAnswered(s) ==
    /\ task[s].pc = "replay" /\ Admits(Request(s))
    /\ Begin(Request(s), {"pending"})
    /\ page' = [page EXCEPT !.receipt = Receipt(home'[s], base'[s])]
    /\ task' = [task EXCEPT ![s].pc = "cancel", ![s].conversation = home'[s],
                            ![s].ambiguous = TRUE, ![s].known = server'[s], ![s].expects = 0]
    /\ UNCHANGED <<binding, wire, claimed, shown, stop, opening, change, recovery, failures>>

ReplayUnanswered(s) ==
    /\ task[s].pc = "replay"
    /\ \/ Unheard(Request(s)) /\ Misses
       \/ ~Admits(Request(s)) /\ UNCHANGED serverVars /\ Hears
    /\ page' = Released([page EXCEPT !.lost = @ \/ task[s].epoch = page.epoch], s)
    /\ task' = Finished(s)
    /\ UNCHANGED <<shown, stop, opening, change, recovery>>

CancelSent(s) ==
    /\ task[s].pc = "cancel"
    /\ \E answer \in Ended \cup {None} :
         /\ Cancellation(s, answer)
         /\ task' = [task EXCEPT ![s].pc = "reconcile", ![s].asked = page.epoch,
                                 ![s].known = IF answer = None THEN @ ELSE answer]
    /\ UNCHANGED <<page, shown, stop, opening, change, recovery>>

(* Variant: the epoch is not compared. *)
Anywhere(s, p) == TRUE

(* The chat in which Send was pressed is still the open one. *)
StillHere(s, p) == task[s].epoch = p.epoch

(* The slot belongs to another request: a send that still waits for its     *)
(* receipt, which stopGenerating does not look for, or a Stop that has not  *)
(* ended, which nobody does.                                                *)
Held(p, t) ==
    \/ p.owner \notin {None, t}
    \/ \E q \in Sends \ {t} : stop[q].pc # "idle" /\ stop[q].epoch = p.epoch

Overtaking(p, t) == [p EXCEPT !.taken = @ \/ Held(p, t)]

(* The rest of the catch clause, with the best status the page could get:   *)
(* the draft goes back only if the turn is known to have ended without an   *)
(* answer, and a turn not known to have ended is polled.                    *)
CatchEnds(s, status, p, display) ==
    LET k == task[s]
        here == StillHere(s, p)
        newer == \/ p.owner \notin {None, s}
                 \/ p.active \notin {None, s}
        adopt == status \in {"pending", None} /\ ~newer /\ here /\ ~p.loading
        unlocked == [p EXCEPT !.lost = @ /\ ~(k.ambiguous /\ here /\ status \in Ended)]
        restored == [unlocked EXCEPT !.draft =
                       IF /\ ~k.presented /\ (k.stopped \/ k.ambiguous)
                          /\ status = "unanswered" /\ here /\ k.revision = p.revision
                       THEN s ELSE @]
        adopting == [Overtaking(Adopted(restored, s), s) EXCEPT
                       !.owner = IF @ = s THEN None ELSE @,
                       !.open = IF k.presented THEN @ ELSE k.conversation]
    IN  /\ page' = Released(IF adopt THEN adopting ELSE restored, s)
        /\ shown' = IF adopt /\ (~k.presented \/ status = None)
                    THEN [display EXCEPT ![s] = "active"] ELSE display
        /\ task' = Finished(s)

SendReconciled(s) ==
    /\ task[s].pc = "reconcile"
    /\ \/ /\ Hears
          /\ CatchEnds(s, server[s], Reread(page, s, task[s].asked), Redisplayed(s))
       \/ /\ Misses
          /\ CatchEnds(s, task[s].known, page,
                       IF task[s].known \in {"pending", None} THEN shown
                       ELSE Displayed(s, IF task[s].known = "completed"
                                         THEN "unrefreshed" ELSE "settled"))
    /\ UNCHANGED <<serverVars, stop, opening, change, recovery>>

-----------------------------------------------------------------------------
(* stopGenerating *)

Stop ==
    LET t == page.active IN
    /\ page.sending /\ (t = None => Impatient)
    /\ task' = Aborted(page.owner)
    /\ IF t = None
       THEN /\ page' = [Abandoned(page, FALSE) EXCEPT !.taken = TRUE]
            /\ UNCHANGED stop
       ELSE /\ stop[t].pc = "idle"   \* bound: one run per turn at a time
            /\ page' = [Abandoned(page, TRUE) EXCEPT !.taken = @ \/ page.owner \notin {None, t}]
            /\ stop' = [stop EXCEPT ![t] =
                          [pc |-> "cancel", epoch |-> page.epoch, known |-> None, asked |-> 0]]
    /\ UNCHANGED <<serverVars, shown, opening, change, recovery, failures>>

StopSent(t) ==
    /\ stop[t].pc = "cancel"
    /\ \E answer \in Ended \cup {None} :
         /\ Cancellation(t, answer)
         /\ stop' = [stop EXCEPT ![t].pc = "reconcile", ![t].known = answer,
                                 ![t].asked = page.epoch]
    /\ UNCHANGED <<page, shown, task, opening, change, recovery>>

StopEnds(t, status, p, display, unread) ==
    LET here == stop[t].epoch = p.epoch
        newer == p.active \notin {None, t}
    IN  /\ stop' = [stop EXCEPT ![t] = Idle]
        /\ IF status \in {"pending", None} /\ ~newer /\ here /\ ~p.loading
           THEN /\ page' = Overtaking(Adopted(p, t), t)
                /\ shown' = IF status = None /\ display[t] # "hidden"
                            THEN [display EXCEPT ![t] = "active"] ELSE display
           ELSE IF ~newer /\ here
           THEN /\ page' = Overtaking([p EXCEPT !.sending = FALSE, !.adopted = None], t)
                /\ shown' = IF unread /\ status # None /\ display[t] # "hidden"
                            THEN [display EXCEPT ![t] = IF status = "completed"
                                                        THEN "unrefreshed" ELSE "settled"]
                            ELSE display
           ELSE page' = p /\ shown' = display

StopReconciled(t) ==
    /\ stop[t].pc = "reconcile"
    /\ \/ /\ Hears
          /\ StopEnds(t, server[t], Reread(page, t, stop[t].asked), Redisplayed(t), FALSE)
       \/ Misses /\ StopEnds(t, stop[t].known, page, shown, TRUE)
    /\ UNCHANGED <<serverVars, task, opening, change, recovery>>

-----------------------------------------------------------------------------
(* Opening a chat, starting one, and leaving the page. *)

OpenConversation(c) ==
    LET t == page.active IN
    /\ c \in exists /\ page.epoch < MaxEpoch
    /\ page' = [(IF page.sending THEN Abandoned(page, FALSE) ELSE page)
                EXCEPT !.epoch = @ + 1, !.loading = TRUE,
                       !.left = @ \cup {q \in Sends : shown[q] = "active"}]
    /\ task' = IF page.sending THEN Aborted(page.owner) ELSE task
    /\ opening' = [pc |-> IF page.sending /\ t # None THEN "cancel" ELSE "read",
                   conversation |-> c, turn |-> t]
    /\ recovery' = Idle
    /\ UNCHANGED <<serverVars, shown, stop, change, failures>>

OpenAbandons ==
    /\ opening.pc = "cancel"
    /\ \E answer \in Ended \cup {None} : Cancellation(opening.turn, answer)
    /\ opening' = [opening EXCEPT !.pc = "read"]
    /\ UNCHANGED <<page, shown, task, stop, change, recovery>>

(* The read waits behind the change of a binding (the serial queue). *)
OpenRead ==
    LET c == opening.conversation
        waiting == {t \in Sends : home[t] = c /\ server[t] = "pending"}
        opened == [page EXCEPT !.open = c, !.receipt = Receipt(c, binding[c]),
                               !.loading = FALSE, !.unsure = FALSE, !.lost = FALSE,
                               !.left = {}]
    IN
    /\ opening.pc = "read" /\ change = Idle
    /\ opening' = Idle
    /\ \/ /\ Hears
          /\ shown' = Timeline(c)
          /\ page' = CASE waiting # {} -> Adopted(opened, CHOOSE t \in waiting : TRUE)
                       [] waiting = {} /\ page.active = None ->
                            [opened EXCEPT !.adopted = None, !.sending = FALSE]
                       [] OTHER -> opened
       \/ /\ Misses
          /\ page' = [page EXCEPT !.loading = FALSE]
          /\ UNCHANGED shown
    /\ UNCHANGED <<serverVars, task, stop, change, recovery>>

StartNewChat ==
    /\ page.epoch < MaxEpoch
    /\ page' = [(IF page.sending THEN Abandoned(page, FALSE) ELSE page)
                EXCEPT !.epoch = @ + 1, !.loading = FALSE, !.adopted = None, !.open = None,
                       !.receipt = None, !.draft = None, !.unsure = FALSE, !.left = {}]
    /\ task' = IF page.sending THEN Aborted(page.owner) ELSE task
    /\ shown' = [t \in Sends |-> "hidden"]
    /\ opening' = Idle
    /\ recovery' = Idle
    /\ UNCHANGED <<serverVars, stop, change, failures>>

(* A page that is hidden cancels what it sends, and its handlers go with it. *)
Reload ==
    /\ page.epoch < MaxEpoch
    /\ page' = NewPage(page.epoch + 1)
    /\ shown' = [t \in Sends |-> "hidden"]
    /\ task' = [s \in Sends |-> IF task[s].pc = "idle" THEN Idle ELSE [pc |-> "done"]]
    /\ wire' = wire \cup {Request(s) : s \in {q \in Sends : task[q].pc = "start"}}
    /\ stop' = [t \in Sends |-> Idle]
    /\ opening' = Idle /\ change' = Idle /\ recovery' = Idle
    /\ UNCHANGED <<ledger, binding, claimed, failures>>

(* The effect that polls an adopted turn. *)
Poll ==
    LET t == page.adopted
        p == Reread(page, t, page.epoch)
    IN
    /\ t # None
    /\ shown' = Redisplayed(t)
    /\ page' = IF server[t] = "pending" THEN p
               ELSE [p EXCEPT !.adopted = None, !.active = IF @ = t THEN None ELSE @,
                              !.sending = @ /\ p.active # t]
    /\ UNCHANGED <<serverVars, task, stop, opening, change, recovery, failures>>

-----------------------------------------------------------------------------
(* attachDatasetToChat, and moveConversation of the open chat: the binding  *)
(* on disk changes if it is still the one the page has a receipt of.        *)

Rebind ==
    /\ page.open # None /\ page.receipt # None /\ ~page.sending /\ change = Idle
    /\ page.revision < MaxRevision
    /\ change' = [pc |-> "patch", conversation |-> page.open, epoch |-> page.epoch,
                  expects |-> page.receipt.version]
    /\ page' = Touched(page)
    /\ recovery' = Idle
    /\ UNCHANGED <<serverVars, shown, task, stop, opening, failures>>

Here == change.epoch = page.epoch /\ page.open = change.conversation

(* What became of the change is unknown to the page, or the binding was     *)
(* stale: the chat is read again if it is still the open one.               *)
Questioned == change' = IF Here THEN [change EXCEPT !.pc = "reread"] ELSE Idle

RebindSent ==
    LET c == change.conversation
        stale == binding[c] # change.expects
        applied == binding' = [binding EXCEPT ![c] = @ + 1]
    IN
    /\ change.pc = "patch"
    /\ \/ /\ ~Busy(c) /\ ~stale /\ applied /\ Hears
          /\ change' = Idle
          /\ page' = IF Here THEN [Touched(page) EXCEPT !.receipt = Receipt(c, binding'[c]),
                                                        !.unsure = FALSE]
                             ELSE page
       \/ /\ Busy(c) /\ ~stale /\ Hears
          /\ change' = Idle
          /\ UNCHANGED <<binding, page>>
       \/ /\ stale /\ Hears /\ Questioned
          /\ UNCHANGED <<binding, page>>
       \/ /\ Misses /\ Questioned
          /\ UNCHANGED binding \/ (~Busy(c) /\ ~stale /\ applied)
          /\ UNCHANGED page
    /\ recovery' = IF page' = page THEN recovery ELSE Idle
    /\ UNCHANGED <<ledger, wire, claimed, shown, task, stop, opening>>

(* reconcileOpenConversationBindings. A read that fails, or that finds      *)
(* another chat open, leaves the page unsure of the binding.                *)
RebindReread ==
    LET c == change.conversation IN
    /\ change.pc = "reread"
    /\ change' = Idle
    /\ \/ /\ Hears /\ Here
          /\ page' = [Touched(page) EXCEPT !.receipt = Receipt(c, binding[c]), !.unsure = FALSE]
       \/ /\ IF Here THEN Misses ELSE Hears
          /\ page' = [page EXCEPT !.unsure = TRUE]
    /\ recovery' = IF Here /\ Hears THEN Idle ELSE recovery
    /\ UNCHANGED <<serverVars, shown, task, stop, opening>>

-----------------------------------------------------------------------------
(* restoreTurnRequest, and prepareTurnRecovery at the server.               *)

Restore(t) ==
    /\ page.open # None /\ shown[t] = "settled" /\ recovery = Idle
    /\ ~page.sending /\ ~page.loading /\ change = Idle /\ ~page.unsure /\ page.draft = None
    /\ recovery' = [pc |-> "asked", turn |-> t, conversation |-> page.open,
                    epoch |-> page.epoch, revision |-> page.revision]
    /\ UNCHANGED <<serverVars, page, shown, task, stop, opening, change, failures>>

(* Variant: whatever has ended in the conversation can be asked again. *)
RecoverableOnceEnded(t, c) == server[t] \in Ended /\ home[t] = c

(* The server hands out the request of a turn that ended without an answer, *)
(* in the conversation and under the binding it was asked in.               *)
Recoverable(t, c) ==
    /\ server[t] = "unanswered"
    /\ home[t] = c /\ base[t] = binding[c]

Restored ==
    LET t == recovery.turn IN
    /\ recovery # Idle
    /\ recovery' = Idle
    /\ \/ /\ Hears
          /\ page' = IF /\ Recoverable(t, recovery.conversation)
                        /\ recovery.epoch = page.epoch /\ recovery.revision = page.revision
                        /\ ~page.sending /\ ~page.loading /\ change = Idle /\ ~page.unsure
                     THEN [page EXCEPT !.draft = t, !.revision = @ + 1] ELSE page
       \/ Misses /\ UNCHANGED page
    /\ UNCHANGED <<serverVars, shown, task, stop, opening, change>>

-----------------------------------------------------------------------------
Sending(s) ==
    \/ StartAccepted(s) \/ StartRefused(s) \/ StartUnanswered(s) \/ StartBroken(s)
    \/ Answered(s) \/ SendReturns(s) \/ ChatFails(s)
    \/ ReplayAnswered(s) \/ ReplayUnanswered(s) \/ CancelSent(s) \/ SendReconciled(s)

Next ==
    \/ \E s \in Sends : Send(s) \/ Sending(s)
    \/ \E t \in Sends : StopSent(t) \/ StopReconciled(t)
    \/ \E t \in Sends : Settle(t) \/ Restore(t)
    \/ \E r \in wire : LateStart(r)
    \/ Stop \/ \E c \in Conversations : OpenConversation(c)
    \/ OpenAbandons \/ OpenRead \/ StartNewChat \/ Reload \/ Poll
    \/ Rebind \/ RebindSent \/ RebindReread \/ Restored

Spec == Init /\ [][Next]_vars

(* The page, its timers and the server go on working: requests are answered *)
(* or fail and deadlines pass, in whatever order. The user owes nothing.    *)
Working ==
    \/ \E s \in Sends : Sending(s) \/ Settle(s) \/ StopSent(s) \/ StopReconciled(s)
    \/ OpenAbandons \/ OpenRead \/ Poll \/ RebindSent \/ RebindReread \/ Restored

FairSpec == Spec /\ WF_vars(Working)

-----------------------------------------------------------------------------
TypeOK ==
    /\ server \in [Sends -> Ended \cup {"none", "pending"}]
    /\ home \in [Sends -> Conversations \cup {None}]
    /\ page.open \in Conversations \cup {None}
    /\ page.draft \in Sends \cup {None}
    /\ shown \in [Sends -> {"hidden", "active", "settled", "unrefreshed"}]
    /\ claimed \subseteq Sends

(* A page that says it is sending has somebody who will end that: the send  *)
(* that owns the slot, a poll, or a Stop under way.                         *)
SendingHasOwner ==
    page.sending => \/ page.owner # None \/ page.adopted # None
                    \/ \E t \in Sends : stop[t].pc # "idle"

(* A message displayed as being answered is one that somebody follows.      *)
Followed(t) ==
    \/ page.adopted = t \/ stop[t].pc # "idle"
    \/ task[t].pc \notin {"idle", "done"}
    \/ opening # Idle \/ t \in page.left
SpinnersAreFollowed == \A t \in Sends : shown[t] = "active" => Followed(t)

(* Text that is put back in the composer is text that has no answer and     *)
(* will get none: sending it again does not ask twice.                      *)
DraftsAreUnanswered ==
    \A t \in Sends : page.draft = t =>
        server[t] = "unanswered" \/ t \notin claimed

(* Only turns of the open conversation are displayed in it.                 *)
ShownAtHome == \A t \in Sends : shown[t] # "hidden" => home[t] = page.open

(* No second turn is asked for while the server may hold a first one the    *)
(* page has no receipt of.                                                  *)
UnknownBlocksSend ==
    \A s, t \in Sends : s # t /\ task[s].pc = "start" =>
        task[t].pc \notin {"start", "replay"}

(* While a send has the slot the page says it is sending and takes no second  *)
(* one (newerTurnOwnsComposer in sendMessage and stopGenerating).           *)
StartsKeepTheSlot == page.owner # None => page.sending

(* The page in order: typed, and as long as no request that was under way   *)
(* lost the slot to another, sending ends, every spinner is followed and    *)
(* what is displayed belongs to the open conversation (Home).               *)
PageInv ==
    /\ TypeOK
    /\ page.taken \/ (SendingHasOwner /\ SpinnersAreFollowed /\ ShownAtHome)

(* Sending ends, whatever was lost: the composer is never locked for good.  *)
Unlocks == page.sending ~> ~page.sending
=============================================================================
