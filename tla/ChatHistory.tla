----------------------------- MODULE ChatHistory ------------------------------
(***************************************************************************)
(* What the turn ledger promises about canonical history, whatever windows *)
(* and executions do: a live conversation has at most one open question;   *)
(* its log grows only by the pair of that question and its one answer; a   *)
(* question is asked at most once in a conversation.                       *)
(***************************************************************************)
EXTENDS Naturals, Sequences

CONSTANTS Conversations, Turns, None

VARIABLES
  phase,   \* conversation -> "absent", "live" or "closed"
  log,     \* conversation -> who asked each message, None for imported ones
  open,    \* conversation -> the open question, or None
  asked    \* conversation -> questions it has been asked

chatVars == <<phase, log, open, asked>>

Init ==
  /\ phase = [c \in Conversations |-> "absent"]
  /\ log = [c \in Conversations |-> <<>>]
  /\ open = [c \in Conversations |-> None]
  /\ asked = [c \in Conversations |-> {}]

(* A conversation appears with an imported log, or with its first question.   *)
Appear(c) ==
  /\ phase[c] = "absent"
  /\ phase'[c] = "live"
  /\ \A i \in DOMAIN log'[c] : log'[c][i] = None
  /\ asked'[c] \subseteq Turns
  /\ open'[c] \in asked'[c] \union {None}

(* Withdrawing the open question, asking a fresh one, or the one then the     *)
(* other: the log does not move.                                              *)
AskOrWithdraw(c) ==
  /\ phase[c] = "live" /\ phase'[c] = "live"
  /\ log'[c] = log[c]
  /\ \/ open'[c] = None /\ asked[c] \subseteq asked'[c]
     \/ /\ open'[c] \in Turns \ asked[c]
        /\ asked'[c] = asked[c] \union {open'[c]}

Answer(c) ==
  /\ phase[c] = "live" /\ phase'[c] = "live"
  /\ open[c] # None
  /\ log'[c] = log[c] \o <<open[c], open[c]>>
  /\ open'[c] = None
  /\ asked'[c] = asked[c]

Close(c) ==
  /\ phase[c] = "live" /\ phase'[c] = "closed"
  /\ open'[c] = None

Idle(c) ==
  /\ phase'[c] = phase[c]
  /\ log'[c] = log[c]
  /\ open'[c] = open[c]
  /\ asked'[c] = asked[c]

Next == \A c \in Conversations :
  Appear(c) \/ AskOrWithdraw(c) \/ Answer(c) \/ Close(c) \/ Idle(c)

Spec == Init /\ [][Next]_chatVars
=============================================================================
