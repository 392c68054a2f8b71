----------------------------- MODULE TurnTimeline -----------------------------
(***************************************************************************)
(* The timeline a window is shown: getConversationTimeline rebuilds a      *)
(* transcript from the turn rows, while prompts and exports use the        *)
(* canonical messages of the conversation row.                             *)
(***************************************************************************)
EXTENDS TurnLedger, SequencesExt

Order(c) == SetToSortSeq(TurnsOf(turns, c),
                         LAMBDA a, b : turns[a].sequence < turns[b].sequence)

(* One turn's part: its request and, once it is terminal, an answer, a        *)
(* partial or a fallback text (None).                                         *)
Entries(t) ==
  LET request == [turn |-> t, text |-> turns[t].request]
  IN  IF turns[t].status = "pending" THEN <<request>>
      ELSE <<request, [turn |-> t, text |-> turns[t].answer]>>

(* Mutant: the imported part is cut at the newest turn.                       *)
TimelineFromNewest(c) ==
  LET messages == conversations[c].messages
      order == Order(c)
  IN  IF order = <<>> THEN messages
      ELSE SubSeq(messages, 1, turns[order[Len(order)]].contextCount)
             \o FlattenSeq([i \in DOMAIN order |-> Entries(order[i])])

Timeline(c) ==
  LET messages == conversations[c].messages
      order == Order(c)
  IN  IF order = <<>> THEN messages
      ELSE SubSeq(messages, 1, turns[order[1]].contextCount)
             \o FlattenSeq([i \in DOMAIN order |-> Entries(order[i])])

-----------------------------------------------------------------------------
(* The timeline shows the canonical history, in its order, around the turns   *)
(* that have no place in it: no completed answer is missing or repeated.      *)
TimelineShowsHistory ==
  \A c \in Conversations :
    Live(c) =>
      SelectSeq(Timeline(c),
                LAMBDA m : m.turn = None \/ turns[m.turn].status = "completed")
        = conversations[c].messages
=============================================================================
