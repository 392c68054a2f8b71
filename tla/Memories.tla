------------------------------ MODULE Memories ------------------------------
(***************************************************************************)
(* Local memories: lib/memories.ts, the routes under app/api/memories and  *)
(* app/components/memory-panel.tsx.  A memory is written by hand, or comes *)
(* with the import of an export: the panel has the file reviewed, the user *)
(* ticks the conflicts where the import should win, and the server reviews *)
(* the file again when it applies it.                                      *)
(*                                                                         *)
(* A request is one synchronous transaction; what lies between its sending *)
(* and its answer, and between the review and the approval, is free.  The  *)
(* approve button stays enabled, so an import may be sent twice.           *)
(***************************************************************************)
EXTENDS Naturals, SequencesExt

CONSTANTS
  Windows, Texts, Kinds, None,
  Subject,      \* memorySubject: a text's subject, or None
  Exports,      \* the files: sequences of items
  MaxMemories,  \* memories ever created
  MaxCalls      \* requests sent

Ids == 1..MaxMemories

VARIABLES
  store,   \* the memories, the one updated last first (listMemories)
  made,    \* memories ever created: the next identifier is new
  typed,   \* history: identifiers whose text was written by hand
  panel,   \* per window: its list, the file under review and its preview, the ticks
  calls,   \* requests sent and not yet answered
  sent

memoryVars == <<store, made, typed, panel, calls, sent>>

Empty == [list |-> <<>>, file |-> <<>>, preview |-> None, ticks |-> {}]

MemoriesInit ==
  /\ store = <<>> /\ made = 0 /\ typed = {}
  /\ panel = [w \in Windows |-> Empty]
  /\ calls = {} /\ sent = 0

-----------------------------------------------------------------------------
(* Variant: a duplicate is a memory with the identifier of the item.       *)
TwinsById(item) == SelectSeq(store, LAMBDA m : m.id = item.source /\ m.kind = item.kind /\ m.text = item.text)

Twins(item) == SelectSeq(store, LAMBDA m : m.kind = item.kind /\ m.text = item.text)

(* The memory an item conflicts with: of its identifier, else of its text, *)
(* else of its subject; the one updated last.                              *)
Rivals(item) ==
  LET same == SelectSeq(store, LAMBDA m : m.id = item.source)
      otherKind == SelectSeq(store, LAMBDA m : m.kind # item.kind /\ m.text = item.text)
      about == SelectSeq(store, LAMBDA m : Subject[item.text] # None /\ Subject[m.text] = Subject[item.text])
  IN  IF same # <<>> THEN same ELSE IF otherKind # <<>> THEN otherKind ELSE about

(* parseMemoryExport: identifiers, texts and subjects of a file differ.    *)
WellFormed(file) ==
  \A i, j \in DOMAIN file : i # j =>
    /\ file[i].source # file[j].source /\ file[i].text # file[j].text
    /\ Subject[file[i].text] # None => Subject[file[i].text] # Subject[file[j].text]

(* previewMemoryImport                                                     *)
Preview(file) ==
  LET items == ToSet(file)
      single == {i \in items : Twins(i) = <<>>}
  IN  [fresh |-> {i \in single : Rivals(i) = <<>>},
       rival |-> [i \in {i \in single : Rivals(i) # <<>>} |-> Head(Rivals(i)).id]]

-----------------------------------------------------------------------------
Call(w, op) == [n |-> sent + 1, w |-> w, op |-> op, answered |-> FALSE, ok |-> TRUE,
                id |-> 0, item |-> None, file |-> <<>>, ticks |-> {}, reviewed |-> None,
                result |-> None, replaced |-> 0, changed |-> 0]

Send(call) ==
  /\ sent < MaxCalls /\ sent' = sent + 1
  /\ calls' = calls \cup {call}
  /\ UNCHANGED <<store, made, typed>>

(* The panel opens, a form is submitted, a memory is deleted.              *)
OpenPanel(w) == Send(Call(w, "list")) /\ UNCHANGED panel
SaveMemory(w, id, item) ==
  /\ id = 0 \/ \E m \in ToSet(panel[w].list) : m.id = id
  /\ Send([Call(w, "save") EXCEPT !.id = id, !.item = item]) /\ UNCHANGED panel
RemoveMemory(w, id) ==
  /\ \E m \in ToSet(panel[w].list) : m.id = id
  /\ Send([Call(w, "remove") EXCEPT !.id = id]) /\ UNCHANGED panel

(* previewImport, toggleReplacement and applyImport of the panel.          *)
ReviewFile(w, file) == Send([Call(w, "preview") EXCEPT !.file = file]) /\ UNCHANGED panel
Toggle(w, item) ==
  /\ panel[w].preview # None /\ item \in DOMAIN panel[w].preview.rival
  /\ panel' = [panel EXCEPT ![w].ticks = SymDiff(@, {item})]
  /\ UNCHANGED <<store, made, typed, calls, sent>>
ApproveImport(w) ==
  /\ panel[w].preview # None
  /\ panel[w].preview.fresh # {} \/ panel[w].ticks # {}
  /\ Send([Call(w, "apply") EXCEPT !.file = panel[w].file, !.ticks = panel[w].ticks,
            !.reviewed = panel[w].preview])
  /\ UNCHANGED panel
CancelImport(w) ==
  /\ panel[w].preview # None
  /\ panel' = [panel EXCEPT ![w].file = <<>>, ![w].preview = None, ![w].ticks = {}]
  /\ UNCHANGED <<store, made, typed, calls, sent>>

-----------------------------------------------------------------------------
Answer(c, result, ok) ==
  calls' = (calls \ {c}) \cup {[c EXCEPT !.answered = TRUE, !.ok = ok, !.result = result]}

Without(s, id) == SelectSeq(s, LAMBDA m : m.id # id)
Written(s, id, item) == <<[id |-> id, text |-> item.text, kind |-> item.kind]>> \o Without(s, id)

(* listMemories, and the export, which reads the same rows.                *)
ServeList(c) ==
  /\ c.op = "list" /\ Answer(c, store, TRUE)
  /\ UNCHANGED <<store, made, typed, panel, sent>>

(* createMemory, updateMemory: of a memory that is gone nothing is written. *)
ServeSave(c) ==
  LET id == IF c.id = 0 THEN made + 1 ELSE c.id
      there == c.id = 0 \/ \E m \in ToSet(store) : m.id = c.id
  IN  /\ c.op = "save" /\ id \in Ids /\ Answer(c, None, there)
      /\ IF there THEN store' = Written(store, id, c.item) /\ typed' = typed \cup {id}
         ELSE UNCHANGED <<store, typed>>
      /\ made' = IF c.id = 0 THEN id ELSE made
      /\ UNCHANGED <<panel, sent>>

ServeRemove(c) ==
  /\ c.op = "remove" /\ Answer(c, None, \E m \in ToSet(store) : m.id = c.id)
  /\ store' = Without(store, c.id)
  /\ UNCHANGED <<made, typed, panel, sent>>

ServePreview(c) ==
  /\ c.op = "preview"
  /\ IF WellFormed(c.file) THEN Answer(c, Preview(c.file), TRUE) ELSE Answer(c, None, FALSE)
  /\ UNCHANGED <<store, made, typed, panel, sent>>

(* applyMemoryImport: reviewed anew; a tick that is no conflict any more   *)
(* refuses it all.  New items are inserted in the order of the file, then  *)
(* each ticked one is written over its rival, in one transaction.          *)
ServeApply(c) ==
  LET now == Preview(c.file)
      fresh == SelectSeq(c.file, LAMBDA i : i \in now.fresh)
      over == SelectSeq(c.file, LAMBDA i : i \in c.ticks)
      inserted == FoldLeft(LAMBDA s, k : Written(s, made + k, fresh[k]), store, [k \in DOMAIN fresh |-> k])
      replaced == FoldLeft(LAMBDA s, i : Written(s, now.rival[i], i), inserted, over)
  IN  /\ c.op = "apply" /\ made + Len(fresh) <= MaxMemories
      /\ IF c.ticks \subseteq DOMAIN now.rival
         THEN /\ store' = replaced /\ made' = made + Len(fresh)
              /\ typed' = typed \ {now.rival[i] : i \in c.ticks}
              /\ calls' = (calls \ {c}) \cup
                   {[c EXCEPT !.answered = TRUE, !.result = now, !.replaced = Len(over),
                       !.changed = Cardinality({now.rival[i] : i \in c.ticks})]}
         ELSE Answer(c, None, FALSE) /\ UNCHANGED <<store, made, typed>>
      /\ UNCHANGED <<panel, sent>>

Serve(c) ==
  /\ ~c.answered
  /\ \/ ServeList(c) \/ ServeSave(c) \/ ServeRemove(c) \/ ServePreview(c) \/ ServeApply(c)

(* The panel takes the answer; after a write it reads the list again.      *)
Reply(c) ==
  LET refreshes == c.ok /\ c.op \in {"save", "remove", "apply"}
  IN  /\ c.answered
      /\ calls' = (calls \ {c}) \cup (IF refreshes THEN {[Call(c.w, "list") EXCEPT !.n = c.n]} ELSE {})
      /\ panel' = CASE c.op = "list" -> [panel EXCEPT ![c.w].list = c.result]
                    [] c.op = "preview" ->
                         [panel EXCEPT ![c.w] = [@ EXCEPT !.file = IF c.ok THEN c.file ELSE <<>>,
                                                          !.preview = c.result, !.ticks = {}]]
                    [] c.op = "apply" /\ c.ok ->
                         [panel EXCEPT ![c.w] = [@ EXCEPT !.file = <<>>, !.preview = None, !.ticks = {}]]
                    [] OTHER -> panel
      /\ UNCHANGED <<store, made, typed, sent>>

(* The connection breaks, before or after the request was served: a review *)
(* that fails takes the one on the panel with it.                          *)
LoseCall(c) ==
  /\ calls' = calls \ {c}
  /\ panel' = IF c.op = "preview"
              THEN [panel EXCEPT ![c.w].file = <<>>, ![c.w].preview = None, ![c.w].ticks = {}]
              ELSE panel
  /\ UNCHANGED <<store, made, typed, sent>>

MemoriesNext ==
  \/ \E w \in Windows :
       \/ OpenPanel(w) \/ ApproveImport(w) \/ CancelImport(w)
       \/ \E file \in Exports : ReviewFile(w, file)
       \/ \E item \in UNION {ToSet(f) : f \in Exports} :
            Toggle(w, item) \/ (\E id \in Ids \cup {0} : SaveMemory(w, id, item))
       \/ \E id \in Ids : RemoveMemory(w, id)
  \/ \E c \in calls : Serve(c) \/ Reply(c) \/ LoseCall(c)

MemoriesSpec == MemoriesInit /\ [][MemoriesNext]_memoryVars

-----------------------------------------------------------------------------
(* However often an import is sent, and whatever is edited meanwhile, it   *)
(* brings no memory twice: of two memories with one text and kind, one was *)
(* written by hand.                                                        *)
ImportsOnce ==
  \A i, j \in DOMAIN store :
    i # j /\ store[i].text = store[j].text /\ store[i].kind = store[j].kind =>
      store[i].id \in typed \/ store[j].id \in typed

MemoriesInv ==
  /\ \A i, j \in DOMAIN store : store[i].id <= made /\ (store[i].id = store[j].id => i = j)
  /\ ImportsOnce

(* An import inserts what the review showed as new, and replaces the       *)
(* memories beside which the user ticked an item (README.md:503-506, the   *)
(* panel's "Approve reviewed import").                                     *)
OnlyReviewedIsImported ==
  \A c \in calls : c.op = "apply" /\ c.answered /\ c.ok =>
    /\ c.result.fresh \subseteq c.reviewed.fresh
    /\ \A i \in c.ticks : c.result.rival[i] = c.reviewed.rival[i]

(* The report counts the memories that were replaced.                      *)
ReportsAreTrue == \A c \in calls : c.replaced = c.changed

(* README.md:503: an export can be imported, to restore or migrate.        *)
ExportsCanBeImported ==
  WellFormed([i \in DOMAIN store |-> [source |-> store[i].id, text |-> store[i].text, kind |-> store[i].kind]])
=============================================================================
