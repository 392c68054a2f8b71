----------------------------- MODULE MCMemories -----------------------------
(* Two texts about one subject and a plain one; exports of another         *)
(* workspace and of this one (identifier 1).                               *)
EXTENDS Memories

brief == "brief"
long == "long"
plain == "plain"
MCTexts == {brief, long, plain}
MCSubject == [t \in MCTexts |-> IF t = plain THEN None ELSE "length"]
Item(source, text, kind) == [source |-> source, text |-> text, kind |-> kind]
MCExports == {<<Item(9, brief, "fact"), Item(8, plain, "fact")>>,
              <<Item(1, plain, "preference"), Item(9, long, "fact")>>,
              <<Item(9, brief, "fact"), Item(8, long, "fact")>>}
=============================================================================
