---------------------------- MODULE PageHistory ----------------------------
(* What the revision table promises about every wiki page: the texts a page *)
(* has published form a sequence that only ever grows at its end.  A page   *)
(* disappears as a whole, with its history.                                 *)
EXTENDS Sequences, SequencesExt

CONSTANTS Pages, Texts

VARIABLE history    \* history[p]: the published texts of p, oldest first

Init == history \in [Pages -> Seq(Texts)]

Publish(p) == IsPrefix(history[p], history'[p])
Vanish(p)  == history'[p] = <<>>

Next == \A p \in Pages : Publish(p) \/ Vanish(p)

Spec == Init /\ [][Next]_history
=============================================================================
