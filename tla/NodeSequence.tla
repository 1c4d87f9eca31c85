---------------------------- MODULE NodeSequence ----------------------------
(***************************************************************************)
(* What a kpp::List promises: a sequence of distinct nodes that grows at   *)
(* either end and loses any of its nodes.                                  *)
(***************************************************************************)
EXTENDS Naturals, Sequences, SequencesExt

CONSTANT Nodes

VARIABLE items

OnList == ToSet(items)

add(n) == n \in Nodes \ OnList /\ items' = <<n>> \o items
add_tail(n) == n \in Nodes \ OnList /\ items' = Append(items, n)
del(n) == \E k \in DOMAIN items : items[k] = n /\ items' = RemoveAt(items, k)

Init == items = <<>>
Next == \E n \in Nodes : add(n) \/ add_tail(n) \/ del(n)
Spec == Init /\ [][Next]_items
=============================================================================
