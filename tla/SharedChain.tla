----------------------------- MODULE SharedChain -----------------------------
(***************************************************************************)
(* kpp::SharedPtr (kpp/memory/SharedPtr.hpp) inside of the objects that it *)
(* owns: a list whose nodes hold a SharedPtr next.  head and other are two *)
(* SharedPtrs of one thread.  The assignments release what they held       *)
(* before they read what they are given, and in head = head->next that is  *)
(* a member of the node they release.  A release that ends a node goes on  *)
(* with its next: one step per node.                                       *)
(***************************************************************************)
EXTENDS Naturals, FiniteSets

CONSTANTS
  Nodes,   \* storage for nodes with their control blocks
  nullptr

ConstantsAssumption == IsFiniteSet(Nodes) /\ nullptr \notin Nodes

VARIABLES
  head, other,  \* the pointers of the two SharedPtrs
  next,         \* next[n] of the node in n
  ref_count,    \* ref_count[n]; 0 when no node lives in n
  releasing,    \* the pointer that release() is called for, or nullptr
  assign,       \* "no", or the assignment that waits for release(): "copy" or "move"
  source,       \* the node whose next that assignment reads
  alone,        \* history: head was the only owner of source when it began
  crashed       \* freed memory was read

vars == <<head, other, next, ref_count, releasing, assign, source, alone, crashed>>

Live(n) == ref_count[n] > 0
Idle == releasing = nullptr /\ assign = "no" /\ ~crashed

\* make_shared, next = move(head), head = move(the new one).
Push(n) ==
  /\ Idle /\ ~Live(n)
  /\ ref_count' = [ref_count EXCEPT ![n] = 1]
  /\ next' = [next EXCEPT ![n] = head]
  /\ head' = n
  /\ UNCHANGED <<other, releasing, assign, source, alone, crashed>>

\* other = head, for an empty other.
CopyHead ==
  /\ Idle /\ other = nullptr /\ head # nullptr
  /\ other' = head
  /\ ref_count' = [ref_count EXCEPT ![head] = @ + 1]
  /\ UNCHANGED <<head, next, releasing, assign, source, alone, crashed>>

\* ~SharedPtr() of other or of head.
DestructOther ==
  /\ Idle
  /\ releasing' = other /\ other' = nullptr
  /\ UNCHANGED <<head, next, ref_count, assign, source, alone, crashed>>

DestructHead ==
  /\ Idle
  /\ releasing' = head /\ head' = nullptr
  /\ UNCHANGED <<other, next, ref_count, assign, source, alone, crashed>>

\* head = head->next and head = move(head->next), up to release().
Advance(how) ==
  /\ Idle /\ head # nullptr
  /\ assign' = how /\ source' = head /\ alone' = (ref_count[head] = 1)
  /\ releasing' = head /\ head' = nullptr
  /\ UNCHANGED <<other, next, ref_count, crashed>>

ReleaseForgetsNext ==
  /\ releasing # nullptr
  /\ ref_count' = [ref_count EXCEPT ![releasing] = @ - 1]
  /\ releasing' = nullptr
  /\ UNCHANGED <<head, other, next, assign, source, alone, crashed>>

\* release(): the last owner destroys the node, whose next is released in turn.
Release ==
  /\ releasing # nullptr
  /\ ref_count' = [ref_count EXCEPT ![releasing] = @ - 1]
  /\ releasing' = IF ref_count[releasing] = 1 THEN next[releasing] ELSE nullptr
  /\ UNCHANGED <<head, other, next, assign, source, alone, crashed>>

\* The rest of the assignment reads the other SharedPtr, in source.
Take ==
  /\ releasing = nullptr /\ assign # "no"
  /\ crashed' = ~Live(source)
  /\ IF crashed' THEN UNCHANGED <<head, next, ref_count>>
     ELSE /\ head' = next[source]
          /\ next' = IF assign = "move" THEN [next EXCEPT ![source] = nullptr] ELSE next
          /\ ref_count' = [n \in Nodes |->
               IF assign = "copy" /\ n = next[source] THEN ref_count[n] + 1 ELSE ref_count[n]]
  /\ assign' = "no" /\ source' = nullptr /\ alone' = (alone /\ crashed')
  /\ UNCHANGED <<other, releasing>>

------------------------------------------------------------------------------
Init ==
  /\ head = nullptr /\ other = nullptr /\ next = [n \in Nodes |-> nullptr]
  /\ ref_count = [n \in Nodes |-> 0] /\ releasing = nullptr
  /\ assign = "no" /\ source = nullptr /\ alone = FALSE /\ crashed = FALSE

Next ==
  \/ \E n \in Nodes : Push(n)
  \/ CopyHead \/ DestructOther \/ DestructHead
  \/ \E how \in {"copy", "move"} : Advance(how)
  \/ Release \/ Take

Spec == Init /\ [][Next]_vars

------------------------------------------------------------------------------
(***************************************************************************)
(* Properties.                                                             *)
(***************************************************************************)

\* Every variable keeps its type.
TypeOK ==
  LET Pointers == Nodes \union {nullptr} IN
  /\ head \in Pointers /\ other \in Pointers /\ next \in [Nodes -> Pointers]
  /\ ref_count \in [Nodes -> Nat] /\ releasing \in Pointers
  /\ assign \in {"no", "copy", "move"} /\ source \in Pointers
  /\ alone \in BOOLEAN /\ crashed \in BOOLEAN

Count(p, n) == IF p = n THEN 1 ELSE 0

\* The count of a node is the number of its owners, the members of other nodes
\* and the pointer that is being released included: a chain of any shape is
\* freed to its last node, and no node while it has an owner.
ChainCounts ==
  \A n \in Nodes :
    ref_count[n] = Count(head, n) + Count(other, n) + Count(releasing, n)
                   + Cardinality({m \in Nodes : Live(m) /\ next[m] = n})

\* head = head->next reads freed memory exactly when nobody but head owned the
\* node; as long as the node has another owner it is safe to step along.
StepNeedsAnotherOwner ==
  /\ crashed => alone
  /\ releasing = nullptr /\ assign # "no" => (Live(source) <=> ~alone)
==============================================================================
