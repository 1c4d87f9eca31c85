-------------------------------- MODULE List --------------------------------
(***************************************************************************)
(* kpp::List (kpp/util/List.hpp): the kernel's circular doubly linked list *)
(* and an Iterator over it.  A List has no lock of its own; its users      *)
(* serialise the calls, so each is one step, but an iteration is many:     *)
(* the body of a loop may add and delete nodes, the one that the Iterator  *)
(* stands on included, whose next pointer list_del then has poisoned.      *)
(*                                                                         *)
(* External, as the code uses it: INIT_LIST_HEAD, list_add, list_add_tail, *)
(* list_del and list_empty of <linux/list.h>.                              *)
(***************************************************************************)
EXTENDS Naturals, FiniteSets

CONSTANTS
  Nodes,   \* the list_heads embedded in the users' objects
  head_,   \* the list_head of the List
  poison,  \* LIST_POISON: the pointers of a node that is on no list
  none     \* no iteration is in progress

ConstantsAssumption ==
  /\ IsFiniteSet(Nodes)
  /\ head_ \notin Nodes /\ poison \notin Nodes /\ none \notin Nodes
  /\ head_ # poison /\ none \notin {head_, poison}

VARIABLES
  next,    \* next[p], for every list_head p
  prev,    \* prev[p]
  node_,   \* the list_head the Iterator stands on, or none
  stayed,  \* history: the nodes on the list since the iteration began
  undercut, \* history: the loop's body deleted the node that the Iterator stood on
  visits   \* history: visits[n], how often the iteration visited n, for n in stayed

vars == <<next, prev, node_, stayed, undercut, visits>>
Heads == Nodes \union {head_}
OnList(n) == next[n] # poison

------------------------------------------------------------------------------
\* __list_add(n, p, q): n goes between the neighbours p and q.
InsertBetween(n, p, q) ==
  /\ next' = [next EXCEPT ![n] = q, ![p] = n]
  /\ prev' = [prev EXCEPT ![q] = n, ![n] = p]

addBehindFirst(n) ==
  /\ ~OnList(n)
  /\ InsertBetween(n, next[head_], next[next[head_]])
  /\ UNCHANGED <<node_, visits, stayed, undercut>>

add(n) ==
  /\ ~OnList(n)
  /\ InsertBetween(n, head_, next[head_])
  /\ UNCHANGED <<node_, visits, stayed, undercut>>

add_tail(n) ==
  /\ ~OnList(n)
  /\ InsertBetween(n, prev[head_], head_)
  /\ UNCHANGED <<node_, visits, stayed, undercut>>

\* The history of a loop in which n is deleted; none is kept once the Iterator
\* has lost its node.
Leaves(n) ==
  /\ undercut' = (undercut \/ n = node_)
  /\ stayed' = IF undercut' THEN {} ELSE stayed \ {n}
  /\ visits' = [m \in Nodes |-> IF m \in stayed' THEN visits[m] ELSE 0]

\* List::del(n): the neighbours are joined and n's pointers poisoned.
del(n) ==
  /\ OnList(n)
  /\ next' = [next EXCEPT ![prev[n]] = next[n], ![n] = poison]
  /\ prev' = [prev EXCEPT ![next[n]] = prev[n], ![n] = poison]
  /\ Leaves(n)
  /\ UNCHANGED node_

------------------------------------------------------------------------------
(***************************************************************************)
(* for (auto n : list): begin, then the body and operator++ until end.     *)
(***************************************************************************)

Visit(p) == visits' = IF p \in stayed THEN [visits EXCEPT ![p] = @ + 1] ELSE visits

beginAtTail ==
  /\ node_ = none
  /\ node_' = prev[head_]
  /\ stayed' = {n \in Nodes : OnList(n)}
  /\ visits' = [n \in Nodes |-> IF n = prev[head_] THEN 1 ELSE 0]
  /\ undercut' = FALSE
  /\ UNCHANGED <<next, prev>>

begin ==
  /\ node_ = none
  /\ node_' = next[head_]
  /\ stayed' = {n \in Nodes : OnList(n)}
  /\ visits' = [n \in Nodes |-> IF n = next[head_] THEN 1 ELSE 0]
  /\ undercut' = FALSE
  /\ UNCHANGED <<next, prev>>

\* operator!= against end(): more nodes follow until the Iterator is back at
\* the head.
NotEnd == node_ \in Nodes

Increment ==
  /\ NotEnd
  /\ node_' = next[node_]
  /\ Visit(node_')
  /\ UNCHANGED <<next, prev, stayed, undercut>>

LoopEnds ==
  /\ node_ = head_
  /\ node_' = none
  /\ stayed' = {} /\ visits' = [n \in Nodes |-> 0] /\ undercut' = FALSE
  /\ UNCHANGED <<next, prev>>

------------------------------------------------------------------------------
\* List(): INIT_LIST_HEAD.
Init ==
  /\ next = [p \in Heads |-> IF p = head_ THEN head_ ELSE poison]
  /\ prev = [p \in Heads |-> IF p = head_ THEN head_ ELSE poison]
  /\ node_ = none
  /\ visits = [n \in Nodes |-> 0]
  /\ stayed = {} /\ undercut = FALSE

\* Following a poisoned pointer is the end of the system.
Next ==
  /\ node_ # poison
  /\ \/ \E n \in Nodes : add(n) \/ add_tail(n) \/ del(n)
     \/ begin \/ Increment \/ LoopEnds

Spec == Init /\ [][Next]_vars

------------------------------------------------------------------------------
(***************************************************************************)
(* Properties.                                                             *)
(***************************************************************************)

\* Every variable keeps its type.
TypeOK ==
  /\ next \in [Heads -> Heads \union {poison}]
  /\ prev \in [Heads -> Heads \union {poison}]
  /\ node_ \in Heads \union {none, poison} /\ undercut \in BOOLEAN
  /\ visits \in [Nodes -> Nat]
  /\ stayed \subseteq Nodes

Length == Cardinality({n \in Nodes : OnList(n)})

\* Steps[k]: where k steps along next lead from the head.
Steps == LET step[k \in 0 .. Length + 1] == IF k = 0 THEN head_ ELSE next[step[k - 1]]
         IN step

\* The nodes in the order in which next leads to them.
Items == [k \in 1 .. Length |-> Steps[k]]

\* The list is one ring through the head and all its nodes, prev is the
\* inverse of next, and a node off the list is poisoned in both directions.
RingIntact ==
  /\ Steps[Length + 1] = head_
  /\ {Steps[k] : k \in 1 .. Length} = {n \in Nodes : OnList(n)}
  /\ \A p \in Heads : next[p] # poison => prev[next[p]] = p /\ next[prev[p]] = p
  /\ \A n \in Nodes : ~OnList(n) => prev[n] = poison

\* A loop whose body adds and deletes nodes visits every node that stayed on
\* the list exactly once and never leaves the list, unless the body deleted the
\* node that the Iterator stood on.
VisitsEachOnce ==
  undercut \/
    /\ node_ # poison /\ (node_ \in Nodes => OnList(node_))
    /\ \A n \in stayed : visits[n] <= 1
    /\ node_ = head_ => \A n \in stayed : visits[n] = 1

\* The pointers implement a sequence that grows at either end and loses any of
\* its nodes.
Sequence == INSTANCE NodeSequence WITH items <- Items
ImplementsSequence == Sequence!Spec
=============================================================================
