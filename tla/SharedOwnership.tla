--------------------------- MODULE SharedOwnership ---------------------------
(***************************************************************************)
(* What kpp::SharedPtr promises its users, without counters: an object     *)
(* belongs to the handles that share it, a handle joins only a group that  *)
(* still has a member, the object is destroyed only after the last member  *)
(* left, and its memory is given back only after the object was destroyed. *)
(***************************************************************************)
CONSTANTS
  Ptrs,    \* the SharedPtr variables of the program
  Blocks   \* the heap blocks a ControlBlockImpl can be placed in

VARIABLES
  holders, \* holders[b]: the handles that own a share of the object in b
  object   \* object[b]: "free" (no memory), "live" or "destroyed"

vars == <<holders, object>>

TypeOK ==
  /\ holders \in [Blocks -> SUBSET Ptrs]
  /\ object \in [Blocks -> {"free", "live", "destroyed"}]

Init ==
  /\ holders = [b \in Blocks |-> {}]
  /\ object = [b \in Blocks |-> "free"]

HoldsNothing(p) == \A b \in Blocks : p \notin holders[b]

Create(b, p) ==
  /\ object[b] = "free"
  /\ HoldsNothing(p)
  /\ object' = [object EXCEPT ![b] = "live"]
  /\ holders' = [holders EXCEPT ![b] = {p}]

Share(b, p) ==
  /\ holders[b] # {}
  /\ HoldsNothing(p)
  /\ holders' = [holders EXCEPT ![b] = @ \union {p}]
  /\ UNCHANGED object

Transfer(b, q, p) ==
  /\ q \in holders[b]
  /\ HoldsNothing(p)
  /\ holders' = [holders EXCEPT ![b] = (@ \ {q}) \union {p}]
  /\ UNCHANGED object

Drop(b, p) ==
  /\ p \in holders[b]
  /\ holders' = [holders EXCEPT ![b] = @ \ {p}]
  /\ UNCHANGED object

Destroy(b) ==
  /\ object[b] = "live"
  /\ holders[b] = {}
  /\ object' = [object EXCEPT ![b] = "destroyed"]
  /\ UNCHANGED holders

Free(b) ==
  /\ object[b] = "destroyed"
  /\ object' = [object EXCEPT ![b] = "free"]
  /\ UNCHANGED holders

Next ==
  \E b \in Blocks :
    \/ \E p \in Ptrs : Create(b, p) \/ Share(b, p) \/ Drop(b, p)
    \/ \E p, q \in Ptrs : Transfer(b, q, p)
    \/ Destroy(b)
    \/ Free(b)

Safety == Init /\ [][Next]_vars

\* An abandoned object does not stay: it is destroyed and its memory freed.
Spec == Safety /\ \A b \in Blocks : WF_vars(Destroy(b)) /\ WF_vars(Free(b))

==============================================================================
