------------------------------ MODULE Attribute ------------------------------
(***************************************************************************)
(* kpp::Attribute and kpp::AttributeGroup (kpp/sysfs/Attribute.hpp) in an  *)
(* owner that has a kpp::KObject (kpp/core/KObject.hpp).  User programs    *)
(* read and write the file while the owner is built, shared with get and   *)
(* put, removed from sysfs and, by the last put, freed.                    *)
(*                                                                         *)
(* External, as the code uses it: kobject_init sets one reference;         *)
(* kobject_add and sysfs_create_group may fail; sysfs calls the trampoline *)
(* that is set and answers -EIO when there is none; kobject_del, which the *)
(* last kobject_put calls too, hides the file and waits for the calls that *)
(* are under way; release then frees the owner with the Attribute in it.   *)
(***************************************************************************)
EXTENDS Naturals, FiniteSets

CONSTANTS
  Users,   \* threads that use the file
  MaxRefs  \* bound on the references

ConstantsAssumption == IsFiniteSet(Users) /\ MaxRefs \in Nat \ {0}

Ops == {"show", "store"}

VARIABLES
  life,     \* "none", "built", "added", "deleting" (in kobject_del), "deleted", "freeing" (in the last put)
  ptrs,     \* the operations with a member function: show_ptr_, store_ptr_
  fops,     \* the operations with a trampoline: kobj_attr_.show, kobj_attr_.store
  visible,  \* the file is in sysfs
  refs,     \* the references of the kobject
  at        \* at[u]: where u is ("none", "trampoline" or "member") and for which operation

Nowhere == [pc |-> "none", op |-> "none"]
At(p, o) == [pc |-> p, op |-> o]

vars == <<life, ptrs, fops, visible, refs, at>>

ConstructUnchecked(S) ==
  /\ life = "none"
  /\ life' = "built" /\ ptrs' = S /\ fops' = Ops
  /\ UNCHANGED <<visible, refs, at>>

\* Attribute(name, mode, show, store) of the owner.
Construct(S) ==
  /\ life = "none"
  /\ life' = "built" /\ ptrs' = S /\ fops' = S
  /\ UNCHANGED <<visible, refs, at>>

\* After a failure the owner has to be put all the same.
init_and_add ==
  /\ life = "built"
  /\ refs' = 1 /\ life' \in {"added", "deleted"}
  /\ UNCHANGED <<ptrs, fops, visible, at>>

\* AttributeGroup(name, attrs), and sysfs_create_group with it.
CreateGroup ==
  /\ life = "added" /\ ~visible
  /\ visible' = TRUE
  /\ UNCHANGED <<life, ptrs, fops, refs, at>>

get ==
  /\ refs \in 1 .. MaxRefs - 1 /\ life # "freeing"
  /\ refs' = refs + 1
  /\ UNCHANGED <<life, ptrs, fops, visible, at>>

del ==
  /\ life = "added"
  /\ life' = "deleting" /\ visible' = FALSE
  /\ UNCHANGED <<ptrs, fops, refs, at>>

Quiet == \A u \in Users : at[u] = Nowhere

DelReturns ==
  /\ life = "deleting" /\ Quiet
  /\ life' = "deleted"
  /\ UNCHANGED <<ptrs, fops, visible, refs, at>>

\* put: the caller of del keeps its reference until del has returned.
put ==
  /\ refs > (IF life = "deleting" THEN 1 ELSE 0)
  /\ refs' = refs - 1
  /\ IF refs = 1 THEN life' = "freeing" /\ visible' = FALSE ELSE UNCHANGED <<life, visible>>
  /\ UNCHANGED <<ptrs, fops, at>>

\* The last put is behind kobject_del: release frees the owner.
Release ==
  /\ life = "freeing" /\ Quiet
  /\ life' = "none" /\ ptrs' = {} /\ fops' = {}
  /\ UNCHANGED <<visible, refs, at>>

------------------------------------------------------------------------------
\* A program reads or writes the file.
Access(u, op) ==
  /\ visible /\ at[u] = Nowhere /\ op \in fops
  /\ at' = [at EXCEPT ![u] = At("trampoline", op)]
  /\ UNCHANGED <<life, ptrs, fops, visible, refs>>

Trampoline(u, op) ==
  /\ at[u] = At("trampoline", op)
  /\ at' = [at EXCEPT ![u] = IF op \in ptrs THEN At("member", op) ELSE Nowhere]
  /\ UNCHANGED <<life, ptrs, fops, visible, refs>>

show_trampoline(u) == Trampoline(u, "show")
store_trampoline(u) == Trampoline(u, "store")

MemberReturns(u) ==
  /\ at[u].pc = "member"
  /\ at' = [at EXCEPT ![u] = Nowhere]
  /\ UNCHANGED <<life, ptrs, fops, visible, refs>>

------------------------------------------------------------------------------
Init ==
  /\ life = "none" /\ ptrs = {} /\ fops = {} /\ visible = FALSE /\ refs = 0
  /\ at = [u \in Users |-> Nowhere]

Next ==
  \/ \E S \in SUBSET Ops : Construct(S)
  \/ init_and_add \/ CreateGroup \/ get \/ del \/ DelReturns \/ put \/ Release
  \/ \E u \in Users :
       \/ \E op \in Ops : Access(u, op)
       \/ show_trampoline(u) \/ store_trampoline(u) \/ MemberReturns(u)

\* Calls that were entered end, and kobject_del returns when it can.
Fairness ==
  /\ WF_vars(DelReturns) /\ WF_vars(Release)
  /\ \A u \in Users : WF_vars(show_trampoline(u) \/ store_trampoline(u) \/ MemberReturns(u))

Spec == Init /\ [][Next]_vars /\ Fairness

------------------------------------------------------------------------------
(***************************************************************************)
(* Properties.                                                             *)
(***************************************************************************)

\* Every variable keeps its type.
TypeOK ==
  /\ life \in {"none", "built", "added", "deleting", "deleted", "freeing"}
  /\ ptrs \subseteq Ops /\ fops \subseteq Ops /\ visible \in BOOLEAN /\ refs \in 0 .. MaxRefs
  /\ \A u \in Users : at[u] = Nowhere \/ at[u] \in [pc : {"trampoline", "member"}, op : Ops]

\* Whenever a program is inside of a trampoline or of the member function it
\* calls, the owner is there, with the member function for that operation:
\* container_of leads to a live object although its last put may already be
\* under way, and the trampolines never have to answer -EIO themselves.
TrampolineSeesOwner ==
  \A u \in Users : at[u] # Nowhere => life \notin {"none", "built"} /\ at[u].op \in ptrs

\* del and the last put return, whatever the programs do.
RemovalReturns == life \in {"deleting", "freeing"} ~> life \notin {"deleting", "freeing"}
==============================================================================
