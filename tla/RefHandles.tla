----------------------------- MODULE RefHandles -----------------------------
(***************************************************************************)
(* Three move-only handles of the same shape: kpp::BPFProgram              *)
(* (kpp/bpf/BPFProgram.hpp), kpp::DstEntry (kpp/net/DstEntry.hpp) and      *)
(* kpp::KSet (kpp/core/Kset.hpp).  Each owns one reference to a kernel     *)
(* object and gives it back in its destructor and when it is assigned to.  *)
(* A behaviour is one of a single class.                                   *)
(*                                                                         *)
(* External, as the code uses it: a program is referenced by the file that *)
(* the user opened, a route by the routing table, and either lets go at    *)
(* any time; bpf_prog_get returns an error once the file is closed; the    *)
(* last reference frees the object.  A kset is an object of its own name:  *)
(* kset_create_and_add returns NULL when memory runs out or the name is    *)
(* taken, and kset_unregister frees the kset with its name.                *)
(***************************************************************************)
EXTENDS Naturals, FiniteSets

CONSTANTS
  Handles,  \* storage for the handles
  Objects,  \* programs, routes or names of ksets
  nullptr, NoObject

ConstantsAssumption ==
  IsFiniteSet(Handles) /\ nullptr # NoObject /\ {nullptr, NoObject} \intersect Objects = {}

VARIABLES
  class,   \* "BPFProgram", "DstEntry" or "KSet"
  ptr,     \* ptr[h]: prog_, dst_ or kset_ of the handle in h, or NoObject
  count,   \* count[o]: the references to o; 0 when it is free
  kernel   \* the objects that a file or the routing table refers to

vars == <<class, ptr, count, kernel>>

Free(h) == ptr[h] = NoObject
Alive(h) == ptr[h] # NoObject

Release(p) == [o \in Objects |-> IF o = p THEN count[o] - 1 ELSE count[o]]

\* What the constructors share: h is built on object o, with a reference.
Acquire(h, o) ==
  /\ Free(h)
  /\ ptr' = [ptr EXCEPT ![h] = o]
  /\ count' = [count EXCEPT ![o] = @ + 1]
  /\ UNCHANGED <<class, kernel>>

\* ... or on a null pointer.
AcquireNothing(h) ==
  /\ Free(h)
  /\ ptr' = [ptr EXCEPT ![h] = nullptr]
  /\ UNCHANGED <<class, count, kernel>>

\* The three destructors, moves and assignments are the same code but for the
\* function that gives back the reference.
Destruct(h) ==
  /\ Alive(h)
  /\ count' = Release(ptr[h])
  /\ ptr' = [ptr EXCEPT ![h] = NoObject]
  /\ UNCHANGED <<class, kernel>>

MoveConstruct(h, other) ==
  /\ Free(h) /\ Alive(other)
  /\ ptr' = [ptr EXCEPT ![h] = ptr[other], ![other] = nullptr]
  /\ UNCHANGED <<class, count, kernel>>

MoveAssignLeaks(h, other) ==
  /\ Alive(h) /\ Alive(other) /\ h # other
  /\ ptr' = [ptr EXCEPT ![h] = ptr[other], ![other] = nullptr]
  /\ UNCHANGED <<class, count, kernel>>

MoveAssign(h, other) ==
  /\ Alive(h) /\ Alive(other) /\ h # other
  /\ count' = Release(ptr[h])
  /\ ptr' = [ptr EXCEPT ![h] = ptr[other], ![other] = nullptr]
  /\ UNCHANGED <<class, kernel>>

------------------------------------------------------------------------------
\* bpf::program_from_fd: an error pointer becomes a null handle.
program_from_fd(h, o) ==
  /\ class = "BPFProgram"
  /\ IF o \in kernel THEN Acquire(h, o) ELSE AcquireNothing(h)

DestructProgram(h) == class = "BPFProgram" /\ Destruct(h)
MoveConstructProgram(h, other) == class = "BPFProgram" /\ MoveConstruct(h, other)
MoveAssignProgram(h, other) == class = "BPFProgram" /\ MoveAssign(h, other)

\* DstEntry(dst): a route that was looked up, with its reference, or none.
ConstructDst(h, o) ==
  /\ class = "DstEntry"
  /\ IF o \in kernel THEN Acquire(h, o) ELSE AcquireNothing(h)

DestructDst(h) == class = "DstEntry" /\ Destruct(h)
MoveConstructDst(h, other) == class = "DstEntry" /\ MoveConstruct(h, other)
MoveAssignDst(h, other) == class = "DstEntry" /\ MoveAssign(h, other)

\* KSet(name, parent).
ConstructKSet(h, name) ==
  /\ class = "KSet"
  /\ (count[name] = 0 /\ Acquire(h, name)) \/ AcquireNothing(h)

DestructKSet(h) == class = "KSet" /\ Destruct(h)
MoveConstructKSet(h, other) == class = "KSet" /\ MoveConstruct(h, other)
MoveAssignKSet(h, other) == class = "KSet" /\ MoveAssign(h, other)

\* The file is closed, or the route leaves the table.
KernelLetsGo(o) ==
  /\ o \in kernel
  /\ kernel' = kernel \ {o}
  /\ count' = Release(o)
  /\ UNCHANGED <<class, ptr>>

------------------------------------------------------------------------------
Init ==
  /\ class \in {"BPFProgram", "DstEntry", "KSet"}
  /\ ptr = [h \in Handles |-> NoObject]
  /\ kernel = IF class = "KSet" THEN {} ELSE Objects
  /\ count = [o \in Objects |-> IF o \in kernel THEN 1 ELSE 0]

Next ==
  \/ \E h \in Handles, o \in Objects : program_from_fd(h, o) \/ ConstructDst(h, o) \/ ConstructKSet(h, o)
  \/ \E h \in Handles : DestructProgram(h) \/ DestructDst(h) \/ DestructKSet(h)
  \/ \E h, other \in Handles :
       \/ MoveConstructProgram(h, other) \/ MoveConstructDst(h, other) \/ MoveConstructKSet(h, other)
       \/ MoveAssignProgram(h, other) \/ MoveAssignDst(h, other) \/ MoveAssignKSet(h, other)
  \/ \E o \in Objects : KernelLetsGo(o)

Spec == Init /\ [][Next]_vars

------------------------------------------------------------------------------
(***************************************************************************)
(* Properties.                                                             *)
(***************************************************************************)

\* Every variable keeps its type.
TypeOK ==
  /\ class \in {"BPFProgram", "DstEntry", "KSet"}
  /\ ptr \in [Handles -> Objects \union {nullptr, NoObject}]
  /\ count \in [Objects -> Nat] /\ kernel \subseteq Objects

HandlesOn(o) == {h \in Handles : ptr[h] = o}

\* Every object has one reference for each handle that points to it and one
\* for the kernel's own: no sequence of moves, assignments and destructors
\* leaks one or gives one back twice, and run, operator-> and kobj of a handle
\* that is not null reach an object that is not freed.
RefsBalanced ==
  \A o \in Objects : count[o] = Cardinality(HandlesOn(o)) + (IF o \in kernel THEN 1 ELSE 0)

\* A kset belongs to one handle: two KSets never unregister the same one, even
\* when a KSet is assigned a new one of its own name.
KSetHasOneOwner == class = "KSet" => \A o \in Objects : Cardinality(HandlesOn(o)) <= 1
==============================================================================
