------------------------------ MODULE UniquePtr ------------------------------
(***************************************************************************)
(* kpp::UniquePtr<T>, DefaultDeleter and kpp::make_unique                  *)
(* (kpp/memory/UniquePtr.hpp): single ownership of a heap object.          *)
(*                                                                         *)
(* A UniquePtr has no synchronisation and its members touch nothing        *)
(* another thread can see but the heap, so each member is one step.  Its   *)
(* users follow the contract of the constructor: a raw pointer handed to   *)
(* it is one they own, that is one that release() gave them.               *)
(***************************************************************************)
CONSTANTS
  Ptrs,     \* storage for UniquePtr objects
  Blocks,   \* heap blocks that can hold a T
  nullptr,  \* the value of ptr_ in an empty UniquePtr
  NoObject  \* ptr_[p] when no UniquePtr lives in p

ASSUME ConstantsAssumption ==
  /\ nullptr \notin Blocks
  /\ NoObject \notin Blocks
  /\ nullptr # NoObject

VARIABLES
  ptr_,        \* ptr_[p]: the block p owns, nullptr or NoObject
  allocated,   \* the blocks that kmalloc returned and nobody freed
  constructed, \* the blocks in which a T was constructed and ~T() has not run
  raw          \* the blocks that callers of release() own

vars == <<ptr_, allocated, constructed, raw>>

Alive(p) == ptr_[p] # NoObject

\* DefaultDeleter on the blocks in B: kfree and nothing else, ~T() is not called.
DefaultDeleter(B) ==
  /\ allocated' = allocated \ B
  /\ UNCHANGED constructed

Owned(p) == {ptr_[p]} \intersect Blocks

------------------------------------------------------------------------------
\* UniquePtr(ptr), with nullptr or a pointer the caller owns.
ConstructFrom(p, b) ==
  /\ ~Alive(p)
  /\ b \in raw \union {nullptr}
  /\ ptr_' = [ptr_ EXCEPT ![p] = b]
  /\ raw' = raw \ {b}
  /\ UNCHANGED <<allocated, constructed>>

\* p = make_unique<T>(flags): kmalloc may fail.
make_unique(p) ==
  /\ ~Alive(p)
  /\ \/ /\ ptr_' = [ptr_ EXCEPT ![p] = nullptr]
        /\ UNCHANGED <<allocated, constructed>>
     \/ \E b \in Blocks \ allocated :
          /\ ptr_' = [ptr_ EXCEPT ![p] = b]
          /\ allocated' = allocated \union {b}
          /\ constructed' = constructed \union {b}
  /\ UNCHANGED raw

MoveConstructCopies(p, q) ==
  /\ ~Alive(p) /\ Alive(q)
  /\ ptr_' = [ptr_ EXCEPT ![p] = ptr_[q]]
  /\ UNCHANGED <<allocated, constructed, raw>>

MoveConstruct(p, q) ==
  /\ ~Alive(p) /\ Alive(q)
  /\ ptr_' = [ptr_ EXCEPT ![p] = ptr_[q], ![q] = nullptr]
  /\ UNCHANGED <<allocated, constructed, raw>>

AnyOther(p, q) == TRUE

\* The check "this != &other": a handle moved to itself is left alone.
NotSelf(p, q) == p # q

MoveAssign(p, q) ==
  /\ Alive(p) /\ Alive(q)
  /\ NotSelf(p, q)
  /\ DefaultDeleter(Owned(p))
  /\ ptr_' = [ptr_ EXCEPT ![p] = ptr_[q], ![q] = nullptr]
  /\ UNCHANGED raw

\* p.release(): the caller owns the pointer from now on.
release(p) ==
  /\ Alive(p)
  /\ ptr_' = [ptr_ EXCEPT ![p] = nullptr]
  /\ raw' = raw \union Owned(p)
  /\ UNCHANGED <<allocated, constructed>>

Destruct(p) ==
  /\ Alive(p)
  /\ DefaultDeleter(Owned(p))
  /\ ptr_' = [ptr_ EXCEPT ![p] = NoObject]
  /\ UNCHANGED raw

------------------------------------------------------------------------------
Init ==
  /\ ptr_ = [p \in Ptrs |-> NoObject]
  /\ allocated = {}
  /\ constructed = {}
  /\ raw = {}

Next ==
  \/ \E p \in Ptrs, b \in Blocks \union {nullptr} : ConstructFrom(p, b)
  \/ \E p \in Ptrs : make_unique(p) \/ release(p) \/ Destruct(p)
  \/ \E p, q \in Ptrs : MoveConstruct(p, q) \/ MoveAssign(p, q)

Spec == Init /\ [][Next]_vars

------------------------------------------------------------------------------
(***************************************************************************)
(* Properties.                                                             *)
(***************************************************************************)

\* Every variable keeps its type.
TypeOK ==
  /\ ptr_ \in [Ptrs -> Blocks \union {nullptr, NoObject}]
  /\ allocated \subseteq Blocks
  /\ constructed \subseteq Blocks
  /\ raw \subseteq Blocks

\* Every block that make_unique allocated has one owner until it is freed, a
\* UniquePtr or the caller of release(), and a freed block has none: no leak,
\* no double free and no dangling UniquePtr.
OneOwner ==
  /\ \A p, q \in Ptrs : p # q /\ ptr_[p] \in Blocks => ptr_[p] # ptr_[q]
  /\ \A p \in Ptrs : ptr_[p] \notin raw
  /\ allocated = raw \union {b \in Blocks : \E p \in Ptrs : ptr_[p] = b}

\* The destructor and move assignment free a block only when the UniquePtr
\* that owned it ends or takes over the pointer of another one; in particular
\* moving a UniquePtr to itself does not lose its object.
FreedOnlyByItsOwner ==
  [][\A b \in allocated \ allocated' :
       \E p \in Ptrs :
         /\ ptr_[p] = b
         /\ \/ ptr_'[p] = NoObject
            \/ \E q \in Ptrs \ {p} : Alive(q) /\ ptr_'[p] = ptr_[q] /\ ptr_'[q] = nullptr]_vars

\* What the documentation promises of RAII memory management, no resource
\* leak: the object in a freed block was destroyed, so that its destructor
\* gave back what the object held.
DestroyedWhenFreed == constructed \subseteq allocated
==============================================================================
