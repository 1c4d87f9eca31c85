--------------------------- MODULE UniquePtrProofs ---------------------------
(***************************************************************************)
(* Proofs about UniquePtr, for any number of handles and blocks.  TypeOK   *)
(* and OneOwner together are inductive: every member moves the one owner   *)
(* of a block, and make_unique takes only blocks that have none.           *)
(***************************************************************************)
EXTENDS UniquePtr, TLAPS

IInv == TypeOK /\ OneOwner

\* Before the first UniquePtr is constructed nothing is allocated or owned.
LEMMA InitInv == Init => IInv
BY ConstantsAssumption DEF Init, IInv, TypeOK, OneOwner

\* Every member of UniquePtr, and make_unique, keeps one owner per block.
LEMMA NextInv == IInv /\ [Next]_vars => IInv'
<1> SUFFICES ASSUME IInv, [Next]_vars PROVE IInv'
  OBVIOUS
<1> USE ConstantsAssumption DEF IInv
<1>1. CASE UNCHANGED vars
  BY <1>1 DEF vars, TypeOK, OneOwner
<1>2. ASSUME NEW p \in Ptrs, NEW b \in Blocks \union {nullptr}, ConstructFrom(p, b) PROVE IInv'
  <2>1. TypeOK'
    BY <1>2 DEF ConstructFrom, TypeOK
  <2>2. OneOwner'
    BY <1>2 DEF ConstructFrom, TypeOK, OneOwner, Alive
  <2> QED BY <2>1, <2>2
<1>3. ASSUME NEW p \in Ptrs, make_unique(p) PROVE IInv'
  <2>1. TypeOK'
    BY <1>3 DEF make_unique, TypeOK
  <2>2. OneOwner'
    BY <1>3 DEF make_unique, TypeOK, OneOwner, Alive
  <2> QED BY <2>1, <2>2
<1>4. ASSUME NEW p \in Ptrs, release(p) PROVE IInv'
  <2>1. TypeOK'
    BY <1>4 DEF release, TypeOK, Owned
  <2>2. OneOwner'
    BY <1>4 DEF release, TypeOK, OneOwner, Alive, Owned
  <2> QED BY <2>1, <2>2
<1>5. ASSUME NEW p \in Ptrs, Destruct(p) PROVE IInv'
  <2>1. TypeOK'
    BY <1>5 DEF Destruct, TypeOK, DefaultDeleter
  <2>2. OneOwner'
    BY <1>5 DEF Destruct, TypeOK, OneOwner, Alive, Owned, DefaultDeleter
  <2> QED BY <2>1, <2>2
<1>6. ASSUME NEW p \in Ptrs, NEW q \in Ptrs, MoveConstruct(p, q) PROVE IInv'
  <2>1. TypeOK'
    BY <1>6 DEF MoveConstruct, TypeOK
  <2>2. OneOwner'
    BY <1>6 DEF MoveConstruct, TypeOK, OneOwner, Alive
  <2> QED BY <2>1, <2>2
<1>7. ASSUME NEW p \in Ptrs, NEW q \in Ptrs, MoveAssign(p, q) PROVE IInv'
  <2>1. TypeOK'
    BY <1>7 DEF MoveAssign, TypeOK, DefaultDeleter
  <2>2. OneOwner'
    BY <1>7 DEF MoveAssign, NotSelf, TypeOK, OneOwner, Alive, Owned, DefaultDeleter
  <2> QED BY <2>1, <2>2
<1> QED BY <1>1, <1>2, <1>3, <1>4, <1>5, <1>6, <1>7 DEF Next

\* Every block has one owner until it is freed and none afterwards, whatever
\* sequence of constructions, moves, releases and destructions a program runs.
THEOREM UniqueOwnership == Spec => [](TypeOK /\ OneOwner)
BY InitInv, NextInv, PTL DEF Spec, IInv

\* A step that frees a block is the end of its UniquePtr or a move from
\* another one into it: never a self-move, a construction or a release().
THEOREM FreedByOwner == Spec => FreedOnlyByItsOwner
<1>1. IInv /\ [Next]_vars =>
        [\A b \in allocated \ allocated' :
           \E p \in Ptrs :
             /\ ptr_[p] = b
             /\ \/ ptr_'[p] = NoObject
                \/ \E q \in Ptrs \ {p} : Alive(q) /\ ptr_'[p] = ptr_[q] /\ ptr_'[q] = nullptr]_vars
  <2> SUFFICES ASSUME IInv, Next, NEW b \in allocated \ allocated'
               PROVE  \E p \in Ptrs :
                        /\ ptr_[p] = b
                        /\ \/ ptr_'[p] = NoObject
                           \/ \E q \in Ptrs \ {p} : Alive(q) /\ ptr_'[p] = ptr_[q] /\ ptr_'[q] = nullptr
    OBVIOUS
  <2>1. ASSUME NEW p \in Ptrs, NEW c \in Blocks \union {nullptr}, ConstructFrom(p, c) PROVE FALSE
    BY <2>1 DEF ConstructFrom
  <2>2. ASSUME NEW p \in Ptrs, make_unique(p) \/ release(p) PROVE FALSE
    BY <2>2 DEF make_unique, release
  <2>3. ASSUME NEW p \in Ptrs, Destruct(p) PROVE ptr_[p] = b /\ ptr_'[p] = NoObject
    BY <2>3 DEF Destruct, DefaultDeleter, Owned, IInv, TypeOK
  <2>4. ASSUME NEW p \in Ptrs, NEW q \in Ptrs, MoveConstruct(p, q) PROVE FALSE
    BY <2>4 DEF MoveConstruct
  <2>5. ASSUME NEW p \in Ptrs, NEW q \in Ptrs, MoveAssign(p, q)
        PROVE  ptr_[p] = b /\ q # p /\ Alive(q) /\ ptr_'[p] = ptr_[q] /\ ptr_'[q] = nullptr
    BY <2>5 DEF MoveAssign, NotSelf, DefaultDeleter, Owned, IInv, TypeOK
  <2> QED BY <2>1, <2>2, <2>3, <2>4, <2>5 DEF Next
<1> QED BY <1>1, InitInv, NextInv, PTL DEF Spec, FreedOnlyByItsOwner
==============================================================================
