-------------------------- MODULE SharedPtrProofs --------------------------
(***************************************************************************)
(* Proofs about SharedPtr, for any number of threads, handles and blocks.  *)
(*                                                                         *)
(* The argument.  The counter of a live block counts its owners (handles   *)
(* that point to it and are neither copied-but-uncounted nor released), so *)
(* the thread whose decrement finds the value 1 removes the last owner and *)
(* has the block for itself, and any thread about to touch a counter still *)
(* has an owner in its hands.  IInv adds the bookkeeping this needs:       *)
(* CallInv (what a call in progress may assume about its handles) and      *)
(* ExclusiveInv (a handle being written belongs to one call).              *)
(*                                                                         *)
(* Every action has a lemma that says what it does to Owners (the only     *)
(* facts the counting and the refinement need) and one that says it keeps  *)
(* IInv.                                                                   *)
(***************************************************************************)
EXTENDS SharedPtr, FiniteSetTheorems, TLAPS

------------------------------------------------------------------------------
(***************************************************************************)
(* Types of calls, and cardinalities.                                      *)
(***************************************************************************)

\* The fields of a call record have their types, and an idle call is Idle.
LEMMA CallFacts ==
  ASSUME TypeOK, NEW t \in Threads
  PROVE  /\ call[t].op \in Ops /\ call[t].at \in Stages
         /\ call[t].dst \in Ptrs \union {NoPtr} /\ call[t].src \in Ptrs \union {NoPtr}
         /\ call[t].at = "idle" => call[t] = Idle
BY DEF TypeOK, Calls

\* Moving a call to its next stage changes its stage and nothing else.
LEMMA GotoType ==
  ASSUME TypeOK, NEW t \in Threads, call[t].at # "idle",
         NEW s \in Stages \ {"idle"}, Goto(t, s)
  PROVE  /\ call' \in [Threads -> Calls]
         /\ call'[t].at = s
         /\ call'[t].op = call[t].op /\ call'[t].dst = call[t].dst /\ call'[t].src = call[t].src
         /\ \A u \in Threads \ {t} : call'[u] = call[u]
BY DEF TypeOK, Calls, Goto, Idle

\* Returning from a member function leaves the other calls alone.
LEMMA IdleType ==
  ASSUME TypeOK, NEW t \in Threads, call' = [call EXCEPT ![t] = Idle]
  PROVE  /\ call' \in [Threads -> Calls]
         /\ call'[t] = Idle
         /\ \A u \in Threads \ {t} : call'[u] = call[u]
BY DEF TypeOK, Calls, Idle, Ops, Stages

\* Entering a member function leaves the other calls alone.
LEMMA InCallType ==
  ASSUME TypeOK, NEW t \in Threads, NEW o \in Ops, NEW s \in Stages \ {"idle"},
         NEW p \in Ptrs, NEW q \in Ptrs \union {NoPtr},
         call' = [call EXCEPT ![t] = InCall(o, s, p, q)]
  PROVE  /\ call' \in [Threads -> Calls]
         /\ call'[t] = InCall(o, s, p, q)
         /\ \A u \in Threads \ {t} : call'[u] = call[u]
BY DEF TypeOK, Calls, Idle, InCall

\* The owners of a block are handles, so there are finitely many.
LEMMA OwnersFinite ==
  ASSUME NEW b
  PROVE  IsFiniteSet(Owners(b)) /\ Cardinality(Owners(b)) \in Nat
<1>1. Owners(b) \subseteq Ptrs
  BY DEF Owners
<1> QED BY <1>1, FS_Subset, FS_CardinalityType, ConstantsAssumption

\* Replacing a member of a finite set by a new one keeps its size.
LEMMA SwapCardinality ==
  ASSUME NEW S, IsFiniteSet(S), NEW q \in S, NEW p, p \notin S
  PROVE  /\ Cardinality((S \ {q}) \union {p}) = Cardinality(S)
         /\ IsFiniteSet((S \ {q}) \union {p})
<1>1. IsFiniteSet(S \ {q}) /\ Cardinality(S \ {q}) = Cardinality(S) - 1
  BY FS_RemoveElement
<1>2. p \notin S \ {q} /\ Cardinality(S) \in Nat
  BY FS_CardinalityType
<1>3. Cardinality((S \ {q}) \union {p}) = Cardinality(S \ {q}) + 1 /\ IsFiniteSet((S \ {q}) \union {p})
  BY <1>1, <1>2, FS_AddElement
<1> QED BY <1>1, <1>2, <1>3

------------------------------------------------------------------------------
(***************************************************************************)
(* What each action does to the owners of a block.                         *)
(***************************************************************************)

\* The default constructor makes an empty handle: no block gains an owner.
LEMMA DefaultConstructOwners ==
  ASSUME IInv, NEW t \in Threads, NEW p \in Ptrs, DefaultConstruct(t, p), NEW b \in Blocks
  PROVE  Owners(b)' = Owners(b)
BY ConstantsAssumption DEF IInv, TypeOK, DefaultConstruct, Owners, Counted, Alive

\* make_shared leaves the owners alone when kmalloc fails, and otherwise
\* makes the new handle the only owner of the block it allocated.
LEMMA MakeSharedOwners ==
  ASSUME IInv, NEW t \in Threads, NEW p \in Ptrs, make_shared(t, p)
  PROVE  \/ /\ cb_'[p] = nullptr /\ UNCHANGED <<mem, shared_count>>
            /\ \A b \in Blocks : Owners(b)' = Owners(b)
         \/ \E b \in Blocks :
              /\ mem[b] = "free"
              /\ mem' = [mem EXCEPT ![b] = "live"]
              /\ shared_count' = [shared_count EXCEPT ![b] = 1]
              /\ cb_' = [cb_ EXCEPT ![p] = b]
              /\ Owners(b)' = {p}
              /\ \A c \in Blocks \ {b} : Owners(c)' = Owners(c)
BY ConstantsAssumption DEF IInv, TypeOK, OwnersInv, make_shared, Owners, Counted, Alive, Unused

\* A handle that copied the pointer but has not incremented the counter is
\* not an owner yet.
LEMMA CopyConstructOwners ==
  ASSUME IInv, NEW t \in Threads, NEW p \in Ptrs, NEW q \in Ptrs, CopyConstruct(t, p, q), NEW b \in Blocks
  PROVE  Owners(b)' = Owners(b)
BY ConstantsAssumption, InCallType DEF IInv, TypeOK, CopyConstruct, Owners, Counted, Alive, Unused, Idle, InCall, Ops, Stages

\* The decrement in release() takes away the share of the handle released.
LEMMA DecOwners ==
  ASSUME IInv, NEW t \in Threads, DecAndTest(t), NEW p, p = call[t].dst
  PROVE  /\ cb_[p] \in Blocks /\ p \in Ptrs
         /\ \A b \in Blocks :
              IF b = cb_[p] THEN p \in Owners(b) /\ Owners(b)' = Owners(b) \ {p}
                            ELSE Owners(b)' = Owners(b)
<1>1. p \in Ptrs /\ cb_[p] \in Blocks /\ call[t].at = "dec"
  BY DEF IInv, DecAndTest, CallInv
<1> QED
  BY <1>1, ConstantsAssumption, GotoType, CallFacts
  DEF IInv, TypeOK, DecAndTest, Owners, Counted, CallInv, ExclusiveInv, Stages

\* The move constructor hands the share of the source to the new handle.
LEMMA MoveConstructOwners ==
  ASSUME IInv, NEW t \in Threads, NEW p \in Ptrs, NEW q \in Ptrs, MoveConstruct(t, p, q)
  PROVE  \A b \in Blocks :
           IF b = cb_[q]
             THEN /\ q \in Owners(b) /\ p \notin Owners(b)
                  /\ Owners(b)' = (Owners(b) \ {q}) \union {p}
             ELSE Owners(b)' = Owners(b)
<1>1. p # q /\ cb_[p] = NoObject /\ cb_[q] # NoObject /\ Unused(p) /\ Unused(q)
  BY DEF MoveConstruct, Alive
<1>2. cb_'[p] = cb_[q] /\ cb_'[q] = nullptr /\ \A r \in Ptrs \ {p, q} : cb_'[r] = cb_[r]
  BY <1>1 DEF IInv, TypeOK, MoveConstruct
<1>3. \A r \in Ptrs : Counted(r)' <=> Counted(r)
  BY DEF MoveConstruct, Counted
<1>4. Counted(p) /\ Counted(q)
  BY <1>1 DEF Counted, Unused
<1> QED BY <1>1, <1>2, <1>3, <1>4, ConstantsAssumption DEF Owners

\* Entering an assignment or the destructor changes no share.
LEMMA BeginOwners ==
  ASSUME IInv, NEW t \in Threads, NEW o \in Ops, NEW p \in Ptrs, NEW q \in Ptrs \union {NoPtr},
         call[t] = Idle, Unused(p), UNCHANGED cb_,
         call' = [call EXCEPT ![t] = InCall(o, ReleaseEntry(p), p, q)],
         NEW b \in Blocks
  PROVE  Owners(b)' = Owners(b)
<1>1. ReleaseEntry(p) \in Stages \ {"idle"}
  BY DEF ReleaseEntry, Stages
<1> QED
  BY <1>1, InCallType, ConstantsAssumption
  DEF IInv, TypeOK, Owners, Counted, Unused, Idle, InCall, ReleaseEntry

\* Running ~T() and kfree() changes no share: the handle gave it up before.
LEMMA GotoOwners ==
  ASSUME IInv, NEW t \in Threads, call[t].at \in {"destroy", "free"},
         NEW s \in {"free", "finish"}, Goto(t, s), UNCHANGED cb_, NEW b \in Blocks
  PROVE  Owners(b)' = Owners(b)
BY GotoType, CallFacts DEF IInv, Owners, Counted, Stages

\* The end of the destructor changes no share.
LEMMA FinishDestructOwners ==
  ASSUME IInv, NEW t \in Threads, FinishDestruct(t), NEW b \in Blocks
  PROVE  Owners(b)' = Owners(b)
BY IdleType, CallFacts, ConstantsAssumption
DEF IInv, TypeOK, CallInv, ExclusiveInv, FinishDestruct, Owners, Counted, Idle

\* The assignment that copied a pointer owns nothing until its increment.
LEMMA TakeCopyOwners ==
  ASSUME IInv, NEW t \in Threads, TakeCopy(t), NEW b \in Blocks
  PROVE  Owners(b)' = Owners(b)
BY IdleType, GotoType, CallFacts, ConstantsAssumption
DEF IInv, TypeOK, CallInv, ExclusiveInv, TakeCopy, Owners, Counted, Idle, Stages

\* Move assignment hands the share of the source to the target.
LEMMA TakeMoveOwners ==
  ASSUME IInv, NEW t \in Threads, TakeMove(t),
         NEW p, NEW q, p = call[t].dst, q = call[t].src
  PROVE  \A b \in Blocks :
           IF b = cb_[q]
             THEN /\ q \in Owners(b) /\ p \notin Owners(b)
                  /\ Owners(b)' = (Owners(b) \ {q}) \union {p}
             ELSE Owners(b)' = Owners(b)
<1>1. p \in Ptrs /\ q \in Ptrs /\ p # q /\ call[t].at = "finish"
  BY DEF IInv, CallInv, TakeMove
<1>2. cb_'[p] = cb_[q] /\ cb_'[q] = nullptr /\ \A r \in Ptrs \ {p, q} : cb_'[r] = cb_[r]
  BY <1>1 DEF IInv, TypeOK, TakeMove
<1>3. call'[t] = Idle /\ \A u \in Threads \ {t} : call'[u] = call[u]
  BY IdleType DEF IInv, TakeMove
<1>4. \A u \in Threads \ {t} : call[u].dst # p /\ call[u].dst # q
  BY <1>1, CallFacts, ConstantsAssumption DEF IInv, ExclusiveInv, CallInv, TakeMove, Idle
<1>5. Counted(q) /\ ~Counted(p) /\ Counted(p)'
  BY <1>1, <1>3, <1>4, ConstantsAssumption DEF Counted, Idle
<1>6. \A r \in Ptrs \ {p} : Counted(r)' <=> Counted(r)
  BY <1>1, <1>3, ConstantsAssumption DEF Counted, Idle
<1> QED BY <1>1, <1>2, <1>5, <1>6, ConstantsAssumption DEF Owners

\* The increment makes the copy an owner, next to the source it copied, which
\* is still one: that is why the block cannot have been freed meanwhile.
LEMMA IncOwners ==
  ASSUME IInv, NEW t \in Threads, AtomicInc(t),
         NEW p, NEW q, p = call[t].dst, q = call[t].src
  PROVE  /\ cb_[p] \in Blocks /\ p \in Ptrs
         /\ \A b \in Blocks :
              IF b = cb_[p]
                THEN /\ q \in Owners(b) /\ p \notin Owners(b)
                     /\ Owners(b)' = Owners(b) \union {p}
                ELSE Owners(b)' = Owners(b)
<1>1. /\ p \in Ptrs /\ q \in Ptrs /\ p # q /\ call[t].at = "inc"
      /\ cb_[p] = cb_[q] /\ cb_[p] \in Blocks
  BY DEF IInv, CallInv, AtomicInc
<1>2. call'[t] = Idle /\ \A u \in Threads \ {t} : call'[u] = call[u]
  BY IdleType DEF IInv, AtomicInc
<1>3. \A u \in Threads \ {t} : call[u].dst # p /\ call[u].dst # q
  BY <1>1, CallFacts, ConstantsAssumption DEF IInv, ExclusiveInv, CallInv, Idle
<1>4. Counted(q) /\ ~Counted(p) /\ Counted(p)'
  BY <1>1, <1>2, <1>3, ConstantsAssumption DEF Counted, Idle
<1>5. \A r \in Ptrs \ {p} : Counted(r)' <=> Counted(r)
  BY <1>1, <1>2, ConstantsAssumption DEF Counted, Idle
<1>6. cb_' = cb_
  BY DEF AtomicInc
<1> QED BY <1>1, <1>4, <1>5, <1>6, ConstantsAssumption DEF Owners

------------------------------------------------------------------------------
(***************************************************************************)
(* Each action preserves IInv.                                             *)
(***************************************************************************)

\* The default constructor preserves the invariant.
LEMMA DefaultConstructInv ==
  ASSUME IInv, NEW t \in Threads, NEW p \in Ptrs, DefaultConstruct(t, p)
  PROVE  IInv'
<1>1. \A b \in Blocks : Owners(b)' = Owners(b)
  BY DefaultConstructOwners
<1>2. TypeOK' /\ CallInv' /\ ExclusiveInv'
  BY ConstantsAssumption DEF IInv, TypeOK, CallInv, ExclusiveInv, DefaultConstruct, Alive, Unused
<1>3. CountIsOwners' /\ OwnersInv'
  BY <1>1 DEF IInv, CountIsOwners, OwnersInv, DefaultConstruct
<1>4. \A u \in Threads : call[u].at # "idle" => call[u].dst # p /\ call'[u] = call[u] /\ cb_'[call[u].dst] = cb_[call[u].dst]
  BY DEF IInv, TypeOK, CallInv, DefaultConstruct, Unused
<1>5. ReclaimInv' /\ OneReclaimer' /\ NoLeak'
  BY <1>1, <1>4 DEF IInv, CallInv, ReclaimInv, OneReclaimer, NoLeak, Reclaiming, DefaultConstruct
<1> QED BY <1>2, <1>3, <1>5 DEF IInv

\* make_shared preserves the invariant, whether kmalloc fails or not.
LEMMA MakeSharedInv ==
  ASSUME IInv, NEW t \in Threads, NEW p \in Ptrs, make_shared(t, p)
  PROVE  IInv'
<1>1. call' = call /\ call[t] = Idle /\ Unused(p) /\ cb_[p] = NoObject
  BY DEF make_shared, Alive
<1>2. \A u \in Threads : call[u].at # "idle" => call[u].dst # p /\ cb_'[call[u].dst] = cb_[call[u].dst]
  BY <1>1 DEF IInv, TypeOK, CallInv, make_shared, Unused
<1>3. TypeOK' /\ CallInv' /\ ExclusiveInv'
  BY <1>1, ConstantsAssumption DEF IInv, TypeOK, CallInv, ExclusiveInv, make_shared, Alive, Unused
<1>4. CASE cb_'[p] = nullptr /\ (\A b \in Blocks : Owners(b)' = Owners(b)) /\ UNCHANGED <<mem, shared_count>>
  <2>1. CountIsOwners' /\ OwnersInv'
    BY <1>4 DEF IInv, CountIsOwners, OwnersInv
  <2>2. ReclaimInv' /\ OneReclaimer' /\ NoLeak'
    BY <1>1, <1>2, <1>4 DEF IInv, CallInv, ReclaimInv, OneReclaimer, NoLeak, Reclaiming
  <2> QED BY <1>3, <2>1, <2>2 DEF IInv
<1>5. ASSUME NEW b \in Blocks, mem[b] = "free", mem' = [mem EXCEPT ![b] = "live"],
             shared_count' = [shared_count EXCEPT ![b] = 1], cb_' = [cb_ EXCEPT ![p] = b],
             Owners(b)' = {p}, \A c \in Blocks \ {b} : Owners(c)' = Owners(c)
      PROVE  IInv'
  <2>1. Cardinality({p}) = 1
    BY FS_Singleton
  <2>2. CountIsOwners' /\ OwnersInv'
    BY <1>5, <2>1 DEF IInv, TypeOK, CountIsOwners, OwnersInv
  <2>3. \A u \in Threads : call[u].at \in {"destroy", "free"} => cb_[call[u].dst] \in Blocks \ {b}
    BY <1>5 DEF IInv, CallInv, ReclaimInv
  <2>4. ReclaimInv'
    BY <1>1, <1>2, <1>5, <2>3 DEF IInv, TypeOK, CallInv, ReclaimInv
  <2>5. OneReclaimer'
    BY <1>1, <1>2 DEF IInv, OneReclaimer, Reclaiming
  <2>6. NoLeak'
    <3>1. \A u \in Threads, c \in Blocks : Reclaiming(u, c) => Reclaiming(u, c)'
      BY <1>1, <1>2 DEF Reclaiming
    <3>2. Owners(b)' # {}
      BY <1>5
    <3> QED BY <3>1, <3>2, <1>5 DEF IInv, TypeOK, NoLeak
  <2> QED BY <1>3, <2>2, <2>4, <2>5, <2>6 DEF IInv
<1>6. \/ cb_'[p] = nullptr /\ (\A b \in Blocks : Owners(b)' = Owners(b)) /\ UNCHANGED <<mem, shared_count>>
      \/ \E b \in Blocks :
           /\ mem[b] = "free"
           /\ mem' = [mem EXCEPT ![b] = "live"]
           /\ shared_count' = [shared_count EXCEPT ![b] = 1]
           /\ cb_' = [cb_ EXCEPT ![p] = b]
           /\ Owners(b)' = {p}
           /\ \A c \in Blocks \ {b} : Owners(c)' = Owners(c)
  BY MakeSharedOwners
<1> QED BY <1>4, <1>5, <1>6

\* The first half of the copy constructor preserves the invariant.
LEMMA CopyConstructInv ==
  ASSUME IInv, NEW t \in Threads, NEW p \in Ptrs, NEW q \in Ptrs, CopyConstruct(t, p, q)
  PROVE  IInv'
<1>1. \A b \in Blocks : Owners(b)' = Owners(b)
  BY CopyConstructOwners
<1>2. /\ call[t] = Idle /\ cb_[p] = NoObject /\ cb_[q] # NoObject /\ p # q
      /\ Unused(p) /\ Readable(q)
  BY DEF CopyConstruct, Alive
<1>3. cb_' \in [Ptrs -> Blocks \union {nullptr, NoObject}] /\ cb_'[p] = cb_[q] /\ \A r \in Ptrs \ {p} : cb_'[r] = cb_[r]
  BY DEF CopyConstruct, IInv, TypeOK
<1>4. /\ call' \in [Threads -> Calls]
      /\ call'[t] = IF cb_[q] = nullptr THEN Idle ELSE InCall("copyCtor", "inc", p, q)
      /\ \A u \in Threads \ {t} : call'[u] = call[u]
  <2>1. CASE cb_[q] = nullptr
    BY <1>2, <2>1 DEF CopyConstruct, IInv, TypeOK
  <2>2. CASE cb_[q] # nullptr
    BY <2>2, InCallType DEF CopyConstruct, IInv, Ops, Stages
  <2> QED BY <2>1, <2>2
<1>5. TypeOK'
  BY <1>3, <1>4 DEF CopyConstruct, IInv, TypeOK
<1>6. CallInv'
  BY <1>2, <1>3, <1>4, ConstantsAssumption DEF IInv, TypeOK, CallInv, Alive, Idle, InCall, Unused
<1>7. ExclusiveInv'
  BY <1>2, <1>4 DEF IInv, CallInv, ExclusiveInv, Idle, InCall, Unused, Readable
<1>8. CountIsOwners' /\ OwnersInv'
  BY <1>1 DEF IInv, CountIsOwners, OwnersInv, CopyConstruct
<1>9. ReclaimInv' /\ OneReclaimer' /\ NoLeak'
  BY <1>1, <1>2, <1>3, <1>4
  DEF IInv, CallInv, ReclaimInv, OneReclaimer, NoLeak, Reclaiming, CopyConstruct, Idle, InCall, Unused
<1> QED BY <1>5, <1>6, <1>7, <1>8, <1>9 DEF IInv

\* The move constructor preserves the invariant.
LEMMA MoveConstructInv ==
  ASSUME IInv, NEW t \in Threads, NEW p \in Ptrs, NEW q \in Ptrs, MoveConstruct(t, p, q)
  PROVE  IInv'
<1>1. /\ call' = call /\ cb_[p] = NoObject /\ cb_[q] # NoObject /\ p # q
      /\ Unused(p) /\ Unused(q) /\ UNCHANGED <<mem, shared_count>>
  BY DEF MoveConstruct, Alive
<1>2. /\ cb_' \in [Ptrs -> Blocks \union {nullptr, NoObject}]
      /\ cb_'[p] = cb_[q] /\ cb_'[q] = nullptr /\ \A r \in Ptrs \ {p, q} : cb_'[r] = cb_[r]
  BY <1>1 DEF MoveConstruct, IInv, TypeOK
<1>3. TypeOK' /\ CallInv' /\ ExclusiveInv'
  BY <1>1, <1>2, ConstantsAssumption DEF IInv, TypeOK, CallInv, ExclusiveInv, Alive, Unused
<1>4. \A b \in Blocks : /\ Cardinality(Owners(b)') = Cardinality(Owners(b))
                        /\ Owners(b)' = {} <=> Owners(b) = {}
  BY MoveConstructOwners, SwapCardinality, OwnersFinite
<1>5. CountIsOwners' /\ OwnersInv'
  BY <1>1, <1>4 DEF IInv, CountIsOwners, OwnersInv
<1>6. ReclaimInv' /\ OneReclaimer' /\ NoLeak'
  BY <1>1, <1>2, <1>4 DEF IInv, CallInv, ReclaimInv, OneReclaimer, NoLeak, Reclaiming, Unused
<1> QED BY <1>3, <1>5, <1>6 DEF IInv

\* Entering either assignment or the destructor preserves the invariant.
LEMMA BeginInv ==
  ASSUME IInv, NEW t \in Threads, NEW o \in {"copyAssign", "moveAssign", "dtor"},
         NEW p \in Ptrs, NEW q \in Ptrs \union {NoPtr},
         call[t] = Idle, Alive(p), Unused(p),
         o # "dtor" => q \in Ptrs /\ q # p /\ Alive(q) /\ Readable(q),
         o = "moveAssign" => Unused(q),
         o = "dtor" => q = NoPtr,
         call' = [call EXCEPT ![t] = InCall(o, ReleaseEntry(p), p, q)],
         UNCHANGED <<mem, shared_count, cb_>>
  PROVE  IInv'
<1>1. \A b \in Blocks : Owners(b)' = Owners(b)
  BY BeginOwners DEF Ops
<1>2. ReleaseEntry(p) \in {"finish", "dec"} /\ (ReleaseEntry(p) = "dec" => cb_[p] \in Blocks)
  BY DEF ReleaseEntry, IInv, TypeOK, Alive
<1>3. /\ call' \in [Threads -> Calls] /\ call'[t] = InCall(o, ReleaseEntry(p), p, q)
      /\ \A u \in Threads \ {t} : call'[u] = call[u]
  BY <1>2, InCallType DEF IInv, Ops, Stages
<1>4. TypeOK'
  BY <1>3 DEF IInv, TypeOK
<1>5. CallInv'
  BY <1>2, <1>3 DEF IInv, CallInv, Alive, InCall
<1>6. ExclusiveInv'
  BY <1>2, <1>3, CallFacts, ConstantsAssumption
  DEF IInv, CallInv, ExclusiveInv, InCall, Unused, Readable, Idle
<1>7. CountIsOwners' /\ OwnersInv'
  BY <1>1 DEF IInv, CountIsOwners, OwnersInv
<1>8. ReclaimInv' /\ OneReclaimer' /\ NoLeak'
  <2>1. \A u \in Threads, b \in Blocks : Reclaiming(u, b)' <=> Reclaiming(u, b)
    BY <1>2, <1>3 DEF Reclaiming, InCall, Idle
  <2>2. \A u \in Threads : call'[u].at \in {"destroy", "free"} => call'[u] = call[u]
    BY <1>2, <1>3 DEF InCall
  <2>3. ReclaimInv'
    BY <1>1, <2>2 DEF IInv, CallInv, ReclaimInv
  <2> QED BY <1>1, <2>1, <2>3 DEF IInv, OneReclaimer, NoLeak
<1> QED BY <1>4, <1>5, <1>6, <1>7, <1>8 DEF IInv

\* atomic_dec_and_test in release() preserves the invariant: it reports zero
\* exactly when the last owner leaves.
LEMMA DecAndTestInv ==
  ASSUME IInv, NEW t \in Threads, DecAndTest(t)
  PROVE  IInv'
<1>1. PICK p \in Ptrs, b \in Blocks : p = call[t].dst /\ b = cb_[p] /\ call[t].at = "dec"
  BY DEF IInv, CallInv, DecAndTest
<1>2. /\ p \in Owners(b) /\ Owners(b)' = Owners(b) \ {p}
      /\ \A c \in Blocks \ {b} : Owners(c)' = Owners(c)
  BY <1>1, DecOwners
<1>3. mem[b] = "live" /\ shared_count[b] = Cardinality(Owners(b))
  BY <1>2 DEF IInv, OwnersInv, CountIsOwners
<1>4. /\ Cardinality(Owners(b)') = Cardinality(Owners(b)) - 1
      /\ Cardinality(Owners(b)) \in Nat /\ Cardinality(Owners(b)) # 0
  BY <1>2, OwnersFinite, FS_RemoveElement, FS_EmptySet
<1>5. Owners(b)' = {} <=> shared_count[b] = 1
  BY <1>2, <1>3, <1>4, OwnersFinite, FS_RemoveElement, FS_EmptySet
<1>6. /\ UNCHANGED <<mem, cb_>> /\ shared_count' = [shared_count EXCEPT ![b] = shared_count[b] - 1]
      /\ Goto(t, IF shared_count[b] = 1 THEN "destroy" ELSE "finish")
  BY <1>1 DEF DecAndTest, IInv, TypeOK
<1>7. /\ call' \in [Threads -> Calls]
      /\ call'[t].at = (IF shared_count[b] = 1 THEN "destroy" ELSE "finish")
      /\ call'[t].op = call[t].op /\ call'[t].dst = p /\ call'[t].src = call[t].src
      /\ \A u \in Threads \ {t} : call'[u] = call[u]
  BY <1>1, <1>6, GotoType DEF IInv, Stages
<1>8. TypeOK'
  BY <1>3, <1>4, <1>6, <1>7 DEF IInv, TypeOK
<1>9. CallInv' /\ ExclusiveInv'
  BY <1>1, <1>6, <1>7 DEF IInv, CallInv, ExclusiveInv, Alive
<1>10. CountIsOwners' /\ OwnersInv'
  BY <1>2, <1>3, <1>4, <1>6 DEF IInv, TypeOK, CountIsOwners, OwnersInv
<1>11. \A u \in Threads : call[u].at \in {"destroy", "free"} => u # t /\ cb_[call[u].dst] \in Blocks \ {b}
  BY <1>1, <1>2 DEF IInv, CallInv, ReclaimInv
<1>12. ReclaimInv'
  BY <1>1, <1>2, <1>3, <1>5, <1>6, <1>7, <1>11 DEF IInv, ReclaimInv
<1>13. OneReclaimer'
  BY <1>1, <1>6, <1>7, <1>11 DEF IInv, OneReclaimer, Reclaiming
<1>14. NoLeak'
  <2>1. \A u \in Threads, c \in Blocks : Reclaiming(u, c) => Reclaiming(u, c)'
    BY <1>6, <1>7, <1>11 DEF Reclaiming
  <2>2. Owners(b)' = {} => Reclaiming(t, b)'
    BY <1>1, <1>5, <1>6, <1>7 DEF Reclaiming
  <2> QED BY <1>2, <1>6, <2>1, <2>2 DEF IInv, NoLeak
<1> QED BY <1>8, <1>9, <1>10, <1>12, <1>13, <1>14 DEF IInv

\* Running ~T() in release() preserves the invariant.
LEMMA DestroyObjectInv ==
  ASSUME IInv, NEW t \in Threads, DestroyObject(t)
  PROVE  IInv'
<1>1. PICK p \in Ptrs, b \in Blocks : p = call[t].dst /\ b = cb_[p] /\ call[t].at = "destroy"
  BY DEF IInv, CallInv, DestroyObject
<1>2. /\ UNCHANGED <<shared_count, cb_>> /\ mem' = [mem EXCEPT ![b] = "destroyed"]
      /\ Goto(t, "free")
  BY <1>1 DEF DestroyObject
<1>3. \A c \in Blocks : Owners(c)' = Owners(c)
  BY <1>1, <1>2, GotoOwners
<1>4. /\ call' \in [Threads -> Calls] /\ call'[t].at = "free"
      /\ call'[t].op = call[t].op /\ call'[t].dst = p /\ call'[t].src = call[t].src
      /\ \A u \in Threads \ {t} : call'[u] = call[u]
  BY <1>1, <1>2, GotoType DEF IInv, Stages
<1>5. mem[b] = "live" /\ Owners(b) = {}
  BY <1>1 DEF IInv, ReclaimInv
<1>6. TypeOK'
  BY <1>2, <1>4 DEF IInv, TypeOK
<1>7. CallInv' /\ ExclusiveInv'
  BY <1>1, <1>2, <1>4 DEF IInv, CallInv, ExclusiveInv, Alive
<1>8. CountIsOwners' /\ OwnersInv'
  BY <1>2, <1>3, <1>5 DEF IInv, TypeOK, CountIsOwners, OwnersInv
<1>9. \A u \in Threads, c \in Blocks : Reclaiming(u, c)' <=> Reclaiming(u, c)
  BY <1>1, <1>2, <1>4 DEF Reclaiming
<1>10. OneReclaimer' /\ NoLeak'
  BY <1>2, <1>3, <1>9, <1>1, <1>5 DEF IInv, TypeOK, OneReclaimer, NoLeak
<1>11. \A u \in Threads \ {t} : call[u].at \in {"destroy", "free"} => cb_[call[u].dst] \in Blocks \ {b}
  BY <1>1 DEF IInv, CallInv, OneReclaimer, Reclaiming
<1>12. ReclaimInv'
  BY <1>1, <1>2, <1>3, <1>4, <1>5, <1>11 DEF IInv, TypeOK, ReclaimInv
<1> QED BY <1>6, <1>7, <1>8, <1>10, <1>12 DEF IInv

\* kfree() in release() preserves the invariant.
LEMMA KfreeInv ==
  ASSUME IInv, NEW t \in Threads, Kfree(t)
  PROVE  IInv'
<1>1. PICK p \in Ptrs, b \in Blocks : p = call[t].dst /\ b = cb_[p] /\ call[t].at = "free"
  BY DEF IInv, CallInv, Kfree
<1>2. /\ UNCHANGED <<shared_count, cb_>> /\ mem' = [mem EXCEPT ![b] = "free"]
      /\ Goto(t, "finish")
  BY <1>1 DEF Kfree
<1>3. \A c \in Blocks : Owners(c)' = Owners(c)
  BY <1>1, <1>2, GotoOwners
<1>4. /\ call' \in [Threads -> Calls] /\ call'[t].at = "finish"
      /\ call'[t].op = call[t].op /\ call'[t].dst = p /\ call'[t].src = call[t].src
      /\ \A u \in Threads \ {t} : call'[u] = call[u]
  BY <1>1, <1>2, GotoType DEF IInv, Stages
<1>5. mem[b] = "destroyed" /\ Owners(b) = {}
  BY <1>1 DEF IInv, ReclaimInv
<1>6. TypeOK'
  BY <1>2, <1>4 DEF IInv, TypeOK
<1>7. CallInv' /\ ExclusiveInv'
  BY <1>1, <1>2, <1>4 DEF IInv, CallInv, ExclusiveInv, Alive
<1>8. CountIsOwners' /\ OwnersInv'
  BY <1>2, <1>3, <1>5 DEF IInv, TypeOK, CountIsOwners, OwnersInv
<1>9. \A u \in Threads \ {t} : call[u].at \in {"destroy", "free"} => cb_[call[u].dst] \in Blocks \ {b}
  BY <1>1 DEF IInv, CallInv, OneReclaimer, Reclaiming
<1>10. /\ \A u \in Threads, c \in Blocks : Reclaiming(u, c)' => Reclaiming(u, c)
       /\ \A u \in Threads, c \in Blocks \ {b} : Reclaiming(u, c) => Reclaiming(u, c)'
  BY <1>1, <1>2, <1>4 DEF Reclaiming
<1>11. OneReclaimer'
  BY <1>10 DEF IInv, OneReclaimer
<1>12. NoLeak'
  BY <1>2, <1>3, <1>10 DEF IInv, TypeOK, NoLeak
<1>13. \A u \in Threads : call'[u].at \in {"destroy", "free"} =>
         call'[u] = call[u] /\ cb_[call[u].dst] \in Blocks \ {b}
  BY <1>4, <1>9
<1>14. ReclaimInv'
  BY <1>2, <1>3, <1>13 DEF IInv, TypeOK, ReclaimInv
<1> QED BY <1>6, <1>7, <1>8, <1>11, <1>12, <1>14 DEF IInv

\* The end of the destructor preserves the invariant.
LEMMA FinishDestructInv ==
  ASSUME IInv, NEW t \in Threads, FinishDestruct(t)
  PROVE  IInv'
<1>1. PICK p \in Ptrs : p = call[t].dst /\ call[t].at = "finish" /\ call[t].op = "dtor"
  BY DEF IInv, CallInv, FinishDestruct
<1>2. /\ UNCHANGED <<mem, shared_count>> /\ cb_' = [cb_ EXCEPT ![p] = NoObject]
      /\ call' = [call EXCEPT ![t] = Idle]
  BY <1>1 DEF FinishDestruct
<1>3. \A c \in Blocks : Owners(c)' = Owners(c)
  BY FinishDestructOwners
<1>4. /\ call' \in [Threads -> Calls] /\ call'[t] = Idle
      /\ \A u \in Threads \ {t} : call'[u] = call[u]
  BY <1>2, IdleType DEF IInv
<1>5. \A u \in Threads \ {t} : call[u].dst # p /\ call[u].src # p
  BY <1>1 DEF IInv, ExclusiveInv
<1>6. /\ cb_' \in [Ptrs -> Blocks \union {nullptr, NoObject}]
      /\ \A r \in Ptrs \ {p} : cb_'[r] = cb_[r]
  BY <1>2 DEF IInv, TypeOK
<1>7. TypeOK'
  BY <1>2, <1>4, <1>6 DEF IInv, TypeOK
<1>8. CallInv'
  BY <1>4, <1>5, <1>6 DEF IInv, CallInv, Alive, Idle
<1>9. ExclusiveInv'
  BY <1>4, CallFacts, ConstantsAssumption DEF IInv, CallInv, ExclusiveInv, Idle
<1>10. CountIsOwners' /\ OwnersInv'
  BY <1>2, <1>3 DEF IInv, CountIsOwners, OwnersInv
<1>11. \A u \in Threads : call'[u].at \in {"destroy", "free"} => u # t
  BY <1>4 DEF Idle
<1>12. ReclaimInv'
  BY <1>2, <1>3, <1>4, <1>5, <1>6, <1>11 DEF IInv, CallInv, ReclaimInv
<1>13. \A u \in Threads, c \in Blocks : Reclaiming(u, c)' <=> Reclaiming(u, c)
  BY <1>1, <1>4, <1>5, <1>6, <1>11 DEF IInv, CallInv, Reclaiming
<1>14. OneReclaimer' /\ NoLeak'
  BY <1>2, <1>3, <1>13 DEF IInv, OneReclaimer, NoLeak
<1> QED BY <1>7, <1>8, <1>9, <1>10, <1>12, <1>14 DEF IInv

\* Copying the pointer in copy assignment preserves the invariant.
LEMMA TakeCopyInv ==
  ASSUME IInv, NEW t \in Threads, TakeCopy(t)
  PROVE  IInv'
<1>1. PICK p \in Ptrs, q \in Ptrs : /\ p = call[t].dst /\ q = call[t].src /\ p # q
                                    /\ call[t].at = "finish" /\ call[t].op = "copyAssign"
                                    /\ cb_[q] # NoObject
  BY DEF IInv, CallInv, TakeCopy, Alive
<1>2. /\ UNCHANGED <<mem, shared_count>> /\ cb_' = [cb_ EXCEPT ![p] = cb_[q]]
      /\ IF cb_[q] = nullptr THEN call' = [call EXCEPT ![t] = Idle] ELSE Goto(t, "inc")
  BY <1>1 DEF TakeCopy
<1>3. \A c \in Blocks : Owners(c)' = Owners(c)
  BY TakeCopyOwners
<1>4. /\ call' \in [Threads -> Calls]
      /\ \/ cb_[q] = nullptr /\ call'[t] = Idle
         \/ /\ cb_[q] # nullptr /\ call'[t].at = "inc" /\ call'[t].op = "copyAssign"
            /\ call'[t].dst = p /\ call'[t].src = q
      /\ \A u \in Threads \ {t} : call'[u] = call[u]
  BY <1>1, <1>2, IdleType, GotoType DEF IInv, Stages
<1>5. \A u \in Threads \ {t} : call[u].dst # p /\ call[u].src # p
  BY <1>1 DEF IInv, ExclusiveInv
<1>6. /\ cb_' \in [Ptrs -> Blocks \union {nullptr, NoObject}]
      /\ cb_'[p] = cb_[q] /\ \A r \in Ptrs \ {p} : cb_'[r] = cb_[r]
  BY <1>2 DEF IInv, TypeOK
<1>7. TypeOK'
  BY <1>2, <1>4, <1>6 DEF IInv, TypeOK
<1>8. CallInv'
  BY <1>1, <1>4, <1>5, <1>6 DEF IInv, TypeOK, CallInv, Alive, Idle
<1>9. ExclusiveInv'
  BY <1>1, <1>4, CallFacts, ConstantsAssumption DEF IInv, CallInv, ExclusiveInv, Idle
<1>10. CountIsOwners' /\ OwnersInv'
  BY <1>2, <1>3 DEF IInv, CountIsOwners, OwnersInv
<1>11. \A u \in Threads : call'[u].at \in {"destroy", "free"} => u # t
  BY <1>4 DEF Idle
<1>12. ReclaimInv'
  BY <1>2, <1>3, <1>4, <1>5, <1>6, <1>11 DEF IInv, CallInv, ReclaimInv
<1>13. \A u \in Threads, c \in Blocks : Reclaiming(u, c)' <=> Reclaiming(u, c)
  BY <1>1, <1>4, <1>5, <1>6, <1>11 DEF IInv, CallInv, Reclaiming
<1>14. OneReclaimer' /\ NoLeak'
  BY <1>2, <1>3, <1>13 DEF IInv, OneReclaimer, NoLeak
<1> QED BY <1>7, <1>8, <1>9, <1>10, <1>12, <1>14 DEF IInv

\* Taking over the pointer in move assignment preserves the invariant.
LEMMA TakeMoveInv ==
  ASSUME IInv, NEW t \in Threads, TakeMove(t)
  PROVE  IInv'
<1>1. PICK p \in Ptrs, q \in Ptrs : /\ p = call[t].dst /\ q = call[t].src /\ p # q
                                    /\ call[t].at = "finish" /\ call[t].op = "moveAssign"
                                    /\ cb_[q] # NoObject
  BY DEF IInv, CallInv, TakeMove, Alive
<1>2. /\ UNCHANGED <<mem, shared_count>> /\ cb_' = [cb_ EXCEPT ![p] = cb_[q], ![q] = nullptr]
      /\ call' = [call EXCEPT ![t] = Idle]
  BY <1>1 DEF TakeMove
<1>3. \A b \in Blocks : /\ Cardinality(Owners(b)') = Cardinality(Owners(b))
                        /\ Owners(b)' = {} <=> Owners(b) = {}
  BY <1>1, TakeMoveOwners, SwapCardinality, OwnersFinite
<1>4. /\ call' \in [Threads -> Calls] /\ call'[t] = Idle
      /\ \A u \in Threads \ {t} : call'[u] = call[u]
  BY <1>2, IdleType DEF IInv
<1>5. \A u \in Threads \ {t} : /\ call[u].dst # p /\ call[u].src # p
                               /\ call[u].at # "idle" => call[u].dst # q
                               /\ call[u].src # q
  BY <1>1 DEF IInv, ExclusiveInv
<1>6. /\ cb_' \in [Ptrs -> Blocks \union {nullptr, NoObject}]
      /\ cb_'[p] = cb_[q] /\ cb_'[q] = nullptr /\ \A r \in Ptrs \ {p, q} : cb_'[r] = cb_[r]
  BY <1>1, <1>2 DEF IInv, TypeOK
<1>7. TypeOK'
  BY <1>2, <1>4, <1>6 DEF IInv, TypeOK
<1>8. CallInv'
  BY <1>4, <1>5, <1>6 DEF IInv, CallInv, Alive, Idle
<1>9. ExclusiveInv'
  BY <1>4, CallFacts, ConstantsAssumption DEF IInv, CallInv, ExclusiveInv, Idle
<1>10. CountIsOwners' /\ OwnersInv'
  BY <1>2, <1>3 DEF IInv, CountIsOwners, OwnersInv
<1>11. \A u \in Threads : call'[u].at \in {"destroy", "free"} => u # t
  BY <1>4 DEF Idle
<1>12. ReclaimInv'
  BY <1>2, <1>3, <1>4, <1>5, <1>6, <1>11 DEF IInv, CallInv, ReclaimInv
<1>13. \A u \in Threads, c \in Blocks : Reclaiming(u, c)' <=> Reclaiming(u, c)
  BY <1>1, <1>4, <1>5, <1>6, <1>11 DEF IInv, CallInv, Reclaiming
<1>14. OneReclaimer' /\ NoLeak'
  BY <1>2, <1>3, <1>13 DEF IInv, OneReclaimer, NoLeak
<1> QED BY <1>7, <1>8, <1>9, <1>10, <1>12, <1>14 DEF IInv

\* atomic_inc in the copy operations preserves the invariant.
LEMMA AtomicIncInv ==
  ASSUME IInv, NEW t \in Threads, AtomicInc(t)
  PROVE  IInv'
<1>1. PICK p \in Ptrs, q \in Ptrs, b \in Blocks :
        p = call[t].dst /\ q = call[t].src /\ b = cb_[p] /\ call[t].at = "inc"
  BY DEF IInv, CallInv, AtomicInc
<1>2. /\ q \in Owners(b) /\ p \notin Owners(b) /\ Owners(b)' = Owners(b) \union {p}
      /\ \A c \in Blocks \ {b} : Owners(c)' = Owners(c)
  BY <1>1, IncOwners
<1>3. mem[b] = "live" /\ shared_count[b] = Cardinality(Owners(b))
  BY <1>2 DEF IInv, OwnersInv, CountIsOwners
<1>4. Cardinality(Owners(b)') = Cardinality(Owners(b)) + 1 /\ Cardinality(Owners(b)) \in Nat
  <2>1. IsFiniteSet(Owners(b)) /\ Cardinality(Owners(b)) \in Nat
    BY OwnersFinite
  <2>2. Cardinality(Owners(b) \union {p}) = Cardinality(Owners(b)) + 1
    BY <1>2, <2>1, FS_AddElement
  <2> QED BY <1>2, <2>1, <2>2
<1>5. /\ UNCHANGED <<mem, cb_>> /\ shared_count' = [shared_count EXCEPT ![b] = shared_count[b] + 1]
      /\ call' = [call EXCEPT ![t] = Idle]
  BY <1>1 DEF AtomicInc, IInv, TypeOK
<1>6. /\ call' \in [Threads -> Calls] /\ call'[t] = Idle
      /\ \A u \in Threads \ {t} : call'[u] = call[u]
  BY <1>5, IdleType DEF IInv
<1>7. TypeOK'
  BY <1>3, <1>4, <1>5, <1>6 DEF IInv, TypeOK
<1>8. CallInv'
  BY <1>5, <1>6 DEF IInv, CallInv, Alive, Idle
<1>9. ExclusiveInv'
  BY <1>6, CallFacts, ConstantsAssumption DEF IInv, CallInv, ExclusiveInv, Idle
<1>10. CountIsOwners' /\ OwnersInv'
  BY <1>2, <1>3, <1>4, <1>5 DEF IInv, TypeOK, CountIsOwners, OwnersInv
<1>11. \A u \in Threads : call'[u].at \in {"destroy", "free"} =>
         u # t /\ call'[u] = call[u] /\ cb_[call[u].dst] \in Blocks \ {b}
  BY <1>2, <1>6 DEF IInv, CallInv, ReclaimInv, Idle
<1>12. ReclaimInv'
  BY <1>2, <1>5, <1>11 DEF IInv, ReclaimInv
<1>13. \A u \in Threads, c \in Blocks : Reclaiming(u, c)' <=> Reclaiming(u, c)
  BY <1>1, <1>5, <1>6, <1>11 DEF Reclaiming
<1>14. OneReclaimer' /\ NoLeak'
  BY <1>2, <1>5, <1>13 DEF IInv, OneReclaimer, NoLeak
<1> QED BY <1>7, <1>8, <1>9, <1>10, <1>12, <1>14 DEF IInv

------------------------------------------------------------------------------
(***************************************************************************)
(* The invariant is inductive.                                             *)
(***************************************************************************)

\* With no handle constructed and no block allocated the invariant holds.
LEMMA InitInv == Init => IInv
<1> SUFFICES ASSUME Init PROVE IInv
  OBVIOUS
<1>1. \A b \in Blocks : Owners(b) = {}
  BY ConstantsAssumption DEF Init, Owners
<1>2. TypeOK
  BY DEF Init, TypeOK, Calls, Idle, Ops, Stages
<1>3. CallInv /\ ExclusiveInv
  BY DEF Init, CallInv, ExclusiveInv, Idle
<1>4. CountIsOwners /\ OwnersInv
  BY <1>1 DEF Init, CountIsOwners, OwnersInv
<1>5. ReclaimInv /\ OneReclaimer /\ NoLeak
  BY DEF Init, ReclaimInv, OneReclaimer, NoLeak, Reclaiming, Idle
<1> QED BY <1>2, <1>3, <1>4, <1>5 DEF IInv

\* A step that changes nothing preserves the invariant.
LEMMA StutterInv ==
  ASSUME IInv, UNCHANGED vars
  PROVE  IInv'
<1>1. \A b \in Blocks : Owners(b)' = Owners(b)
  BY DEF vars, Owners, Counted
<1>2. TypeOK' /\ CallInv' /\ ExclusiveInv'
  BY DEF IInv, vars, TypeOK, CallInv, ExclusiveInv, Alive
<1>3. CountIsOwners' /\ OwnersInv'
  BY <1>1 DEF IInv, vars, CountIsOwners, OwnersInv
<1>4. ReclaimInv' /\ OneReclaimer' /\ NoLeak'
  BY <1>1 DEF IInv, CallInv, vars, ReclaimInv, OneReclaimer, NoLeak, Reclaiming
<1> QED BY <1>2, <1>3, <1>4 DEF IInv

\* Every step of the members of SharedPtr preserves the invariant.
LEMMA NextInv == IInv /\ [Next]_vars => IInv'
<1> SUFFICES ASSUME IInv, [Next]_vars PROVE IInv'
  OBVIOUS
<1>1. CASE UNCHANGED vars
  BY <1>1, StutterInv
<1>2. ASSUME NEW t \in Threads, Step(t) PROVE IInv'
  BY <1>2, DecAndTestInv, DestroyObjectInv, KfreeInv, FinishDestructInv, TakeCopyInv,
     TakeMoveInv, AtomicIncInv DEF Step
<1>3. ASSUME NEW t \in Threads, NEW p \in Ptrs,
             DefaultConstruct(t, p) \/ make_shared(t, p) \/ Destruct(t, p)
      PROVE  IInv'
  <2>1. CASE Destruct(t, p)
    BY <2>1, BeginInv DEF Destruct
  <2> QED BY <1>3, <2>1, DefaultConstructInv, MakeSharedInv
<1>4. ASSUME NEW t \in Threads, NEW p \in Ptrs, NEW q \in Ptrs,
             \/ CopyConstruct(t, p, q) \/ MoveConstruct(t, p, q)
             \/ CopyAssign(t, p, q) \/ MoveAssign(t, p, q)
      PROVE  IInv'
  <2>1. CASE CopyAssign(t, p, q)
    BY <2>1, BeginInv DEF CopyAssign, NotSelf
  <2>2. CASE MoveAssign(t, p, q)
    <3>1. Readable(q)
      BY <2>2 DEF MoveAssign, Unused, Readable
    <3> QED BY <2>2, <3>1, BeginInv DEF MoveAssign, NotSelf
  <2> QED BY <1>4, <2>1, <2>2, CopyConstructInv, MoveConstructInv
<1> QED BY <1>1, <1>2, <1>3, <1>4 DEF Next, Begin

\* The invariant holds in every reachable state of the counted pointer.
THEOREM Invariance == Safety => []IInv
BY InitInv, NextInv, PTL DEF Safety

------------------------------------------------------------------------------
(***************************************************************************)
(* What the invariant gives.                                               *)
(***************************************************************************)

\* Type correctness; the counter of SharedPtr never goes below zero.
THEOREM TypeCorrect == Safety => []TypeOK
<1>1. IInv => TypeOK
  BY DEF IInv
<1> QED BY <1>1, Invariance, PTL

\* The counter of a live block is the number of handles that own a share,
\* in the middle of copies, moves and releases too.
THEOREM CountCorrect == Safety => []CountIsOwners
<1>1. IInv => CountIsOwners
  BY DEF IInv
<1> QED BY <1>1, Invariance, PTL

\* An allocated block has an owner or a thread about to free it: the members
\* of SharedPtr never lose the last reference to a block.
THEOREM NeverLeaks == Safety => []NoLeak
<1>1. IInv => NoLeak
  BY DEF IInv
<1> QED BY <1>1, Invariance, PTL

\* At most one thread runs ~T() and kfree() on a block, however many release
\* their handles at once.
THEOREM ReclaimedOnce == Safety => []OneReclaimer
<1>1. IInv => OneReclaimer
  BY DEF IInv
<1> QED BY <1>1, Invariance, PTL

\* Dereferencing a handle nobody writes, and every access the members make
\* to a counter or an object, finds the object alive (and kfree() finds it
\* destroyed): no use after free and no double free.
THEOREM AlwaysAlive == Safety => []NoUseAfterFree
<1>1. IInv => DerefIsSafe
  <2> SUFFICES ASSUME IInv, NEW p \in Ptrs, Readable(p), cb_[p] \in Blocks
               PROVE  mem[cb_[p]] = "live"
    BY DEF DerefIsSafe
  <2>1. p \in Owners(cb_[p])
    BY DEF Owners, Counted, Readable
  <2> QED BY <2>1 DEF IInv, OwnersInv
<1>2. IInv => AccessIsSafe
  <2> SUFFICES ASSUME IInv, NEW t \in Threads
               PROVE  /\ call[t].at \in {"dec", "inc", "destroy"} => mem[cb_[call[t].dst]] = "live"
                      /\ call[t].at = "free" => mem[cb_[call[t].dst]] = "destroyed"
    BY DEF AccessIsSafe
  <2>1. CASE call[t].at = "dec"
    <3>1. call[t].dst \in Owners(cb_[call[t].dst]) /\ cb_[call[t].dst] \in Blocks
      BY <2>1 DEF IInv, CallInv, ExclusiveInv, Owners, Counted
    <3> QED BY <2>1, <3>1 DEF IInv, OwnersInv
  <2>2. CASE call[t].at = "inc"
    <3>1. call[t].src \in Owners(cb_[call[t].dst]) /\ cb_[call[t].dst] \in Blocks
      <4>1. /\ call[t].src \in Ptrs /\ call[t].src # call[t].dst
            /\ cb_[call[t].src] = cb_[call[t].dst] /\ cb_[call[t].dst] \in Blocks
        BY <2>2 DEF IInv, CallInv
      <4>2. Counted(call[t].src)
        BY <4>1, <2>2, CallFacts, ConstantsAssumption DEF IInv, ExclusiveInv, Counted, Idle
      <4> QED BY <4>1, <4>2 DEF Owners
    <3> QED BY <2>2, <3>1 DEF IInv, OwnersInv
  <2>3. CASE call[t].at \in {"destroy", "free"}
    BY <2>3 DEF IInv, ReclaimInv
  <2> QED BY <2>1, <2>2, <2>3
<1>3. IInv => NoUseAfterFree
  BY <1>1, <1>2 DEF NoUseAfterFree
<1> QED BY <1>3, Invariance, PTL

------------------------------------------------------------------------------
(***************************************************************************)
(* Refinement of SharedOwnership.                                          *)
(***************************************************************************)

\* The refinement mapping: the abstract holders are the owners.
Holders == [b \in Blocks |-> Owners(b)]

\* If no share and no block changed, the abstract state did not change.
LEMMA SameHolders ==
  ASSUME \A b \in Blocks : Owners(b)' = Owners(b), mem' = mem
  PROVE  UNCHANGED Ownership!vars
BY DEF Ownership!vars

\* Handing a share from q to p is the abstract Transfer, or nothing if q was
\* empty.
LEMMA TransferStep ==
  ASSUME NEW p \in Ptrs, NEW q \in Ptrs, mem' = mem,
         cb_[q] \in Blocks \union {nullptr, NoObject},
         \A b \in Blocks : p \notin Owners(b),
         \A b \in Blocks :
           IF b = cb_[q] THEN q \in Owners(b) /\ Owners(b)' = (Owners(b) \ {q}) \union {p}
                         ELSE Owners(b)' = Owners(b)
  PROVE  [Ownership!Next]_(Ownership!vars)
<1>1. CASE cb_[q] \in Blocks
  <2>1. Ownership!HoldsNothing(p)
    BY DEF Ownership!HoldsNothing
  <2>2. Holders' = [Holders EXCEPT ![cb_[q]] = (@ \ {q}) \union {p}]
    BY <1>1 DEF Holders
  <2>3. Ownership!Transfer(cb_[q], q, p)
    BY <1>1, <2>1, <2>2 DEF Ownership!Transfer, Holders
  <2> QED BY <1>1, <2>3 DEF Ownership!Next
<1>2. CASE cb_[q] \notin Blocks
  BY <1>2, SameHolders
<1> QED BY <1>1, <1>2

\* Every step inside a member function is a step of SharedOwnership or none.
LEMMA StepRefines ==
  ASSUME IInv, NEW t \in Threads, Step(t)
  PROVE  [Ownership!Next]_(Ownership!vars)
<1>1. CASE DecAndTest(t)
  <2>1. PICK p \in Ptrs, b \in Blocks : p = call[t].dst /\ b = cb_[p]
    BY <1>1 DEF IInv, CallInv, DecAndTest
  <2>2. /\ p \in Owners(b) /\ Owners(b)' = Owners(b) \ {p}
        /\ \A c \in Blocks \ {b} : Owners(c)' = Owners(c)
    BY <1>1, <2>1, DecOwners
  <2>3. Holders' = [Holders EXCEPT ![b] = @ \ {p}]
    BY <2>2 DEF Holders
  <2>4. Ownership!Drop(b, p)
    BY <1>1, <2>2, <2>3 DEF Ownership!Drop, Holders, DecAndTest
  <2> QED BY <2>4 DEF Ownership!Next
<1>2. CASE DestroyObject(t)
  <2>1. PICK b \in Blocks : b = cb_[call[t].dst] /\ call[t].at = "destroy"
    BY <1>2 DEF IInv, CallInv, DestroyObject
  <2>2. \A c \in Blocks : Owners(c)' = Owners(c)
    BY <1>2, GotoOwners DEF DestroyObject
  <2>3. mem[b] = "live" /\ Owners(b) = {}
    BY <2>1 DEF IInv, ReclaimInv
  <2>4. Ownership!Destroy(b)
    BY <1>2, <2>1, <2>2, <2>3 DEF Ownership!Destroy, DestroyObject
  <2> QED BY <2>4 DEF Ownership!Next
<1>3. CASE Kfree(t)
  <2>1. PICK b \in Blocks : b = cb_[call[t].dst] /\ call[t].at = "free"
    BY <1>3 DEF IInv, CallInv, Kfree
  <2>2. \A c \in Blocks : Owners(c)' = Owners(c)
    BY <1>3, GotoOwners DEF Kfree
  <2>3. mem[b] = "destroyed"
    BY <2>1 DEF IInv, ReclaimInv
  <2>4. Ownership!Free(b)
    BY <1>3, <2>1, <2>2, <2>3 DEF Ownership!Free, Kfree
  <2> QED BY <2>4 DEF Ownership!Next
<1>4. CASE FinishDestruct(t)
  BY <1>4, FinishDestructOwners, SameHolders DEF FinishDestruct
<1>5. CASE TakeCopy(t)
  BY <1>5, TakeCopyOwners, SameHolders DEF TakeCopy
<1>6. CASE TakeMove(t)
  <2>1. PICK p \in Ptrs, q \in Ptrs : p = call[t].dst /\ q = call[t].src /\ call[t].at = "finish"
    BY <1>6 DEF IInv, CallInv, TakeMove
  <2>2. \A b \in Blocks : p \notin Owners(b)
    BY <2>1 DEF Owners, Counted
  <2>3. cb_[q] \in Blocks \union {nullptr, NoObject} /\ mem' = mem
    BY <1>6 DEF IInv, TypeOK, TakeMove
  <2> QED BY <1>6, <2>1, <2>2, <2>3, TakeMoveOwners, TransferStep
<1>7. CASE AtomicInc(t)
  <2>1. PICK p \in Ptrs, q \in Ptrs, b \in Blocks :
          p = call[t].dst /\ q = call[t].src /\ b = cb_[p] /\ call[t].at = "inc"
    BY <1>7 DEF IInv, CallInv, AtomicInc
  <2>2. /\ q \in Owners(b) /\ Owners(b)' = Owners(b) \union {p}
        /\ \A c \in Blocks \ {b} : Owners(c)' = Owners(c)
    BY <1>7, <2>1, IncOwners
  <2>3. Ownership!HoldsNothing(p)
    BY <2>1 DEF Ownership!HoldsNothing, Owners, Counted
  <2>4. Holders' = [Holders EXCEPT ![b] = @ \union {p}]
    BY <2>2 DEF Holders
  <2>5. Ownership!Share(b, p)
    BY <1>7, <2>2, <2>3, <2>4 DEF Ownership!Share, Holders, AtomicInc
  <2> QED BY <2>5 DEF Ownership!Next
<1> QED BY <1>1, <1>2, <1>3, <1>4, <1>5, <1>6, <1>7 DEF Step

\* Every call of a member function is a step of SharedOwnership or none.
LEMMA BeginRefines ==
  ASSUME IInv, NEW t \in Threads, Begin(t)
  PROVE  [Ownership!Next]_(Ownership!vars)
<1>1. ASSUME NEW p \in Ptrs, DefaultConstruct(t, p) PROVE UNCHANGED Ownership!vars
  BY <1>1, DefaultConstructOwners, SameHolders DEF DefaultConstruct
<1>2. ASSUME NEW p \in Ptrs, make_shared(t, p) PROVE [Ownership!Next]_(Ownership!vars)
  <2>1. CASE UNCHANGED mem /\ \A b \in Blocks : Owners(b)' = Owners(b)
    BY <2>1, SameHolders
  <2>2. ASSUME NEW b \in Blocks, mem[b] = "free", mem' = [mem EXCEPT ![b] = "live"],
               Owners(b)' = {p}, \A c \in Blocks \ {b} : Owners(c)' = Owners(c)
        PROVE  Ownership!Create(b, p)
    <3>1. Ownership!HoldsNothing(p)
      BY <1>2, ConstantsAssumption DEF Ownership!HoldsNothing, Owners, make_shared, Alive
    <3>2. Holders' = [Holders EXCEPT ![b] = {p}]
      BY <2>2 DEF Holders
    <3> QED BY <2>2, <3>1, <3>2 DEF Ownership!Create, Holders
  <2> QED BY <1>2, <2>1, <2>2, MakeSharedOwners DEF Ownership!Next
<1>3. ASSUME NEW p \in Ptrs, Destruct(t, p) PROVE UNCHANGED Ownership!vars
  BY <1>3, BeginOwners, SameHolders DEF Destruct, Ops
<1>4. ASSUME NEW p \in Ptrs, NEW q \in Ptrs, CopyConstruct(t, p, q) PROVE UNCHANGED Ownership!vars
  BY <1>4, CopyConstructOwners, SameHolders DEF CopyConstruct
<1>5. ASSUME NEW p \in Ptrs, NEW q \in Ptrs, MoveConstruct(t, p, q)
      PROVE  [Ownership!Next]_(Ownership!vars)
  <2>1. \A b \in Blocks : p \notin Owners(b)
    BY <1>5, ConstantsAssumption DEF Owners, MoveConstruct, Alive
  <2>2. cb_[q] \in Blocks \union {nullptr, NoObject} /\ mem' = mem
    BY <1>5 DEF IInv, TypeOK, MoveConstruct
  <2> QED BY <1>5, <2>1, <2>2, MoveConstructOwners, TransferStep
<1>6. ASSUME NEW p \in Ptrs, NEW q \in Ptrs, CopyAssign(t, p, q) PROVE UNCHANGED Ownership!vars
  BY <1>6, BeginOwners, SameHolders DEF CopyAssign, Ops
<1>7. ASSUME NEW p \in Ptrs, NEW q \in Ptrs, MoveAssign(t, p, q) PROVE UNCHANGED Ownership!vars
  BY <1>7, BeginOwners, SameHolders DEF MoveAssign, Ops
<1> QED BY <1>1, <1>2, <1>3, <1>4, <1>5, <1>6, <1>7 DEF Begin

\* SharedPtr implements SharedOwnership: counters and half-done members are
\* invisible to a user who only looks at who owns which object.
THEOREM Refinement == Safety => Ownership!Safety
<1>1. Init => Ownership!Init
  <2> SUFFICES ASSUME Init PROVE Ownership!Init
    OBVIOUS
  <2>1. \A b \in Blocks : Owners(b) = {}
    BY ConstantsAssumption DEF Init, Owners
  <2> QED BY <2>1 DEF Init, Ownership!Init
<1>2. IInv /\ [Next]_vars => [Ownership!Next]_(Ownership!vars)
  <2> SUFFICES ASSUME IInv, [Next]_vars PROVE [Ownership!Next]_(Ownership!vars)
    OBVIOUS
  <2>1. CASE UNCHANGED vars
    <3>1. \A b \in Blocks : Owners(b)' = Owners(b)
      BY <2>1 DEF vars, Owners, Counted
    <3> QED BY <2>1, <3>1, SameHolders DEF vars
  <2>2. CASE Next
    BY <2>2, StepRefines, BeginRefines DEF Next
  <2> QED BY <2>1, <2>2
<1> QED BY <1>1, <1>2, Invariance, PTL DEF Safety, Ownership!Safety
============================================================================
