------------------------------ MODULE SharedPtr ------------------------------
(***************************************************************************)
(* kpp::SharedPtr<T> and kpp::make_shared (kpp/memory/SharedPtr.hpp): an   *)
(* intrusive, atomically counted shared pointer.  Threads run the members  *)
(* of SharedPtr concurrently; a member is as many steps as it has          *)
(* accesses to memory another thread can see (the counter, the object, the *)
(* heap), in the order of the code.  ptr_ always points to the object      *)
(* inside the block cb_ points to, so the pair is modelled by cb_ alone.   *)
(*                                                                         *)
(* The callers are race-free on the SharedPtr variables themselves, as for *)
(* any C++ object: two threads may read one handle at a time, but a thread *)
(* writes a handle only while nobody else uses it (Unused, Readable).      *)
(* Blocks are reused: kmalloc may return any block that is free.           *)
(***************************************************************************)
EXTENDS Naturals, FiniteSets

CONSTANTS
  Threads,  \* kernel threads
  Ptrs,     \* storage for SharedPtr objects
  Blocks,   \* heap blocks that can hold a ControlBlockImpl<T>
  nullptr,  \* the value of cb_ in an empty SharedPtr
  NoObject, \* cb_[p] when no SharedPtr lives in p: before its constructor or after its destructor
  NoPtr     \* stands for "no handle" in a call record

ASSUME ConstantsAssumption ==
  /\ IsFiniteSet(Ptrs)
  /\ nullptr \notin Blocks
  /\ NoObject \notin Blocks
  /\ nullptr # NoObject
  /\ NoPtr \notin Ptrs

VARIABLES
  mem,          \* mem[b]: "free", "live" (T constructed) or "destroyed" (~T has run, not yet kfree'd)
  shared_count, \* shared_count[b]: the atomic counter in block b
  cb_,          \* cb_[p]: the block p points to, nullptr or NoObject
  call          \* call[t]: the member function thread t is inside of

vars == <<mem, shared_count, cb_, call>>

(***************************************************************************)
(* A call in progress: op is the member, dst is *this, src is other, and   *)
(* at is the step that comes next:                                         *)
(*   dec      release(): atomic_dec_and_test                               *)
(*   destroy  release(): ptr_->~T()                                        *)
(*   free     release(): kfree(cb_)                                        *)
(*   finish   after release(): overwrite the fields, or end the object     *)
(*   inc      atomic_inc on the counter of the block just copied           *)
(***************************************************************************)
Ops == {"none", "copyCtor", "copyAssign", "moveAssign", "dtor"}
Stages == {"idle", "dec", "destroy", "free", "finish", "inc"}

Idle == [op |-> "none", at |-> "idle", dst |-> NoPtr, src |-> NoPtr]
InCall(o, s, p, q) == [op |-> o, at |-> s, dst |-> p, src |-> q]

Alive(p) == cb_[p] # NoObject

\* No call in progress touches p: it may be written.
Unused(p) == \A t \in Threads : p # call[t].dst /\ p # call[t].src

\* No call in progress writes p (a move writes its source): it may be read.
Readable(p) ==
  \A t \in Threads : p # call[t].dst /\ (p = call[t].src => call[t].op # "moveAssign")

\* p owns a share that the counter of its block includes: a pointer copied
\* but not yet counted, or already given up by release(), does not.
Counted(p) == \A t \in Threads : p = call[t].dst => call[t].at = "dec"

Owners(b) == {p \in Ptrs : cb_[p] = b /\ Counted(p)}

------------------------------------------------------------------------------
(***************************************************************************)
(* Constructors.                                                           *)
(***************************************************************************)

DefaultConstruct(t, p) ==
  /\ call[t] = Idle
  /\ ~Alive(p) /\ Unused(p)
  /\ cb_' = [cb_ EXCEPT ![p] = nullptr]
  /\ UNCHANGED <<mem, shared_count, call>>

\* SharedPtr p = make_shared<T>(flags): kmalloc fails and p is empty, or a
\* free block gets the counter value 1 and a new object.
make_shared(t, p) ==
  /\ call[t] = Idle
  /\ ~Alive(p) /\ Unused(p)
  /\ \/ /\ cb_' = [cb_ EXCEPT ![p] = nullptr]
        /\ UNCHANGED <<mem, shared_count>>
     \/ \E b \in Blocks :
          /\ mem[b] = "free"
          /\ mem' = [mem EXCEPT ![b] = "live"]
          /\ shared_count' = [shared_count EXCEPT ![b] = 1]
          /\ cb_' = [cb_ EXCEPT ![p] = b]
  /\ UNCHANGED call

\* The copy constructor reads other's fields, then increments the counter
\* in a step of its own.
CopyConstruct(t, p, q) ==
  /\ call[t] = Idle
  /\ ~Alive(p) /\ Unused(p)
  /\ Alive(q) /\ Readable(q)
  /\ cb_' = [cb_ EXCEPT ![p] = cb_[q]]
  /\ call' = IF cb_[q] = nullptr THEN call
             ELSE [call EXCEPT ![t] = InCall("copyCtor", "inc", p, q)]
  /\ UNCHANGED <<mem, shared_count>>

MoveConstruct(t, p, q) ==
  /\ call[t] = Idle
  /\ ~Alive(p) /\ Unused(p)
  /\ Alive(q) /\ Unused(q)
  /\ cb_' = [cb_ EXCEPT ![p] = cb_[q], ![q] = nullptr]
  /\ UNCHANGED <<mem, shared_count, call>>

------------------------------------------------------------------------------
(***************************************************************************)
(* Assignments and the destructor start with release(), which does nothing *)
(* on an empty handle.                                                     *)
(***************************************************************************)

ReleaseEntry(p) == IF cb_[p] = nullptr THEN "finish" ELSE "dec"

AnyOther(p, q) == TRUE

\* The check "this != &other" of both assignments: assigning a handle to
\* itself changes nothing.
NotSelf(p, q) == p # q

CopyAssign(t, p, q) ==
  /\ call[t] = Idle
  /\ NotSelf(p, q)
  /\ Alive(p) /\ Unused(p)
  /\ Alive(q) /\ Readable(q)
  /\ call' = [call EXCEPT ![t] = InCall("copyAssign", ReleaseEntry(p), p, q)]
  /\ UNCHANGED <<mem, shared_count, cb_>>

MoveAssign(t, p, q) ==
  /\ call[t] = Idle
  /\ NotSelf(p, q)
  /\ Alive(p) /\ Unused(p)
  /\ Alive(q) /\ Unused(q)
  /\ call' = [call EXCEPT ![t] = InCall("moveAssign", ReleaseEntry(p), p, q)]
  /\ UNCHANGED <<mem, shared_count, cb_>>

Destruct(t, p) ==
  /\ call[t] = Idle
  /\ Alive(p) /\ Unused(p)
  /\ call' = [call EXCEPT ![t] = InCall("dtor", ReleaseEntry(p), p, NoPtr)]
  /\ UNCHANGED <<mem, shared_count, cb_>>

------------------------------------------------------------------------------
(***************************************************************************)
(* The steps of release().                                                 *)
(***************************************************************************)

Goto(t, s) == call' = [call EXCEPT ![t].at = s]

DecAndTestEarly(t) ==
  LET b == cb_[call[t].dst] IN
  /\ call[t].at = "dec"
  /\ shared_count' = [shared_count EXCEPT ![b] = @ - 1]
  /\ Goto(t, IF shared_count[b] \in {1, 2} THEN "destroy" ELSE "finish")
  /\ UNCHANGED <<mem, cb_>>

\* atomic_dec_and_test: one atomic step decrements and tells whether the
\* counter reached zero.
DecAndTest(t) ==
  LET b == cb_[call[t].dst] IN
  /\ call[t].at = "dec"
  /\ shared_count' = [shared_count EXCEPT ![b] = @ - 1]
  /\ Goto(t, IF shared_count[b] = 1 THEN "destroy" ELSE "finish")
  /\ UNCHANGED <<mem, cb_>>

DestroyObject(t) ==
  /\ call[t].at = "destroy"
  /\ mem' = [mem EXCEPT ![cb_[call[t].dst]] = "destroyed"]
  /\ Goto(t, "free")
  /\ UNCHANGED <<shared_count, cb_>>

NoKfree(t) ==
  /\ call[t].at = "free"
  /\ Goto(t, "finish")
  /\ UNCHANGED <<mem, shared_count, cb_>>

Kfree(t) ==
  /\ call[t].at = "free"
  /\ mem' = [mem EXCEPT ![cb_[call[t].dst]] = "free"]
  /\ Goto(t, "finish")
  /\ UNCHANGED <<shared_count, cb_>>

------------------------------------------------------------------------------
(***************************************************************************)
(* What follows release().                                                 *)
(***************************************************************************)

FinishDestruct(t) ==
  /\ call[t].at = "finish" /\ call[t].op = "dtor"
  /\ cb_' = [cb_ EXCEPT ![call[t].dst] = NoObject]
  /\ call' = [call EXCEPT ![t] = Idle]
  /\ UNCHANGED <<mem, shared_count>>

TakeCopy(t) ==
  LET b == cb_[call[t].src] IN
  /\ call[t].at = "finish" /\ call[t].op = "copyAssign"
  /\ cb_' = [cb_ EXCEPT ![call[t].dst] = b]
  /\ IF b = nullptr THEN call' = [call EXCEPT ![t] = Idle] ELSE Goto(t, "inc")
  /\ UNCHANGED <<mem, shared_count>>

TakeMoveKeepSource(t) ==
  /\ call[t].at = "finish" /\ call[t].op = "moveAssign"
  /\ cb_' = [cb_ EXCEPT ![call[t].dst] = cb_[call[t].src]]
  /\ call' = [call EXCEPT ![t] = Idle]
  /\ UNCHANGED <<mem, shared_count>>

TakeMove(t) ==
  /\ call[t].at = "finish" /\ call[t].op = "moveAssign"
  /\ cb_' = [cb_ EXCEPT ![call[t].dst] = cb_[call[t].src], ![call[t].src] = nullptr]
  /\ call' = [call EXCEPT ![t] = Idle]
  /\ UNCHANGED <<mem, shared_count>>

NoAtomicInc(t) ==
  /\ call[t].at = "inc"
  /\ call' = [call EXCEPT ![t] = Idle]
  /\ UNCHANGED <<mem, shared_count, cb_>>

AtomicInc(t) ==
  /\ call[t].at = "inc"
  /\ shared_count' = [shared_count EXCEPT ![cb_[call[t].dst]] = @ + 1]
  /\ call' = [call EXCEPT ![t] = Idle]
  /\ UNCHANGED <<mem, cb_>>

------------------------------------------------------------------------------
Init ==
  /\ mem = [b \in Blocks |-> "free"]
  /\ shared_count = [b \in Blocks |-> 0]
  /\ cb_ = [p \in Ptrs |-> NoObject]
  /\ call = [t \in Threads |-> Idle]

\* A thread inside a member function takes its next step.
Step(t) ==
  \/ DecAndTest(t) \/ DestroyObject(t) \/ Kfree(t)
  \/ FinishDestruct(t) \/ TakeCopy(t) \/ TakeMove(t) \/ AtomicInc(t)

\* An idle thread calls a member function.
Begin(t) ==
  \/ \E p \in Ptrs : DefaultConstruct(t, p) \/ make_shared(t, p) \/ Destruct(t, p)
  \/ \E p, q \in Ptrs :
       \/ CopyConstruct(t, p, q) \/ MoveConstruct(t, p, q)
       \/ CopyAssign(t, p, q) \/ MoveAssign(t, p, q)

Next == \E t \in Threads : Begin(t) \/ Step(t)

Safety == Init /\ [][Next]_vars

\* A thread inside a member function is eventually scheduled again; nothing
\* obliges a thread to call one.
Spec == Safety /\ \A t \in Threads : WF_vars(Step(t))

------------------------------------------------------------------------------
(***************************************************************************)
(* Properties.                                                             *)
(***************************************************************************)

Calls ==
  {c \in [op : Ops, at : Stages, dst : Ptrs \union {NoPtr}, src : Ptrs \union {NoPtr}] :
     (c.at = "idle") <=> (c = Idle)}

\* Every variable keeps its type; in particular the counter of release() and
\* the copy operations never goes below zero.
TypeOK ==
  /\ mem \in [Blocks -> {"free", "live", "destroyed"}]
  /\ shared_count \in [Blocks -> Nat]
  /\ cb_ \in [Ptrs -> Blocks \union {nullptr, NoObject}]
  /\ call \in [Threads -> Calls]

\* A handle nobody is writing can be dereferenced: get(), operator* and
\* operator-> on it reach an object that is constructed and not destroyed,
\* whatever release() runs in other threads.
DerefIsSafe ==
  \A p \in Ptrs : Readable(p) /\ cb_[p] \in Blocks => mem[cb_[p]] = "live"

\* Every access a member function makes to a block finds it in the state the
\* code relies on: the counter is touched only while the object is alive,
\* ~T() runs on a live object and kfree() on a destroyed one.
AccessIsSafe ==
  \A t \in Threads :
    /\ call[t].at \in {"dec", "inc", "destroy"} => mem[cb_[call[t].dst]] = "live"
    /\ call[t].at = "free" => mem[cb_[call[t].dst]] = "destroyed"

\* Nobody touches a block that is gone, neither the users of a handle nor the
\* member functions of SharedPtr.
NoUseAfterFree == DerefIsSafe /\ AccessIsSafe

\* Only one thread can have seen the counter of a block reach zero: the
\* object is destroyed once and freed once.
Reclaiming(t, b) == call[t].at \in {"destroy", "free"} /\ cb_[call[t].dst] = b
OneReclaimer ==
  \A b \in Blocks : \A t, u \in Threads : Reclaiming(t, b) /\ Reclaiming(u, b) => t = u

\* The counter of a live block is the number of handles that own a share of
\* it, also while copies, moves and releases are half done.
CountIsOwners ==
  \A b \in Blocks : mem[b] = "live" => shared_count[b] = Cardinality(Owners(b))

\* A block is allocated only as long as some handle owns a share of it or
\* some thread is on its way to destroy and free it.
NoLeak ==
  \A b \in Blocks :
    mem[b] # "free" => Owners(b) # {} \/ \E t \in Threads : Reclaiming(t, b)

\* A block whose last owner is gone is eventually freed.
EventuallyFreed ==
  \A b \in Blocks : (mem[b] # "free" /\ Owners(b) = {}) ~> mem[b] = "free"

\* The counted pointer implements shared ownership: seen through the owners
\* of each block, every step is a step of SharedOwnership or changes nothing.
Ownership == INSTANCE SharedOwnership WITH
  holders <- [b \in Blocks |-> Owners(b)], object <- mem
ImplementsOwnership == Ownership!Spec

------------------------------------------------------------------------------
(***************************************************************************)
(* The inductive invariant: what makes the properties above hold after     *)
(* every step.  It adds what the code relies on inside a call.             *)
(***************************************************************************)

\* The handles a call works on exist and differ, release() runs only on a
\* handle that points to a block, and a copy that is not yet counted points
\* to the same block as its source.
CallInv ==
  \A t \in Threads :
    /\ call[t].at # "idle" => call[t].dst \in Ptrs /\ Alive(call[t].dst)
    /\ call[t].at \in {"dec", "destroy", "free"} => cb_[call[t].dst] \in Blocks
    /\ call[t].at = "inc" => /\ call[t].op \in {"copyCtor", "copyAssign"}
                             /\ cb_[call[t].dst] = cb_[call[t].src]
                             /\ cb_[call[t].dst] \in Blocks
    /\ call[t].op = "copyCtor" => call[t].at = "inc"
    /\ call[t].op \in {"copyCtor", "copyAssign", "moveAssign"} =>
         call[t].src \in Ptrs /\ call[t].src # call[t].dst /\ Alive(call[t].src)

\* A handle written by one call is used by no other.
ExclusiveInv ==
  \A t, u \in Threads : t # u /\ call[t].at # "idle" =>
    /\ call[t].dst # call[u].dst /\ call[t].dst # call[u].src
    /\ call[t].op = "moveAssign" => call[t].src # call[u].src

\* Only live blocks have owners, and the thread that saw the counter reach
\* zero has the block for itself.
OwnersInv == \A b \in Blocks : mem[b] # "live" => Owners(b) = {}
ReclaimInv ==
  \A t \in Threads :
    /\ call[t].at = "destroy" => mem[cb_[call[t].dst]] = "live"
    /\ call[t].at = "free" => mem[cb_[call[t].dst]] = "destroyed"
    /\ call[t].at \in {"destroy", "free"} => Owners(cb_[call[t].dst]) = {}

IInv ==
  /\ TypeOK /\ CallInv /\ ExclusiveInv
  /\ CountIsOwners /\ OwnersInv /\ ReclaimInv /\ OneReclaimer /\ NoLeak

==============================================================================
