------------------------------ MODULE MCLibrary ------------------------------
(***************************************************************************)
(* The library classes without a kernel object of their own in one model:  *)
(* the results Expected and IoctlHandler, the containers HashMap and List, *)
(* the synchronisation primitives Semaphore, Completion and SpinLock, the  *)
(* counters PerCPU, Kref and Atomic, Page, and the buffer of an SKB.       *)
(* HashMap uses the sequence that List is shown to implement; otherwise    *)
(* they share no state, so each behaviour is one of a single part, and the *)
(* others stand still.                                                     *)
(***************************************************************************)
EXTENDS Expected, Integers, Sequences, FiniteSets

VARIABLE part  \* the part under test

CONSTANT none

CONSTANTS Commands, Cmds, Arguments, Results, ENOTTY, EFAULT
VARIABLES pc, cmd, i, handled, ret, argument, user, mapped, calls, result
Ioctl == INSTANCE IoctlHandler WITH Values <- Arguments, data <- argument
ioctlVars == <<pc, cmd, i, handled, ret, argument, user, mapped, calls, result>>

CONSTANTS Keys, Values, Hash, BucketCounts, Nodes
VARIABLES life, bucket_count_, buckets_, key, value, allocated, inserted
Map == INSTANCE HashMap
mapVars == <<life, bucket_count_, buckets_, key, value, allocated, inserted>>

CONSTANTS ListNodes, head_, poison
VARIABLES next, prev, node_, stayed, undercut, visits
L == INSTANCE List WITH Nodes <- ListNodes
listVars == <<next, prev, node_, stayed, undercut, visits>>

CONSTANTS Threads, Count
VARIABLES count, wait_list, how, state
Sem == INSTANCE Semaphore
semaphoreVars == <<count, wait_list, how, state>>

CONSTANTS Waiters, Workers, owner
VARIABLES use, exists, done, lock, todo, left
Com == INSTANCE Completion WITH alive <- exists
completionVars == <<use, exists, done, lock, todo, left>>

CONSTANTS LockCpus, IrqCpus, Modulus
VARIABLES queue, spinPc, shared, spinSeen, expected
Spin == INSTANCE SpinLock WITH Cpus <- LockCpus, pc <- spinPc, data <- shared, seen <- spinSeen
spinVars == <<queue, spinPc, shared, spinSeen, expected>>

CONSTANTS Cpus, MaxUpdates
VARIABLES ptr_, cpu, running, at, slot, seen, element, updates, unread, sum, before
Per == INSTANCE PerCPU WITH todo <- unread
perCpuVars == <<ptr_, cpu, running, at, slot, seen, element, updates, unread, sum, before>>

CONSTANT Shares
VARIABLES api, object, holding, counter
Ref == INSTANCE Counters WITH held <- holding, value <- counter
counterVars == <<api, object, holding, counter>>

CONSTANTS Mappers, Pages, PageSlots, Depth
VARIABLES addr_, meant, waiting, page, mappings
P == INSTANCE PageMap WITH Threads <- Mappers, Slots <- PageSlots
pageVars == <<addr_, meant, waiting, page, mappings>>

CONSTANTS Bytes, Size, Beyond
VARIABLES buffer, data, tail, panic, spoilt, beyond, payload
Skb == INSTANCE SkbBuffer
skbVars == <<buffer, data, tail, panic, spoilt, beyond, payload>>

ASSUME PartsAssumption ==
  /\ Ioctl!ConstantsAssumption /\ Map!ConstantsAssumption /\ L!ConstantsAssumption
  /\ Sem!ConstantsAssumption /\ Com!ConstantsAssumption /\ Spin!ConstantsAssumption
  /\ Per!ConstantsAssumption /\ Ref!ConstantsAssumption /\ P!ConstantsAssumption
  /\ Skb!ConstantsAssumption

\* A pack with one command of each direction, and a second command with the
\* number of a READ_WRITE one.
Pack == << [cmd |-> 1, dir |-> "NONE"], [cmd |-> 2, dir |-> "READ_WRITE"],
           [cmd |-> 3, dir |-> "READ"], [cmd |-> 2, dir |-> "WRITE"], [cmd |-> 4, dir |-> "WRITE"] >>

\* The owner answers with the handler's own errors, success, or a number.
Answers == {-ENOTTY, -EFAULT, 0, 1}

\* Three keys of which two collide in a map with two buckets.
CONSTANTS k1, k2, k3
Hashes == [k \in Keys |-> IF k = k1 THEN 0 ELSE IF k = k2 THEN 1 ELSE 2]

Parts == {"Expected", "IoctlHandler", "HashMap", "List", "Semaphore", "Completion", "SpinLock",
          "PerCPU", "Counters", "PageMap", "SkbBuffer"}

Any(S) == CHOOSE x \in S : TRUE

\* The parts that stand still do so in one of their initial states.
MCInit ==
  /\ part \in Parts
  /\ Init /\ Map!Init /\ L!Init /\ Sem!Init /\ Spin!Init /\ P!Init
  /\ Ioctl!Init /\ (part # "IoctlHandler" => cmd = Any(Cmds))
  /\ Com!Init /\ (part # "Completion" => use = "event" /\ todo = {Any(Workers)})
  /\ Per!Init
  /\ part # "PerCPU" =>
       /\ running = Any({f \in [Cpus -> Threads] : \A c, d \in Cpus : c # d => f[c] # f[d]})
       /\ cpu = Any({f \in [Threads -> Cpus] : \A c \in Cpus : f[running[c]] = c})
  /\ Ref!Init /\ (part # "Counters" => api = "Kref")
  /\ Skb!Init /\ (part # "SkbBuffer" => buffer = [k \in 0 .. Size - 1 |-> Any(Bytes)])

Still(p, v) == part # p => UNCHANGED v

MCNext ==
  /\ \/ part = "Expected" /\ Next
     \/ part = "IoctlHandler" /\ Ioctl!Next
     \/ part = "HashMap" /\ Map!Next
     \/ part = "List" /\ L!Next
     \/ part = "Semaphore" /\ Sem!Next
     \/ part = "Completion" /\ Com!Next
     \/ part = "SpinLock" /\ Spin!Next
     \/ part = "PerCPU" /\ Per!Next
     \/ part = "Counters" /\ Ref!Next
     \/ part = "PageMap" /\ P!Next
     \/ part = "SkbBuffer" /\ Skb!Next
  /\ Still("Expected", vars) /\ Still("IoctlHandler", ioctlVars) /\ Still("HashMap", mapVars)
  /\ Still("List", listVars) /\ Still("Semaphore", semaphoreVars)
  /\ Still("Completion", completionVars) /\ Still("SpinLock", spinVars)
  /\ Still("PerCPU", perCpuVars) /\ Still("Counters", counterVars)
  /\ Still("PageMap", pageVars) /\ Still("SkbBuffer", skbVars)
  /\ UNCHANGED part

MCSpec ==
  /\ MCInit
  /\ [][MCNext]_<<part, vars, ioctlVars, mapVars, listVars, semaphoreVars, completionVars, spinVars,
                  perCpuVars, counterVars, pageVars, skbVars>>
  /\ Sem!Fairness /\ Com!Fairness /\ Spin!Fairness /\ P!Fairness

------------------------------------------------------------------------------
\* IoctlHandler: the variables keep their types, one ioctl calls the owner at
\* most once, for the first match, and the result tells what was done.
ResultIsTrue == Ioctl!TypeOK /\ Ioctl!AtMostOneCall /\ Ioctl!ResultIsTrue

\* IoctlHandler: handle writes user memory only with results of the owner.
WritesOnlyResults == Ioctl!WritesOnlyResults

\* HashMap: the variables keep their types, find leads to the first value
\* inserted under its key, and each node is in its bucket.
MapInv == Map!TypeOK /\ Map!FindsFirstInserted /\ Map!NodesInBuckets

\* HashMap: what find returned stays the answer.
PointersStayValid == Map!PointersStayValid

\* List: the variables keep their types, the pointers are one ring, and a loop
\* whose body adds and deletes visits each lasting node once.
VisitsEachOnce == L!TypeOK /\ L!RingIntact /\ L!VisitsEachOnce

\* List: the pointers implement a sequence of nodes.
ImplementsSequence == L!ImplementsSequence

\* Semaphore and Completion: the variables keep their types; signals and
\* timeouts that race up lose no unit and no wakeup; a completion is not used
\* after its scope.
NoLostWakeup ==
  /\ Sem!TypeOK /\ Sem!UnitsConserved /\ Sem!NoLostWakeup
  /\ Com!TypeOK /\ Com!NotUsedAfterScope

\* PerCPU, SpinLock, Kref and Atomic: the variables keep their types; plain
\* updates between get and put, and under the lock, are never lost; a counter
\* is the number of shares of a live object.
CountsExact ==
  /\ Per!TypeOK /\ Per!NoLostUpdate
  /\ Spin!TypeOK /\ Spin!NoLostUpdate
  /\ Ref!TypeOK /\ Ref!CountIsShares

\* PerCPU: a sum without a lock lies between the counts at its start and end.
SumIsBetween == Per!SumIsBetween

\* Page and SKB: the variables keep their types; a mapped address leads to
\* its page; the bytes between data and tail are what the callers put there,
\* as long as no reserve moved the tail behind the buffer.
BuffersIntact ==
  /\ P!TypeOK /\ P!AddressStaysMapped
  /\ Skb!TypeOK /\ Skb!PayloadIntact

\* Semaphore, Completion, SpinLock and Page: every wait ends.
WaitsEnd ==
  Sem!EveryDownReturns /\ Com!EveryWaitReturns /\ Spin!EveryLockerEnters /\ P!EveryMapReturns
==============================================================================
