----------------------------- MODULE WorkQueue -----------------------------
(***************************************************************************)
(* kpp::schedule_work and Work<F> (kpp/async/WorkQueue.hpp): a functor is  *)
(* put in a heap block that a worker of the system workqueue calls and     *)
(* then frees.  The worker may run, and free the block, as soon as it is   *)
(* queued: before schedule_work returns and its UniquePtr is destroyed.    *)
(* The functor is an rvalue: the block of an lvalue only refers to it.     *)
(*                                                                         *)
(* External, as the code uses it: the kernel's schedule_work queues a work *)
(* item; an idle worker takes the oldest one and calls its function.       *)
(***************************************************************************)
EXTENDS Naturals, Sequences, FiniteSets

CONSTANTS
  Threads,  \* the callers of kpp::schedule_work
  Workers,  \* the kernel's workers
  Jobs,     \* the functors, each scheduled once
  Blocks,   \* heap blocks that can hold a Work<F>
  nullptr   \* an empty UniquePtr, a worker with no work

ASSUME ConstantsAssumption == nullptr \notin Blocks \union Jobs

VARIABLES
  pc,         \* pc[t]: "idle", "made", "queued"
  work_item,  \* work_item[t]: the UniquePtr of schedule_work
  allocated,  \* the blocks that kmalloc returned and nobody freed
  func,       \* func[b]: the functor in the block, or nullptr
  queue,      \* the system workqueue
  step,       \* step[w]: "idle", "call", "free"
  self,       \* self[w]: the block the worker runs
  job,        \* job[j]: "new", "dropped" or "accepted"
  ran         \* ran[j]: how often the functor was called

vars == <<pc, work_item, allocated, func, queue, step, self, job, ran>>
callerVars == <<pc, work_item, job>>
workerVars == <<step, self, ran>>

------------------------------------------------------------------------------
(***************************************************************************)
(* kpp::schedule_work.                                                     *)
(***************************************************************************)

\* make_unique<Work<F>>(GFP_ATOMIC, f).  Without memory schedule_work returns,
\* and its caller does not learn that the functor was dropped.
MakeWork(t, j) ==
  /\ pc[t] = "idle" /\ job[j] = "new"
  /\ \/ /\ job' = [job EXCEPT ![j] = "dropped"]
        /\ UNCHANGED <<pc, work_item, allocated, func>>
     \/ \E b \in Blocks \ allocated :
          /\ allocated' = allocated \union {b}
          /\ func' = [func EXCEPT ![b] = j]
          /\ work_item' = [work_item EXCEPT ![t] = b]
          /\ pc' = [pc EXCEPT ![t] = "made"]
          /\ job' = [job EXCEPT ![j] = "accepted"]
  /\ UNCHANGED <<queue, workerVars>>

QueueKept(t) ==
  /\ pc[t] = "made"
  /\ queue' = Append(queue, work_item[t])
  /\ pc' = [pc EXCEPT ![t] = "queued"]
  /\ UNCHANGED <<work_item, allocated, func, job, workerVars>>

\* ::schedule_work(&work_item.release()->work).
QueueReleased(t) ==
  /\ pc[t] = "made"
  /\ queue' = Append(queue, work_item[t])
  /\ work_item' = [work_item EXCEPT ![t] = nullptr]
  /\ pc' = [pc EXCEPT ![t] = "queued"]
  /\ UNCHANGED <<allocated, func, job, workerVars>>

\* The destructor of work_item frees what it still owns.
Return(t) ==
  /\ pc[t] = "queued"
  /\ allocated' = allocated \ {work_item[t]}
  /\ work_item' = [work_item EXCEPT ![t] = nullptr]
  /\ pc' = [pc EXCEPT ![t] = "idle"]
  /\ UNCHANGED <<func, queue, job, workerVars>>

------------------------------------------------------------------------------
(***************************************************************************)
(* A worker, and Work<F>::work_callback.                                   *)
(***************************************************************************)

Take(w) ==
  /\ step[w] = "idle" /\ queue # <<>>
  /\ self' = [self EXCEPT ![w] = Head(queue)]
  /\ queue' = Tail(queue)
  /\ step' = [step EXCEPT ![w] = "call"]
  /\ UNCHANGED <<callerVars, allocated, func, ran>>

CallSkipped(w) ==
  /\ step[w] = "call"
  /\ step' = [step EXCEPT ![w] = "free"]
  /\ UNCHANGED <<callerVars, allocated, func, queue, self, ran>>

\* self->func().
CallFunc(w) ==
  /\ step[w] = "call"
  /\ ran' = [ran EXCEPT ![func[self[w]]] = @ + 1]
  /\ step' = [step EXCEPT ![w] = "free"]
  /\ UNCHANGED <<callerVars, allocated, func, queue, self>>

\* kfree(self).
FreeSelf(w) ==
  /\ step[w] = "free"
  /\ allocated' = allocated \ {self[w]}
  /\ self' = [self EXCEPT ![w] = nullptr]
  /\ step' = [step EXCEPT ![w] = "idle"]
  /\ UNCHANGED <<callerVars, func, queue, ran>>

------------------------------------------------------------------------------
Init ==
  /\ pc = [t \in Threads |-> "idle"]
  /\ work_item = [t \in Threads |-> nullptr]
  /\ allocated = {}
  /\ func = [b \in Blocks |-> nullptr]
  /\ queue = <<>>
  /\ step = [w \in Workers |-> "idle"]
  /\ self = [w \in Workers |-> nullptr]
  /\ job = [j \in Jobs |-> "new"]
  /\ ran = [j \in Jobs |-> 0]

Next ==
  \/ \E t \in Threads : (\E j \in Jobs : MakeWork(t, j)) \/ QueueReleased(t) \/ Return(t)
  \/ \E w \in Workers : Take(w) \/ CallFunc(w) \/ FreeSelf(w)

\* A thread that entered schedule_work goes on, a worker does not stop, and
\* the workqueue has a worker for what is queued.
Fairness ==
  /\ \A t \in Threads : WF_vars(QueueReleased(t)) /\ WF_vars(Return(t))
  /\ \A w \in Workers : WF_vars(Take(w)) /\ WF_vars(CallFunc(w)) /\ WF_vars(FreeSelf(w))

Spec == Init /\ [][Next]_vars /\ Fairness

------------------------------------------------------------------------------
(***************************************************************************)
(* Properties.                                                             *)
(***************************************************************************)

\* Every variable keeps its type.
TypeOK ==
  /\ pc \in [Threads -> {"idle", "made", "queued"}]
  /\ work_item \in [Threads -> Blocks \union {nullptr}]
  /\ allocated \subseteq Blocks
  /\ func \in [Blocks -> Jobs \union {nullptr}]
  /\ queue \in Seq(Blocks)
  /\ step \in [Workers -> {"idle", "call", "free"}]
  /\ self \in [Workers -> Blocks \union {nullptr}]
  /\ job \in [Jobs -> {"new", "dropped", "accepted"}]
  /\ ran \in [Jobs -> Nat]

\* How many owners a block has: the UniquePtrs of callers, the places in the
\* queue and the workers that hold it.
Owners(b) ==
  Cardinality({t \in Threads : work_item[t] = b})
    + Cardinality({i \in DOMAIN queue : queue[i] = b})
    + Cardinality({w \in Workers : self[w] = b})

\* A block has exactly one owner while it is allocated and none after: the
\* UniquePtr of schedule_work and the worker never both free it, a worker
\* never runs a freed block, and no block is lost between them.
OneOwner == \A b \in Blocks : Owners(b) = IF b \in allocated THEN 1 ELSE 0

\* A functor that found memory is called, and no functor is called twice or
\* when its allocation failed, although blocks are reused as soon as a worker
\* frees them.
RunsOnce ==
  \A j \in Jobs :
    /\ [](ran[j] <= IF job[j] = "accepted" THEN 1 ELSE 0)
    /\ job[j] = "accepted" ~> ran[j] = 1

\* Every block is given back, whoever frees it.
BlocksComeBack == \A b \in Blocks : b \in allocated ~> b \notin allocated
==============================================================================
