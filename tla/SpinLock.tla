------------------------------- MODULE SpinLock -------------------------------
(***************************************************************************)
(* kpp::SpinLock (kpp/sync/SpinLock.hpp) taken through kpp::ScopedLock     *)
(* (kpp/sync/ScopedLock.hpp) around an update of shared data.  On each CPU *)
(* a thread runs and may be interrupted at any point.  SpinLock leaves     *)
(* interrupts on, so that it can be shared with an interrupt handler only  *)
(* if no thread takes it on a CPU where that handler runs: a handler would *)
(* spin for ever on a lock that the thread under it holds.                 *)
(*                                                                         *)
(* External, as the code uses it: spin_lock disables preemption and serves *)
(* the CPUs in the order in which they came.                               *)
(***************************************************************************)
EXTENDS Naturals, FiniteSets, SequencesExt

CONSTANTS
  Cpus,     \* the CPUs
  IrqCpus,  \* those whose interrupt handler takes the lock
  Modulus   \* the data is a number below this bound

ConstantsAssumption == IrqCpus \subseteq Cpus /\ Modulus \in Nat \ {0, 1}

\* Where code runs: the thread of a CPU or its interrupt handler.
Thread(c) == <<c, "thread">>
Handler(c) == <<c, "irq">>
Contexts == Cpus \X {"thread", "irq"}
Lockers == {Thread(c) : c \in Cpus \ IrqCpus} \union {Handler(c) : c \in IrqCpus}

VARIABLES
  queue,     \* the contexts at the lock in order; the first one has it
  pc,        \* pc[x]: "out", "run" (a handler has started), "spin", "read" or "written"
  data,      \* the shared data
  seen,      \* seen[x]: the value that x has read
  expected   \* history: the number of updates, modulo Modulus

vars == <<queue, pc, data, seen, expected>>

Init ==
  /\ queue = <<>>
  /\ pc = [x \in Contexts |-> "out"]
  /\ data = 0 /\ expected = 0
  /\ seen = [x \in Contexts |-> 0]

\* x is not interrupted.
Runs(x) == x[2] = "thread" => pc[Handler(x[1])] = "out"

Interrupt(c) ==
  /\ pc[Handler(c)] = "out"
  /\ pc' = [pc EXCEPT ![Handler(c)] = "run"]
  /\ UNCHANGED <<queue, data, seen, expected>>

\* A handler with no use for the lock.
HandlerReturns(c) ==
  /\ c \notin IrqCpus /\ pc[Handler(c)] = "run"
  /\ pc' = [pc EXCEPT ![Handler(c)] = "out"]
  /\ UNCHANGED <<queue, data, seen, expected>>

Starts(x) == pc[x] = (IF x[2] = "irq" THEN "run" ELSE "out")

\* ScopedLock(lock): x is at the lock.
lock(x) ==
  /\ x \in Lockers /\ Runs(x) /\ Starts(x)
  /\ queue' = Append(queue, x)
  /\ pc' = [pc EXCEPT ![x] = "spin"]
  /\ UNCHANGED <<data, seen, expected>>

HasLock(x) == queue # <<>> /\ Head(queue) = x

\* Inside the scope: the data is read, then written.
Read(x) ==
  /\ pc[x] = "spin" /\ HasLock(x) /\ Runs(x)
  /\ seen' = [seen EXCEPT ![x] = data]
  /\ pc' = [pc EXCEPT ![x] = "read"]
  /\ UNCHANGED <<queue, data, expected>>

Write(x) ==
  /\ pc[x] = "read" /\ Runs(x)
  /\ data' = (seen[x] + 1) % Modulus
  /\ expected' = (expected + 1) % Modulus
  /\ pc' = [pc EXCEPT ![x] = "written"]
  /\ seen' = [seen EXCEPT ![x] = 0]
  /\ UNCHANGED queue

\* ~ScopedLock()
unlock(x) ==
  /\ pc[x] = "written" /\ Runs(x)
  /\ queue' = Tail(queue)
  /\ pc' = [pc EXCEPT ![x] = "out"]
  /\ UNCHANGED <<data, seen, expected>>

InScope(x) == Read(x) \/ Write(x) \/ unlock(x)

Next ==
  \/ \E c \in Cpus : Interrupt(c) \/ HandlerReturns(c)
  \/ \E x \in Lockers : lock(x) \/ InScope(x)

\* A handler that was entered runs to its end.  A thread runs between two
\* interrupts, however many there are.
Fairness ==
  /\ \A c \in Cpus : WF_vars(HandlerReturns(c))
  /\ \A c \in IrqCpus : WF_vars(lock(Handler(c))) /\ WF_vars(InScope(Handler(c)))
  /\ \A c \in Cpus \ IrqCpus : SF_vars(InScope(Thread(c)))

Spec == Init /\ [][Next]_vars /\ Fairness

------------------------------------------------------------------------------
(***************************************************************************)
(* Properties.                                                             *)
(***************************************************************************)

\* Every variable keeps its type.
TypeOK ==
  /\ queue \in Seq(Lockers)
  /\ pc \in [Contexts -> {"out", "run", "spin", "read", "written"}]
  /\ data \in 0 .. Modulus - 1 /\ expected \in 0 .. Modulus - 1
  /\ seen \in [Contexts -> 0 .. Modulus - 1]

\* No update under the lock is lost, whatever interrupts come between the
\* read and the write.
NoLostUpdate == data = expected

\* Whoever waits for the lock gets it.
EveryLockerEnters == \A x \in Lockers : pc[x] = "spin" ~> pc[x] = "read"
==============================================================================
