------------------------------- MODULE PerCPU -------------------------------
(***************************************************************************)
(* kpp::PerCPU<unsigned long> (kpp/util/PerCPU.hpp) as a statistics        *)
(* counter: threads add to the element of their CPU between get() and      *)
(* put(), and a reader sums the elements with get_for_cpu().  The scheduler*)
(* preempts threads and moves them to other CPUs.                          *)
(*                                                                         *)
(* External, as the code uses it: alloc_percpu may fail; get_cpu_ptr       *)
(* disables preemption and gives the address of this CPU's element;        *)
(* put_cpu_ptr enables it again.  Interrupt handlers do not use the        *)
(* counter: get() does not keep them out.                                  *)
(***************************************************************************)
EXTENDS Naturals, FiniteSets, Functions

CONSTANTS
  Cpus,       \* the CPUs
  Threads,    \* threads that count
  MaxUpdates, \* bound on the updates of an element
  none        \* no pointer

ConstantsAssumption ==
  IsFiniteSet(Cpus) /\ IsFiniteSet(Threads) /\ MaxUpdates \in Nat /\ none \notin Cpus

VARIABLES
  ptr_,      \* "none" (no object), "null" (allocation failed) or "set"
  cpu,       \* cpu[t]: the CPU on whose run queue t is
  running,   \* running[c]: the thread that runs on c
  at,        \* at[t]: "out", "read" or "written"
  slot,      \* slot[t]: the CPU whose element t has a pointer to, or none
  seen,      \* seen[t]: the value t has read
  element,   \* element[c]
  updates,   \* history: updates[c], the writes through pointers to the element of c
  todo,      \* the CPUs the reader has still to add; Cpus when it is idle
  sum,       \* what the reader has added up
  before     \* history: updates when the reader began

vars == <<ptr_, cpu, running, at, slot, seen, element, updates, todo, sum, before>>
objectVars == <<ptr_, element>>
schedVars == <<cpu, running>>
threadVars == <<at, slot, seen, updates>>
readerVars == <<todo, sum, before>>

Total(f) == FoldFunction(+, 0, f)

Init ==
  /\ ptr_ = "none"
  /\ running \in [Cpus -> Threads] /\ IsInjective(running)
  /\ cpu \in {f \in [Threads -> Cpus] : \A c \in Cpus : f[running[c]] = c}
  /\ at = [t \in Threads |-> "out"]
  /\ slot = [t \in Threads |-> none]
  /\ seen = [t \in Threads |-> 0]
  /\ element = [c \in Cpus |-> 0]
  /\ updates = [c \in Cpus |-> 0]
  /\ todo = Cpus /\ sum = 0 /\ before = updates

Construct ==
  /\ ptr_ = "none"
  /\ ptr_' \in {"null", "set"}
  /\ UNCHANGED <<schedVars, threadVars, element, readerVars>>

\* The owner lets the users finish before it destroys the object.
Destruct ==
  /\ ptr_ # "none" /\ todo = Cpus /\ \A t \in Threads : at[t] = "out"
  /\ ptr_' = "none"
  /\ element' = [c \in Cpus |-> 0] /\ updates' = [c \in Cpus |-> 0]
  /\ UNCHANGED <<schedVars, at, slot, seen, readerVars>>

Runs(t) == running[cpu[t]] = t

\* get(): a caller has looked at operator bool before.  Then *p += 1, as a
\* load ...
get(t) ==
  /\ Runs(t) /\ ptr_ = "set" /\ at[t] = "out" /\ updates[cpu[t]] < MaxUpdates
  /\ at' = [at EXCEPT ![t] = "read"]
  /\ slot' = [slot EXCEPT ![t] = cpu[t]]
  /\ seen' = [seen EXCEPT ![t] = element[cpu[t]]]
  /\ UNCHANGED <<objectVars, schedVars, updates, readerVars>>

\* ... and a store.
Store(t) ==
  /\ Runs(t) /\ at[t] = "read"
  /\ at' = [at EXCEPT ![t] = "written"]
  /\ element' = [element EXCEPT ![slot[t]] = seen[t] + 1]
  /\ updates' = [updates EXCEPT ![slot[t]] = @ + 1]
  /\ UNCHANGED <<ptr_, schedVars, slot, seen, readerVars>>

put(t) ==
  /\ Runs(t) /\ at[t] = "written"
  /\ at' = [at EXCEPT ![t] = "out"]
  /\ seen' = [seen EXCEPT ![t] = 0]
  /\ slot' = [slot EXCEPT ![t] = none]
  /\ UNCHANGED <<objectVars, schedVars, updates, readerVars>>

get_for_cpuIgnoresCpu(c) ==
  /\ ptr_ = "set" /\ c \in todo
  /\ before' = IF todo = Cpus THEN updates ELSE before
  /\ sum' = (IF todo = Cpus THEN 0 ELSE sum) + element[CHOOSE d \in Cpus : TRUE]
  /\ todo' = IF todo = {c} THEN Cpus ELSE todo \ {c}
  /\ UNCHANGED <<objectVars, schedVars, threadVars>>

\* The reader adds the element of one CPU after the other.
get_for_cpu(c) ==
  /\ ptr_ = "set" /\ c \in todo
  /\ before' = IF todo = Cpus THEN updates ELSE before
  /\ sum' = (IF todo = Cpus THEN 0 ELSE sum) + element[c]
  /\ todo' = IF todo = {c} THEN Cpus ELSE todo \ {c}
  /\ UNCHANGED <<objectVars, schedVars, threadVars>>

AlwaysPreemptible(t) == TRUE

\* Between get() and put() preemption is disabled.
Preemptible(t) == at[t] = "out"

\* The scheduler: another thread of the CPU's queue runs.
Switch(c, t) ==
  /\ cpu[t] = c /\ running[c] # t /\ Preemptible(running[c])
  /\ running' = [running EXCEPT ![c] = t]
  /\ UNCHANGED <<objectVars, cpu, threadVars, readerVars>>

Migrate(t, c) ==
  /\ ~Runs(t) /\ cpu[t] # c
  /\ cpu' = [cpu EXCEPT ![t] = c]
  /\ UNCHANGED <<objectVars, running, threadVars, readerVars>>

Next ==
  \/ Construct \/ Destruct
  \/ \E t \in Threads : get(t) \/ Store(t) \/ put(t)
  \/ \E c \in Cpus : get_for_cpu(c)
  \/ \E c \in Cpus, t \in Threads : Switch(c, t) \/ Migrate(t, c)

Spec == Init /\ [][Next]_vars

------------------------------------------------------------------------------
(***************************************************************************)
(* Properties.                                                             *)
(***************************************************************************)

\* Every variable keeps its type.
TypeOK ==
  /\ ptr_ \in {"none", "null", "set"}
  /\ cpu \in [Threads -> Cpus] /\ running \in [Cpus -> Threads]
  /\ at \in [Threads -> {"out", "read", "written"}] /\ slot \in [Threads -> Cpus \union {none}]
  /\ seen \in [Threads -> Nat] /\ element \in [Cpus -> Nat]
  /\ updates \in [Cpus -> 0 .. MaxUpdates]
  /\ todo \subseteq Cpus /\ sum \in Nat /\ before \in [Cpus -> 0 .. MaxUpdates]

\* No update is lost, although it is a plain load and store: each element is
\* the number of writes through pointers to it, through any preemptions and
\* migrations.
NoLostUpdate == element = updates

\* A sum that was finished without any lock is at least the number of writes
\* at its start and at most the number of writes now.
SumIsBetween ==
  [][\A c \in Cpus : todo = {c} /\ get_for_cpu(c) =>
       Total(before') <= sum' /\ sum' <= Total(updates)]_vars
==============================================================================
