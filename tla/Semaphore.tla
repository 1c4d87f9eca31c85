------------------------------ MODULE Semaphore ------------------------------
(***************************************************************************)
(* kpp::Semaphore (kpp/sync/Semaphore.hpp): a counting semaphore that      *)
(* threads take in four ways, three of which may give up.  A thread has    *)
(* taken the semaphore when its call returned 0 (or, for down, returned),  *)
(* and gives back with up what it has taken.                               *)
(*                                                                         *)
(* External, as the code uses it: each call runs under the spin lock of    *)
(* struct semaphore.  Waiters form a queue; up hands the semaphore to the  *)
(* first of them, or counts; a signal or a timeout removes a waiter that   *)
(* was not handed the semaphore yet.                                       *)
(***************************************************************************)
EXTENDS Naturals, FiniteSets, SequencesExt

CONSTANTS
  Threads,  \* the callers
  Count     \* the argument of the constructor

ConstantsAssumption == IsFiniteSet(Threads) /\ Count \in Nat

VARIABLES
  count,      \* sem_.count
  wait_list,  \* sem_.wait_list
  how,        \* how[t]: the member function t waits in
  state       \* state[t]: "idle", "waiting", "granted" (not yet awake) or "holding"

vars == <<count, wait_list, how, state>>

Calls == {"down", "down_interruptible", "down_killable", "down_timeout"}

\* Semaphore(count)
Init ==
  /\ count = Count
  /\ wait_list = <<>>
  /\ how = [t \in Threads |-> "down"]
  /\ state = [t \in Threads |-> "idle"]

\* What the four calls share: take the semaphore, or queue up for it.
Enter(t, call) ==
  /\ state[t] = "idle"
  /\ how' = [how EXCEPT ![t] = call]
  /\ \/ /\ count > 0
        /\ count' = count - 1
        /\ state' = [state EXCEPT ![t] = "holding"]
        /\ UNCHANGED wait_list
     \/ /\ count = 0
        /\ wait_list' = Append(wait_list, t)
        /\ state' = [state EXCEPT ![t] = "waiting"]
        /\ UNCHANGED count

down(t) == Enter(t, "down")
down_interruptible(t) == Enter(t, "down_interruptible")
down_killable(t) == Enter(t, "down_killable")
down_timeout(t) == Enter(t, "down_timeout")

\* The call of t that was handed the semaphore returns.
ReturnZero(t) ==
  /\ state[t] = "granted"
  /\ state' = [state EXCEPT ![t] = "holding"]
  /\ UNCHANGED <<count, wait_list, how>>

ReturnErrorIgnored(t) ==
  /\ state[t] = "waiting" /\ how[t] # "down"
  /\ \E k \in DOMAIN wait_list : wait_list[k] = t /\ wait_list' = RemoveAt(wait_list, k)
  /\ state' = [state EXCEPT ![t] = "holding"]
  /\ UNCHANGED <<count, how>>

\* -EINTR or -ETIME, which the wrapper passes on: nothing was taken.
ReturnError(t) ==
  /\ state[t] = "waiting" /\ how[t] # "down"
  /\ \E k \in DOMAIN wait_list : wait_list[k] = t /\ wait_list' = RemoveAt(wait_list, k)
  /\ state' = [state EXCEPT ![t] = "idle"]
  /\ UNCHANGED <<count, how>>

up(t) ==
  /\ state[t] = "holding"
  /\ IF wait_list = <<>>
     THEN /\ count' = count + 1
          /\ state' = [state EXCEPT ![t] = "idle"]
          /\ UNCHANGED wait_list
     ELSE /\ wait_list' = Tail(wait_list)
          /\ state' = [state EXCEPT ![t] = "idle", ![Head(wait_list)] = "granted"]
          /\ UNCHANGED count
  /\ UNCHANGED how

Next ==
  \E t \in Threads :
    \/ down(t) \/ down_interruptible(t) \/ down_killable(t) \/ down_timeout(t)
    \/ ReturnZero(t) \/ ReturnError(t) \/ up(t)

\* A thread that was woken runs, and who holds the semaphore gives it back;
\* nobody has to be interrupted or to time out.
Fairness == \A t \in Threads : WF_vars(ReturnZero(t)) /\ WF_vars(up(t))

Spec == Init /\ [][Next]_vars /\ Fairness

------------------------------------------------------------------------------
(***************************************************************************)
(* Properties.                                                             *)
(***************************************************************************)

\* Every variable keeps its type.
TypeOK ==
  /\ count \in 0 .. Count
  /\ wait_list \in Seq(Threads)
  /\ how \in [Threads -> Calls]
  /\ state \in [Threads -> {"idle", "waiting", "granted", "holding"}]

\* Signals and timeouts that race up neither lose nor double a unit: the free
\* ones and the taken ones add up to the argument of the constructor.
UnitsConserved ==
  count + Cardinality({t \in Threads : state[t] \in {"granted", "holding"}}) = Count

\* Nobody waits while a unit is free, and exactly the waiting threads are in
\* the queue: a waiter that gave up is never handed the semaphore later.
NoLostWakeup ==
  /\ wait_list # <<>> => count = 0
  /\ ToSet(wait_list) = {t \in Threads : state[t] = "waiting"} /\ IsInjective(wait_list)

\* Every call of down and its variants returns.
EveryDownReturns == \A t \in Threads : state[t] = "waiting" ~> state[t] # "waiting"
==============================================================================
