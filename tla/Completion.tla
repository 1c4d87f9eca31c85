------------------------------ MODULE Completion ------------------------------
(***************************************************************************)
(* kpp::Completion (kpp/sync/Completion.hpp), used in the two ways its     *)
(* members allow.  "jobs": the object is local to a thread that hands it   *)
(* to workers, waits once for each of them, and leaves the scope.          *)
(* "event": the object lives on, several threads wait for one event, which *)
(* one worker announces with complete_all.                                 *)
(*                                                                         *)
(* External, as the code uses it: complete and complete_all change done    *)
(* and wake waiters while they hold the spin lock inside the completion;   *)
(* wait_for_completion sleeps until done is not zero, looks at it only     *)
(* under that lock, and takes one unless complete_all has set it to stay.  *)
(***************************************************************************)
EXTENDS Naturals, FiniteSets

CONSTANTS
  Waiters,  \* threads that wait
  Workers,  \* threads that complete
  owner,    \* the waiter in whose scope the object of a "jobs" use lives
  none      \* nobody

ConstantsAssumption ==
  /\ IsFiniteSet(Workers) /\ owner \in Waiters
  /\ none \notin Workers

VARIABLES
  use,    \* "jobs" or "event"
  alive,  \* the object has not been destroyed
  done,   \* completion_.done; All after complete_all
  lock,   \* the worker inside of complete or complete_all, or none
  todo,   \* the workers that have not called yet
  left    \* left[t]: how often t still has to wait

vars == <<use, alive, done, lock, todo, left>>

All == Cardinality(Workers) + 1

Init ==
  /\ alive = TRUE /\ done = 0 /\ lock = none
  /\ \/ /\ use = "jobs"
        /\ todo \in SUBSET Workers \ {{}}
        /\ left = [t \in Waiters |-> IF t = owner THEN Cardinality(todo) ELSE 0]
     \/ /\ use = "event"
        /\ todo \in {{w} : w \in Workers}
        /\ left = [t \in Waiters |-> 1]

\* complete() up to the moment at which it lets the lock go.
complete(w) ==
  /\ use = "jobs" /\ w \in todo /\ lock = none
  /\ done' = done + 1 /\ lock' = w
  /\ todo' = todo \ {w}
  /\ UNCHANGED <<use, alive, left>>

complete_all(w) ==
  /\ use = "event" /\ w \in todo /\ lock = none
  /\ done' = All /\ lock' = w
  /\ todo' = todo \ {w}
  /\ UNCHANGED <<use, alive, left>>

Unlock(w) ==
  /\ lock = w
  /\ lock' = none
  /\ UNCHANGED <<use, alive, done, todo, left>>

waitResets(t) ==
  /\ left[t] > 0 /\ done > 0 /\ lock = none
  /\ done' = 0
  /\ left' = [left EXCEPT ![t] = @ - 1]
  /\ UNCHANGED <<use, alive, lock, todo>>

\* wait() returns.
wait(t) ==
  /\ left[t] > 0 /\ done > 0 /\ lock = none
  /\ done' = IF done = All THEN All ELSE done - 1
  /\ left' = [left EXCEPT ![t] = @ - 1]
  /\ UNCHANGED <<use, alive, lock, todo>>

\* ~Completion() at the end of the owner's scope.
Destruct ==
  /\ use = "jobs" /\ alive /\ left[owner] = 0
  /\ alive' = FALSE
  /\ UNCHANGED <<use, done, lock, todo, left>>

Next ==
  \/ \E w \in Workers : complete(w) \/ complete_all(w) \/ Unlock(w)
  \/ \E t \in Waiters : wait(t)
  \/ Destruct

\* Workers finish their jobs, and a thread that was woken runs.
Fairness ==
  /\ \A w \in Workers : WF_vars(complete(w) \/ complete_all(w)) /\ WF_vars(Unlock(w))
  /\ \A t \in Waiters : WF_vars(wait(t))

Spec == Init /\ [][Next]_vars /\ Fairness

------------------------------------------------------------------------------
(***************************************************************************)
(* Properties.                                                             *)
(***************************************************************************)

\* Every variable keeps its type.
TypeOK ==
  /\ use \in {"jobs", "event"} /\ alive \in BOOLEAN
  /\ done \in 0 .. All /\ lock \in Workers \union {none}
  /\ todo \subseteq Workers /\ left \in [Waiters -> 0 .. Cardinality(Workers)]

\* When the owner has left its scope no worker is inside of complete and none
\* will call it: the completion is not used after its destruction, although
\* the waiter may be awake before the worker has let go of the lock.
NotUsedAfterScope == ~alive => lock = none /\ todo = {}

\* Every wait returns: one complete for each wait, and complete_all for all.
EveryWaitReturns == \A t \in Waiters : left[t] > 0 ~> left[t] = 0
==============================================================================
