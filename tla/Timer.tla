------------------------------- MODULE Timer -------------------------------
(***************************************************************************)
(* kpp::Timer (kpp/async/Timer.hpp).  Its owner constructs it, sets it up, *)
(* schedules and cancels it and destroys it; the callback runs in the      *)
(* timer softirq of another CPU and may schedule the timer again.  The     *)
(* function object is the one from_timer finds: a class derived from Timer *)
(* that passes itself to setup.  It is one object here: that the members   *)
(* of the derived class end before ~Timer waits is left out.               *)
(*                                                                         *)
(* External, as the code uses it: mod_timer (re)queues the timer under the *)
(* lock of its base; the softirq takes an expired timer off the queue and  *)
(* runs the callback; del_timer_sync waits while the callback runs and     *)
(* then takes the timer off the queue.  jiffies wraps around at its width  *)
(* and is compared by the sign of the difference.                          *)
(***************************************************************************)
EXTENDS Integers

CONSTANTS
  Modulus,     \* 2 ^ the width of an unsigned long
  Delays,      \* the arguments of schedule
  MaxLate      \* bound on the ticks by which the softirq may be late

ConstantsAssumption ==
  /\ Modulus \in Nat \ {0} /\ Modulus % 2 = 0
  /\ MaxLate \in Nat \ {0} /\ MaxLate < Modulus \div 2
  /\ Delays \subseteq 0 .. Modulus \div 2 - 1

VARIABLES
  life,     \* "none", "raw" (timer_ is indeterminate), "ready" or "dead"
  pending,  \* timer_ is queued
  expires,  \* timer_.expires
  running,  \* the callback runs
  deleting, \* "no", or what the owner is in: "cancel" or "destroy"
  jiffies,
  age,      \* ticks since the timer was last scheduled
  delay,    \* the argument of the last schedule
  quiet     \* cancel has returned and nobody has scheduled the timer since

vars == <<life, pending, expires, running, deleting, jiffies, age, delay, quiet>>

\* time_after_eq(x, y): the difference, as a signed long, is not negative.
TimeAfterEq(x, y) == (x - y) % Modulus < Modulus \div 2

OwnerIdle == deleting = "no"

------------------------------------------------------------------------------
(***************************************************************************)
(* The owner.                                                              *)
(***************************************************************************)

\* Timer() = default leaves timer_ uninitialised.
Construct ==
  /\ life \in {"none", "dead"}
  /\ life' = "raw"
  /\ UNCHANGED <<pending, expires, running, deleting, jiffies, age, delay, quiet>>

setup ==
  /\ life = "raw" /\ OwnerIdle
  /\ life' = "ready" /\ quiet' = TRUE
  /\ UNCHANGED <<pending, expires, running, deleting, jiffies, age, delay>>

ExpiresAbsolute(d) == d

\* schedule: jiffies + expires_jiffies, in an unsigned long.
Expires(d) == (jiffies + d) % Modulus

mod_timer(d) ==
  /\ pending' = TRUE /\ expires' = Expires(d)
  /\ age' = 0 /\ delay' = d /\ quiet' = FALSE
  /\ UNCHANGED <<life, running, deleting, jiffies>>

schedule(d) == life = "ready" /\ OwnerIdle /\ mod_timer(d)

\* cancel and ~Timer call del_timer_sync.  The owner has called setup before:
\* the destructor does not check that, and on a timer_ that was never set up
\* the call has no defined result.
Delete(why) ==
  /\ OwnerIdle /\ life = "ready"
  /\ deleting' = why
  /\ UNCHANGED <<life, pending, expires, running, jiffies, age, delay, quiet>>

cancel == Delete("cancel")
Destruct == Delete("destroy")

NoWaiting == TRUE
WaitsForLastRun == ~running /\ ~pending

\* Whether del_timer_sync may go on: not while the callback runs.
CallbackDone == ~running

\* del_timer_sync returns, and with it cancel or the destructor.
DeleteReturns ==
  /\ ~OwnerIdle /\ CallbackDone
  /\ pending' = FALSE /\ deleting' = "no" /\ quiet' = TRUE
  /\ life' = IF deleting = "destroy" THEN "dead" ELSE life
  /\ UNCHANGED <<expires, running, jiffies, age, delay>>

------------------------------------------------------------------------------
(***************************************************************************)
(* The timer softirq.                                                      *)
(***************************************************************************)

\* A clock tick.  The softirq is not starved: it is at most MaxLate ticks
\* late.
Tick ==
  /\ pending => age < delay + MaxLate
  /\ jiffies' = (jiffies + 1) % Modulus
  /\ age' = IF pending THEN age + 1 ELSE age
  /\ UNCHANGED <<life, pending, expires, running, deleting, delay, quiet>>

Fire ==
  /\ pending /\ ~running /\ TimeAfterEq(jiffies, expires)
  /\ pending' = FALSE /\ running' = TRUE
  /\ UNCHANGED <<life, expires, deleting, jiffies, age, delay, quiet>>

\* The callback schedules its own timer.
Rearm(d) == running /\ mod_timer(d)

CallbackReturns ==
  /\ running
  /\ running' = FALSE
  /\ UNCHANGED <<life, pending, expires, deleting, jiffies, age, delay, quiet>>

------------------------------------------------------------------------------
Init ==
  /\ life = "none" /\ deleting = "no"
  /\ pending = FALSE /\ running = FALSE /\ quiet = TRUE
  /\ expires = 0 /\ age = 0 /\ delay = 0
  /\ jiffies \in 0 .. Modulus - 1

Next ==
  \/ Construct \/ setup \/ cancel \/ Destruct \/ DeleteReturns
  \/ Tick \/ Fire \/ CallbackReturns
  \/ \E d \in Delays : schedule(d) \/ Rearm(d)

\* A callback ends, and del_timer_sync, which polls, gets its turn between two
\* runs of a callback that rearms its timer: the softirq waits for the next
\* tick before it runs the timer again.
Fairness == WF_vars(CallbackReturns) /\ SF_vars(DeleteReturns)

Safety == Init /\ [][Next]_vars
Spec == Safety /\ Fairness

------------------------------------------------------------------------------
(***************************************************************************)
(* Properties.                                                             *)
(***************************************************************************)

\* Every variable keeps its type.
TypeOK ==
  /\ life \in {"none", "raw", "ready", "dead"}
  /\ pending \in BOOLEAN /\ running \in BOOLEAN /\ quiet \in BOOLEAN
  /\ deleting \in {"no", "cancel", "destroy"}
  /\ expires \in 0 .. Modulus - 1 /\ jiffies \in 0 .. Modulus - 1
  /\ age \in Nat /\ delay \in Nat

\* Once the destructor has returned, and before the timer is set up again, no
\* callback runs and none is queued, even when the callback was running, and
\* rearmed itself, while the destructor ran: no use of a destroyed Timer.
NothingAfterDestroy == life \in {"none", "raw", "dead"} => ~running /\ ~pending

\* After cancel has returned no callback runs until somebody schedules the
\* timer again.
CancelStopsCallback == quiet => ~running /\ ~pending

\* schedule(d) never fires before d ticks have passed, also when
\* jiffies + expires_jiffies wraps around.
NeverEarly == [][~running /\ running' => age >= delay]_vars

\* The destructor ends, even against a callback that keeps rearming the timer.
DestructorReturns == deleting = "destroy" ~> deleting = "no"
==============================================================================
