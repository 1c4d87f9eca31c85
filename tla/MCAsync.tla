------------------------------- MODULE MCAsync -------------------------------
(***************************************************************************)
(* The two executors of kpp/async in one model: WorkQueue and Timer.  They *)
(* share no state, so each behaviour is one of a single part.              *)
(***************************************************************************)
EXTENDS WorkQueue

VARIABLE part  \* the part under test

\* Timer
CONSTANTS Modulus, Delays, MaxLate
VARIABLES life, pending, expires, running, deleting, jiffies, age, delay, quiet
T == INSTANCE Timer
timerVars == <<life, pending, expires, running, deleting, jiffies, age, delay, quiet>>

ASSUME PartsAssumption == T!ConstantsAssumption

MCInit ==
  /\ part \in {"WorkQueue", "Timer"}
  /\ Init /\ T!Init
  /\ part # "Timer" => jiffies = 0

MCNext ==
  \/ part = "WorkQueue" /\ Next /\ UNCHANGED <<part, timerVars>>
  \/ part = "Timer" /\ T!Next /\ UNCHANGED <<part, vars>>

MCSpec == MCInit /\ [][MCNext]_<<part, vars, timerVars>> /\ Fairness /\ T!Fairness

------------------------------------------------------------------------------
\* WorkQueue: the variables keep their types, and an allocated block has one
\* owner.
OwnersInv == TypeOK /\ OneOwner

\* Timer: the variables keep their types, and no callback runs or is queued
\* after cancel or the destructor has returned.
NothingAfterDelete == T!TypeOK /\ T!NothingAfterDestroy /\ T!CancelStopsCallback

\* Timer: schedule(d) does not fire before d ticks have passed.
NeverEarly == T!NeverEarly

\* Every block of the WorkQueue comes back, and the destructor of Timer ends,
\* even against a callback that keeps rearming.
AsyncEnds == BlocksComeBack /\ T!DestructorReturns
==============================================================================
