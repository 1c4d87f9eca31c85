------------------------------- MODULE Counters -------------------------------
(***************************************************************************)
(* kpp::Kref (kpp/util/Kref.hpp) and kpp::Atomic (kpp/sync/Atomic.hpp) as  *)
(* the reference count inside of a shared object.  A share is a pointer to *)
(* the object that somebody counts; new shares are taken by those who have *)
(* one.  Whoever sees the count reach zero destroys and frees the object,  *)
(* with the counter in it.                                                 *)
(*                                                                         *)
(* External, as the code uses it: kref_get, kref_put and the atomic_       *)
(* functions are indivisible; kref_put calls release before it returns 1.  *)
(***************************************************************************)
EXTENDS Naturals, FiniteSets

CONSTANTS Shares  \* the pointers that may share the object

ConstantsAssumption == IsFiniteSet(Shares)

VARIABLES
  api,     \* the class of the counter: "Kref" or "Atomic"
  object,  \* "none", "live" or "dying" (the last share is destroying it)
  held,    \* the shares
  value    \* ref_ or value_; 0 when there is no object

vars == <<api, object, held, value>>

Init == api \in {"Kref", "Atomic"} /\ object = "none" /\ held = {} /\ value = 0

\* The object is built with shares S, and its counter with n.
Build(class, S, n) ==
  /\ api = class /\ object = "none"
  /\ object' = "live" /\ held' = S /\ value' = n
  /\ UNCHANGED api

\* Taking shares S and counting n more.
Take(class, S, n) ==
  /\ api = class /\ object = "live" /\ held # {} /\ S \intersect held = {}
  /\ held' = held \union S /\ value' = value + n
  /\ UNCHANGED <<api, object>>

\* Giving back share s with a test for zero.
GiveBack(class, s) ==
  /\ api = class /\ s \in held
  /\ held' = held \ {s} /\ value' = value - 1
  /\ object' = IF value = 1 THEN "dying" ELSE object
  /\ UNCHANGED api

KrefConstruct(s) == Build("Kref", {s}, 1)

\* init() on an object that is not shared yet.
KrefInit(s) ==
  /\ api = "Kref" /\ object = "live" /\ held = {s}
  /\ value' = 1
  /\ UNCHANGED <<api, object, held>>

KrefGet(s) == Take("Kref", {s}, 1)
KrefPut(s) == GiveBack("Kref", s)

AtomicConstruct(S) == S # {} /\ Build("Atomic", S, Cardinality(S))
AtomicInc(s) == Take("Atomic", {s}, 1)
AtomicIncAndTest(s) == Take("Atomic", {s}, 1)
AtomicAdd(S) == Take("Atomic", S, Cardinality(S))
AtomicDecAndTest(s) == GiveBack("Atomic", s)

\* dec() and sub() do not test for zero, so that their caller keeps a share.
AtomicSub(S) ==
  /\ api = "Atomic" /\ S \subseteq held /\ S # held
  /\ held' = held \ S /\ value' = value - Cardinality(S)
  /\ UNCHANGED <<api, object>>

AtomicDec(s) == AtomicSub({s})

\* The destructor and kfree, by the caller of the last put.
Release ==
  /\ object = "dying"
  /\ object' = "none" /\ value' = 0
  /\ UNCHANGED <<api, held>>

Next ==
  \/ \E s \in Shares :
       \/ KrefConstruct(s) \/ KrefInit(s) \/ KrefGet(s) \/ KrefPut(s)
       \/ AtomicInc(s) \/ AtomicIncAndTest(s) \/ AtomicDec(s) \/ AtomicDecAndTest(s)
  \/ \E S \in SUBSET Shares : AtomicConstruct(S) \/ AtomicAdd(S) \/ AtomicSub(S)
  \/ Release

\* The release function that was called runs.
Fairness == WF_vars(Release)

Spec == Init /\ [][Next]_vars /\ Fairness

------------------------------------------------------------------------------
(***************************************************************************)
(* Properties.                                                             *)
(***************************************************************************)

\* Every variable keeps its type.
TypeOK ==
  /\ api \in {"Kref", "Atomic"} /\ object \in {"none", "live", "dying"}
  /\ held \subseteq Shares /\ value \in Nat

\* The counter is the number of shares; an object that is not being destroyed
\* has one, and a share never points to an object that is destroyed.
CountIsShares == value = Cardinality(held) /\ (object = "live" <=> held # {})
==============================================================================
