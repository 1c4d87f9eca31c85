------------------------------- MODULE Notifier -------------------------------
(***************************************************************************)
(* kpp::Notifier (kpp/core/Notifier.hpp): an object that is on a notifier  *)
(* chain from its constructor to its destructor, while any CPU may run the *)
(* chain and enter the trampoline.  The caller gives the register and the  *)
(* unregister function of one chain; the member function may be null, and  *)
(* so may the unregister function: that object leaves its block behind.    *)
(*                                                                         *)
(* External, as the code uses it: registering may fail; unregistering      *)
(* takes the block off the chain and then waits for the calls that have    *)
(* already found it, as blocking and atomic chains do.  What a run of the  *)
(* chain does in a block that was left behind is undefined; the model      *)
(* follows it into the trampoline, and builds no further object then.      *)
(***************************************************************************)
EXTENDS Naturals

CONSTANT Cpus

VARIABLES
  pc,             \* the owner: "none", "built", "live" or "unregistering"
  callback_ptr_,  \* "indeterminate" when no object lives, "null" or "set"
  unregister_ptr_, \* as callback_ptr_
  onChain,        \* nb_ is on the chain
  left,           \* history: the object ended while nb_ was on the chain
  at              \* at[c]: "none", "trampoline" or "callback"

vars == <<pc, callback_ptr_, unregister_ptr_, onChain, left, at>>

\* The member initialisers, and nb_.notifier_call.
Construct ==
  /\ pc = "none" /\ ~left
  /\ pc' = "built"
  /\ callback_ptr_' \in {"null", "set"} /\ unregister_ptr_' \in {"null", "set"}
  /\ UNCHANGED <<onChain, left, at>>

\* reg(&nb_), whose result is ignored.
Register ==
  /\ pc = "built"
  /\ pc' = "live"
  /\ onChain' \in BOOLEAN
  /\ UNCHANGED <<callback_ptr_, unregister_ptr_, left, at>>

\* The object is gone.
Gone ==
  /\ pc' = "none"
  /\ callback_ptr_' = "indeterminate" /\ unregister_ptr_' = "indeterminate"

\* The destructor: unregister_ptr_(&nb_), if it is not null, takes the block off
\* the chain, ...
Destruct ==
  /\ pc = "live"
  /\ \/ /\ unregister_ptr_ = "set"
        /\ pc' = "unregistering"
        /\ onChain' = FALSE
        /\ UNCHANGED <<callback_ptr_, unregister_ptr_, left>>
     \/ /\ unregister_ptr_ = "null"
        /\ Gone
        /\ left' = onChain
        /\ UNCHANGED onChain
  /\ UNCHANGED at

Quiet == \A c \in Cpus : at[c] = "none"

\* ... and returns when no call is under way.
DestructReturns ==
  /\ pc = "unregistering" /\ Quiet
  /\ Gone
  /\ onChain' = FALSE
  /\ UNCHANGED <<left, at>>

\* A CPU runs the chain and finds the block.
Notify(c) ==
  /\ onChain /\ at[c] = "none"
  /\ at' = [at EXCEPT ![c] = "trampoline"]
  /\ UNCHANGED <<pc, callback_ptr_, unregister_ptr_, onChain, left>>

\* NOTIFY_DONE when there is no member function to call; what a block that was
\* left behind holds by now is not known.
Trampoline(c) ==
  /\ at[c] = "trampoline"
  /\ \/ callback_ptr_ # "null" /\ at' = [at EXCEPT ![c] = "callback"]
     \/ callback_ptr_ # "set" /\ at' = [at EXCEPT ![c] = "none"]
  /\ UNCHANGED <<pc, callback_ptr_, unregister_ptr_, onChain, left>>

CallbackReturns(c) ==
  /\ at[c] = "callback"
  /\ at' = [at EXCEPT ![c] = "none"]
  /\ UNCHANGED <<pc, callback_ptr_, unregister_ptr_, onChain, left>>

------------------------------------------------------------------------------
Init ==
  /\ pc = "none"
  /\ callback_ptr_ = "indeterminate" /\ unregister_ptr_ = "indeterminate"
  /\ onChain = FALSE /\ left = FALSE
  /\ at = [c \in Cpus |-> "none"]

Next ==
  \/ Construct \/ Register \/ Destruct \/ DestructReturns
  \/ \E c \in Cpus : Notify(c) \/ Trampoline(c) \/ CallbackReturns(c)

\* A destructor that can return does, and a call that was entered ends; no
\* event has to happen.
Fairness ==
  /\ WF_vars(DestructReturns)
  /\ \A c \in Cpus : WF_vars(Trampoline(c)) /\ WF_vars(CallbackReturns(c))

Spec == Init /\ [][Next]_vars /\ Fairness

------------------------------------------------------------------------------
(***************************************************************************)
(* Properties.                                                             *)
(***************************************************************************)

\* Every variable keeps its type.
TypeOK ==
  /\ pc \in {"none", "built", "live", "unregistering"}
  /\ callback_ptr_ \in {"indeterminate", "null", "set"}
  /\ unregister_ptr_ \in {"indeterminate", "null", "set"}
  /\ (pc = "none") = (callback_ptr_ = "indeterminate")
  /\ onChain \in BOOLEAN /\ left \in BOOLEAN
  /\ at \in [Cpus -> {"none", "trampoline", "callback"}]

\* A CPU inside of the trampoline or the callback sees an object that is
\* built: the constructor registers last, and no call outlives a destructor
\* that unregisters.  The block of such an object is not on the chain any more
\* when it is gone.  The exception is an object that was registered and given
\* no unregister function, whose block stays.
CallSeesObject ==
  /\ \A c \in Cpus : at[c] # "none" => callback_ptr_ # "indeterminate" \/ left
  /\ onChain => callback_ptr_ # "indeterminate" \/ left

\* A destructor that unregisters returns, whatever the rate of the events.
DestructorReturns == pc = "unregistering" ~> pc = "none"
==============================================================================
