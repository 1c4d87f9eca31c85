----------------------------- MODULE MCCallbacks -----------------------------
(***************************************************************************)
(* What the kernel calls back while it comes and goes, in one model: the   *)
(* netfilter hook of the firewall, the file operations of the echo driver, *)
(* the sysfs attribute of the status example, Attribute itself and the     *)
(* notifier.  They share no state, so each behaviour is one of a single    *)
(* part, and the others stand still.                                       *)
(***************************************************************************)
EXTENDS Firewall, FiniteSets

VARIABLE part  \* the part under test

CONSTANTS MaxLoads, MaxOpens
VARIABLES loads, echoModule, echoPc, globals, heap, is_added_, regions, classes, cdevs, nodes,
          opens, refcnt, stale, outcome
E == INSTANCE EchoModule WITH module <- echoModule, pc <- echoPc
echoVars == <<loads, echoModule, echoPc, globals, heap, is_added_, regions, classes, cdevs, nodes,
              opens, refcnt, stale, outcome>>

CONSTANT Readers
VARIABLES statusLoads, statusModule, statusPc, kset, kset_refs, status, refs, reading
S == INSTANCE StatusModule WITH loads <- statusLoads, module <- statusModule, pc <- statusPc
statusVars == <<statusLoads, statusModule, statusPc, kset, kset_refs, status, refs, reading>>

CONSTANTS Users, MaxRefs
VARIABLES life, ptrs, fops, visible, ownerRefs, using
A == INSTANCE Attribute WITH refs <- ownerRefs, at <- using
attributeVars == <<life, ptrs, fops, visible, ownerRefs, using>>

CONSTANT ChainCpus
VARIABLES owner, callback_ptr_, unregister_ptr_, onChain, left, at
N == INSTANCE Notifier WITH Cpus <- ChainCpus, pc <- owner
notifierVars == <<owner, callback_ptr_, unregister_ptr_, onChain, left, at>>

ASSUME PartsAssumption ==
  E!BoundsAssumption /\ S!BoundsAssumption /\ A!ConstantsAssumption

MCInit ==
  /\ part \in {"Firewall", "EchoModule", "StatusModule", "Attribute", "Notifier"}
  /\ Init /\ E!Init /\ S!Init /\ A!Init /\ N!Init

Still(p, v) == part # p => UNCHANGED v

MCNext ==
  /\ \/ part = "Firewall" /\ Next
     \/ part = "EchoModule" /\ E!Next
     \/ part = "StatusModule" /\ S!Next
     \/ part = "Attribute" /\ A!Next
     \/ part = "Notifier" /\ N!Next
  /\ Still("Firewall", vars) /\ Still("EchoModule", echoVars) /\ Still("StatusModule", statusVars)
  /\ Still("Attribute", attributeVars) /\ Still("Notifier", notifierVars)
  /\ UNCHANGED part

MCSpec ==
  /\ MCInit /\ [][MCNext]_<<part, vars, echoVars, statusVars, attributeVars, notifierVars>>
  /\ S!Fairness /\ A!Fairness /\ N!Fairness

------------------------------------------------------------------------------
\* Firewall: the variables keep their types, the hook is complete whenever it
\* can be called, and every verdict is right.
FirewallInv == TypeOK /\ HookReady /\ BlocksPort

\* EchoModule: flags and registrations agree, what the kernel can reach is
\* allocated, and open files keep the driver loaded once its init succeeds.
ModuleInv == E!RegistrationInv /\ E!ReachableIsAllocated /\ E!OpenFilesPinDriver

\* StatusModule: the variables keep their types, show runs only while the
\* object it reads is there, and nothing stays in sysfs after the module.
StatusInv == S!TypeOK /\ S!ShowIsSafe /\ S!GoneFromSysfs

\* Attribute and Notifier: the variables keep their types, and every call of a
\* trampoline sees an object that is built, with the member it calls, unless a
\* Notifier was never to be unregistered.
CallSeesObject ==
  A!TypeOK /\ A!TrampolineSeesOwner /\ N!TypeOK /\ N!CallSeesObject

\* StatusModule, Attribute and Notifier: unloading, del, the last put and the
\* unregistering in the destructor of Notifier end, whatever calls come in.
TeardownEnds == S!ExitFinishes /\ A!RemovalReturns /\ N!DestructorReturns
==============================================================================
