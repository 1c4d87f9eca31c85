---------------------------- MODULE StatusModule ----------------------------
(***************************************************************************)
(* The sysfs example (examples/syssf_status/status_module.cpp): a kset, a  *)
(* StatusModule with a kpp::KObject (kpp/core/KObject.hpp) under it, and   *)
(* the attribute file whose show callback reads the StatusModule.  User    *)
(* programs read the file between any two steps of loading and unloading.  *)
(*                                                                         *)
(* External, as the code uses it: kobject_init sets one reference;         *)
(* kobject_add takes a reference on the parent and makes the attribute     *)
(* readable; kobject_del hides it, waits for the reads in progress and     *)
(* gives the parent's reference back; kobject_put on the last reference    *)
(* calls release; kset_unregister removes the kset and drops a reference.  *)
(* The loader frees the code of the module after exit or a failed init.    *)
(***************************************************************************)
EXTENDS Naturals, FiniteSets

CONSTANTS
  Readers,  \* user threads that read the attribute
  MaxLoads  \* bound on the number of times the module is loaded

BoundsAssumption == IsFiniteSet(Readers) /\ MaxLoads \in Nat \ {0}

VARIABLES
  loads,     \* how often the module has been loaded
  module,    \* "out", "init", "live" or "exit"
  pc,        \* the next step of init or exit
  kset,      \* "none" or "added": the kset in sysfs
  kset_refs, \* references on the kset
  status,    \* the StatusModule: "none", "allocated", "visible", "hidden" (being deleted) or "deleted"
  refs,      \* references on its kobject
  reading    \* readers inside status_show

vars == <<loads, module, pc, kset, kset_refs, status, refs, reading>>

------------------------------------------------------------------------------
(***************************************************************************)
(* status_module_init.                                                     *)
(***************************************************************************)

Insmod ==
  /\ module = "out" /\ loads < MaxLoads
  /\ loads' = loads + 1 /\ module' = "init" /\ pc' = "kset"
  /\ UNCHANGED <<kset, kset_refs, status, refs, reading>>

\* The module goes away: what its globals point to is out of reach, though
\* not out of sysfs unless it was deleted.
Leave ==
  /\ module' = "out" /\ pc' = "idle" 
  /\ status' = IF status \in {"allocated", "deleted"} THEN "none" ELSE status
  /\ refs' = 0

At(m, s) == module = m /\ pc = s

CreateKset ==
  /\ At("init", "kset")
  /\ \/ /\ kset' = "added" /\ kset_refs' = 1 /\ pc' = "object"
        /\ UNCHANGED <<module, status, refs>>
     \/ Leave /\ UNCHANGED <<kset, kset_refs>>
  /\ UNCHANGED <<loads, reading>>

\* kset_unregister(kpp_kset): out of sysfs, and one reference less.
UnregisterKset == kset' = "none" /\ kset_refs' = kset_refs - 1

\* make_unique<StatusModule>.
MakeStatus ==
  /\ At("init", "object")
  /\ \/ /\ status' = "allocated" /\ pc' = "add"
        /\ UNCHANGED <<module, refs, kset, kset_refs>>
     \/ UnregisterKset /\ Leave
  /\ UNCHANGED <<loads, reading>>

\* kobj.init_and_add: on an error the kobject keeps the reference of
\* kobject_init.
InitAndAdd ==
  /\ At("init", "add")
  /\ \/ /\ status' = "visible" /\ refs' = 1 /\ kset_refs' = kset_refs + 1 /\ pc' = "return"
        /\ UNCHANGED <<module, kset>>
     \/ UnregisterKset /\ Leave
  /\ UNCHANGED <<loads, reading>>

InitReturns ==
  /\ At("init", "return")
  /\ module' = "live" /\ pc' = "idle"
  /\ UNCHANGED <<loads, kset, kset_refs, status, refs, reading>>

------------------------------------------------------------------------------
(***************************************************************************)
(* status_module_exit.                                                     *)
(***************************************************************************)

ExitWithoutDel ==
  /\ module = "live"
  /\ module' = "exit" /\ pc' = "release"
  /\ UNCHANGED <<loads, kset, kset_refs, status, refs, reading>>

Exit ==
  /\ module = "live"
  /\ module' = "exit" /\ pc' = "del"
  /\ UNCHANGED <<loads, kset, kset_refs, status, refs, reading>>

\* kobj.del(): no new reads, then wait for the old ones.
DelStarts ==
  /\ At("exit", "del")
  /\ status' = "hidden" /\ pc' = "drain"
  /\ UNCHANGED <<loads, module, kset, kset_refs, refs, reading>>

DelWaitsForRelease ==
  /\ At("exit", "drain") /\ reading = {} /\ refs = 0
  /\ status' = "deleted" /\ kset_refs' = kset_refs - 1 /\ pc' = "release"
  /\ UNCHANGED <<loads, module, kset, refs, reading>>

DelFinishes ==
  /\ At("exit", "drain") /\ reading = {}
  /\ status' = "deleted" /\ kset_refs' = kset_refs - 1 /\ pc' = "release"
  /\ UNCHANGED <<loads, module, kset, refs, reading>>

\* g_status_module.release() and kset_unregister; put() is never called.
ReleaseStatus ==
  /\ At("exit", "release")
  /\ pc' = "unregister"
  /\ UNCHANGED <<loads, module, kset, kset_refs, status, refs, reading>>

UnregisterAndReturn ==
  /\ At("exit", "unregister")
  /\ UnregisterKset
  /\ Leave
  /\ UNCHANGED <<loads, reading>>

------------------------------------------------------------------------------
(***************************************************************************)
(* Reads of the attribute: status_show runs while sysfs holds an active    *)
(* reference.                                                              *)
(***************************************************************************)

ShowStarts(r) ==
  /\ status = "visible" /\ r \notin reading
  /\ reading' = reading \union {r}
  /\ UNCHANGED <<loads, module, pc, kset, kset_refs, status, refs>>

ShowEnds(r) ==
  /\ r \in reading
  /\ reading' = reading \ {r}
  /\ UNCHANGED <<loads, module, pc, kset, kset_refs, status, refs>>

------------------------------------------------------------------------------
Init ==
  /\ loads = 0 /\ module = "out" /\ pc = "idle"
  /\ kset = "none" /\ kset_refs = 0
  /\ status = "none" /\ refs = 0 /\ reading = {}

LoaderStep ==
  \/ CreateKset \/ MakeStatus \/ InitAndAdd \/ InitReturns
  \/ DelStarts \/ DelFinishes \/ ReleaseStatus \/ UnregisterAndReturn

Next == Insmod \/ Exit \/ LoaderStep \/ \E r \in Readers : ShowStarts(r) \/ ShowEnds(r)

\* init and exit keep running, and a read that started ends.
Fairness == WF_vars(LoaderStep) /\ \A r \in Readers : WF_vars(ShowEnds(r))

Spec == Init /\ [][Next]_vars /\ Fairness

------------------------------------------------------------------------------
(***************************************************************************)
(* Properties.                                                             *)
(***************************************************************************)

\* Every variable keeps its type.
TypeOK ==
  /\ loads \in 0 .. MaxLoads /\ module \in {"out", "init", "live", "exit"}
  /\ pc \in {"idle", "kset", "object", "add", "return", "del", "drain", "release", "unregister"}
  /\ kset \in {"none", "added"} /\ kset_refs \in 0 .. 2
  /\ status \in {"none", "allocated", "visible", "hidden", "deleted"} /\ refs \in {0, 1}
  /\ reading \subseteq Readers

\* status_show runs only while the StatusModule it reads is allocated and the
\* code of the module is loaded: exit waits for the reads in progress.
ShowIsSafe ==
  reading # {} => module # "out" /\ status \in {"visible", "hidden"}

\* Nothing of the module stays in sysfs and no kset stays in memory once the
\* module is gone, after a failed init as well as after exit.
GoneFromSysfs ==
  module = "out" => kset = "none" /\ kset_refs = 0 /\ status \notin {"visible", "hidden"}

\* An unload that started is finished, whatever the readers do.
ExitFinishes == module = "exit" ~> module = "out"
==============================================================================
