----------------------------- MODULE EchoModule -----------------------------
(***************************************************************************)
(* Loading and unloading the echo driver (include/driver/driver.cpp): the  *)
(* init function builds the driver, the device number region, the class,   *)
(* the cdev and the /dev node one after the other and returns at the first *)
(* failure; the exit function releases the UniquePtrs and gives back the   *)
(* region.  User programs open and close the device between any two steps, *)
(* through its node or, as soon as the cdev is added, through one that was *)
(* made by hand.                                                           *)
(*                                                                         *)
(* External, as the code uses it: the module loader (a failed init and a   *)
(* finished exit free the module's code and data; exit runs only when no   *)
(* file is open, but a failed init does not ask; an open is let in during  *)
(* init, and fails once unloading started), the registries of regions,     *)
(* classes, cdevs and device nodes, and kmalloc.  Static destructors are   *)
(* not run for a kernel module.  Objects, registrations and open files     *)
(* carry the number of the load they belong to.                            *)
(***************************************************************************)
EXTENDS Naturals, FiniteSets

CONSTANTS
  MaxLoads,  \* bound on the number of times the module is loaded
  MaxOpens   \* bound on the number of files open at a time on the device of a load

BoundsAssumption == MaxLoads \in Nat \ {0} /\ MaxOpens \in Nat

VARIABLES
  loads,     \* the number of the current or last load
  module,    \* "out", "init", "live", "exit", or "oops": init died on a null pointer
  pc,        \* the next step of init or exit
  globals,   \* the UniquePtrs g_driver, g_dev_class, g_char_dev, g_device that are not null
  heap,      \* allocated objects: <<load, name>>
  is_added_, \* the field of the current load's CharDevice
  regions, classes, cdevs, nodes, \* the kernel's registrations, by load
  opens,     \* opens[n]: files open on the device of load n
  refcnt,    \* references to the loaded module: one per open file that took one
  stale,     \* an open or a close reached a cdev or a file whose module is gone
  outcome    \* outcome[n]: how load n ended: "none" so far, "failed" or "exited"

vars == <<loads, module, pc, globals, heap, is_added_, regions, classes, cdevs, nodes,
          opens, refcnt, stale, outcome>>

registries == <<regions, classes, cdevs, nodes>>

Names == {"driver", "class", "cdev", "device"}
Loads == 1 .. MaxLoads

------------------------------------------------------------------------------
(***************************************************************************)
(* echo_driver_init.                                                       *)
(***************************************************************************)

Insmod ==
  /\ module = "out" /\ loads < MaxLoads
  /\ loads' = loads + 1
  /\ module' = "init" /\ pc' = "driver"
  /\ globals' = {} /\ is_added_' = FALSE /\ refcnt' = 0
  /\ UNCHANGED <<heap, registries, opens, stale, outcome>>

At(s) == module = "init" /\ pc = s

\* A return of init with an error: the loader frees the module, and does not
\* look at its references.
InitFails ==
  /\ module' = "out" /\ pc' = "idle"
  /\ outcome' = [outcome EXCEPT ![loads] = "failed"]

Continue(s) ==
  /\ pc' = s
  /\ UNCHANGED <<module, outcome>>

\* g = make_unique<T>(GFP_KERNEL, ...) when kmalloc succeeds.
Allocate(name) ==
  /\ heap' = heap \union {<<loads, name>>}
  /\ globals' = globals \union {name}

\* g_driver = make_unique<EchoDriver>.
MakeDriver ==
  /\ At("driver")
  /\ \/ Allocate("driver") /\ Continue("region")
     \/ InitFails /\ UNCHANGED <<heap, globals>>
  /\ UNCHANGED <<loads, is_added_, registries, opens, refcnt, stale>>

AllocRegion ==
  /\ At("region")
  /\ \/ regions' = regions \union {loads} /\ Continue("class")
     \/ InitFails /\ UNCHANGED regions
  /\ UNCHANGED <<loads, globals, heap, is_added_, classes, cdevs, nodes, opens, refcnt, stale>>

\* make_unique<DeviceClass>, whose constructor calls class_create: it fails
\* when memory runs out or a class of this name is still registered.
MakeClass ==
  /\ At("class")
  /\ \/ /\ Allocate("class")
        /\ classes = {}
        /\ classes' = classes \union {loads}
        /\ Continue("cdev")
     \/ Allocate("class") /\ InitFails /\ UNCHANGED classes
     \/ InitFails /\ UNCHANGED <<heap, globals, classes>>
  /\ UNCHANGED <<loads, is_added_, regions, cdevs, nodes, opens, refcnt, stale>>

\* make_unique<CharDevice>; its result is used without a check, so that a
\* failed allocation makes init dereference a null pointer.
MakeCharDevice ==
  /\ At("cdev")
  /\ \/ Allocate("cdev") /\ Continue("add")
     \/ module' = "oops" /\ pc' = "idle" /\ UNCHANGED <<heap, globals, outcome>>
  /\ UNCHANGED <<loads, is_added_, registries, opens, refcnt, stale>>

AddUnchecked ==
  /\ At("add")
  /\ \/ cdevs' = cdevs \union {loads} /\ is_added_' = TRUE /\ Continue("device")
     \/ Continue("device") /\ UNCHANGED <<cdevs, is_added_>>
  /\ UNCHANGED <<loads, globals, heap, regions, classes, nodes, opens, refcnt, stale>>

\* g_char_dev->add(): cdev_add makes the device reachable at once.
AddCharDevice ==
  /\ At("add")
  /\ \/ cdevs' = cdevs \union {loads} /\ is_added_' = TRUE /\ Continue("device")
     \/ InitFails /\ UNCHANGED <<cdevs, is_added_>>
  /\ UNCHANGED <<loads, globals, heap, regions, classes, nodes, opens, refcnt, stale>>

\* make_unique<Device>, whose constructor calls device_create.
MakeDevice ==
  /\ At("device")
  /\ \/ Allocate("device") /\ nodes' = nodes \union {loads} /\ Continue("return")
     \/ Allocate("device") /\ InitFails /\ UNCHANGED nodes
     \/ InitFails /\ UNCHANGED <<heap, globals, nodes>>
  /\ UNCHANGED <<loads, is_added_, regions, classes, cdevs, opens, refcnt, stale>>

InitReturns ==
  /\ At("return")
  /\ module' = "live" /\ pc' = "idle"
  /\ UNCHANGED <<loads, globals, heap, is_added_, registries, opens, refcnt, stale, outcome>>

------------------------------------------------------------------------------
(***************************************************************************)
(* echo_driver_exit.                                                       *)
(***************************************************************************)

Rmmod ==
  /\ module = "live" /\ refcnt = 0
  /\ module' = "exit" /\ pc' = "device"
  /\ UNCHANGED <<loads, globals, heap, is_added_, registries, opens, refcnt, stale, outcome>>

\* g.release() empties the UniquePtr and drops the pointer it returns: the
\* object is neither destroyed nor freed.
Release(name, next) ==
  /\ module = "exit" /\ pc = name
  /\ globals' = globals \ {name}
  /\ pc' = next
  /\ UNCHANGED <<loads, module, heap, is_added_, registries, opens, refcnt, stale, outcome>>

UnregisterRegion ==
  /\ module = "exit" /\ pc = "region"
  /\ regions' = regions \ {loads}
  /\ pc' = "driver"
  /\ UNCHANGED <<loads, module, globals, heap, is_added_, classes, cdevs, nodes, opens, refcnt, stale, outcome>>

ExitReturns ==
  /\ module = "exit" /\ pc = "return"
  /\ module' = "out" /\ pc' = "idle"
  /\ outcome' = [outcome EXCEPT ![loads] = "exited"]
  /\ UNCHANGED <<loads, globals, heap, is_added_, registries, opens, refcnt, stale>>

------------------------------------------------------------------------------
(***************************************************************************)
(* User programs (external).  Opening the device number of load n finds    *)
(* its cdev and takes a reference on the module that fops_.owner names,    *)
(* which the constructor of FileOperations sets.                           *)
(***************************************************************************)

FopsOwner == "THIS_MODULE"

References == IF FopsOwner = "THIS_MODULE" THEN 1 ELSE 0

\* The module of load n is there and not about to go.
Loaded(n) == n = loads /\ module \in {"init", "live"}

\* The module of load n was freed.
Gone(n) == n # loads \/ module = "out"

Open(n) ==
  /\ n \in cdevs
  /\ \/ /\ Loaded(n) /\ opens[n] < MaxOpens
        /\ opens' = [opens EXCEPT ![n] = @ + 1]
        /\ refcnt' = refcnt + References
        /\ UNCHANGED stale
     \/ /\ Gone(n)
        /\ stale' = TRUE
        /\ UNCHANGED <<opens, refcnt>>
  /\ UNCHANGED <<loads, module, pc, globals, heap, is_added_, registries, outcome>>

\* The last close calls the release of the file's operations.
Close(n) ==
  /\ opens[n] > 0
  /\ opens' = [opens EXCEPT ![n] = @ - 1]
  /\ \/ Loaded(n) /\ refcnt' = refcnt - References /\ UNCHANGED stale
     \/ Gone(n) /\ stale' = TRUE /\ UNCHANGED refcnt
  /\ UNCHANGED <<loads, module, pc, globals, heap, is_added_, registries, outcome>>

------------------------------------------------------------------------------
Init ==
  /\ loads = 0 /\ module = "out" /\ pc = "idle"
  /\ globals = {} /\ heap = {} /\ is_added_ = FALSE
  /\ regions = {} /\ classes = {} /\ cdevs = {} /\ nodes = {}
  /\ opens = [n \in Loads |-> 0] /\ refcnt = 0 /\ stale = FALSE
  /\ outcome = [n \in Loads |-> "none"]

LoaderStep ==
  \/ MakeDriver \/ AllocRegion \/ MakeClass \/ MakeCharDevice \/ AddCharDevice \/ MakeDevice
  \/ InitReturns
  \/ Release("device", "cdev") \/ Release("cdev", "class") \/ Release("class", "region")
  \/ UnregisterRegion \/ Release("driver", "return") \/ ExitReturns

Next == Insmod \/ Rmmod \/ LoaderStep \/ (\E n \in Loads : Open(n) \/ Close(n))

Spec == Init /\ [][Next]_vars

------------------------------------------------------------------------------
(***************************************************************************)
(* Properties.                                                             *)
(***************************************************************************)

\* Every variable keeps its type, and is_added_ tells whether the cdev of the
\* load is registered, as the destructor of CharDevice relies on.
TypeOK ==
  /\ loads \in 0 .. MaxLoads
  /\ module \in {"out", "init", "live", "exit", "oops"}
  /\ pc \in {"idle", "driver", "region", "class", "cdev", "add", "device", "return"}
  /\ globals \subseteq Names /\ heap \subseteq Loads \X Names /\ is_added_ \in BOOLEAN
  /\ regions \subseteq Loads /\ classes \subseteq Loads /\ cdevs \subseteq Loads
  /\ nodes \subseteq Loads
  /\ opens \in [Loads -> 0 .. MaxOpens] /\ refcnt \in 0 .. MaxOpens /\ stale \in BOOLEAN
  /\ outcome \in [Loads -> {"none", "failed", "exited"}]
  /\ module # "out" => (is_added_ <=> loads \in cdevs)

\* init publishes the node last: whenever the node of the running load is
\* visible, opening it reaches a registered cdev of the same load, with the
\* class and the device number behind it still in place.
NodeOpensDriver ==
  module \in {"init", "live"} /\ loads \in nodes =>
    loads \in cdevs /\ loads \in classes /\ loads \in regions

\* The flags and registrations of the load agree with each other.
RegistrationInv == TypeOK /\ NodeOpensDriver

\* What the kernel can still reach is still allocated: the cdev inside the
\* CharDevice and the file operations inside the EchoDriver, also after a
\* failed load or an unload.
ReachableIsAllocated ==
  \A n \in cdevs : <<n, "cdev">> \in heap /\ <<n, "driver">> \in heap

\* A file is open only on a loaded driver whose objects are there, with one
\* reference to the module for each file, so that exit never starts while one
\* is open and none slips in between its steps.  The one exception: a file
\* opened as soon as the cdev was added, on a load whose last step then failed,
\* is left without its module.
OpenFilesPinDriver ==
  \A n \in Loads : opens[n] > 0 =>
    \/ Loaded(n) /\ refcnt = opens[n] /\ {"driver", "cdev"} \subseteq globals
    \/ outcome[n] = "failed" /\ n \in cdevs

\* What the documentation promises of the RAII device classes: they manage
\* the whole life cycle, so after exit nothing of the load is registered.
ExitUnregisters ==
  \A n \in Loads : outcome[n] = "exited" =>
    n \notin regions /\ n \notin classes /\ n \notin cdevs /\ n \notin nodes
==============================================================================
