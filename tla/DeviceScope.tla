----------------------------- MODULE DeviceScope -----------------------------
(***************************************************************************)
(* The RAII classes a driver publishes a device with, as objects of one    *)
(* scope: DeviceClass (kpp/vfs/DeviceClass.hpp), CharDevice                *)
(* (kpp/vfs/CharDevice.hpp) and Device (kpp/vfs/Device.hpp).  The scope    *)
(* may be left after any step, by its end or an early return, and destroys *)
(* its objects in reverse order.  A Device refers to a DeviceClass object, *)
(* whose class may be moved to another one while the Device lives.         *)
(*                                                                         *)
(* External, as the code uses it: class_create and device_create return    *)
(* an error pointer on failure, the first also when the name is taken, the *)
(* second also for a class that is null or an error; class_destroy ignores *)
(* null and error pointers; device_destroy finds no device of a null       *)
(* class, and reads the name of one that is an error pointer.              *)
(***************************************************************************)
EXTENDS Sequences, SequencesExt

CONSTANTS nullptr, NoObject, ERR

ConstantsAssumption ==
  nullptr # NoObject /\ ERR \notin {nullptr, NoObject} /\ "set" \notin {nullptr, NoObject, ERR}

Classes == {"class", "class2"}  \* two DeviceClass objects; the Device refers to the first
Objects == Classes \union {"cdev", "device"}

VARIABLES
  scope,      \* the live objects, oldest first
  class_,     \* class_[x]: "set", ERR, nullptr or NoObject
  device_,    \* "set", ERR or NoObject
  is_added_,  \* of the CharDevice
  registered, \* what the kernel has: a subset of {"class", "cdev", "node"}
  phase,      \* "running", "leaving" the scope, or "oops"
  moved       \* history: the class the Device was created with left its DeviceClass

vars == <<scope, class_, device_, is_added_, registered, phase, moved>>

Running == phase = "running"
Lives(x) == Contains(scope, x)
NewObject(x) == Running /\ ~Lives(x) /\ scope' = Append(scope, x)
Register(r) == registered' = registered \union {r}

\* class_destroy(class_) of x, if class_ is not null: the class in the kernel.
DestroyedClass(x) == IF class_[x] = "set" THEN registered \ {"class"} ELSE registered

------------------------------------------------------------------------------
ConstructClass(x) ==
  /\ NewObject(x)
  /\ \/ "class" \notin registered /\ Register("class") /\ class_' = [class_ EXCEPT ![x] = "set"]
     \/ class_' = [class_ EXCEPT ![x] = ERR] /\ UNCHANGED registered
  /\ UNCHANGED <<device_, is_added_, phase, moved>>

LosesClass(x) == moved' = (moved \/ (x = "class" /\ "node" \in registered))

MoveConstructClass(x, y) ==
  /\ Lives(y) /\ NewObject(x)
  /\ class_' = [class_ EXCEPT ![x] = class_[y], ![y] = nullptr]
  /\ LosesClass(y)
  /\ UNCHANGED <<device_, is_added_, registered, phase>>

MoveAssignLeaks(x, y) ==
  /\ Running /\ Lives(x) /\ Lives(y) /\ x # y
  /\ class_' = [class_ EXCEPT ![x] = class_[y], ![y] = nullptr]
  /\ moved' = (moved \/ "node" \in registered)
  /\ UNCHANGED <<scope, device_, is_added_, registered, phase>>

MoveAssignClass(x, y) ==
  /\ Running /\ Lives(x) /\ Lives(y) /\ x # y
  /\ registered' = DestroyedClass(x)
  /\ class_' = [class_ EXCEPT ![x] = class_[y], ![y] = nullptr]
  /\ moved' = (moved \/ "node" \in registered)
  /\ UNCHANGED <<scope, device_, is_added_, phase>>

ConstructCharDevice ==
  /\ NewObject("cdev")
  /\ is_added_' = FALSE
  /\ UNCHANGED <<class_, device_, registered, phase, moved>>

add ==
  /\ Running /\ Lives("cdev") /\ "cdev" \notin registered
  /\ \/ Register("cdev") /\ is_added_' = TRUE
     \/ UNCHANGED <<registered, is_added_>>
  /\ UNCHANGED <<scope, class_, device_, phase, moved>>

\* Device(dev_class, dev_num, name).
ConstructDevice ==
  /\ Lives("class") /\ NewObject("device")
  /\ \/ class_["class"] = "set" /\ "node" \notin registered /\ Register("node") /\ device_' = "set"
     \/ device_' = ERR /\ UNCHANGED registered
  /\ UNCHANGED <<class_, is_added_, phase, moved>>

LeaveScope ==
  /\ Running /\ scope # <<>>
  /\ phase' = "leaving"
  /\ UNCHANGED <<scope, class_, device_, is_added_, registered, moved>>

------------------------------------------------------------------------------
\* The object that is destroyed next.
Youngest == Last(scope)

\* It has ended; the scope is left when it was the last one.
Ended ==
  /\ scope' = Front(scope)
  /\ phase' = IF Len(scope) = 1 THEN "running" ELSE "leaving"

DestructClass(x) ==
  /\ phase = "leaving" /\ Youngest = x
  /\ registered' = DestroyedClass(x)
  /\ class_' = [class_ EXCEPT ![x] = NoObject]
  /\ Ended
  /\ UNCHANGED <<device_, is_added_, moved>>

DestructCharDevice ==
  /\ phase = "leaving" /\ Youngest = "cdev"
  /\ registered' = IF is_added_ THEN registered \ {"cdev"} ELSE registered
  /\ is_added_' = FALSE
  /\ Ended
  /\ UNCHANGED <<class_, device_, moved>>

\* ~Device reads device_->devt of any pointer that is not null, error pointers
\* included, and gives device_destroy the class_ that the DeviceClass has by now.
DestructDevice ==
  /\ phase = "leaving" /\ Youngest = "device"
  /\ IF device_ = ERR \/ class_["class"] = ERR
     THEN phase' = "oops" /\ UNCHANGED <<scope, device_, registered>>
     ELSE /\ registered' = IF class_["class"] = "set" THEN registered \ {"node"} ELSE registered
          /\ device_' = NoObject
          /\ Ended
  /\ UNCHANGED <<class_, is_added_, moved>>

------------------------------------------------------------------------------
Init ==
  /\ scope = <<>> /\ class_ = [x \in Classes |-> NoObject] /\ device_ = NoObject
  /\ is_added_ = FALSE /\ registered = {} /\ phase = "running" /\ moved = FALSE

Next ==
  \/ \E x \in Classes : ConstructClass(x) \/ DestructClass(x)
  \/ \E x, y \in Classes : MoveConstructClass(x, y) \/ MoveAssignClass(x, y)
  \/ ConstructCharDevice \/ add \/ DestructCharDevice
  \/ ConstructDevice \/ DestructDevice
  \/ LeaveScope

Spec == Init /\ [][Next]_vars

------------------------------------------------------------------------------
(***************************************************************************)
(* Properties.                                                             *)
(***************************************************************************)

\* Every variable keeps its type.
TypeOK ==
  /\ scope \in Seq(Objects)
  /\ class_ \in [Classes -> {"set", ERR, nullptr, NoObject}]
  /\ device_ \in {"set", ERR, NoObject} /\ is_added_ \in BOOLEAN /\ moved \in BOOLEAN
  /\ registered \subseteq {"class", "cdev", "node"} /\ phase \in {"running", "leaving", "oops"}

\* Whatever failed and wherever the scope was left, its destructors take back
\* what its constructors registered, the node before its class, unless the
\* class was moved away from under the Device; and they crash only for a
\* Device that device_create failed for, or whose DeviceClass was assigned one
\* that class_create failed for.
ScopeUnwinds ==
  /\ scope = <<>> => "class" \notin registered /\ "cdev" \notin registered
  /\ "node" \in registered => moved \/ ("class" \in registered /\ Lives("device"))
  /\ phase = "oops" => device_ = ERR \/ (moved /\ class_["class"] = ERR)
==============================================================================
