--------------------------- MODULE FileOperations ---------------------------
(***************************************************************************)
(* kpp::FileOperations<Owner> (kpp/vfs/FileOperations.hpp): a table of VFS *)
(* callbacks filled in by the base class constructor, and the trampolines  *)
(* that find the owner's member function.  The owner says which operations *)
(* it defines by overriding the virtual getters.                           *)
(*                                                                         *)
(* A virtual call inside a constructor runs the version of the class under *)
(* construction, so the dynamic type of the object is part of the state.   *)
(* What the VFS does with an empty slot is external.                       *)
(***************************************************************************)
CONSTANTS
  Overrides  \* the operations whose getter the Owner overrides

Ops == {"open", "release", "read", "write", "ioctl", "poll"}

VARIABLES
  type,       \* dynamic type of the object: "none", "FileOperations" or "Owner"
  owner_ptr_, \* "null" or "this"
  fops_,      \* fops_[op]: "null" or "trampoline"
  result      \* result[op]: what the last call of op returned, "none" before

vars == <<type, owner_ptr_, fops_, result>>

\* get_open(), get_release(), ...: a virtual call.
get(op) == IF type = "Owner" /\ op \in Overrides THEN "method" ELSE "nullptr"

\* The constructor of the base class; the object is a FileOperations while it
\* runs.
ConstructBase ==
  /\ type = "none"
  /\ type' = "FileOperations"
  /\ owner_ptr_' = "this"
  /\ fops_' = [op \in Ops |-> IF get(op)' # "nullptr" THEN "trampoline" ELSE "null"]
  /\ UNCHANGED result

\* The constructor of the owner finishes.
ConstructOwner ==
  /\ type = "FileOperations"
  /\ type' = "Owner"
  /\ UNCHANGED <<owner_ptr_, fops_, result>>

\* The VFS finds no callback: an open succeeds, a read or write fails.
VfsDefault ==
  [op \in Ops |-> CASE op \in {"open", "release"} -> "0"
                    [] op \in {"read", "write"} -> "-EINVAL"
                    [] op = "ioctl" -> "-ENOTTY"
                    [] op = "poll" -> "DEFAULT_POLLMASK"]

\* What a trampoline returns when the owner has no member function.
TrampolineDefault ==
  [op \in Ops |-> CASE op \in {"open", "release"} -> "0"
                    [] op \in {"read", "write"} -> "-EIO"
                    [] op = "ioctl" -> "-ENOTTY"
                    [] op = "poll" -> "DEFAULT_POLLMASK"]

CallEmptySlot(op) ==
  /\ type = "Owner" /\ fops_[op] = "null"
  /\ result' = [result EXCEPT ![op] = VfsDefault[op]]
  /\ UNCHANGED <<type, owner_ptr_, fops_>>

Trampoline(op) ==
  /\ type = "Owner" /\ fops_[op] = "trampoline"
  /\ result' = [result EXCEPT ![op] =
       IF owner_ptr_ # "null" /\ get(op) # "nullptr" THEN "member" ELSE TrampolineDefault[op]]
  /\ UNCHANGED <<type, owner_ptr_, fops_>>

Init ==
  /\ type = "none" /\ owner_ptr_ = "null"
  /\ fops_ = [op \in Ops |-> "null"]
  /\ result = [op \in Ops |-> "none"]

Next == ConstructBase \/ ConstructOwner \/ \E op \in Ops : CallEmptySlot(op) \/ Trampoline(op)

Spec == Init /\ [][Next]_vars

------------------------------------------------------------------------------
\* What the documentation promises: a VFS callback the owner defines as a
\* member function is what the VFS calls.
CallsReachMembers ==
  \A op \in Overrides : result[op] \in {"none", "member"}
==============================================================================
