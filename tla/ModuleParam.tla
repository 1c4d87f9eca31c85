----------------------------- MODULE ModuleParam -----------------------------
(***************************************************************************)
(* kpp::StringParam (kpp/core/ModuleParam.hpp): a module parameter kept in *)
(* a kpp::StringView (kpp/core/StringView.hpp), a pointer and a length.    *)
(* It is set from the command line when the module is loaded and, if its   *)
(* permissions allow, from sysfs at any time, and read through sysfs and   *)
(* value().                                                                *)
(*                                                                         *)
(* External, as the code uses it: the loader keeps the command line until  *)
(* the module is unloaded; sysfs copies what a program writes into a       *)
(* buffer of its own, calls set and frees the buffer; set and get of one   *)
(* module run under one lock.                                              *)
(***************************************************************************)
EXTENDS Naturals

CONSTANTS
  Buffers,   \* memory for command lines and for the writes of programs
  Lengths,   \* the lengths of the strings
  Writable,  \* perm allows writing
  nullptr

ConstantsAssumption == nullptr \notin Buffers /\ Lengths \subseteq Nat /\ Writable \in BOOLEAN

VARIABLES
  module,     \* "out" or "live"
  sv_,        \* [data |-> pointer, size |-> length]
  allocated,  \* the buffers in use
  args,       \* the buffer of the command line, or nullptr
  writing     \* the buffer of the write under way, or nullptr

vars == <<module, sv_, allocated, args, writing>>

EmptyView == [data |-> nullptr, size |-> 0]

\* param_set_string(val): the view refers to the caller's buffer.
param_set_string(val, len) == sv_' = [data |-> val, size |-> len]

\* StringParam(name, perm), and the parameter on the command line or not.
Load(b, len) ==
  /\ module = "out" /\ b \notin allocated
  /\ module' = "live" /\ allocated' = allocated \union {b} /\ args' = b
  /\ param_set_string(b, len) \/ sv_' = EmptyView
  /\ UNCHANGED writing

\* A program writes the file in sysfs ...
SysfsWrite(b, len) ==
  /\ module = "live" /\ Writable /\ writing = nullptr /\ b \notin allocated
  /\ allocated' = allocated \union {b} /\ writing' = b
  /\ param_set_string(b, len)
  /\ UNCHANGED <<module, args>>

\* ... and its write returns.
SysfsWriteReturns ==
  /\ writing # nullptr
  /\ allocated' = allocated \ {writing} /\ writing' = nullptr
  /\ UNCHANGED <<module, sv_, args>>

Unload ==
  /\ module = "live" /\ writing = nullptr
  /\ module' = "out" /\ allocated' = allocated \ {args} /\ args' = nullptr
  /\ sv_' = EmptyView
  /\ UNCHANGED writing

Init ==
  /\ module = "out" /\ sv_ = EmptyView /\ allocated = {}
  /\ args = nullptr /\ writing = nullptr

Next ==
  \/ \E b \in Buffers, n \in Lengths : Load(b, n) \/ SysfsWrite(b, n)
  \/ SysfsWriteReturns \/ Unload

Spec == Init /\ [][Next]_vars

------------------------------------------------------------------------------
(***************************************************************************)
(* Properties.                                                             *)
(***************************************************************************)

\* What the documentation says of kpp::StringView, safe string handling: the
\* characters that param_get_string copies and value() hands out are in memory
\* that is still allocated.
ParamIsReadable == sv_.size > 0 => sv_.data \in allocated
==============================================================================
