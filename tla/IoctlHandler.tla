---------------------------- MODULE IoctlHandler ----------------------------
(***************************************************************************)
(* kpp::IoctlHandler<Owner, Commands...> (kpp/vfs/IoctlDSL.hpp): handle    *)
(* offers an ioctl to each command of the pack in turn; the first that     *)
(* matches copies its argument in, calls the owner and copies the result   *)
(* back.  Other threads of the program write the argument in user memory,  *)
(* or unmap it, between any two steps.                                     *)
(*                                                                         *)
(* External, as the code uses it: the owner's handle_ioctl, which answers  *)
(* with any result and leaves any value in data.  The argument is one      *)
(* value: copies are not torn.                                             *)
(***************************************************************************)
EXTENDS Integers, Sequences

CONSTANTS
  Commands, \* the pack: a sequence of [cmd |-> number, dir |-> direction]
  Cmds,     \* the numbers a program may pass to ioctl
  Values,   \* the values of the argument
  Results   \* the results of handle_ioctl

CONSTANTS ENOTTY, EFAULT

ConstantsAssumption ==
  /\ Commands \in Seq([cmd : Cmds, dir : {"NONE", "READ", "WRITE", "READ_WRITE"}])
  /\ 0 \in Values /\ 0 \in Results /\ Results \subseteq Int
  /\ ENOTTY \in Int \ {0} /\ EFAULT \in Int \ {0} /\ ENOTTY # EFAULT

VARIABLES
  pc,      \* "idle", "match", "copyin", "call", "copyout"
  cmd,     \* the number the program passed
  i,       \* the command of the pack that process_command is at
  handled,
  ret,
  data,    \* the DataType of process_command
  user,    \* the argument in user memory
  mapped,  \* the argument is in mapped memory
  calls,   \* the commands of the pack whose handle_ioctl was called, in order
  result   \* the last result of handle_ioctl in this call

vars == <<pc, cmd, i, handled, ret, data, user, mapped, calls, result>>

Command == Commands[i]
CopiesIn == Command.dir \in {"WRITE", "READ_WRITE"}
CopiesOut == Command.dir \in {"READ", "READ_WRITE"}

------------------------------------------------------------------------------
(***************************************************************************)
(* handle and process_command.                                             *)
(***************************************************************************)

Handle(c) ==
  /\ pc = "idle"
  /\ cmd' = c /\ i' = 1 /\ handled' = FALSE /\ ret' = -ENOTTY
  /\ calls' = <<>> /\ result' = 0 /\ pc' = "match"
  /\ UNCHANGED <<data, user, mapped>>

MatchesAny == cmd = Command.cmd

\* process_command is for this command.
Matches == ~handled /\ cmd = Command.cmd

\* process_command: returns at once, or starts with a zeroed DataType.
Match ==
  /\ pc = "match" /\ i <= Len(Commands)
  /\ IF Matches
     THEN pc' = (IF CopiesIn THEN "copyin" ELSE "call") /\ data' = 0 /\ UNCHANGED i
     ELSE i' = i + 1 /\ UNCHANGED <<pc, data>>
  /\ UNCHANGED <<cmd, handled, ret, user, mapped, calls, result>>

\* process_command returns, and handle goes on to the next command.
Leave(done) == handled' = done /\ i' = i + 1 /\ pc' = "match"

CopyIn ==
  /\ pc = "copyin"
  /\ IF mapped
     THEN data' = user /\ pc' = "call" /\ UNCHANGED <<i, handled, ret>>
     ELSE ret' = -EFAULT /\ Leave(TRUE) /\ UNCHANGED data
  /\ UNCHANGED <<cmd, user, mapped, calls, result>>

CallOwnerAlwaysOut(r, v) ==
  /\ pc = "call"
  /\ ret' = r /\ result' = r /\ data' = v /\ calls' = Append(calls, i)
  /\ IF CopiesOut THEN pc' = "copyout" /\ UNCHANGED <<i, handled>> ELSE Leave(TRUE)
  /\ UNCHANGED <<cmd, user, mapped>>

\* owner->handle_ioctl(file, Command{}, data).
CallOwner(r, v) ==
  /\ pc = "call"
  /\ ret' = r /\ result' = r /\ data' = v /\ calls' = Append(calls, i)
  /\ IF CopiesOut /\ r = 0 THEN pc' = "copyout" /\ UNCHANGED <<i, handled>> ELSE Leave(TRUE)
  /\ UNCHANGED <<cmd, user, mapped>>

CopyOut ==
  /\ pc = "copyout"
  /\ IF mapped THEN user' = data /\ UNCHANGED ret ELSE ret' = -EFAULT /\ UNCHANGED user
  /\ Leave(TRUE)
  /\ UNCHANGED <<cmd, data, mapped, calls, result>>

\* handle returns ret to the program.
Return ==
  /\ pc = "match" /\ i > Len(Commands)
  /\ pc' = "idle"
  /\ UNCHANGED <<cmd, i, handled, ret, data, user, mapped, calls, result>>

------------------------------------------------------------------------------
(***************************************************************************)
(* The other threads of the program.                                       *)
(***************************************************************************)

UserWrites(v) ==
  /\ mapped /\ user' = v
  /\ UNCHANGED <<pc, cmd, i, handled, ret, data, mapped, calls, result>>

UserRemaps ==
  /\ mapped' = ~mapped
  /\ UNCHANGED <<pc, cmd, i, handled, ret, data, user, calls, result>>

------------------------------------------------------------------------------
Init ==
  /\ pc = "idle" /\ cmd \in Cmds /\ i = 1 /\ handled = FALSE /\ ret = 0
  /\ data = 0 /\ user = 0 /\ mapped = TRUE /\ calls = <<>> /\ result = 0

Handler == Match \/ CopyIn \/ CopyOut \/ Return \/ \E r \in Results, v \in Values : CallOwner(r, v)

Next ==
  \/ \E c \in Cmds : Handle(c)
  \/ Handler
  \/ \E v \in Values : UserWrites(v)
  \/ UserRemaps

Spec == Init /\ [][Next]_vars

------------------------------------------------------------------------------
(***************************************************************************)
(* Properties.                                                             *)
(***************************************************************************)

\* Every variable keeps its type.
TypeOK ==
  /\ pc \in {"idle", "match", "copyin", "call", "copyout"}
  /\ cmd \in Cmds /\ i \in 1 .. Len(Commands) + 1
  /\ handled \in BOOLEAN /\ mapped \in BOOLEAN
  /\ ret \in Results \union {-ENOTTY, -EFAULT} /\ result \in Results
  /\ data \in Values /\ user \in Values
  /\ calls \in Seq(1 .. Len(Commands))

\* The first command of the pack with this number.
FirstMatch == {k \in 1 .. Len(Commands) : Commands[k].cmd = cmd /\ \A m \in 1 .. k - 1 : Commands[m].cmd # cmd}

\* One ioctl calls the owner at most once, for the first command of the pack
\* with its number, also when a later command has the same number and when the
\* copy of the argument faulted.
AtMostOneCall == Len(calls) <= 1 /\ \A k \in DOMAIN calls : calls[k] \in FirstMatch

\* When handle returns, its result tells what was done: -ENOTTY and no call
\* for a number no command has; -EFAULT and no call when the copy in faulted;
\* and the owner's result when the owner was called, unless the owner succeeded
\* and the copy back faulted.  The program cannot tell the handler's error from
\* the same error of the owner, whose answer may be any number.
ResultIsTrue ==
  pc = "match" /\ i > Len(Commands) =>
    /\ FirstMatch = {} => ret = -ENOTTY /\ calls = <<>>
    /\ FirstMatch # {} /\ calls = <<>> => ret = -EFAULT
    /\ calls # <<>> => ret = result \/ (ret = -EFAULT /\ result = 0)

\* handle writes user memory only with the result of a call of a READ or
\* READ_WRITE command that succeeded.
WritesOnlyResults ==
  [][Handler /\ user' # user =>
       /\ Len(calls) = 1 /\ result = 0
       /\ Commands[calls[1]].dir \in {"READ", "READ_WRITE"}]_vars
==============================================================================
