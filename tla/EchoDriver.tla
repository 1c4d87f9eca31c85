----------------------------- MODULE EchoDriver -----------------------------
(***************************************************************************)
(* The read and write handlers of the echo driver                          *)
(* (include/driver/driver.cpp) under kpp::Mutex and kpp::ScopedLock, and   *)
(* the part of the VFS that calls them.  Threads run the handlers          *)
(* concurrently; every access to buffer_, buffer_len_ and the lock is a    *)
(* step, and a copy to or from user memory is one step per byte, any of    *)
(* which may fault.                                                        *)
(*                                                                         *)
(* The VFS (external) copies the position of the file into a local         *)
(* variable before the handler and stores it back after a successful one.  *)
(* A character device has no lock on the position, so two threads that     *)
(* share a file race on it.  pread passes any offset and stores nothing.   *)
(***************************************************************************)
EXTENDS Integers, Sequences

CONSTANTS
  Threads,     \* threads of user programs
  Files,       \* open files of the device
  Msgs,        \* contents of the user buffers passed to write
  Sizes,       \* sizes of requests
  Offsets,     \* offsets passed to pread
  BUFFER_SIZE, \* the size of buffer_
  NoThread,    \* mutex_ is free
  NoFile,      \* pread: the position of no file is used
  NoMsg        \* the request has no user data

ASSUME ConstantsAssumption ==
  /\ BUFFER_SIZE \in Nat \ {0}
  /\ Sizes \subseteq Nat /\ Offsets \subseteq Nat
  /\ NoThread \notin Threads /\ NoFile \notin Files /\ NoMsg \notin Msgs

VARIABLES
  buffer_, buffer_len_, \* the fields of EchoDriver
  mutex_,               \* the thread that holds the lock, or NoThread
  f_pos,                \* f_pos[f]: the position of file f
  call,                 \* call[t]: the system call of thread t
  content,              \* history: the message the finished writes left behind
  torn                  \* history: the last write that touched the buffer faulted

vars == <<buffer_, buffer_len_, mutex_, f_pos, call, content, torn>>

EFAULT == 14

\* A byte of a user buffer is known by the buffer and its index.
Nul == <<"nul">>
UserByte(m, j) == <<m, j>>

min(m, n) == IF m <= n THEN m ELSE n

(***************************************************************************)
(* A system call: pc is the step that comes next; off is the local         *)
(* position the VFS passes by address; count and i are the size and the    *)
(* progress of the copy; out is what arrived in the user's read buffer.    *)
(***************************************************************************)
Idle ==
  [op |-> "none", pc |-> "idle", file |-> NoFile, size |-> 0, msg |-> NoMsg,
   off |-> 0, count |-> 0, i |-> 0, out |-> <<>>, ret |-> 0]

\* The message: the first buffer_len_ bytes of the buffer.
Message(buf, len) == [j \in 1 .. len |-> buf[j - 1]]

------------------------------------------------------------------------------
(***************************************************************************)
(* The VFS calls a handler.                                                *)
(***************************************************************************)

VfsRead(t, f, n) ==
  /\ call[t] = Idle
  /\ call' = [call EXCEPT ![t] =
       [Idle EXCEPT !.op = "read", !.pc = "lock", !.file = f, !.size = n, !.off = f_pos[f]]]
  /\ UNCHANGED <<buffer_, buffer_len_, mutex_, f_pos, content, torn>>

VfsPread(t, n, o) ==
  /\ call[t] = Idle
  /\ call' = [call EXCEPT ![t] =
       [Idle EXCEPT !.op = "read", !.pc = "lock", !.size = n, !.off = o]]
  /\ UNCHANGED <<buffer_, buffer_len_, mutex_, f_pos, content, torn>>

VfsWrite(t, f, n, m) ==
  /\ call[t] = Idle
  /\ call' = [call EXCEPT ![t] =
       [Idle EXCEPT !.op = "write", !.pc = "lock", !.file = f, !.size = n, !.msg = m,
                    !.off = f_pos[f]]]
  /\ UNCHANGED <<buffer_, buffer_len_, mutex_, f_pos, content, torn>>

\* The handler returned: a result that is not an error stores the position.
VfsReturn(t) ==
  /\ call[t].pc = "return"
  /\ f_pos' = IF call[t].file \in Files /\ call[t].ret >= 0
              THEN [f_pos EXCEPT ![call[t].file] = call[t].off] ELSE f_pos
  /\ call' = [call EXCEPT ![t] = Idle]
  /\ UNCHANGED <<buffer_, buffer_len_, mutex_, content, torn>>

------------------------------------------------------------------------------
(***************************************************************************)
(* ScopedLock: the constructor locks mutex_, every return unlocks it.      *)
(***************************************************************************)

LockWithoutWaiting(t) ==
  /\ call[t].pc = "lock"
  /\ mutex_' = t
  /\ call' = [call EXCEPT ![t].pc = IF call[t].op = "read" THEN "check" ELSE "size"]
  /\ UNCHANGED <<buffer_, buffer_len_, f_pos, content, torn>>

Lock(t) ==
  /\ call[t].pc = "lock"
  /\ mutex_ = NoThread
  /\ mutex_' = t
  /\ call' = [call EXCEPT ![t].pc = IF call[t].op = "read" THEN "check" ELSE "size"]
  /\ UNCHANGED <<buffer_, buffer_len_, f_pos, content, torn>>

Unlock(t) ==
  /\ call[t].pc = "unlock"
  /\ mutex_' = NoThread
  /\ call' = [call EXCEPT ![t].pc = "return"]
  /\ UNCHANGED <<buffer_, buffer_len_, f_pos, content, torn>>

\* The handler of t returns r.
ReturnFrom(t, r) == [call EXCEPT ![t].pc = "unlock", ![t].ret = r]

------------------------------------------------------------------------------
(***************************************************************************)
(* EchoDriver::read.                                                       *)
(***************************************************************************)

ReadCheckRetries(t) ==
  /\ call[t].pc = "check"
  /\ IF call[t].off >= buffer_len_
       THEN mutex_' = NoThread /\ call' = [call EXCEPT ![t].pc = "lock"]
       ELSE mutex_' = mutex_ /\ call' = [call EXCEPT ![t].pc = "count"]
  /\ UNCHANGED <<buffer_, buffer_len_, f_pos, content, torn>>

ReadCheck(t) ==
  /\ call[t].pc = "check"
  /\ call' = IF call[t].off >= buffer_len_ THEN ReturnFrom(t, 0) ELSE [call EXCEPT ![t].pc = "count"]
  /\ UNCHANGED <<buffer_, buffer_len_, mutex_, f_pos, content, torn>>

ReadCount(t) ==
  /\ call[t].pc = "count"
  /\ call' = [call EXCEPT ![t].pc = "copyout",
                          ![t].count = min(call[t].size, buffer_len_ - call[t].off)]
  /\ UNCHANGED <<buffer_, buffer_len_, mutex_, f_pos, content, torn>>

\* copy_to_user: the next byte reaches the user, or the access faults.
CopyToUser(t) ==
  /\ call[t].pc = "copyout" /\ call[t].i < call[t].count
  /\ \/ call' = [call EXCEPT ![t].i = @ + 1,
                             ![t].out = Append(@, buffer_[call[t].off + call[t].i])]
     \/ call' = ReturnFrom(t, -EFAULT)
  /\ UNCHANGED <<buffer_, buffer_len_, mutex_, f_pos, content, torn>>

ReadDoneSamePlace(t) ==
  /\ call[t].pc = "copyout" /\ call[t].i = call[t].count
  /\ call' = ReturnFrom(t, call[t].count)
  /\ UNCHANGED <<buffer_, buffer_len_, mutex_, f_pos, content, torn>>

ReadDone(t) ==
  /\ call[t].pc = "copyout" /\ call[t].i = call[t].count
  /\ call' = [ReturnFrom(t, call[t].count) EXCEPT ![t].off = @ + call[t].count]
  /\ UNCHANGED <<buffer_, buffer_len_, mutex_, f_pos, content, torn>>

------------------------------------------------------------------------------
(***************************************************************************)
(* EchoDriver::write.                                                      *)
(***************************************************************************)

MaxMessage == BUFFER_SIZE - 1

WriteCount(t) ==
  /\ call[t].pc = "size"
  /\ call' = [call EXCEPT ![t].pc = "copyin", ![t].count = min(call[t].size, MaxMessage)]
  /\ UNCHANGED <<buffer_, buffer_len_, mutex_, f_pos, content, torn>>

\* copy_from_user: the next byte arrives, or the access faults and the rest
\* of the destination is filled with zeros (the kernel's copy_from_user).
CopyFromUser(t) ==
  /\ call[t].pc = "copyin" /\ call[t].i < call[t].count
  /\ \/ /\ buffer_' = [buffer_ EXCEPT ![call[t].i] = UserByte(call[t].msg, call[t].i)]
        /\ call' = [call EXCEPT ![t].i = @ + 1]
        /\ UNCHANGED <<content, torn>>
     \/ /\ buffer_' = [j \in DOMAIN buffer_ |->
                         IF j \in call[t].i .. call[t].count - 1 THEN Nul ELSE buffer_[j]]
        /\ call' = ReturnFrom(t, -EFAULT)
        /\ content' = Message(buffer_', buffer_len_)
        /\ torn' = TRUE
  /\ UNCHANGED <<buffer_len_, mutex_, f_pos>>

SetLength(t) ==
  /\ call[t].pc = "copyin" /\ call[t].i = call[t].count
  /\ buffer_len_' = call[t].count
  /\ call' = [call EXCEPT ![t].pc = "terminate"]
  /\ UNCHANGED <<buffer_, mutex_, f_pos, content, torn>>

Terminate(t) ==
  /\ call[t].pc = "terminate"
  /\ buffer_' = [buffer_ EXCEPT ![buffer_len_] = Nul]
  /\ call' = [ReturnFrom(t, call[t].count) EXCEPT ![t].off = 0]
  /\ content' = [j \in 1 .. call[t].count |-> UserByte(call[t].msg, j - 1)]
  /\ torn' = FALSE
  /\ UNCHANGED <<buffer_len_, mutex_, f_pos>>

------------------------------------------------------------------------------
Init ==
  /\ buffer_ = [j \in 0 .. BUFFER_SIZE - 1 |-> Nul]
  /\ buffer_len_ = 0
  /\ mutex_ = NoThread
  /\ f_pos = [f \in Files |-> 0]
  /\ call = [t \in Threads |-> Idle]
  /\ content = <<>>
  /\ torn = FALSE

\* The steps of a call in progress other than waiting for the lock.
Run(t) ==
  \/ ReadCheck(t) \/ ReadCount(t) \/ CopyToUser(t) \/ ReadDone(t)
  \/ WriteCount(t) \/ CopyFromUser(t) \/ SetLength(t) \/ Terminate(t)
  \/ Unlock(t) \/ VfsReturn(t)

Begin(t) ==
  \/ \E f \in Files, n \in Sizes : VfsRead(t, f, n)
  \/ \E n \in Sizes, o \in Offsets : VfsPread(t, n, o)
  \/ \E f \in Files, n \in Sizes, m \in Msgs : VfsWrite(t, f, n, m)

Next == \E t \in Threads : Begin(t) \/ Lock(t) \/ Run(t)

Safety == Init /\ [][Next]_vars

\* A thread in the kernel keeps running, and the mutex is fair: the Linux
\* mutex hands itself over to a waiter that others overtake.
Spec == Safety /\ \A t \in Threads : WF_vars(Run(t)) /\ SF_vars(Lock(t))

------------------------------------------------------------------------------
(***************************************************************************)
(* Properties.                                                             *)
(***************************************************************************)

Bytes == {Nul} \union (Msgs \X (0 .. BUFFER_SIZE - 1))
Stages ==
  {"idle", "lock", "check", "count", "copyout", "size", "copyin", "terminate", "unlock", "return"}

\* Every variable keeps its type: the message leaves room for the terminator
\* that write appends, and no file position leaves the buffer.
TypeOK ==
  /\ buffer_ \in [0 .. BUFFER_SIZE - 1 -> Bytes]
  /\ buffer_len_ \in 0 .. BUFFER_SIZE - 1
  /\ mutex_ \in Threads \union {NoThread}
  /\ f_pos \in [Files -> 0 .. BUFFER_SIZE - 1]
  /\ torn \in BOOLEAN
  /\ \A t \in Threads :
       /\ call[t].op \in {"none", "read", "write"} /\ call[t].pc \in Stages
       /\ call[t].file \in Files \union {NoFile} /\ call[t].msg \in Msgs \union {NoMsg}
       /\ call[t].size \in Nat /\ call[t].off \in Nat
       /\ call[t].count \in 0 .. BUFFER_SIZE - 1 /\ call[t].i \in 0 .. call[t].count
       /\ call[t].ret \in {-EFAULT} \union 0 .. BUFFER_SIZE - 1

\* A copy out of buffer_ stays inside the message, from the length check of
\* read to its last byte, whatever other threads do to buffer_len_ meanwhile;
\* buffer_len_ - *offset does not wrap around.
CopyInBounds ==
  \A t \in Threads :
    /\ call[t].pc = "count" => call[t].off < buffer_len_
    /\ call[t].pc = "copyout" => call[t].off + call[t].count <= buffer_len_

\* No access leaves the message or the buffer: the type invariant bounds what
\* write stores, CopyInBounds what read copies.
BoundsInv == TypeOK /\ CopyInBounds

\* Whenever the lock is free, the buffer holds the message the last write
\* left: a successful write is there in full, followed by its NUL, and a
\* faulted one changed nothing behind the bytes it asked for.  (A faulted
\* write may overwrite the NUL: it returns before it sets one.)
InSync ==
  mutex_ = NoThread =>
    /\ content = Message(buffer_, buffer_len_)
    /\ ~torn => buffer_[buffer_len_] = Nul

\* Both together: the handlers stay inside of the buffer, and outside of them
\* it holds the last message.
BufferInv == BoundsInv /\ InSync

\* Every system call on the device returns, whatever the other threads do.
EveryCallReturns == \A t \in Threads : call[t].pc # "idle" ~> call[t].pc = "idle"

\* The locked handlers implement the atomic buffer: every read returns a
\* slice of one message, as if each handler ran in one step.
Request(t) ==
  CASE call[t].pc = "idle" -> [st |-> "none"]
    [] call[t].pc \in {"unlock", "return"} ->
         [st |-> "done", ret |-> call[t].ret, off |-> call[t].off, out |-> call[t].out]
    [] OTHER ->
         IF call[t].op = "read" THEN [st |-> "read", size |-> call[t].size, off |-> call[t].off]
         ELSE [st |-> "write", size |-> call[t].size, msg |-> call[t].msg, off |-> call[t].off]

Echo == INSTANCE EchoBuffer WITH
  Capacity <- BUFFER_SIZE - 1,
  Offsets <- Offsets \union 0 .. BUFFER_SIZE - 1,
  request <- [t \in Threads |-> Request(t)]
ImplementsEchoBuffer == Echo!Spec
==============================================================================
