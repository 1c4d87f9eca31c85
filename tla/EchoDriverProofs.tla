-------------------------- MODULE EchoDriverProofs --------------------------
(***************************************************************************)
(* Proofs about the locked handlers of the echo driver, for any number of  *)
(* threads and files, any buffer size and any request sizes and offsets:   *)
(* BufferInv holds, and the handlers implement the atomic buffer.          *)
(*                                                                         *)
(* The inductive invariant adds to BufferInv who holds the lock at which   *)
(* step, and what the copy in progress has done so far.  What it says of   *)
(* one call is a predicate of the record of the call, so that a step of a  *)
(* handler has to establish it for the one record it changes (CallStep).   *)
(***************************************************************************)
EXTENDS EchoDriver, SequenceTheorems, TLAPS

CallRecord ==
  [op : {"none", "read", "write"}, pc : Stages, file : Files \union {NoFile}, size : Nat,
   msg : Msgs \union {NoMsg}, off : Nat, count : 0 .. BUFFER_SIZE - 1, i : Nat,
   out : Seq(Bytes), ret : {-EFAULT} \union 0 .. BUFFER_SIZE - 1]

Buffers == [0 .. BUFFER_SIZE - 1 -> Bytes]
Positions == [Files -> 0 .. BUFFER_SIZE - 1]

Typed ==
  /\ buffer_ \in Buffers
  /\ buffer_len_ \in 0 .. BUFFER_SIZE - 1
  /\ mutex_ \in Threads \union {NoThread}
  /\ f_pos \in Positions
  /\ call \in [Threads -> CallRecord]
  /\ torn \in BOOLEAN

\* The steps between the constructor and the destructor of ScopedLock, and
\* those of them at which a write has begun to replace the message.
Critical == {"check", "count", "copyout", "size", "copyin", "terminate", "unlock"}
Writing == {"copyin", "terminate"}

\* A thread inside of a handler holds the lock, and only such a thread does.
LockHeld == \A t \in Threads : call[t].pc \in Critical <=> mutex_ = t

\* What a call has done when it is at its step.
CallOK(c) ==
  /\ c.i <= c.count
  /\ c.pc \in {"lock", "check", "count", "size"} =>
       c.i = 0 /\ c.count = 0 /\ c.out = <<>> /\ c.op # "none"
  /\ c.pc \in {"check", "count", "copyout"} => c.op = "read"
  /\ c.pc \in {"size", "copyin", "terminate"} => c.op = "write"
  /\ c.op = "write" => c.msg \in Msgs /\ c.out = <<>>
  /\ c.file \in Files => c.off <= BUFFER_SIZE - 1

\* The buffer holds the message the finished writes left.
Settled ==
  /\ content = Message(buffer_, buffer_len_)
  /\ ~torn => buffer_[buffer_len_] = Nul

\* Nothing has been written to the buffer since it was settled.
SettledInv == (\A t \in Threads : call[t].pc \notin Writing) => Settled

\* A read has delivered the first i bytes of its slice.
ReadOK(c, buf, len) ==
  /\ c.pc = "count" => c.off < len
  /\ c.pc = "copyout" =>
       /\ c.off < len
       /\ c.count = min(c.size, len - c.off)
       /\ c.out = [j \in 1 .. c.i |-> buf[c.off + j - 1]]

\* The first n bytes of the buffer are those of the request.
Arrived(c, buf, n) == \A j \in 0 .. n - 1 : buf[j] = UserByte(c.msg, j)

\* A write has replaced the first i bytes and left the others as they were.
WriteOK(c, buf, len, con) ==
  /\ c.pc \in Writing => c.count = min(c.size, MaxMessage)
  /\ c.pc = "copyin" =>
       /\ Arrived(c, buf, c.i)
       /\ con \in [1 .. len -> Bytes]
       /\ \A j \in 1 .. len : j > c.i => con[j] = buf[j - 1]
  /\ c.pc = "terminate" => c.i = c.count /\ len = c.count /\ Arrived(c, buf, c.count)

Good(c, buf, len, con) == CallOK(c) /\ ReadOK(c, buf, len) /\ WriteOK(c, buf, len, con)

IInv ==
  /\ Typed /\ LockHeld /\ SettledInv
  /\ \A t \in Threads : Good(call[t], buffer_, buffer_len_, content)

------------------------------------------------------------------------------
\* What the invariant says of one thread.
LEMMA CallFacts ==
  ASSUME IInv, NEW t \in Threads
  PROVE  /\ call[t] \in CallRecord
         /\ call[t].size \in Nat /\ call[t].off \in Nat /\ call[t].i \in Nat
         /\ call[t].count \in 0 .. BUFFER_SIZE - 1 /\ call[t].out \in Seq(Bytes)
         /\ call[t].ret \in {-EFAULT} \union 0 .. BUFFER_SIZE - 1
         /\ call[t].msg \in Msgs \union {NoMsg} /\ call[t].file \in Files \union {NoFile}
         /\ CallOK(call[t]) /\ ReadOK(call[t], buffer_, buffer_len_)
         /\ WriteOK(call[t], buffer_, buffer_len_, content)
         /\ call[t].pc \in Critical <=> mutex_ = t
         /\ buffer_ \in Buffers /\ buffer_len_ \in 0 .. BUFFER_SIZE - 1
<1>1. call[t] \in CallRecord
  BY DEF IInv, Typed
<1> QED BY <1>1 DEF IInv, Typed, Good, LockHeld, CallRecord

\* The fields of a call have their types in every stage.
LEMMA StageTypes == ASSUME NEW x \in Critical \union {"idle", "lock", "return"} PROVE x \in Stages
BY DEF Critical, Stages

\* One thread takes a step: it suffices to look at its own call and, where
\* the step writes to the buffer, to know that it holds the lock.
LEMMA CallStep ==
  ASSUME IInv, NEW t \in Threads, NEW c \in CallRecord, call' = [call EXCEPT ![t] = c],
         Good(c, buffer_', buffer_len_', content'),
         buffer_' \in Buffers, buffer_len_' \in 0 .. BUFFER_SIZE - 1, f_pos' \in Positions,
         torn' \in BOOLEAN,
         c.pc \in Critical <=> mutex_' = t,
         mutex_' = mutex_ \/ (mutex_ \in {t, NoThread} /\ mutex_' \in {t, NoThread}),
         UNCHANGED <<buffer_, buffer_len_, content>> \/ mutex_ = t,
         \/ c.pc \in Writing
         \/ Settled'
         \/ UNCHANGED <<buffer_, buffer_len_, content, torn>> /\ call[t].pc \notin Writing
  PROVE  IInv'
<1> USE ConstantsAssumption
<1>1. /\ call' \in [Threads -> CallRecord]
      /\ call'[t] = c
      /\ \A u \in Threads \ {t} : call'[u] = call[u]
  BY DEF IInv, Typed
<1>2. Typed'
  BY <1>1 DEF IInv, Typed
<1>3. LockHeld'
  BY <1>1 DEF IInv, Typed, LockHeld
<1>4. ASSUME NEW u \in Threads \ {t} PROVE Good(call'[u], buffer_', buffer_len_', content')
  <2>1. Good(call[u], buffer_, buffer_len_, content)
    BY DEF IInv
  <2>2. CASE UNCHANGED <<buffer_, buffer_len_, content>>
    BY <1>1, <2>1, <2>2
  <2>3. CASE mutex_ = t
    <3>1. call[u].pc \notin Critical
      BY <2>3 DEF IInv, LockHeld
    <3>2. call[u].pc \notin Writing \union {"count", "copyout"}
      BY <3>1 DEF Critical, Writing
    <3> QED BY <1>1, <2>1, <3>2 DEF Good, ReadOK, WriteOK, Writing
  <2> QED BY <2>2, <2>3
<1>5. \A u \in Threads : Good(call[u], buffer_, buffer_len_, content)'
  BY <1>1, <1>4
<1>6. SettledInv'
  <2> SUFFICES ASSUME \A u \in Threads : call'[u].pc \notin Writing PROVE Settled'
    BY DEF SettledInv
  <2>1. c.pc \notin Writing
    BY <1>1
  <2>2. CASE UNCHANGED <<buffer_, buffer_len_, content, torn>> /\ call[t].pc \notin Writing
    BY <1>1, <2>2 DEF IInv, SettledInv, Settled
  <2> QED BY <2>1, <2>2
<1> QED BY <1>2, <1>3, <1>5, <1>6 DEF IInv

\* A step that leaves the buffer and the positions alone, taken by a thread
\* that is not writing.
Unwritten(t) ==
  /\ UNCHANGED <<buffer_, buffer_len_, content, torn, f_pos>>
  /\ call[t].pc \notin Writing
  /\ buffer_ \in Buffers /\ buffer_len_ \in 0 .. BUFFER_SIZE - 1 /\ f_pos \in Positions
  /\ torn \in BOOLEAN

\* While a thread holds the lock at a step that does not write, the buffer is
\* settled.
LEMMA NobodyWrites ==
  ASSUME IInv, NEW t \in Threads, mutex_ = t, call[t].pc \notin Writing PROVE Settled
<1>1. ASSUME NEW u \in Threads, call[u].pc \in Writing PROVE FALSE
  <2>1. call[u].pc \in Critical
    BY <1>1 DEF Writing, Critical
  <2> QED BY <1>1, <2>1 DEF IInv, LockHeld
<1> QED BY <1>1 DEF IInv, SettledInv

\* No call: the record every thread starts with.
LEMMA IdleTyped == Idle \in CallRecord /\ Idle.pc = "idle" /\ CallOK(Idle)
<1>1. "idle" \in Stages
  BY DEF Stages
<1>2. <<>> \in Seq(Bytes)
  OBVIOUS
<1> QED BY <1>1, <1>2, ConstantsAssumption DEF Idle, CallRecord, CallOK

\* A call that starts, at an offset within the buffer if it uses a file.
LEMMA Started ==
  ASSUME NEW c, c.pc = "lock", c.op \in {"read", "write"}, c.count = 0, c.i = 0, c.out = <<>>,
         c.op = "write" => c.msg \in Msgs, c.file \in Files => c.off <= BUFFER_SIZE - 1
  PROVE  Good(c, buffer_, buffer_len_, content)
BY DEF Good, CallOK, ReadOK, WriteOK, Writing

\* The handler of t returns: nothing is said of a call that is done but for
\* its offset.
LEMMA Finished ==
  ASSUME IInv, NEW t \in Threads, NEW c, NEW buf, NEW len, NEW con,
         c.pc \in {"unlock", "return"}, c.op = call[t].op, c.file = call[t].file,
         c.msg = call[t].msg, c.count = call[t].count, c.i = call[t].i, c.out = call[t].out,
         call[t].file \in Files => c.off <= BUFFER_SIZE - 1
  PROVE  Good(c, buf, len, con)
BY CallFacts DEF Good, CallOK, ReadOK, WriteOK, Writing

\* The VFS calls read with the position of the file.
LEMMA VfsReadInv ==
  ASSUME IInv, NEW t \in Threads, NEW f \in Files, NEW n \in Sizes, VfsRead(t, f, n)
  PROVE  IInv'
<1> USE ConstantsAssumption
<1> DEFINE c == [Idle EXCEPT !.op = "read", !.pc = "lock", !.file = f, !.size = n, !.off = f_pos[f]]
<1>1. f_pos[f] \in 0 .. BUFFER_SIZE - 1 /\ f_pos[f] \in Nat /\ n \in Nat
  BY DEF IInv, Typed, Positions
<1>2. call[t].pc = "idle" /\ call' = [call EXCEPT ![t] = c]
  BY IdleTyped DEF VfsRead
<1>3. c \in CallRecord
  BY <1>1, IdleTyped, StageTypes DEF CallRecord
<1>4. /\ c.op = "read" /\ c.pc = "lock" /\ c.file = f /\ c.size = n
      /\ c.msg = NoMsg /\ c.off = f_pos[f] /\ c.count = 0 /\ c.i = 0
      /\ c.out = <<>>
  BY DEF Idle
<1> HIDE DEF c
<1>5. Good(c, buffer_, buffer_len_, content)
  BY <1>1, <1>4, Started
<1>6. Unwritten(t) /\ UNCHANGED mutex_
  BY <1>2 DEF VfsRead, Unwritten, IInv, Typed, Writing
<1> QED BY <1>2, <1>3, <1>4, <1>5, <1>6, CallFacts, CallStep DEF Unwritten, Critical

\* pread passes any offset, and no file.
LEMMA VfsPreadInv ==
  ASSUME IInv, NEW t \in Threads, NEW n \in Sizes, NEW o \in Offsets, VfsPread(t, n, o)
  PROVE  IInv'
<1> USE ConstantsAssumption
<1> DEFINE c == [Idle EXCEPT !.op = "read", !.pc = "lock", !.size = n, !.off = o]
<1>1. o \in Nat /\ n \in Nat
  BY DEF IInv, Typed, Positions
<1>2. call[t].pc = "idle" /\ call' = [call EXCEPT ![t] = c]
  BY IdleTyped DEF VfsPread
<1>3. c \in CallRecord
  BY <1>1, IdleTyped, StageTypes DEF CallRecord
<1>4. /\ c.op = "read" /\ c.pc = "lock" /\ c.file = NoFile /\ c.size = n
      /\ c.msg = NoMsg /\ c.off = o /\ c.count = 0 /\ c.i = 0
      /\ c.out = <<>>
  BY DEF Idle
<1> HIDE DEF c
<1>5. Good(c, buffer_, buffer_len_, content)
  BY <1>1, <1>4, Started
<1>6. Unwritten(t) /\ UNCHANGED mutex_
  BY <1>2 DEF VfsPread, Unwritten, IInv, Typed, Writing
<1> QED BY <1>2, <1>3, <1>4, <1>5, <1>6, CallFacts, CallStep DEF Unwritten, Critical

\* The VFS calls write with the bytes of the user.
LEMMA VfsWriteInv ==
  ASSUME IInv, NEW t \in Threads, NEW f \in Files, NEW n \in Sizes, NEW m \in Msgs, VfsWrite(t, f, n, m)
  PROVE  IInv'
<1> USE ConstantsAssumption
<1> DEFINE c == [Idle EXCEPT !.op = "write", !.pc = "lock", !.file = f, !.size = n, !.msg = m, !.off = f_pos[f]]
<1>1. f_pos[f] \in 0 .. BUFFER_SIZE - 1 /\ f_pos[f] \in Nat /\ n \in Nat
  BY DEF IInv, Typed, Positions
<1>2. call[t].pc = "idle" /\ call' = [call EXCEPT ![t] = c]
  BY IdleTyped DEF VfsWrite
<1>3. c \in CallRecord
  BY <1>1, IdleTyped, StageTypes DEF CallRecord
<1>4. /\ c.op = "write" /\ c.pc = "lock" /\ c.file = f /\ c.size = n
      /\ c.msg = m /\ c.off = f_pos[f] /\ c.count = 0 /\ c.i = 0
      /\ c.out = <<>>
  BY DEF Idle
<1> HIDE DEF c
<1>5. Good(c, buffer_, buffer_len_, content)
  BY <1>1, <1>4, Started
<1>6. Unwritten(t) /\ UNCHANGED mutex_
  BY <1>2 DEF VfsWrite, Unwritten, IInv, Typed, Writing
<1> QED BY <1>2, <1>3, <1>4, <1>5, <1>6, CallFacts, CallStep DEF Unwritten, Critical

\* The VFS stores the position, which the handler left within the buffer.
LEMMA VfsReturnInv == ASSUME IInv, NEW t \in Threads, VfsReturn(t) PROVE IInv'
<1>1. Good(Idle, buffer_, buffer_len_, content)
  BY IdleTyped DEF Good, ReadOK, WriteOK, Writing
<1>2. f_pos' \in Positions
  <2>1. call[t].file \in Files => call[t].off \in 0 .. BUFFER_SIZE - 1
    BY CallFacts, ConstantsAssumption DEF CallOK
  <2> QED BY <2>1 DEF VfsReturn, IInv, Typed, Positions
<1> QED BY <1>1, <1>2, IdleTyped, CallFacts, CallStep DEF VfsReturn, IInv, Typed, Critical, Writing

\* The constructor of ScopedLock takes the free lock.
LEMMA LockInv == ASSUME IInv, NEW t \in Threads, Lock(t) PROVE IInv'
<1> USE ConstantsAssumption
<1> DEFINE p == IF call[t].op = "read" THEN "check" ELSE "size"
<1>0. p \in {"check", "size"}
  OBVIOUS
<1> HIDE DEF p
<1> DEFINE c == [call[t] EXCEPT !.pc = p]
<1>1. call[t].pc = "lock" /\ mutex_ = NoThread /\ mutex_' = t
  BY CallFacts DEF Lock, Critical
<1>2. call' = [call EXCEPT ![t] = c]
  BY CallFacts DEF Lock, ReturnFrom, CallRecord, p
<1>3. c \in CallRecord
  BY <1>0, CallFacts, StageTypes DEF CallRecord, Critical
<1>4. /\ c.op = call[t].op /\ c.pc = p /\ c.file = call[t].file /\ c.size = call[t].size
      /\ c.msg = call[t].msg /\ c.off = call[t].off /\ c.count = call[t].count /\ c.i = call[t].i
      /\ c.out = call[t].out /\ c.ret = call[t].ret
  BY CallFacts DEF CallRecord
<1> HIDE DEF c
<1>5. Good(c, buffer_, buffer_len_, content)
  <2>1. call[t].op \in {"read", "write"}
    BY <1>1, CallFacts DEF CallOK, CallRecord
  <2> QED BY <1>1, <1>4, <2>1, CallFacts DEF Good, CallOK, ReadOK, WriteOK, Writing, p
<1>6. Unwritten(t)
  BY <1>1 DEF Lock, Unwritten, IInv, Typed, Writing
<1> QED BY <1>0, <1>1, <1>2, <1>3, <1>4, <1>5, <1>6, CallStep DEF Unwritten, Critical

\* The destructor of ScopedLock releases it.
LEMMA UnlockInv == ASSUME IInv, NEW t \in Threads, Unlock(t) PROVE IInv'
<1> USE ConstantsAssumption
<1> DEFINE c == [call[t] EXCEPT !.pc = "return"]
<1>1. call[t].pc = "unlock" /\ mutex_ = t /\ mutex_' = NoThread
  BY CallFacts DEF Unlock, Critical
<1>2. call' = [call EXCEPT ![t] = c]
  BY CallFacts DEF Unlock, ReturnFrom, CallRecord
<1>3. c \in CallRecord
  BY CallFacts, StageTypes DEF CallRecord, Critical
<1>4. /\ c.op = call[t].op /\ c.pc = "return" /\ c.file = call[t].file /\ c.size = call[t].size
      /\ c.msg = call[t].msg /\ c.off = call[t].off /\ c.count = call[t].count /\ c.i = call[t].i
      /\ c.out = call[t].out /\ c.ret = call[t].ret
  BY CallFacts DEF CallRecord
<1> HIDE DEF c
<1>5. Good(c, buffer_, buffer_len_, content)
  BY <1>4, CallFacts, Finished DEF CallOK
<1>6. Unwritten(t)
  BY <1>1 DEF Unlock, Unwritten, IInv, Typed, Writing
<1> QED BY <1>1, <1>2, <1>3, <1>4, <1>5, <1>6, CallStep DEF Unwritten, Critical

\* The check at the start of read.
LEMMA ReadCheckInv == ASSUME IInv, NEW t \in Threads, ReadCheck(t) PROVE IInv'
<1> USE ConstantsAssumption
<1>1. call[t].pc = "check" /\ mutex_ = t /\ mutex_' = t
  BY CallFacts DEF ReadCheck, Critical
<1>2. Unwritten(t)
  BY <1>1 DEF ReadCheck, Unwritten, IInv, Typed, Writing
<1>3. CASE call[t].off >= buffer_len_
  <2> DEFINE c == [call[t] EXCEPT !.pc = "unlock", !.ret = 0]
  <2>0. 0 \in {-EFAULT} \union 0 .. BUFFER_SIZE - 1
    OBVIOUS
  <2>1. c \in CallRecord
    BY <2>0, CallFacts, StageTypes DEF CallRecord, Critical
  <2>4. /\ c.op = call[t].op /\ c.pc = "unlock" /\ c.file = call[t].file /\ c.size = call[t].size
        /\ c.msg = call[t].msg /\ c.off = call[t].off /\ c.count = call[t].count /\ c.i = call[t].i
        /\ c.out = call[t].out /\ c.ret = 0
    BY CallFacts DEF CallRecord
  <2>2. call' = [call EXCEPT ![t] = c]
    BY <1>3, CallFacts DEF ReadCheck, ReturnFrom, CallRecord
  <2> HIDE DEF c
  <2>3. Good(c, buffer_, buffer_len_, content)
    BY <2>4, CallFacts, Finished DEF CallOK
  <2> QED BY <1>1, <1>2, <2>1, <2>2, <2>3, <2>4, CallStep DEF Unwritten, Critical
<1>4. CASE call[t].off < buffer_len_
  <2> DEFINE c == [call[t] EXCEPT !.pc = "count"]
  <2>1. c \in CallRecord
    BY CallFacts, StageTypes DEF CallRecord, Critical
  <2>4. /\ c.op = call[t].op /\ c.pc = "count" /\ c.file = call[t].file /\ c.size = call[t].size
        /\ c.msg = call[t].msg /\ c.off = call[t].off /\ c.count = call[t].count /\ c.i = call[t].i
        /\ c.out = call[t].out /\ c.ret = call[t].ret
    BY CallFacts DEF CallRecord
  <2>2. call' = [call EXCEPT ![t] = c]
    BY <1>4, CallFacts DEF ReadCheck
  <2> HIDE DEF c
  <2>3. Good(c, buffer_, buffer_len_, content)
    BY <1>1, <1>4, <2>4, CallFacts DEF Good, CallOK, ReadOK, WriteOK, Writing
  <2> QED BY <1>1, <1>2, <2>1, <2>2, <2>3, <2>4, CallStep DEF Unwritten, Critical
<1> QED BY <1>3, <1>4, CallFacts

\* read computes how much to copy: buffer_len_ - *offset is positive.
LEMMA ReadCountInv == ASSUME IInv, NEW t \in Threads, ReadCount(t) PROVE IInv'
<1> USE ConstantsAssumption
<1> DEFINE n == min(call[t].size, buffer_len_ - call[t].off)
<1>0. n \in 0 .. BUFFER_SIZE - 1
  <2>1. call[t].off < buffer_len_
    BY CallFacts DEF ReadCount, ReadOK
  <2>2. call[t].off \in Nat /\ call[t].size \in Nat /\ buffer_len_ \in 0 .. BUFFER_SIZE - 1
    BY CallFacts
  <2> QED BY <2>1, <2>2 DEF min
<1> HIDE DEF n
<1> DEFINE c == [call[t] EXCEPT !.pc = "copyout", !.count = n]
<1>1. call[t].pc = "count" /\ mutex_ = t /\ mutex_' = t
  BY CallFacts DEF ReadCount, Critical
<1>2. call' = [call EXCEPT ![t] = c]
  BY CallFacts DEF ReadCount, ReturnFrom, CallRecord, n
<1>3. c \in CallRecord
  BY <1>0, CallFacts, StageTypes DEF CallRecord, Critical
<1>4. /\ c.op = call[t].op /\ c.pc = "copyout" /\ c.file = call[t].file /\ c.size = call[t].size
      /\ c.msg = call[t].msg /\ c.off = call[t].off /\ c.count = n /\ c.i = call[t].i
      /\ c.out = call[t].out /\ c.ret = call[t].ret
  BY CallFacts DEF CallRecord
<1> HIDE DEF c
<1>5. Good(c, buffer_, buffer_len_, content)
  <2>1. call[t].i = 0 /\ call[t].out = <<>> /\ call[t].off < buffer_len_
    BY <1>1, CallFacts DEF CallOK, ReadOK
  <2>2. CallOK(c)
    BY <1>0, <1>1, <1>4, <2>1, CallFacts DEF CallOK
  <2>3. c.out = [j \in 1 .. c.i |-> buffer_[c.off + j - 1]]
    BY <1>4, <2>1
  <2> QED BY <1>4, <2>1, <2>2, <2>3 DEF Good, ReadOK, WriteOK, Writing, n
<1>6. Unwritten(t)
  BY <1>1 DEF ReadCount, Unwritten, IInv, Typed, Writing
<1> QED BY <1>1, <1>2, <1>3, <1>4, <1>5, <1>6, CallStep DEF Unwritten, Critical

\* A step of copy_to_user: a byte arrives, or the access faults.
LEMMA CopyToUserInv == ASSUME IInv, NEW t \in Threads, CopyToUser(t) PROVE IInv'
<1> USE ConstantsAssumption
<1>1. /\ call[t].pc = "copyout" /\ mutex_ = t /\ mutex_' = t /\ call[t].i < call[t].count
      /\ call[t].off \in Nat /\ call[t].i \in Nat /\ call[t].count \in Nat /\ call[t].size \in Nat
      /\ buffer_len_ \in 0 .. BUFFER_SIZE - 1
  BY CallFacts DEF CopyToUser, Critical
<1>2. Unwritten(t)
  BY <1>1 DEF CopyToUser, Unwritten, IInv, Typed, Writing
<1>3. ASSUME call' = ReturnFrom(t, -EFAULT) PROVE IInv'
  <2> DEFINE c == [call[t] EXCEPT !.pc = "unlock", !.ret = -EFAULT]
  <2>1. c \in CallRecord
    BY CallFacts, StageTypes DEF CallRecord, Critical
  <2>4. /\ c.op = call[t].op /\ c.pc = "unlock" /\ c.file = call[t].file /\ c.size = call[t].size
        /\ c.msg = call[t].msg /\ c.off = call[t].off /\ c.count = call[t].count /\ c.i = call[t].i
        /\ c.out = call[t].out /\ c.ret = -EFAULT
    BY CallFacts DEF CallRecord
  <2>2. call' = [call EXCEPT ![t] = c]
    BY <1>3, CallFacts DEF ReturnFrom, CallRecord
  <2> HIDE DEF c
  <2>3. Good(c, buffer_, buffer_len_, content)
    BY <2>4, CallFacts, Finished DEF CallOK
  <2> QED BY <1>1, <1>2, <2>1, <2>2, <2>3, <2>4, CallStep DEF Unwritten, Critical
<1>4. ASSUME call' = [call EXCEPT ![t].i = @ + 1,
                                  ![t].out = Append(@, buffer_[call[t].off + call[t].i])]
      PROVE IInv'
  <2> DEFINE b == buffer_[call[t].off + call[t].i]
             s == Append(call[t].out, b)
             c == [call[t] EXCEPT !.i = call[t].i + 1, !.out = s]
  <2>0. /\ call[t].count <= call[t].size /\ call[t].count <= buffer_len_ - call[t].off
        /\ call[t].off < buffer_len_
        /\ call[t].out = [j \in 1 .. call[t].i |-> buffer_[call[t].off + j - 1]]
    <3>1. /\ call[t].count = min(call[t].size, buffer_len_ - call[t].off) /\ call[t].off < buffer_len_
          /\ call[t].out = [j \in 1 .. call[t].i |-> buffer_[call[t].off + j - 1]]
      BY <1>1, CallFacts DEF ReadOK
    <3>2. call[t].count <= call[t].size /\ call[t].count <= buffer_len_ - call[t].off
      BY <1>1, <3>1 DEF min
    <3> QED BY <3>1, <3>2
  <2>a. b \in Bytes
    <3>0. call[t].count <= buffer_len_ - call[t].off
      BY <2>0
    <3>1. call[t].off + call[t].i \in 0 .. BUFFER_SIZE - 1
      BY <1>1, <3>0
    <3> QED BY <3>1, CallFacts DEF Buffers
  <2>b. s \in Seq(Bytes) /\ s = [j \in 1 .. call[t].i + 1 |-> buffer_[call[t].off + j - 1]]
    <3>1. s \in Seq(Bytes)
      BY <2>a, CallFacts
    <3>2. Len(call[t].out) = call[t].i
      BY <2>0, <1>1
    <3>3. Len(s) = call[t].i + 1 /\ \A j \in 1 .. call[t].i + 1 : s[j] = buffer_[call[t].off + j - 1]
      <4>1. Len(s) = call[t].i + 1 /\ s[call[t].i + 1] = b
        BY <3>2, <1>1, CallFacts
      <4>2. \A j \in 1 .. call[t].i : s[j] = call[t].out[j]
        BY <3>2, <1>1, CallFacts
      <4>3. \A j \in 1 .. call[t].i : call[t].out[j] = buffer_[call[t].off + j - 1]
        BY <2>0
      <4> HIDE DEF s
      <4>4. ASSUME NEW j \in 1 .. call[t].i + 1, j # call[t].i + 1 PROVE j \in 1 .. call[t].i
        BY <4>4, <1>1
      <4>5. call[t].off + (call[t].i + 1) - 1 = call[t].off + call[t].i
        BY <1>1
      <4> QED BY <4>1, <4>2, <4>3, <4>4, <4>5
    <3> HIDE DEF s
    <3>4. s = [j \in 1 .. Len(s) |-> s[j]]
      BY <3>1
    <3> QED BY <3>1, <3>3, <3>4
  <2>1. c \in CallRecord
    <3> HIDE DEF s
    <3>1. call[t].i + 1 \in Nat
      BY <1>1
    <3> QED BY <3>1, <2>b, CallFacts DEF CallRecord
  <2>4. /\ c.op = call[t].op /\ c.pc = call[t].pc /\ c.file = call[t].file /\ c.size = call[t].size
        /\ c.msg = call[t].msg /\ c.off = call[t].off /\ c.count = call[t].count /\ c.i = call[t].i + 1
        /\ c.out = s /\ c.ret = call[t].ret
    BY CallFacts DEF CallRecord
  <2>2. call' = [call EXCEPT ![t] = c]
    BY <1>4, CallFacts DEF CallRecord
  <2> HIDE DEF c, s
  <2>3. CallOK(c)
    BY <1>1, <2>4, CallFacts DEF CallOK
  <2>5. ReadOK(c, buffer_, buffer_len_)
    BY <1>1, <2>0, <2>b, <2>4, CallFacts DEF ReadOK
  <2>6. Good(c, buffer_, buffer_len_, content)
    BY <1>1, <2>3, <2>4, <2>5 DEF Good, WriteOK, Writing
  <2> QED BY <1>1, <1>2, <2>1, <2>2, <2>4, <2>6, CallStep DEF Unwritten, Critical
<1> QED BY <1>3, <1>4 DEF CopyToUser

\* read returns with its offset behind the slice, inside of the buffer.
LEMMA ReadDoneInv == ASSUME IInv, NEW t \in Threads, ReadDone(t) PROVE IInv'
<1> USE ConstantsAssumption
<1> DEFINE c == [call[t] EXCEPT !.pc = "unlock", !.ret = call[t].count, !.off = call[t].off + call[t].count]
<1>1. call[t].pc = "copyout" /\ mutex_ = t /\ mutex_' = t
  BY CallFacts DEF ReadDone, Critical
<1>2. call' = [call EXCEPT ![t] = c]
  BY CallFacts DEF ReadDone, ReturnFrom, CallRecord
<1>3. c \in CallRecord
  <2>1. call[t].off + call[t].count \in Nat
    BY CallFacts
  <2> QED BY <2>1, CallFacts, StageTypes DEF CallRecord, Critical
<1>4. /\ c.op = call[t].op /\ c.pc = "unlock" /\ c.file = call[t].file /\ c.size = call[t].size
      /\ c.msg = call[t].msg /\ c.off = call[t].off + call[t].count /\ c.count = call[t].count /\ c.i = call[t].i
      /\ c.out = call[t].out /\ c.ret = call[t].count
  BY CallFacts DEF CallRecord
<1> HIDE DEF c
<1>5. Good(c, buffer_, buffer_len_, content)
  <2>0. call[t].off \in Nat /\ call[t].size \in Nat /\ buffer_len_ \in 0 .. BUFFER_SIZE - 1
    BY CallFacts
  <2>1. /\ call[t].off < buffer_len_
        /\ call[t].count = min(call[t].size, buffer_len_ - call[t].off)
    BY <1>1, CallFacts DEF ReadOK
  <2>2. c.off <= BUFFER_SIZE - 1
    BY <1>4, <2>0, <2>1 DEF min
  <2> QED BY <1>4, <2>2, Finished
<1>6. Unwritten(t)
  BY <1>1 DEF ReadDone, Unwritten, IInv, Typed, Writing
<1> QED BY <1>1, <1>2, <1>3, <1>4, <1>5, <1>6, CallStep DEF Unwritten, Critical

\* write cuts the request to what fits in front of the terminator.
LEMMA WriteCountInv == ASSUME IInv, NEW t \in Threads, WriteCount(t) PROVE IInv'
<1> USE ConstantsAssumption
<1> DEFINE n == min(call[t].size, MaxMessage)
<1>0. n \in 0 .. BUFFER_SIZE - 1
  <2>2. call[t].size \in Nat
    BY CallFacts
  <2> QED BY <2>2 DEF min, MaxMessage
<1> HIDE DEF n
<1> DEFINE c == [call[t] EXCEPT !.pc = "copyin", !.count = n]
<1>1. call[t].pc = "size" /\ mutex_ = t /\ mutex_' = t
  BY CallFacts DEF WriteCount, Critical
<1>2. call' = [call EXCEPT ![t] = c]
  BY CallFacts DEF WriteCount, ReturnFrom, CallRecord, n
<1>3. c \in CallRecord
  BY <1>0, CallFacts, StageTypes DEF CallRecord, Critical
<1>4. /\ c.op = call[t].op /\ c.pc = "copyin" /\ c.file = call[t].file /\ c.size = call[t].size
      /\ c.msg = call[t].msg /\ c.off = call[t].off /\ c.count = n /\ c.i = call[t].i
      /\ c.out = call[t].out /\ c.ret = call[t].ret
  BY CallFacts DEF CallRecord
<1> HIDE DEF c
<1>5. Good(c, buffer_, buffer_len_, content)
  <2>1. call[t].i = 0
    BY <1>1, CallFacts DEF CallOK
  <2>2. CallOK(c)
    BY <1>0, <1>1, <1>4, <2>1, CallFacts DEF CallOK
  <2>3. content \in [1 .. buffer_len_ -> Bytes] /\ \A j \in 1 .. buffer_len_ : content[j] = buffer_[j - 1]
    <3>1. content = Message(buffer_, buffer_len_)
      BY <1>1, NobodyWrites DEF Writing, Settled
    <3> QED BY <3>1, CallFacts DEF Message, Buffers
  <2> QED BY <1>4, <2>1, <2>2, <2>3 DEF Good, ReadOK, WriteOK, Writing, Arrived, n
<1>6. Unwritten(t)
  BY <1>1 DEF WriteCount, Unwritten, IInv, Typed, Writing
<1> QED BY <1>1, <1>2, <1>3, <1>4, <1>5, <1>6, CallStep DEF Unwritten, Critical, Writing

\* A step of copy_from_user: a byte is stored, or the access faults and the
\* rest of the destination is zeroed.
LEMMA CopyFromUserInv == ASSUME IInv, NEW t \in Threads, CopyFromUser(t) PROVE IInv'
<1> USE ConstantsAssumption
<1>1. /\ call[t].pc = "copyin" /\ mutex_ = t /\ mutex_' = t /\ call[t].i < call[t].count
      /\ call[t].i \in Nat /\ call[t].count \in 0 .. BUFFER_SIZE - 1 /\ call[t].size \in Nat
      /\ buffer_len_ \in 0 .. BUFFER_SIZE - 1 /\ buffer_len_' = buffer_len_ /\ buffer_ \in Buffers
      /\ f_pos' \in Positions
  BY CallFacts DEF CopyFromUser, Critical, IInv, Typed
<1>2. ASSUME buffer_' = [j \in DOMAIN buffer_ |->
                           IF j \in call[t].i .. call[t].count - 1 THEN Nul ELSE buffer_[j]],
             call' = ReturnFrom(t, -EFAULT), content' = Message(buffer_', buffer_len_), torn' = TRUE
      PROVE IInv'
  <2> DEFINE c == [call[t] EXCEPT !.pc = "unlock", !.ret = -EFAULT]
  <2>1. c \in CallRecord
    BY CallFacts, StageTypes DEF CallRecord, Critical
  <2>4. /\ c.op = call[t].op /\ c.pc = "unlock" /\ c.file = call[t].file /\ c.size = call[t].size
        /\ c.msg = call[t].msg /\ c.off = call[t].off /\ c.count = call[t].count /\ c.i = call[t].i
        /\ c.out = call[t].out /\ c.ret = -EFAULT
    BY CallFacts DEF CallRecord
  <2>2. call' = [call EXCEPT ![t] = c]
    BY <1>2, CallFacts DEF ReturnFrom, CallRecord
  <2> HIDE DEF c
  <2>3. Good(c, buffer_', buffer_len_', content')
    BY <2>4, CallFacts, Finished DEF CallOK
  <2>5. buffer_' \in Buffers
    BY <1>1, <1>2 DEF Buffers, Bytes
  <2>6. Settled'
    BY <1>1, <1>2 DEF Settled
  <2> QED BY <1>1, <1>2, <2>1, <2>2, <2>3, <2>4, <2>5, <2>6, CallStep DEF Critical
<1>3. ASSUME buffer_' = [buffer_ EXCEPT ![call[t].i] = UserByte(call[t].msg, call[t].i)],
             call' = [call EXCEPT ![t].i = @ + 1], UNCHANGED <<content, torn>>
      PROVE IInv'
  <2> DEFINE b == UserByte(call[t].msg, call[t].i)
             c == [call[t] EXCEPT !.i = call[t].i + 1]
  <2>0. call[t].msg \in Msgs /\ call[t].i \in 0 .. BUFFER_SIZE - 1
    BY <1>1, CallFacts DEF CallOK
  <2>a. b \in Bytes
    BY <2>0 DEF UserByte, Bytes
  <2>1. c \in CallRecord
    <3>1. call[t].i + 1 \in Nat
      BY <1>1
    <3> QED BY <3>1, CallFacts DEF CallRecord
  <2>4. /\ c.op = call[t].op /\ c.pc = call[t].pc /\ c.file = call[t].file /\ c.size = call[t].size
        /\ c.msg = call[t].msg /\ c.off = call[t].off /\ c.count = call[t].count /\ c.i = call[t].i + 1
        /\ c.out = call[t].out /\ c.ret = call[t].ret
    BY CallFacts DEF CallRecord
  <2>2. call' = [call EXCEPT ![t] = c]
    BY <1>3, CallFacts DEF CallRecord
  <2>b. /\ buffer_' \in Buffers /\ buffer_'[call[t].i] = b
        /\ \A j \in 0 .. BUFFER_SIZE - 1 : j # call[t].i => buffer_'[j] = buffer_[j]
    <3> HIDE DEF b
    <3> QED BY <1>1, <1>3, <2>0, <2>a DEF Buffers, b
  <2> HIDE DEF c
  <2>3. CallOK(c)
    BY <1>1, <2>4, CallFacts DEF CallOK
  <2>5. WriteOK(c, buffer_', buffer_len_', content')
    <3>1. /\ Arrived(call[t], buffer_, call[t].i) /\ content \in [1 .. buffer_len_ -> Bytes]
          /\ call[t].count = min(call[t].size, MaxMessage)
          /\ \A j \in 1 .. buffer_len_ : j > call[t].i => content[j] = buffer_[j - 1]
      BY <1>1, CallFacts DEF WriteOK, Writing
    <3>2. Arrived(c, buffer_', c.i)
      <4> SUFFICES ASSUME NEW j \in 0 .. call[t].i PROVE buffer_'[j] = UserByte(call[t].msg, j)
        BY <1>1, <2>4 DEF Arrived
      <4>1. CASE j = call[t].i
        BY <4>1, <2>b
      <4>2. CASE j # call[t].i
        BY <4>2, <3>1, <2>b, <1>1 DEF Arrived
      <4> QED BY <4>1, <4>2
    <3>3. ASSUME NEW j \in 1 .. buffer_len_, j > call[t].i + 1 PROVE content[j] = buffer_'[j - 1]
      BY <3>1, <3>3, <2>b, <1>1
    <3> QED BY <1>1, <1>3, <2>4, <3>1, <3>2, <3>3 DEF WriteOK, Writing
  <2>6. Good(c, buffer_', buffer_len_', content')
    BY <1>1, <2>3, <2>4, <2>5 DEF Good, ReadOK
  <2>7. torn' \in BOOLEAN
    BY <1>3 DEF IInv, Typed
  <2> QED BY <1>1, <2>1, <2>2, <2>4, <2>6, <2>7, <2>b, CallStep DEF Critical, Writing
<1> QED BY <1>2, <1>3 DEF CopyFromUser

\* write sets buffer_len_ once all bytes are there.
LEMMA SetLengthInv == ASSUME IInv, NEW t \in Threads, SetLength(t) PROVE IInv'
<1> USE ConstantsAssumption
<1> DEFINE c == [call[t] EXCEPT !.pc = "terminate"]
<1>1. /\ call[t].pc = "copyin" /\ mutex_ = t /\ mutex_' = t /\ call[t].i = call[t].count
      /\ call[t].count \in 0 .. BUFFER_SIZE - 1 /\ buffer_len_' = call[t].count
      /\ buffer_' \in Buffers /\ UNCHANGED buffer_ /\ f_pos' \in Positions /\ torn' \in BOOLEAN
  BY CallFacts DEF SetLength, Critical, IInv, Typed
<1>2. call' = [call EXCEPT ![t] = c]
  BY CallFacts DEF SetLength
<1>3. c \in CallRecord
  BY CallFacts, StageTypes DEF CallRecord, Critical
<1>4. /\ c.op = call[t].op /\ c.pc = "terminate" /\ c.file = call[t].file /\ c.size = call[t].size
      /\ c.msg = call[t].msg /\ c.off = call[t].off /\ c.count = call[t].count /\ c.i = call[t].i
      /\ c.out = call[t].out /\ c.ret = call[t].ret
  BY CallFacts DEF CallRecord
<1> HIDE DEF c
<1>5. CallOK(c)
  BY <1>1, <1>4, CallFacts DEF CallOK
<1>6. WriteOK(c, buffer_', buffer_len_', content')
  BY <1>1, <1>4, CallFacts DEF WriteOK, Writing, Arrived
<1>7. Good(c, buffer_', buffer_len_', content')
  BY <1>4, <1>5, <1>6 DEF Good, ReadOK
<1> QED BY <1>1, <1>2, <1>3, <1>4, <1>7, CallStep DEF Critical, Writing

\* write appends the terminator: the message is settled again.
LEMMA TerminateInv == ASSUME IInv, NEW t \in Threads, Terminate(t) PROVE IInv'
<1> USE ConstantsAssumption
<1> DEFINE c == [call[t] EXCEPT !.pc = "unlock", !.ret = call[t].count, !.off = 0]
<1>1. /\ call[t].pc = "terminate" /\ mutex_ = t /\ mutex_' = t
      /\ call[t].count \in 0 .. BUFFER_SIZE - 1 /\ buffer_len_ = call[t].count
      /\ buffer_len_' = buffer_len_ /\ Arrived(call[t], buffer_, call[t].count)
      /\ f_pos' \in Positions /\ torn' = FALSE
      /\ buffer_ \in Buffers /\ buffer_' = [buffer_ EXCEPT ![buffer_len_] = Nul]
      /\ content' = [j \in 1 .. call[t].count |-> UserByte(call[t].msg, j - 1)]
  BY CallFacts DEF Terminate, Critical, WriteOK, IInv, Typed
<1>2. call' = [call EXCEPT ![t] = c]
  BY CallFacts DEF Terminate, ReturnFrom, CallRecord
<1>3. c \in CallRecord
  BY CallFacts, StageTypes DEF CallRecord, Critical
<1>4. /\ c.op = call[t].op /\ c.pc = "unlock" /\ c.file = call[t].file /\ c.size = call[t].size
      /\ c.msg = call[t].msg /\ c.off = 0 /\ c.count = call[t].count /\ c.i = call[t].i
      /\ c.out = call[t].out /\ c.ret = call[t].count
  BY CallFacts DEF CallRecord
<1> HIDE DEF c
<1>5. Good(c, buffer_', buffer_len_', content')
  BY <1>4, Finished
<1>6. buffer_' \in Buffers /\ buffer_'[buffer_len_] = Nul
  BY <1>1 DEF Buffers, Bytes
<1>7. Settled'
  <2>1. ASSUME NEW j \in 1 .. call[t].count PROVE buffer_'[j - 1] = UserByte(call[t].msg, j - 1)
    BY <1>1 DEF Arrived, Buffers
  <2>2. content' = Message(buffer_', buffer_len_')
    BY <1>1, <2>1 DEF Message
  <2> QED BY <1>1, <1>6, <2>2 DEF Settled
<1> QED BY <1>1, <1>2, <1>3, <1>4, <1>5, <1>6, <1>7, CallStep DEF Critical

------------------------------------------------------------------------------
\* The driver starts with an empty message and a free lock.
LEMMA InitInv == Init => IInv
<1> SUFFICES ASSUME Init PROVE IInv
  OBVIOUS
<1> USE ConstantsAssumption DEF Init
<1>1. Typed
  BY IdleTyped DEF Typed, Buffers, Bytes, Positions
<1>2. \A t \in Threads : call[t] = Idle /\ Idle.pc = "idle"
  BY IdleTyped
<1>3. LockHeld
  BY <1>2 DEF LockHeld, Critical
<1>4. SettledInv
  <2>1. content = Message(buffer_, buffer_len_)
    BY DEF Message
  <2> QED BY <2>1 DEF SettledInv, Settled
<1>5. \A t \in Threads : Good(call[t], buffer_, buffer_len_, content)
  BY <1>2, IdleTyped DEF Good, ReadOK, WriteOK, Writing
<1> QED BY <1>1, <1>3, <1>4, <1>5 DEF IInv

\* Every step of every thread keeps the invariant.
LEMMA NextInv == IInv /\ [Next]_vars => IInv'
<1> SUFFICES ASSUME IInv, [Next]_vars PROVE IInv'
  OBVIOUS
<1>1. CASE UNCHANGED vars
  BY <1>1 DEF vars, IInv, Typed, LockHeld, SettledInv, Settled
<1>2. ASSUME NEW t \in Threads, Begin(t) PROVE IInv'
  BY <1>2, VfsReadInv, VfsPreadInv, VfsWriteInv DEF Begin
<1>3. ASSUME NEW t \in Threads, Lock(t) PROVE IInv'
  BY <1>3, LockInv
<1>4. ASSUME NEW t \in Threads, Run(t) PROVE IInv'
  BY <1>4, ReadCheckInv, ReadCountInv, CopyToUserInv, ReadDoneInv, WriteCountInv,
     CopyFromUserInv, SetLengthInv, TerminateInv, UnlockInv, VfsReturnInv DEF Run
<1> QED BY <1>1, <1>2, <1>3, <1>4 DEF Next

\* The invariant bounds every access and settles the buffer for the next
\* holder of the lock.
LEMMA InvImplies == IInv => BufferInv
<1> SUFFICES ASSUME IInv PROVE BufferInv
  OBVIOUS
<1> USE ConstantsAssumption
<1>1. ASSUME NEW t \in Threads
      PROVE  /\ call[t].op \in {"none", "read", "write"} /\ call[t].pc \in Stages
             /\ call[t].i \in 0 .. call[t].count
    <2>1. call[t].i <= call[t].count
      BY CallFacts DEF CallOK
    <2> QED BY <2>1, CallFacts DEF CallRecord
<1>2. TypeOK
  BY <1>1, CallFacts DEF IInv, Typed, Buffers, Positions, TypeOK
<1>3. CopyInBounds
  <2> SUFFICES ASSUME NEW t \in Threads
               PROVE  /\ call[t].pc = "count" => call[t].off < buffer_len_
                      /\ call[t].pc = "copyout" => call[t].off + call[t].count <= buffer_len_
    BY DEF CopyInBounds
  <2>1. call[t].off \in Nat /\ call[t].size \in Nat /\ buffer_len_ \in 0 .. BUFFER_SIZE - 1
    BY CallFacts
  <2>2. /\ call[t].pc = "count" => call[t].off < buffer_len_
        /\ call[t].pc = "copyout" => call[t].count = min(call[t].size, buffer_len_ - call[t].off)
    BY CallFacts DEF ReadOK
  <2> QED BY <2>1, <2>2 DEF min
<1>4. InSync
  <2> SUFFICES ASSUME mutex_ = NoThread PROVE Settled
    BY DEF InSync, Settled
  <2>1. ASSUME NEW t \in Threads PROVE call[t].pc \notin Writing
    BY CallFacts DEF Critical, Writing
  <2> QED BY <2>1 DEF IInv, SettledInv
<1> QED BY <1>2, <1>3, <1>4 DEF BufferInv, BoundsInv

\* The handlers never leave the message or the buffer, and whenever the lock
\* is free the buffer holds what the last write left: for any number of
\* threads, files, sizes and faults.
THEOREM BufferSafe == Spec => []BufferInv
<1>1. Spec => [](IInv /\ BufferInv)
  BY InitInv, NextInv, InvImplies, PTL DEF Spec, Safety
<1> QED BY <1>1, PTL

------------------------------------------------------------------------------
(***************************************************************************)
(* The refinement.  A read takes effect in EchoBuffer when its copy ends   *)
(* or faults, or at once when it starts behind the message; a write when   *)
(* it stores the terminator or its copy faults.  Every other step of a     *)
(* handler changes nothing a caller sees.                                  *)
(***************************************************************************)

\* The request that EchoBuffer sees of a call.
RequestOf(c) ==
  CASE c.pc = "idle" -> [st |-> "none"]
    [] c.pc \in {"unlock", "return"} -> [st |-> "done", ret |-> c.ret, off |-> c.off, out |-> c.out]
    [] OTHER ->
         IF c.op = "read" THEN [st |-> "read", size |-> c.size, off |-> c.off]
         ELSE [st |-> "write", size |-> c.size, msg |-> c.msg, off |-> c.off]

requests == [t \in Threads |-> Request(t)]

\* A step of a thread changes the request of that thread alone.
LEMMA RequestStep ==
  ASSUME IInv, IInv', NEW t \in Threads, NEW c, call' = [call EXCEPT ![t] = c]
  PROVE  /\ requests' = [requests EXCEPT ![t] = RequestOf(c)]
         /\ requests[t] = RequestOf(call[t])
<1>1. ASSUME NEW u \in Threads PROVE Request(u) = RequestOf(call[u])
  BY DEF Request, RequestOf
<1>2. ASSUME NEW u \in Threads PROVE Request(u)' = RequestOf(call'[u])
  BY DEF Request, RequestOf
<1>3. call'[t] = c /\ \A u \in Threads \ {t} : call'[u] = call[u]
  BY DEF IInv, Typed
<1> HIDE DEF RequestOf
<1> QED BY <1>1, <1>2, <1>3 DEF requests

\* A step that changes neither the message nor the request of its thread.
LEMMA Stutters ==
  ASSUME IInv, IInv', NEW t \in Threads, NEW c, call' = [call EXCEPT ![t] = c], UNCHANGED content,
         RequestOf(c) = RequestOf(call[t])
  PROVE  UNCHANGED Echo!vars
BY RequestStep DEF Echo!vars, requests

\* The slice of the message that a read at its copy asks for.
LEMMA SliceOfRead ==
  ASSUME IInv, NEW t \in Threads, call[t].pc = "copyout"
  PROVE  LET s == Echo!Slice(call[t].size, call[t].off)
         IN  /\ s \in Seq(Bytes) /\ Len(s) = call[t].count
             /\ \A j \in 1 .. call[t].count : s[j] = buffer_[call[t].off + j - 1]
<1> USE ConstantsAssumption
<1>1. /\ call[t].off \in Nat /\ call[t].size \in Nat /\ buffer_len_ \in 0 .. BUFFER_SIZE - 1
      /\ buffer_ \in Buffers
  BY CallFacts
<1>2. call[t].off < buffer_len_ /\ call[t].count = min(call[t].size, buffer_len_ - call[t].off)
  BY CallFacts DEF ReadOK
<1>3. content = Message(buffer_, buffer_len_)
  BY CallFacts, NobodyWrites DEF Critical, Writing, Settled
<1>4. content \in Seq(Bytes) /\ Len(content) = buffer_len_
  BY <1>1, <1>3 DEF Message, Buffers
<1>5. \A j \in 1 .. buffer_len_ : content[j] = buffer_[j - 1]
  BY <1>1, <1>3 DEF Message
<1> DEFINE n == Echo!min(call[t].off + call[t].size, Len(content))
           s == SubSeq(content, call[t].off + 1, n)
<1>6. n = call[t].off + call[t].count /\ n <= buffer_len_ /\ n \in Nat /\ call[t].count \in Nat
  BY <1>1, <1>2, <1>4 DEF Echo!min, min
<1>7. Echo!Slice(call[t].size, call[t].off) = s
  BY DEF Echo!Slice
<1> HIDE DEF n
<1>8. \A j \in call[t].off + 1 .. n : content[j] \in Bytes
  BY <1>1, <1>4, <1>6
<1>9. /\ s \in Seq(Bytes) /\ Len(s) = call[t].count
      /\ \A j \in 1 .. call[t].count : s[j] = content[call[t].off + j]
  <2>1. call[t].off + 1 \in Int /\ n \in Int
    BY <1>1, <1>6
  <2>2. /\ s \in Seq(Bytes)
        /\ Len(s) = IF call[t].off + 1 <= n THEN n - (call[t].off + 1) + 1 ELSE 0
        /\ \A j \in 1 .. n - (call[t].off + 1) + 1 : s[j] = content[call[t].off + 1 + j - 1]
    BY <1>8, <2>1, SubSeqProperties
  <2> HIDE DEF s
  <2>3. n - (call[t].off + 1) + 1 = call[t].count
    BY <1>1, <1>6
  <2>4. ASSUME NEW j \in 1 .. call[t].count PROVE call[t].off + 1 + j - 1 = call[t].off + j
    BY <1>1, <1>6
  <2>5. call[t].off \in Nat
    BY <1>1
  <2>6. Len(s) = call[t].count
    BY <1>6, <2>2, <2>5
  <2>7. \A j \in 1 .. call[t].count : s[j] = content[call[t].off + 1 + j - 1]
    BY <2>2, <2>3
  <2> QED BY <2>2, <2>4, <2>6, <2>7
<1> HIDE DEF s
<1>10. ASSUME NEW j \in 1 .. call[t].count PROVE s[j] = buffer_[call[t].off + j - 1]
  <2>1. call[t].off + j \in 1 .. buffer_len_
    BY <1>1, <1>6
  <2>2. s[j] = content[call[t].off + j]
    BY <1>9
  <2>3. content[call[t].off + j] = buffer_[(call[t].off + j) - 1]
    BY <1>5, <2>1
  <2>4. call[t].off \in Int /\ j \in Int
    BY <1>1, <1>6
  <2> QED BY <2>2, <2>3, <2>4
<1> QED BY <1>7, <1>9, <1>10

\* A sequence with the length and the elements of another is the other.
LEMMA SameSeq ==
  ASSUME NEW S, NEW s \in Seq(S), NEW r \in Seq(S), Len(s) = Len(r),
         \A j \in 1 .. Len(s) : s[j] = r[j]
  PROVE  s = r
OBVIOUS

\* A call of the VFS is a call of EchoBuffer.
LEMMA BeginRefines ==
  ASSUME IInv, IInv', NEW t \in Threads, Begin(t) PROVE Echo!Next
<1> USE ConstantsAssumption
<1>1. ASSUME NEW f \in Files, NEW n \in Sizes, VfsRead(t, f, n) PROVE Echo!Next
  <2> DEFINE c == [Idle EXCEPT !.op = "read", !.pc = "lock", !.file = f, !.size = n, !.off = f_pos[f]]
  <2>1. call[t].pc = "idle" /\ call' = [call EXCEPT ![t] = c] /\ UNCHANGED content
    BY <1>1, IdleTyped DEF VfsRead
  <2>2. c.pc = "lock" /\ c.op = "read" /\ c.size = n /\ c.off = f_pos[f]
    BY DEF Idle
  <2> HIDE DEF c
  <2>3. RequestOf(c) = Echo!ReadCalled(n, f_pos[f]) /\ RequestOf(call[t]) = Echo!NoRequest
    BY <2>1, <2>2 DEF RequestOf, Echo!ReadCalled, Echo!NoRequest
  <2>4. f_pos[f] \in Offsets \union 0 .. BUFFER_SIZE - 1
    BY DEF IInv, Typed, Positions
  <2>5. Echo!CallRead(t, n, f_pos[f])
    <3>1. requests[t] = Echo!NoRequest /\ requests' = [requests EXCEPT ![t] = Echo!ReadCalled(n, f_pos[f])]
      BY <2>1, <2>3, RequestStep
    <3> QED BY <2>1, <3>1 DEF Echo!CallRead, requests
  <2> QED BY <2>4, <2>5 DEF Echo!Next
<1>2. ASSUME NEW n \in Sizes, NEW o \in Offsets, VfsPread(t, n, o) PROVE Echo!Next
  <2> DEFINE c == [Idle EXCEPT !.op = "read", !.pc = "lock", !.size = n, !.off = o]
  <2>1. call[t].pc = "idle" /\ call' = [call EXCEPT ![t] = c] /\ UNCHANGED content
    BY <1>2, IdleTyped DEF VfsPread
  <2>2. c.pc = "lock" /\ c.op = "read" /\ c.size = n /\ c.off = o
    BY DEF Idle
  <2> HIDE DEF c
  <2>3. RequestOf(c) = Echo!ReadCalled(n, o) /\ RequestOf(call[t]) = Echo!NoRequest
    BY <2>1, <2>2 DEF RequestOf, Echo!ReadCalled, Echo!NoRequest
  <2>4. Echo!CallRead(t, n, o)
    <3>1. requests[t] = Echo!NoRequest /\ requests' = [requests EXCEPT ![t] = Echo!ReadCalled(n, o)]
      BY <2>1, <2>3, RequestStep
    <3> QED BY <2>1, <3>1 DEF Echo!CallRead, requests
  <2> QED BY <2>4 DEF Echo!Next
<1>3. ASSUME NEW f \in Files, NEW n \in Sizes, NEW m \in Msgs, VfsWrite(t, f, n, m) PROVE Echo!Next
  <2> DEFINE c == [Idle EXCEPT !.op = "write", !.pc = "lock", !.file = f, !.size = n, !.msg = m,
                               !.off = f_pos[f]]
  <2>1. call[t].pc = "idle" /\ call' = [call EXCEPT ![t] = c] /\ UNCHANGED content
    BY <1>3, IdleTyped DEF VfsWrite
  <2>2. c.pc = "lock" /\ c.op = "write" /\ c.size = n /\ c.msg = m /\ c.off = f_pos[f]
    BY DEF Idle
  <2> HIDE DEF c
  <2>3. RequestOf(c) = Echo!WriteCalled(n, m, f_pos[f]) /\ RequestOf(call[t]) = Echo!NoRequest
    BY <2>1, <2>2 DEF RequestOf, Echo!WriteCalled, Echo!NoRequest
  <2>4. f_pos[f] \in Offsets \union 0 .. BUFFER_SIZE - 1
    BY DEF IInv, Typed, Positions
  <2>5. Echo!CallWrite(t, n, m, f_pos[f])
    <3>1. requests[t] = Echo!NoRequest /\ requests' = [requests EXCEPT ![t] = Echo!WriteCalled(n, m, f_pos[f])]
      BY <2>1, <2>3, RequestStep
    <3> QED BY <2>1, <3>1 DEF Echo!CallWrite, requests
  <2> QED BY <2>4, <2>5 DEF Echo!Next
<1> QED BY <1>1, <1>2, <1>3 DEF Begin

\* The steps that prepare a copy, and the lock, are invisible.
LEMMA QuietRefines ==
  ASSUME IInv, IInv', NEW t \in Threads,
         Lock(t) \/ Unlock(t) \/ ReadCount(t) \/ WriteCount(t) \/ SetLength(t)
  PROVE  UNCHANGED Echo!vars
<1> DEFINE c == call'[t]
<1>1. /\ call' = [call EXCEPT ![t] = c] /\ UNCHANGED content
      /\ c.op = call[t].op /\ c.size = call[t].size /\ c.msg = call[t].msg /\ c.off = call[t].off
      /\ c.ret = call[t].ret /\ c.out = call[t].out
      /\ \/ call[t].pc = "unlock" /\ c.pc = "return"
         \/ /\ call[t].pc \in {"lock", "count", "size", "copyin"}
            /\ c.pc \in {"check", "size", "copyout", "copyin", "terminate"}
  <2>1. call[t] \in CallRecord /\ call \in [Threads -> CallRecord]
    BY CallFacts DEF IInv, Typed
  <2>2. CASE Lock(t)
    BY <2>1, <2>2 DEF Lock, CallRecord
  <2>3. CASE Unlock(t)
    BY <2>1, <2>3 DEF Unlock, CallRecord
  <2>4. CASE ReadCount(t)
    BY <2>1, <2>4 DEF ReadCount, CallRecord
  <2>5. CASE WriteCount(t)
    BY <2>1, <2>5 DEF WriteCount, CallRecord
  <2>6. CASE SetLength(t)
    BY <2>1, <2>6 DEF SetLength, CallRecord
  <2> QED BY <2>2, <2>3, <2>4, <2>5, <2>6
<1> HIDE DEF c
<1>2. RequestOf(c) = RequestOf(call[t])
  BY <1>1 DEF RequestOf
<1> QED BY <1>1, <1>2, Stutters

\* The VFS returns to the caller.
LEMMA ReturnRefines == ASSUME IInv, IInv', NEW t \in Threads, VfsReturn(t) PROVE Echo!Next
<1>1. call' = [call EXCEPT ![t] = Idle] /\ UNCHANGED content /\ call[t].pc = "return"
  BY DEF VfsReturn
<1>2. RequestOf(Idle) = Echo!NoRequest /\ RequestOf(call[t]).st = "done"
  BY <1>1, IdleTyped DEF RequestOf, Echo!NoRequest
<1>3. Echo!Return(t)
  BY <1>1, <1>2, RequestStep DEF Echo!Return, requests
<1> QED BY <1>3 DEF Echo!Next

\* A read that starts behind the message returns nothing.
LEMMA ReadCheckRefines ==
  ASSUME IInv, IInv', NEW t \in Threads, ReadCheck(t) PROVE Echo!Next \/ UNCHANGED Echo!vars
<1> USE ConstantsAssumption
<1>1. /\ call[t].pc = "check" /\ UNCHANGED content /\ call[t].op = "read" /\ call[t].out = <<>>
      /\ call[t].off \in Nat /\ call[t].size \in Nat /\ buffer_len_ \in 0 .. BUFFER_SIZE - 1
      /\ buffer_ \in Buffers
  BY CallFacts DEF ReadCheck, CallOK
<1>2. CASE call[t].off >= buffer_len_
  <2> DEFINE c == [call[t] EXCEPT !.pc = "unlock", !.ret = 0]
  <2>1. call' = [call EXCEPT ![t] = c]
    BY <1>2, CallFacts DEF ReadCheck, ReturnFrom, CallRecord
  <2>2. c.pc = "unlock" /\ c.ret = 0 /\ c.off = call[t].off /\ c.out = <<>>
    BY <1>1, CallFacts DEF CallRecord
  <2> HIDE DEF c
  <2>3. Len(content) = buffer_len_
    <3>1. content = Message(buffer_, buffer_len_)
      BY <1>1, CallFacts, NobodyWrites DEF Critical, Writing, Settled
    <3> QED BY <1>1, <3>1 DEF Message
  <2>4. Echo!Slice(call[t].size, call[t].off) = <<>>
    <3> DEFINE n == Echo!min(call[t].off + call[t].size, Len(content))
    <3>0. call[t].off \in Nat /\ call[t].size \in Nat /\ Len(content) \in Nat /\ call[t].off >= Len(content)
      BY <1>1, <1>2, <2>3
    <3>1. n \in Int /\ n < call[t].off + 1 /\ call[t].off + 1 \in Int
      BY <3>0 DEF Echo!min
    <3> HIDE DEF n
    <3> QED BY <3>1, SubSeqEmpty DEF Echo!Slice, n
  <2>6. Request(t).st = "read" /\ Request(t).size = call[t].size /\ Request(t).off = call[t].off
    BY <1>1 DEF Request
  <2> DEFINE s == Echo!Slice(call[t].size, call[t].off)
  <2>7. requests' = [requests EXCEPT ![t] = Echo!Done(Len(s), call[t].off + Len(s), s)]
    <3>1. Len(s) = 0 /\ s = <<>>
      BY <2>4
    <3> HIDE DEF s
    <3>2. RequestOf(c) = Echo!Done(Len(s), call[t].off + Len(s), s)
      BY <1>1, <2>2, <3>1 DEF RequestOf, Echo!Done
    <3> QED BY <2>1, <3>2, RequestStep
  <2> HIDE DEF s
  <2>8. Echo!Read(t)
    BY <1>1, <2>6, <2>7 DEF Echo!Read, requests, s
  <2> QED BY <2>8 DEF Echo!Next, Echo!Serve
<1>3. CASE call[t].off < buffer_len_
  <2> DEFINE c == [call[t] EXCEPT !.pc = "count"]
  <2>1. call' = [call EXCEPT ![t] = c]
    BY <1>1, <1>3 DEF ReadCheck
  <2>2. c.pc = "count" /\ c.op = "read" /\ c.size = call[t].size /\ c.off = call[t].off
    BY <1>1, CallFacts DEF CallRecord
  <2> HIDE DEF c
  <2>3. RequestOf(c) = RequestOf(call[t])
    BY <1>1, <2>2 DEF RequestOf
  <2> QED BY <1>1, <2>1, <2>3, Stutters
<1> QED BY <1>1, <1>2, <1>3

\* The copy of a read is invisible until it faults.
LEMMA CopyToUserRefines ==
  ASSUME IInv, IInv', NEW t \in Threads, CopyToUser(t) PROVE Echo!Next \/ UNCHANGED Echo!vars
<1> USE ConstantsAssumption
<1>1. /\ call[t].pc = "copyout" /\ UNCHANGED content /\ call[t].op = "read"
      /\ call[t].i < call[t].count /\ call[t].i \in Nat /\ call[t].count \in Nat
  BY CallFacts DEF CopyToUser, CallOK
<1>2. RequestOf(call[t]) = [st |-> "read", size |-> call[t].size, off |-> call[t].off]
  BY <1>1 DEF RequestOf
<1>3. ASSUME call' = [call EXCEPT ![t].i = @ + 1,
                                  ![t].out = Append(@, buffer_[call[t].off + call[t].i])]
      PROVE  UNCHANGED Echo!vars
  <2> DEFINE b == buffer_[call[t].off + call[t].i]
             c == [call[t] EXCEPT !.i = call[t].i + 1, !.out = Append(call[t].out, b)]
  <2>1. call' = [call EXCEPT ![t] = c]
    BY <1>3, CallFacts DEF CallRecord
  <2>2. c.pc = "copyout" /\ c.op = "read" /\ c.size = call[t].size /\ c.off = call[t].off
    BY <1>1, CallFacts DEF CallRecord
  <2> HIDE DEF c
  <2>3. RequestOf(c) = RequestOf(call[t])
    BY <1>2, <2>2 DEF RequestOf
  <2> QED BY <1>1, <2>1, <2>3, Stutters
<1>4. ASSUME call' = ReturnFrom(t, -EFAULT) PROVE Echo!Next
  <2> DEFINE c == [call[t] EXCEPT !.pc = "unlock", !.ret = -EFAULT]
             s == Echo!Slice(call[t].size, call[t].off)
             k == call[t].i
  <2>1. call' = [call EXCEPT ![t] = c]
    BY <1>4, CallFacts DEF ReturnFrom, CallRecord
  <2>2. c.pc = "unlock" /\ c.ret = -EFAULT /\ c.off = call[t].off /\ c.out = call[t].out
    BY CallFacts DEF CallRecord
  <2> HIDE DEF c
  <2>3. /\ s \in Seq(Bytes) /\ Len(s) = call[t].count
        /\ \A j \in 1 .. call[t].count : s[j] = buffer_[call[t].off + j - 1]
    BY <1>1, SliceOfRead
  <2> HIDE DEF s
  <2>4. call[t].out \in Seq(Bytes) /\ call[t].out = [j \in 1 .. k |-> buffer_[call[t].off + j - 1]]
    BY <1>1, CallFacts DEF ReadOK
  <2>5. Len(call[t].out) = k
    BY <1>1, <2>4
  <2>6. SubSeq(s, 1, k) = call[t].out
    <3>1. \A j \in 1 .. k : s[j] \in Bytes
      BY <1>1, <2>3
    <3>2. /\ SubSeq(s, 1, k) \in Seq(Bytes) /\ Len(SubSeq(s, 1, k)) = k
          /\ \A j \in 1 .. k : SubSeq(s, 1, k)[j] = s[j]
      BY <1>1, <3>1, SubSeqProperties
    <3>3. \A j \in 1 .. k : SubSeq(s, 1, k)[j] = call[t].out[j]
      BY <1>1, <2>3, <2>4, <3>2
    <3> QED BY <2>4, <2>5, <3>2, <3>3, SameSeq
  <2>7. k \in 0 .. Len(s) - 1
    BY <1>1, <2>3
  <2>8. RequestOf(c) = Echo!Done(-EFAULT, call[t].off, SubSeq(s, 1, k))
    BY <2>2, <2>6 DEF RequestOf, Echo!Done
  <2>9. Request(t).st = "read" /\ Request(t).size = call[t].size /\ Request(t).off = call[t].off
    BY <1>1 DEF Request
  <2>10. requests' = [requests EXCEPT ![t] = Echo!Done(-EFAULT, call[t].off, SubSeq(s, 1, k))]
    BY <2>1, <2>8, RequestStep
  <2>11. Echo!FaultyRead(t)
    BY <1>1, <2>7, <2>9, <2>10 DEF Echo!FaultyRead, requests, s
  <2> QED BY <2>11 DEF Echo!Next, Echo!Serve
<1> QED BY <1>3, <1>4 DEF CopyToUser

\* A read whose copy is complete returns its slice of one message.
LEMMA ReadDoneRefines == ASSUME IInv, IInv', NEW t \in Threads, ReadDone(t) PROVE Echo!Next
<1> USE ConstantsAssumption
<1> DEFINE c == [call[t] EXCEPT !.pc = "unlock", !.ret = call[t].count, !.off = call[t].off + call[t].count]
           s == Echo!Slice(call[t].size, call[t].off)
<1>1. /\ call[t].pc = "copyout" /\ UNCHANGED content /\ call[t].op = "read"
      /\ call[t].i = call[t].count /\ call[t].i \in Nat
  BY CallFacts DEF ReadDone, CallOK
<1>2. call' = [call EXCEPT ![t] = c]
  BY CallFacts DEF ReadDone, ReturnFrom, CallRecord
<1>3. /\ c.pc = "unlock" /\ c.ret = call[t].count /\ c.off = call[t].off + call[t].count
      /\ c.out = call[t].out
  BY CallFacts DEF CallRecord
<1> HIDE DEF c
<1>4. /\ s \in Seq(Bytes) /\ Len(s) = call[t].count
      /\ \A j \in 1 .. call[t].count : s[j] = buffer_[call[t].off + j - 1]
  BY <1>1, SliceOfRead
<1> HIDE DEF s
<1>5. s = call[t].out
  <2>1. call[t].out \in Seq(Bytes) /\ call[t].out = [j \in 1 .. call[t].i |-> buffer_[call[t].off + j - 1]]
    BY <1>1, CallFacts DEF ReadOK
  <2>2. Len(call[t].out) = call[t].count /\ \A j \in 1 .. call[t].count : call[t].out[j] = s[j]
    BY <1>1, <1>4, <2>1
  <2> QED BY <1>4, <2>1, <2>2, SameSeq
<1>6. Request(t).st = "read" /\ Request(t).size = call[t].size /\ Request(t).off = call[t].off
  BY <1>1 DEF Request
<1>7. RequestOf(c) = Echo!Done(Len(s), call[t].off + Len(s), s)
  BY <1>3, <1>4, <1>5 DEF RequestOf, Echo!Done
<1>8. requests' = [requests EXCEPT ![t] = Echo!Done(Len(s), call[t].off + Len(s), s)]
  BY <1>2, <1>7, RequestStep
<1>9. Echo!Read(t)
  BY <1>1, <1>6, <1>8 DEF Echo!Read, requests, s
<1> QED BY <1>9 DEF Echo!Next, Echo!Serve

\* The copy of a write is invisible until it faults.
LEMMA CopyFromUserRefines ==
  ASSUME IInv, IInv', NEW t \in Threads, CopyFromUser(t) PROVE Echo!Next \/ UNCHANGED Echo!vars
<1> USE ConstantsAssumption
<1>1. /\ call[t].pc = "copyin" /\ call[t].op = "write" /\ call[t].out = <<>>
      /\ call[t].i < call[t].count /\ call[t].i \in Nat /\ call[t].count \in 0 .. BUFFER_SIZE - 1
      /\ buffer_ \in Buffers /\ buffer_len_ \in 0 .. BUFFER_SIZE - 1
  BY CallFacts DEF CopyFromUser, CallOK
<1>2. RequestOf(call[t]) = [st |-> "write", size |-> call[t].size, msg |-> call[t].msg, off |-> call[t].off]
  BY <1>1 DEF RequestOf
<1>3. ASSUME call' = [call EXCEPT ![t].i = @ + 1], UNCHANGED content PROVE UNCHANGED Echo!vars
  <2> DEFINE c == [call[t] EXCEPT !.i = call[t].i + 1]
  <2>1. call' = [call EXCEPT ![t] = c]
    BY <1>3, CallFacts DEF CallRecord
  <2>2. /\ c.pc = "copyin" /\ c.op = "write" /\ c.size = call[t].size /\ c.msg = call[t].msg
        /\ c.off = call[t].off
    BY <1>1, CallFacts DEF CallRecord
  <2> HIDE DEF c
  <2>3. RequestOf(c) = RequestOf(call[t])
    BY <1>2, <2>2 DEF RequestOf
  <2> QED BY <1>3, <2>1, <2>3, Stutters
<1>4. ASSUME buffer_' = [j \in DOMAIN buffer_ |->
                           IF j \in call[t].i .. call[t].count - 1 THEN Nul ELSE buffer_[j]],
             call' = ReturnFrom(t, -EFAULT), content' = Message(buffer_', buffer_len_)
      PROVE  Echo!Next
  <2> DEFINE c == [call[t] EXCEPT !.pc = "unlock", !.ret = -EFAULT]
             k == call[t].i
             n == call[t].count
  <2>1. call' = [call EXCEPT ![t] = c]
    BY <1>4, CallFacts DEF ReturnFrom, CallRecord
  <2>2. c.pc = "unlock" /\ c.ret = -EFAULT /\ c.off = call[t].off /\ c.out = <<>>
    BY <1>1, CallFacts DEF CallRecord
  <2> HIDE DEF c
  <2>3. RequestOf(c) = Echo!Done(-EFAULT, call[t].off, <<>>)
    BY <2>2 DEF RequestOf, Echo!Done
  <2>4. /\ Request(t).st = "write" /\ Request(t).size = call[t].size
        /\ Request(t).msg = call[t].msg /\ Request(t).off = call[t].off
    BY <1>1 DEF Request
  <2>5. requests' = [requests EXCEPT ![t] = Echo!Done(-EFAULT, call[t].off, <<>>)]
    BY <2>1, <2>3, RequestStep
  <2>6. /\ Arrived(call[t], buffer_, k) /\ content \in [1 .. buffer_len_ -> Bytes]
        /\ n = min(call[t].size, MaxMessage)
        /\ \A j \in 1 .. buffer_len_ : j > k => content[j] = buffer_[j - 1]
    BY <1>1, CallFacts DEF WriteOK, Writing
  <2>7. Len(content) = buffer_len_
    BY <1>1, <2>6
  <2>8. content' = [j \in 1 .. Len(content) |->
                      IF j <= k THEN UserByte(call[t].msg, j - 1)
                      ELSE IF j <= n THEN Nul ELSE content[j]]
    <3>1. ASSUME NEW j \in 1 .. buffer_len_
          PROVE  buffer_'[j - 1] = IF j <= k THEN UserByte(call[t].msg, j - 1)
                                   ELSE IF j <= n THEN Nul ELSE content[j]
      <4>1. j - 1 \in 0 .. BUFFER_SIZE - 1
        BY <1>1
      <4>2. buffer_'[j - 1] = IF j - 1 \in k .. n - 1 THEN Nul ELSE buffer_[j - 1]
        BY <1>1, <1>4, <4>1 DEF Buffers
      <4>3. CASE j <= k
        <5>1. j - 1 \in 0 .. k - 1 /\ j - 1 \notin k .. n - 1
          BY <1>1, <4>3
        <5> QED BY <2>6, <4>2, <4>3, <5>1 DEF Arrived
      <4>4. CASE ~(j <= k) /\ j <= n
        BY <1>1, <4>2, <4>4
      <4>5. CASE ~(j <= k) /\ ~(j <= n)
        BY <1>1, <2>6, <4>2, <4>5
      <4> QED BY <4>3, <4>4, <4>5
    <3> QED BY <1>4, <2>7, <3>1 DEF Message
  <2>9. n = Echo!min(Request(t).size, BUFFER_SIZE - 1)
    BY <2>4, <2>6 DEF min, Echo!min, MaxMessage
  <2>10. k \in 0 .. n - 1
    BY <1>1
  <2>a. content' = [j \in 1 .. Len(content) |->
                      IF j <= k THEN Echo!UserByte(Request(t).msg, j - 1)
                      ELSE IF j <= n THEN Echo!Nul ELSE content[j]]
    BY <2>4, <2>8 DEF Echo!UserByte, UserByte, Echo!Nul, Nul
  <2>b. requests' = [requests EXCEPT ![t] = Echo!Done(-EFAULT, Request(t).off, <<>>)]
    BY <2>4, <2>5
  <2> HIDE DEF n, k
  <2>c. \E i \in 0 .. n - 1 :
          content' = [j \in 1 .. Len(content) |->
                        IF j <= i THEN Echo!UserByte(Request(t).msg, j - 1)
                        ELSE IF j <= n THEN Echo!Nul ELSE content[j]]
    BY <2>10, <2>a
  <2>11. Echo!FaultyWrite(t)
    BY <2>4, <2>9, <2>b, <2>c, ZenonT(60) DEF Echo!FaultyWrite, requests
  <2> QED BY <2>11 DEF Echo!Next, Echo!Serve
<1> QED BY <1>3, <1>4 DEF CopyFromUser

\* A write that stores its terminator has replaced the message at once.
LEMMA TerminateRefines == ASSUME IInv, IInv', NEW t \in Threads, Terminate(t) PROVE Echo!Next
<1> USE ConstantsAssumption
<1> DEFINE c == [call[t] EXCEPT !.pc = "unlock", !.ret = call[t].count, !.off = 0]
           n == call[t].count
<1>1. /\ call[t].pc = "terminate" /\ call[t].op = "write" /\ call[t].out = <<>>
      /\ n = min(call[t].size, MaxMessage)
      /\ content' = [j \in 1 .. n |-> UserByte(call[t].msg, j - 1)]
  BY CallFacts DEF Terminate, CallOK, WriteOK, Writing
<1>2. call' = [call EXCEPT ![t] = c]
  BY CallFacts DEF Terminate, ReturnFrom, CallRecord
<1>3. c.pc = "unlock" /\ c.ret = n /\ c.off = 0 /\ c.out = <<>>
  BY <1>1, CallFacts DEF CallRecord
<1> HIDE DEF c
<1>4. requests[t] = [st |-> "write", size |-> call[t].size, msg |-> call[t].msg, off |-> call[t].off]
  <2>1. RequestOf(call[t]) = [st |-> "write", size |-> call[t].size, msg |-> call[t].msg, off |-> call[t].off]
    BY <1>1 DEF RequestOf
  <2> QED BY <1>2, <2>1, RequestStep
<1>5. requests' = [requests EXCEPT ![t] = Echo!Done(n, 0, <<>>)]
  <2>1. RequestOf(c) = Echo!Done(n, 0, <<>>)
    BY <1>3 DEF RequestOf, Echo!Done
  <2> QED BY <1>2, <2>1, RequestStep
<1>6. n = Echo!min(requests[t].size, BUFFER_SIZE - 1)
  BY <1>1, <1>4 DEF min, Echo!min, MaxMessage
<1>7. Echo!Write(t)
  BY <1>1, <1>4, <1>5, <1>6 DEF Echo!Write, requests, Echo!UserByte, UserByte
<1> QED BY <1>7 DEF Echo!Next, Echo!Serve

\* Every step of the driver is a step of EchoBuffer or invisible.
LEMMA NextRefines == ASSUME IInv, IInv', [Next]_vars PROVE [Echo!Next]_(Echo!vars)
<1>1. CASE UNCHANGED vars
  <2>1. \A t \in Threads : Request(t)' = Request(t)
    BY <1>1 DEF vars, Request
  <2> QED BY <1>1, <2>1 DEF vars, Echo!vars
<1>2. ASSUME NEW t \in Threads, Begin(t) \/ Lock(t) \/ Run(t) PROVE [Echo!Next]_(Echo!vars)
  <2>1. CASE Begin(t)
    BY <2>1, BeginRefines
  <2>2. CASE Lock(t) \/ Unlock(t) \/ ReadCount(t) \/ WriteCount(t) \/ SetLength(t)
    BY <2>2, QuietRefines
  <2>3. CASE ReadCheck(t) \/ CopyToUser(t) \/ ReadDone(t)
    BY <2>3, ReadCheckRefines, CopyToUserRefines, ReadDoneRefines
  <2>4. CASE CopyFromUser(t) \/ Terminate(t) \/ VfsReturn(t)
    BY <2>4, CopyFromUserRefines, TerminateRefines, ReturnRefines
  <2> QED BY <1>2, <2>1, <2>2, <2>3, <2>4 DEF Run
<1> QED BY <1>1, <1>2 DEF Next

\* The locked handlers implement the safety part of the atomic buffer: every
\* read returns a slice of one message and every write replaces it at once,
\* faults included, as if each handler ran in a single step.
THEOREM RefinesEchoBuffer == Spec => Echo!Init /\ [][Echo!Next]_(Echo!vars)
<1>1. Init => Echo!Init
  <2> SUFFICES ASSUME Init PROVE Echo!Init
    OBVIOUS
  <2>1. \A t \in Threads : Request(t) = [st |-> "none"]
    BY IdleTyped DEF Init, Request
  <2> QED BY <2>1 DEF Init, Echo!Init, Echo!NoRequest
<1>2. IInv /\ IInv' /\ [Next]_vars => [Echo!Next]_(Echo!vars)
  BY NextRefines
<1>3. Spec => []IInv
  BY InitInv, NextInv, PTL DEF Spec, Safety
<1> QED BY <1>1, <1>2, <1>3, PTL DEF Spec, Safety
==============================================================================
