----------------------------- MODULE EchoBuffer -----------------------------
(***************************************************************************)
(* What the echo driver promises the programs that use it: one message,    *)
(* replaced at once by every write and read in consistent slices.  A       *)
(* request takes effect in one step between its call and its return.       *)
(*                                                                         *)
(* An access to user memory can fault half way.  A failed read has         *)
(* delivered a part of its slice; a failed write leaves the length of the  *)
(* message as it was, with the bytes that arrived and zeros after them     *)
(* written over it.                                                        *)
(***************************************************************************)
EXTENDS Integers, Sequences

CONSTANTS
  Threads,  \* threads of user programs
  Msgs,     \* contents of the user buffers
  Sizes,    \* request sizes
  Offsets,  \* file offsets requests start at
  Capacity, \* the longest message the driver keeps
  EFAULT    \* the error number of a faulted copy

VARIABLES
  content,  \* the message
  request   \* request[t]: the request of thread t

vars == <<content, request>>

Nul == <<"nul">>

\* Byte j, from 0, of a user buffer.
UserByte(m, j) == <<m, j>>

min(m, n) == IF m <= n THEN m ELSE n

NoRequest == [st |-> "none"]
ReadCalled(n, o) == [st |-> "read", size |-> n, off |-> o]
WriteCalled(n, m, o) == [st |-> "write", size |-> n, msg |-> m, off |-> o]
Done(r, o, s) == [st |-> "done", ret |-> r, off |-> o, out |-> s]

Slice(n, o) == SubSeq(content, o + 1, min(o + n, Len(content)))

Init ==
  /\ content = <<>>
  /\ request = [t \in Threads |-> NoRequest]

CallRead(t, n, o) ==
  /\ request[t] = NoRequest
  /\ request' = [request EXCEPT ![t] = ReadCalled(n, o)]
  /\ UNCHANGED content

CallWrite(t, n, m, o) ==
  /\ request[t] = NoRequest
  /\ request' = [request EXCEPT ![t] = WriteCalled(n, m, o)]
  /\ UNCHANGED content

Read(t) ==
  /\ request[t].st = "read"
  /\ LET s == Slice(request[t].size, request[t].off)
     IN  request' = [request EXCEPT ![t] = Done(Len(s), @.off + Len(s), s)]
  /\ UNCHANGED content

FaultyRead(t) ==
  /\ request[t].st = "read"
  /\ LET s == Slice(request[t].size, request[t].off)
     IN  \E k \in 0 .. Len(s) - 1 :
           request' = [request EXCEPT ![t] = Done(-EFAULT, @.off, SubSeq(s, 1, k))]
  /\ UNCHANGED content

Write(t) ==
  /\ request[t].st = "write"
  /\ LET n == min(request[t].size, Capacity)
     IN  /\ content' = [j \in 1 .. n |-> UserByte(request[t].msg, j - 1)]
         /\ request' = [request EXCEPT ![t] = Done(n, 0, <<>>)]

FaultyWrite(t) ==
  /\ request[t].st = "write"
  /\ LET n == min(request[t].size, Capacity)
     IN  \E k \in 0 .. n - 1 :
           content' = [j \in 1 .. Len(content) |->
                         IF j <= k THEN UserByte(request[t].msg, j - 1)
                         ELSE IF j <= n THEN Nul ELSE content[j]]
  /\ request' = [request EXCEPT ![t] = Done(-EFAULT, @.off, <<>>)]

Return(t) ==
  /\ request[t].st = "done"
  /\ request' = [request EXCEPT ![t] = NoRequest]
  /\ UNCHANGED content

Serve(t) == Read(t) \/ FaultyRead(t) \/ Write(t) \/ FaultyWrite(t)

Next ==
  \E t \in Threads :
    \/ \E n \in Sizes, o \in Offsets : CallRead(t, n, o)
    \/ \E n \in Sizes, m \in Msgs, o \in Offsets : CallWrite(t, n, m, o)
    \/ Serve(t)
    \/ Return(t)

\* Every request is served and returns.
Spec ==
  /\ Init /\ [][Next]_vars
  /\ \A t \in Threads : WF_vars(Serve(t)) /\ WF_vars(Return(t))
==============================================================================
