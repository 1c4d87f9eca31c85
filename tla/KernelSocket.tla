---------------------------- MODULE KernelSocket ----------------------------
(***************************************************************************)
(* kpp::KernelSocket (kpp/net/KernelSocket.hpp): a move-only handle on a   *)
(* kernel socket, here a stream socket.  Threads share the handles; a      *)
(* handle that a thread is inside of is neither moved nor destroyed by     *)
(* another one, but it may be used, and shut down, by it.                  *)
(*                                                                         *)
(* External, as the code uses it: sock_create_kern, connect and listen may *)
(* fail; accept waits on a listening socket for a connection and grafts it *)
(* on the struct socket it is given; recvmsg waits on a connected socket   *)
(* for data or for the end of the stream; sendmsg waits there until there  *)
(* is room for the data, which only the peer makes; shutdown ends all these*)
(* waits.  A socket that was shut down is not opened again.                *)
(***************************************************************************)
EXTENDS Naturals, FiniteSets

CONSTANTS
  Threads,
  Handles,  \* storage for KernelSocket objects
  Sockets,  \* the struct sockets the kernel can create
  nullptr,  \* sock_ of an empty handle; the handle of a thread in no call
  NoObject  \* no object lives in the storage

ConstantsAssumption ==
  nullptr # NoObject /\ {nullptr, NoObject} \intersect (Sockets \union Handles) = {}

VARIABLES
  sock_,    \* sock_[h] of the KernelSocket in h, or NoObject
  phase,    \* phase[s]: "free", "open", "bound", "listening", "connected", "shut"
  asked,    \* the sockets that listened or were connected when shutdown was called
  arrived,  \* the sockets with data to receive or a connection to accept
  call,     \* call[t]: "none", "accept", "receive", "send" or "oops"
  this      \* this[t]: the handle of the call, or nullptr

vars == <<sock_, phase, asked, arrived, call, this>>
callVars == <<call, this>>

Free(t) == call[t] = "none"
Alive(h) == sock_[h] # NoObject
InUse(h) == \E t \in Threads : this[t] = h

\* The check "this != &other": an object moved to itself is left alone.
NotSelf(h, o) == h # o

\* sock_release of what h holds, if anything: the socket is gone, and so is
\* what had arrived for it.
Released(h) ==
  /\ phase' = [s \in Sockets |-> IF s = sock_[h] THEN "free" ELSE phase[s]]
  /\ asked' = asked \ {sock_[h]}
  /\ arrived' = arrived \ {sock_[h]}

------------------------------------------------------------------------------
(***************************************************************************)
(* Construction, moves and destruction.                                    *)
(***************************************************************************)

\* KernelSocket(family, type, protocol): null when sock_create_kern fails.
Construct(h) ==
  /\ ~Alive(h)
  /\ \/ \E s \in Sockets :
          /\ phase[s] = "free"
          /\ sock_' = [sock_ EXCEPT ![h] = s]
          /\ phase' = [phase EXCEPT ![s] = "open"]
     \/ sock_' = [sock_ EXCEPT ![h] = nullptr] /\ UNCHANGED phase
  /\ UNCHANGED <<asked, arrived, callVars>>

\* KernelSocket(existing_sock): a socket that other code has opened.
ConstructFrom(h, s) ==
  /\ ~Alive(h) /\ phase[s] = "free"
  /\ sock_' = [sock_ EXCEPT ![h] = s]
  /\ phase' = [phase EXCEPT ![s] = "connected"]
  /\ UNCHANGED <<asked, arrived, callVars>>

Destruct(h) ==
  /\ Alive(h) /\ ~InUse(h)
  /\ Released(h)
  /\ sock_' = [sock_ EXCEPT ![h] = NoObject]
  /\ UNCHANGED callVars

MoveConstruct(h, o) ==
  /\ ~Alive(h) /\ Alive(o) /\ ~InUse(o)
  /\ sock_' = [sock_ EXCEPT ![h] = sock_[o], ![o] = nullptr]
  /\ UNCHANGED <<phase, asked, arrived, callVars>>

MoveAssign(h, o) ==
  /\ Alive(h) /\ Alive(o) /\ ~InUse(h) /\ ~InUse(o) /\ NotSelf(h, o)
  /\ Released(h)
  /\ sock_' = [sock_ EXCEPT ![h] = sock_[o], ![o] = nullptr]
  /\ UNCHANGED callVars

------------------------------------------------------------------------------
(***************************************************************************)
(* The operations.  Each returns -EINVAL on a null sock_ and leaves all    *)
(* unchanged; so does a socket that refuses.                               *)
(***************************************************************************)

\* The socket of h moves from one of the phases in from to the phase to.
Becomes(h, from, to) ==
  /\ sock_[h] \in Sockets /\ phase[sock_[h]] \in from
  /\ phase' = [phase EXCEPT ![sock_[h]] = to]
  /\ UNCHANGED <<sock_, arrived, callVars>>

Opens(h, from, to) == Becomes(h, from, to) /\ UNCHANGED asked

bind(h) == Opens(h, {"open"}, "bound")
listen(h) == Opens(h, {"open", "bound"}, "listening")
connect(h) == Opens(h, {"open", "bound"}, "connected")

shutdownWriteOnly(h) ==
  /\ Becomes(h, {"connected"}, "connected")
  /\ asked' = asked \union {sock_[h]}

\* kernel_sock_shutdown(SHUT_RDWR): a listening socket stops to listen.
shutdown(h) ==
  /\ Becomes(h, {"listening", "connected"}, "shut")
  /\ asked' = asked \union {sock_[h]}

\* The call of thread t enters the kernel and waits there.
Enter(t, h, name, from) ==
  /\ Free(t)
  /\ sock_[h] \in Sockets /\ phase[sock_[h]] \in from
  /\ call' = [call EXCEPT ![t] = name]
  /\ this' = [this EXCEPT ![t] = h]
  /\ UNCHANGED <<sock_, phase, asked, arrived>>

accept(t, h) == Enter(t, h, "accept", {"listening"})
receive(t, h) == Enter(t, h, "receive", {"connected", "shut"})
send(t, h) == Enter(t, h, "send", {"connected", "shut"})

Back(t) ==
  /\ call' = [call EXCEPT ![t] = "none"]
  /\ this' = [this EXCEPT ![t] = nullptr]

\* accept has a connection: the kernel grafts it on new_sock, which is null,
\* and the thread dies in the kernel, still inside of the handle.
AcceptConnection(t) ==
  /\ call[t] = "accept" /\ sock_[this[t]] \in arrived
  /\ phase[sock_[this[t]]] = "listening"
  /\ arrived' = arrived \ {sock_[this[t]]}
  /\ call' = [call EXCEPT ![t] = "oops"]
  /\ UNCHANGED <<sock_, phase, asked, this>>

\* accept fails: KernelSocket(nullptr), which the caller drops or keeps in r.
AcceptFails(t) ==
  /\ call[t] = "accept" /\ phase[sock_[this[t]]] # "listening"
  /\ \/ UNCHANGED sock_
     \/ \E r \in Handles : ~Alive(r) /\ sock_' = [sock_ EXCEPT ![r] = nullptr]
  /\ Back(t)
  /\ UNCHANGED <<phase, asked, arrived>>

\* receive returns with the data that arrived, or with 0 at the end of the
\* stream.
ReceiveReturns(t) ==
  /\ call[t] = "receive"
  /\ sock_[this[t]] \in arrived \/ phase[sock_[this[t]]] = "shut"
  /\ arrived' = arrived \ {sock_[this[t]]}
  /\ Back(t)
  /\ UNCHANGED <<sock_, phase, asked>>

\* send returns: there was room, or -EPIPE after a shutdown.
SendReturns(t) ==
  /\ call[t] = "send" /\ phase[sock_[this[t]]] = "connected"
  /\ Back(t)
  /\ UNCHANGED <<sock_, phase, asked, arrived>>

SendFails(t) ==
  /\ call[t] = "send" /\ phase[sock_[this[t]]] = "shut"
  /\ Back(t)
  /\ UNCHANGED <<sock_, phase, asked, arrived>>

\* The peer sends data or connects; it never has to.
PeerActs(s) ==
  /\ phase[s] \in {"listening", "connected"}
  /\ arrived' = arrived \union {s}
  /\ UNCHANGED <<sock_, phase, asked, callVars>>

------------------------------------------------------------------------------
Init ==
  /\ sock_ = [h \in Handles |-> NoObject]
  /\ phase = [s \in Sockets |-> "free"]
  /\ asked = {}
  /\ arrived = {}
  /\ call = [t \in Threads |-> "none"]
  /\ this = [t \in Threads |-> nullptr]

Next ==
  \/ \E h \in Handles :
       \/ Construct(h) \/ Destruct(h)
       \/ bind(h) \/ listen(h) \/ connect(h) \/ shutdown(h)
  \/ \E h, o \in Handles : MoveConstruct(h, o) \/ MoveAssign(h, o)
  \/ \E t \in Threads, h \in Handles : accept(t, h) \/ receive(t, h) \/ send(t, h)
  \/ \E t \in Threads :
       AcceptConnection(t) \/ AcceptFails(t) \/ ReceiveReturns(t) \/ SendReturns(t) \/ SendFails(t)
  \/ \E h \in Handles, s \in Sockets : ConstructFrom(h, s)
  \/ \E s \in Sockets : PeerActs(s)

\* A call whose wait is over returns: the kernel wakes it.  The peer never has
\* to make room for a send.
Fairness ==
  \A t \in Threads : WF_vars(AcceptConnection(t) \/ AcceptFails(t) \/ ReceiveReturns(t) \/ SendFails(t))

Spec == Init /\ [][Next]_vars /\ Fairness

------------------------------------------------------------------------------
(***************************************************************************)
(* Properties.                                                             *)
(***************************************************************************)

\* Every variable keeps its type.
TypeOK ==
  /\ sock_ \in [Handles -> Sockets \union {nullptr, NoObject}]
  /\ phase \in [Sockets -> {"free", "open", "bound", "listening", "connected", "shut"}]
  /\ asked \subseteq Sockets /\ arrived \subseteq Sockets
  /\ call \in [Threads -> {"none", "accept", "receive", "send", "oops"}]
  /\ this \in [Threads -> Handles \union {nullptr}]

\* Exactly the sockets that were created and not released are held, each by
\* one handle, whatever is moved, assigned over or fails to be created: no
\* socket leaks, none is released twice or used after its release.
SocketHasOneOwner ==
  \A s \in Sockets :
    Cardinality({h \in Handles : sock_[h] = s}) = IF phase[s] = "free" THEN 0 ELSE 1

\* shutdown ends the wait of every thread inside of receive, send or accept
\* on the handle: the way to stop a thread before its socket is destroyed.
ShutdownWakes ==
  \A t \in Threads :
    (call[t] \in {"accept", "receive", "send"} /\ sock_[this[t]] \in asked)
      ~> call[t] \notin {"accept", "receive", "send"}

==============================================================================
