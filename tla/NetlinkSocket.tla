---------------------------- MODULE NetlinkSocket ----------------------------
(***************************************************************************)
(* kpp::NetlinkSocket (kpp/net/NetlinkSocket.hpp) sending packets that     *)
(* callers own through kpp::SKB (kpp/net/SKB.hpp), a move-only handle on   *)
(* one reference to an sk_buff.  The receiver of a packet runs at its own  *)
(* time.                                                                   *)
(*                                                                         *)
(* External, as the code uses it: netlink_kernel_create may fail;          *)
(* netlink_unicast takes over the reference of its caller, queues the      *)
(* packet at the receiver or drops it; netlink_broadcast queues clones and *)
(* drops the packet; both read the packet they are given, be it null; a    *)
(* receiver drops what it has read.  Packets are not allocated again.      *)
(***************************************************************************)
EXTENDS Naturals, FiniteSets

CONSTANTS
  Handles,  \* storage for SKB objects
  Packets,  \* the sk_buffs
  nullptr,  \* skb_ of an empty SKB
  NoObject  \* no object lives in the storage

ConstantsAssumption ==
  nullptr # NoObject /\ {nullptr, NoObject} \intersect Packets = {}

VARIABLES
  sock_,   \* "none", "null" (the constructor failed), "open" or "oops" (a sender died in it)
  skb_,    \* skb_[h] of the SKB in h, or NoObject
  users,   \* users[p]: the reference count of the packet
  fresh,   \* the packets that were never allocated
  queued,  \* the packets in a receiver's queue
  sent     \* the packets given to netlink_unicast or netlink_broadcast

vars == <<sock_, skb_, users, fresh, queued, sent>>
netVars == <<fresh, queued, sent>>

Alive(h) == skb_[h] # NoObject

\* The check "this != &other": an object moved to itself is left alone.
NotSelf(h, o) == h # o

\* consume_skb of p, if it is a packet.  The count saturates: dropping a
\* packet that is already free is noticed, not counted.
Consumed(p) == [q \in Packets |-> IF q = p /\ users[q] > 0 THEN users[q] - 1 ELSE users[q]]

------------------------------------------------------------------------------
(***************************************************************************)
(* SKB.                                                                    *)
(***************************************************************************)

\* SKB(skb) of a new packet, or of the null pointer of a failed allocation.
ConstructSkb(h) ==
  /\ ~Alive(h)
  /\ \/ \E p \in fresh :
          /\ skb_' = [skb_ EXCEPT ![h] = p]
          /\ users' = [users EXCEPT ![p] = 1]
          /\ fresh' = fresh \ {p}
     \/ skb_' = [skb_ EXCEPT ![h] = nullptr] /\ UNCHANGED <<users, fresh>>
  /\ UNCHANGED <<sock_, queued, sent>>

DestructSkb(h) ==
  /\ Alive(h)
  /\ users' = Consumed(skb_[h])
  /\ skb_' = [skb_ EXCEPT ![h] = NoObject]
  /\ UNCHANGED <<sock_, netVars>>

MoveConstructSkb(h, o) ==
  /\ ~Alive(h) /\ Alive(o)
  /\ skb_' = [skb_ EXCEPT ![h] = skb_[o], ![o] = nullptr]
  /\ UNCHANGED <<sock_, users, netVars>>

MoveAssignSkb(h, o) ==
  /\ Alive(h) /\ Alive(o) /\ NotSelf(h, o)
  /\ users' = Consumed(skb_[h])
  /\ skb_' = [skb_ EXCEPT ![h] = skb_[o], ![o] = nullptr]
  /\ UNCHANGED <<sock_, netVars>>

------------------------------------------------------------------------------
(***************************************************************************)
(* NetlinkSocket.                                                          *)
(***************************************************************************)

Construct ==
  /\ sock_ = "none"
  /\ sock_' \in {"open", "null"}
  /\ UNCHANGED <<skb_, users, netVars>>

Destruct ==
  /\ sock_ \in {"open", "null"}
  /\ sock_' = "none"
  /\ UNCHANGED <<skb_, users, netVars>>

\* A call with a packet reaches netlink only on an open socket; otherwise it
\* returns -EINVAL and the packet stays as it was.
Reaches(h) == sock_ = "open" /\ skb_[h] \in Packets

\* The pointer of an empty SKB reaches netlink as well, unchecked: the sender
\* dies there, and the socket is neither used nor released afterwards.
SendsNull(h) ==
  /\ sock_ = "open" /\ skb_[h] = nullptr
  /\ sock_' = "oops"
  /\ UNCHANGED <<skb_, users, netVars>>

\* unicast: the handle keeps its pointer to the packet it gave away.
unicast(h) ==
  \/ SendsNull(h)
  \/ /\ Reaches(h)
     /\ \/ users[skb_[h]] > 0 /\ queued' = queued \union {skb_[h]} /\ UNCHANGED users
        \/ users' = Consumed(skb_[h]) /\ UNCHANGED queued
     /\ sent' = sent \union {skb_[h]}
     /\ UNCHANGED <<sock_, skb_, fresh>>

broadcast(h) ==
  \/ SendsNull(h)
  \/ /\ Reaches(h)
     /\ users' = Consumed(skb_[h])
     /\ sent' = sent \union {skb_[h]}
     /\ UNCHANGED <<sock_, skb_, fresh, queued>>

\* The receiver reads a packet and drops it.
ReceiverReads(p) ==
  /\ p \in queued
  /\ queued' = queued \ {p}
  /\ users' = Consumed(p)
  /\ UNCHANGED <<sock_, skb_, fresh, sent>>

------------------------------------------------------------------------------
Init ==
  /\ sock_ = "none"
  /\ skb_ = [h \in Handles |-> NoObject]
  /\ users = [p \in Packets |-> 0]
  /\ fresh = Packets
  /\ queued = {}
  /\ sent = {}

Next ==
  \/ Construct \/ Destruct
  \/ \E h \in Handles : ConstructSkb(h) \/ DestructSkb(h) \/ unicast(h) \/ broadcast(h)
  \/ \E h, o \in Handles : MoveConstructSkb(h, o) \/ MoveAssignSkb(h, o)
  \/ \E p \in Packets : ReceiverReads(p)

Spec == Init /\ [][Next]_vars

------------------------------------------------------------------------------
(***************************************************************************)
(* Properties.                                                             *)
(***************************************************************************)

\* Every variable keeps its type.
TypeOK ==
  /\ sock_ \in {"none", "null", "open", "oops"}
  /\ skb_ \in [Handles -> Packets \union {nullptr, NoObject}]
  /\ users \in [Packets -> 0 .. 1]
  /\ fresh \subseteq Packets /\ queued \subseteq Packets
  /\ sent \subseteq Packets \ fresh

Holders(p) == {h \in Handles : skb_[h] = p}

\* A packet that netlink was never given has one reference for its one SKB
\* and is gone when no SKB holds it, through any moves and through sends that
\* found no socket.
UnsentHasOneOwner == \A p \in Packets \ sent : users[p] = Cardinality(Holders(p))

==============================================================================
