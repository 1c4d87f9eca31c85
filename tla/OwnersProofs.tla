---------------------------- MODULE OwnersProofs ----------------------------
(***************************************************************************)
(* Proofs about the objects of kpp that own something of the kernel's: the *)
(* invariants of MCOwners hold for any number of threads, handles, sockets,*)
(* packets, attachments, devices and objects.                              *)
(***************************************************************************)
EXTENDS MCOwners, FiniteSetTheorems, SequenceTheorems, TLAPS

------------------------------------------------------------------------------
(***************************************************************************)
(* Finite sets that lose, gain or swap an element.  The operators that an  *)
(* instance brings along are those of FiniteSets.                          *)
(***************************************************************************)

\* The instances' Cardinality and IsFiniteSet are those of FiniteSets.
LEMMA SameCardinality ==
  ASSUME NEW T
  PROVE  /\ S!Cardinality(T) = Cardinality(T) /\ N!Cardinality(T) = Cardinality(T)
         /\ R!Cardinality(T) = Cardinality(T) /\ X!Cardinality(T) = Cardinality(T)
         /\ D!Cardinality(T) = Cardinality(T) /\ C!Cardinality(T) = Cardinality(T)
         /\ (R!IsFiniteSet(T) <=> IsFiniteSet(T)) /\ (X!IsFiniteSet(T) <=> IsFiniteSet(T))
         /\ (C!IsFiniteSet(T) <=> IsFiniteSet(T))
<1>1. S!Cardinality(T) = Cardinality(T)
  BY Zenon DEF S!Cardinality, S!IsFiniteSet, Cardinality, IsFiniteSet
<1>2. N!Cardinality(T) = Cardinality(T)
  BY Zenon DEF N!Cardinality, N!IsFiniteSet, Cardinality, IsFiniteSet
<1>3. R!Cardinality(T) = Cardinality(T)
  BY Zenon DEF R!Cardinality, R!IsFiniteSet, Cardinality, IsFiniteSet
<1>4. X!Cardinality(T) = Cardinality(T)
  BY Zenon DEF X!Cardinality, X!IsFiniteSet, Cardinality, IsFiniteSet
<1>5. D!Cardinality(T) = Cardinality(T)
  BY Zenon DEF D!Cardinality, D!IsFiniteSet, Cardinality, IsFiniteSet
<1>6. C!Cardinality(T) = Cardinality(T)
  BY Zenon DEF C!Cardinality, C!IsFiniteSet, Cardinality, IsFiniteSet
<1>7. /\ (R!IsFiniteSet(T) <=> IsFiniteSet(T)) /\ (X!IsFiniteSet(T) <=> IsFiniteSet(T))
      /\ (C!IsFiniteSet(T) <=> IsFiniteSet(T))
  BY Zenon DEF R!IsFiniteSet, X!IsFiniteSet, C!IsFiniteSet, IsFiniteSet
<1> QED BY <1>1, <1>2, <1>3, <1>4, <1>5, <1>6, <1>7

\* A set whose elements are all the same has at most one.
LEMMA CardinalityAtMostOne ==
  ASSUME NEW T
  PROVE  /\ T = {} => Cardinality(T) = 0
         /\ (\E x \in T : TRUE) /\ (\A x, y \in T : x = y) => Cardinality(T) = 1
<1>1. T = {} => Cardinality(T) = 0
  BY FS_EmptySet
<1>2. ASSUME NEW x \in T, \A z, y \in T : z = y PROVE Cardinality(T) = 1
  <2>1. T = {x}
    BY <1>2
  <2> QED BY <2>1, FS_Singleton
<1> QED BY <1>1, <1>2, Zenon

\* A new element makes a set larger by one.
LEMMA CardinalityAdd ==
  ASSUME NEW T, IsFiniteSet(T), NEW x, x \notin T, NEW U, U = T \union {x}
  PROVE  IsFiniteSet(U) /\ Cardinality(U) = Cardinality(T) + 1
BY FS_AddElement

\* An element less makes it smaller by one.
LEMMA CardinalityRemove ==
  ASSUME NEW T, IsFiniteSet(T), NEW x \in T, NEW U, U = T \ {x}
  PROVE  IsFiniteSet(U) /\ Cardinality(U) = Cardinality(T) - 1
BY FS_RemoveElement

\* One element for another leaves its size.
LEMMA CardinalitySwap ==
  ASSUME NEW T, IsFiniteSet(T), NEW x \in T, NEW y, y \notin T, NEW U, U = (T \ {x}) \union {y}
  PROVE  IsFiniteSet(U) /\ Cardinality(U) = Cardinality(T)
<1>1. IsFiniteSet(T \ {x}) /\ Cardinality(T \ {x}) = Cardinality(T) - 1
  BY FS_RemoveElement
<1>2. IsFiniteSet(U) /\ Cardinality(U) = Cardinality(T \ {x}) + 1
  BY <1>1, CardinalityAdd
<1>3. Cardinality(T) \in Nat
  BY FS_CardinalityType
<1> QED BY <1>1, <1>2, <1>3

------------------------------------------------------------------------------
(***************************************************************************)
(* KernelSocket.  What makes SocketHasOneOwner inductive is that it says   *)
(* three things: no two handles hold one socket, what is held is not free, *)
(* and what is not free is held.                                           *)
(***************************************************************************)

SocketIInv ==
  /\ S!TypeOK
  /\ \A h, o \in Handles : sock_[h] \in Sockets /\ sock_[h] = sock_[o] => h = o
  /\ \A h \in Handles : sock_[h] \in Sockets => phase[sock_[h]] # "free"
  /\ \A s \in Sockets : phase[s] # "free" => \E h \in Handles : sock_[h] = s

\* Held by exactly one handle is what SocketHasOneOwner counts.
LEMMA SocketCounts == SocketIInv => S!SocketHasOneOwner
<1> SUFFICES ASSUME SocketIInv, NEW s \in Sockets
             PROVE  S!Cardinality({h \in Handles : sock_[h] = s}) = IF phase[s] = "free" THEN 0 ELSE 1
  BY DEF S!SocketHasOneOwner
<1> DEFINE T == {h \in Handles : sock_[h] = s}
<1>1. S!Cardinality(T) = Cardinality(T)
  BY SameCardinality
<1>2. CASE phase[s] = "free"
  <2>1. T = {}
    BY <1>2 DEF SocketIInv
  <2> QED BY <1>1, <1>2, <2>1, CardinalityAtMostOne
<1>3. CASE phase[s] # "free"
  <2>1. (\E x \in T : TRUE) /\ (\A x, y \in T : x = y)
    BY <1>3 DEF SocketIInv
  <2>2. Cardinality(T) = 1
    BY <2>1, CardinalityAtMostOne
  <2> QED BY <1>1, <1>3, <2>2
<1> QED BY <1>2, <1>3

\* No handle lives and every socket is free.
LEMMA SocketInit == S!Init => SocketIInv
BY PartsAssumption DEF S!Init, SocketIInv, S!TypeOK, S!ConstantsAssumption

\* Every step of a KernelSocket, of a call in the kernel or of the peer.
LEMMA SocketNext == SocketIInv /\ [S!Next]_(S!vars) => SocketIInv'
<1> SUFFICES ASSUME SocketIInv, [S!Next]_(S!vars) PROVE SocketIInv'
  OBVIOUS
<1>0. nullptr # NoObject /\ nullptr \notin Sockets /\ NoObject \notin Sockets
  BY PartsAssumption DEF S!ConstantsAssumption
<1>1. ASSUME NEW h \in Handles, NEW s \in Sockets, NEW q \in {"open", "connected"}, ~S!Alive(h), phase[s] = "free",
             sock_' = [sock_ EXCEPT ![h] = s], phase' = [phase EXCEPT ![s] = q],
             UNCHANGED <<asked, arrived, S!callVars>>
      PROVE  SocketIInv'
  BY <1>0, <1>1 DEF SocketIInv, S!TypeOK, S!Alive, S!callVars
<1>2. ASSUME NEW h \in Handles, ~S!Alive(h), sock_' = [sock_ EXCEPT ![h] = nullptr],
             UNCHANGED <<phase, asked, arrived>>, S!TypeOK'
      PROVE  SocketIInv'
  BY <1>0, <1>2 DEF SocketIInv, S!TypeOK, S!Alive
<1>3. ASSUME NEW h \in Handles, S!Construct(h) PROVE SocketIInv'
  <2>1. CASE sock_' = [sock_ EXCEPT ![h] = nullptr] /\ UNCHANGED phase
    <3>1. S!TypeOK'
      BY <1>3, <2>1 DEF S!Construct, SocketIInv, S!TypeOK, S!callVars
    <3> QED BY <1>2, <1>3, <2>1, <3>1 DEF S!Construct
  <2> QED BY <1>1, <1>3, <2>1 DEF S!Construct
<1>4. ASSUME NEW h \in Handles, NEW s \in Sockets, S!ConstructFrom(h, s) PROVE SocketIInv'
  BY <1>1, <1>4 DEF S!ConstructFrom
<1>5. ASSUME NEW h \in Handles, S!Destruct(h) PROVE SocketIInv'
  BY <1>0, <1>5 DEF S!Destruct, S!Released, SocketIInv, S!TypeOK, S!Alive, S!callVars
<1>6. ASSUME NEW h \in Handles, NEW o \in Handles, S!MoveConstruct(h, o) PROVE SocketIInv'
  BY <1>0, <1>6 DEF S!MoveConstruct, SocketIInv, S!TypeOK, S!Alive, S!callVars
<1>7. ASSUME NEW h \in Handles, NEW o \in Handles, S!MoveAssign(h, o) PROVE SocketIInv'
  <2>1. S!TypeOK'
    BY <1>0, <1>7 DEF S!MoveAssign, S!Released, S!NotSelf, SocketIInv, S!TypeOK, S!Alive, S!callVars
  <2>2. /\ h # o /\ sock_' = [sock_ EXCEPT ![h] = sock_[o], ![o] = nullptr]
        /\ phase' = [s \in Sockets |-> IF s = sock_[h] THEN "free" ELSE phase[s]]
    BY <1>7 DEF S!MoveAssign, S!Released, S!NotSelf
  <2>3. \A s \in Sockets : phase'[s] # "free" => \E g \in Handles : sock_'[g] = s
    <3> SUFFICES ASSUME NEW s \in Sockets, s # sock_[h], phase[s] # "free"
                 PROVE  \E g \in Handles : sock_'[g] = s
      BY <2>2
    <3>1. PICK g \in Handles : sock_[g] = s
      BY DEF SocketIInv
    <3> QED BY <2>2, <3>1, <1>0 DEF SocketIInv, S!TypeOK
  <2> QED BY <1>0, <2>1, <2>2, <2>3 DEF SocketIInv, S!TypeOK
<1>8. ASSUME NEW h \in Handles, NEW from \in SUBSET {"open", "bound", "listening", "connected"},
             NEW to \in {"bound", "listening", "connected", "shut"}, S!Becomes(h, from, to),
             asked' \subseteq asked \union {sock_[h]}
      PROVE  SocketIInv'
  BY <1>8 DEF S!Becomes, SocketIInv, S!TypeOK, S!callVars
<1>9. ASSUME NEW h \in Handles, S!bind(h) \/ S!listen(h) \/ S!connect(h) \/ S!shutdown(h) PROVE SocketIInv'
  BY <1>8, <1>9 DEF S!bind, S!listen, S!connect, S!shutdown, S!Opens
<1>10. ASSUME UNCHANGED <<sock_, phase>>, S!TypeOK' PROVE SocketIInv'
  BY <1>10 DEF SocketIInv
<1>11. ASSUME NEW t \in Threads, NEW h \in Handles, S!accept(t, h) \/ S!receive(t, h) \/ S!send(t, h)
       PROVE  SocketIInv'
  BY <1>10, <1>11 DEF S!accept, S!receive, S!send, S!Enter, SocketIInv, S!TypeOK
<1>12. ASSUME NEW t \in Threads, S!AcceptConnection(t) \/ S!ReceiveReturns(t) \/ S!SendReturns(t) \/ S!SendFails(t)
       PROVE  SocketIInv'
  BY <1>10, <1>12 DEF S!AcceptConnection, S!ReceiveReturns, S!SendReturns, S!SendFails, S!Back, SocketIInv, S!TypeOK
<1>13. ASSUME NEW t \in Threads, S!AcceptFails(t) PROVE SocketIInv'
  <2>1. S!TypeOK'
    BY <1>13 DEF S!AcceptFails, S!Back, SocketIInv, S!TypeOK
  <2> QED BY <1>2, <1>10, <1>13, <2>1 DEF S!AcceptFails
<1>14. ASSUME NEW s \in Sockets, S!PeerActs(s) PROVE SocketIInv'
  BY <1>10, <1>14 DEF S!PeerActs, SocketIInv, S!TypeOK, S!callVars
<1>15. CASE UNCHANGED S!vars
  BY <1>10, <1>15 DEF S!vars, SocketIInv, S!TypeOK
<1> QED BY <1>3, <1>4, <1>5, <1>6, <1>7, <1>9, <1>11, <1>12, <1>13, <1>14, <1>15 DEF S!Next

------------------------------------------------------------------------------
(***************************************************************************)
(* NetlinkSocket.  A packet stays with one SKB even after netlink was      *)
(* given it (the SKB keeps its pointer), a packet that was never allocated *)
(* is held by none, and only what was sent is queued: so what the receiver *)
(* drops is never a packet that was not sent.                              *)
(***************************************************************************)

PacketIInv ==
  /\ N!TypeOK
  /\ queued \subseteq sent
  /\ \A h, o \in SkbHandles : skb_[h] \in Packets /\ skb_[h] = skb_[o] => h = o
  /\ \A h \in SkbHandles : skb_[h] \notin fresh
  /\ \A p \in Packets \ sent : users[p] = 1 => \E h \in SkbHandles : skb_[h] = p
  /\ \A h \in SkbHandles : skb_[h] \in Packets \ sent => users[skb_[h]] = 1

\* Held by exactly one SKB is what UnsentHasOneOwner counts.
LEMMA PacketCounts == PacketIInv => N!UnsentHasOneOwner
<1> SUFFICES ASSUME PacketIInv, NEW p \in Packets \ sent
             PROVE  users[p] = N!Cardinality({h \in SkbHandles : skb_[h] = p})
  BY DEF N!UnsentHasOneOwner, N!Holders
<1> DEFINE T == {h \in SkbHandles : skb_[h] = p}
<1>1. N!Cardinality(T) = Cardinality(T)
  BY SameCardinality
<1>2. users[p] \in {0, 1}
  BY DEF PacketIInv, N!TypeOK
<1>3. CASE users[p] = 0
  <2>1. T = {}
    BY <1>3 DEF PacketIInv
  <2> QED BY <1>1, <1>3, <2>1, CardinalityAtMostOne
<1>4. CASE users[p] = 1
  <2>1. (\E x \in T : TRUE) /\ (\A x, y \in T : x = y)
    BY <1>4 DEF PacketIInv
  <2>2. Cardinality(T) = 1
    BY <2>1, CardinalityAtMostOne
  <2> QED BY <1>1, <1>4, <2>2
<1> QED BY <1>2, <1>3, <1>4

\* No SKB lives and every packet is fresh.
LEMMA PacketInit == N!Init => PacketIInv
BY PartsAssumption DEF N!Init, PacketIInv, N!TypeOK, N!ConstantsAssumption

\* Every step of an SKB, of the NetlinkSocket and of the receiver.
LEMMA PacketNext == PacketIInv /\ [N!Next]_(N!vars) => PacketIInv'
<1> SUFFICES ASSUME PacketIInv, [N!Next]_(N!vars) PROVE PacketIInv'
  OBVIOUS
<1>0. nullptr # NoObject /\ nullptr \notin Packets /\ NoObject \notin Packets
  BY PartsAssumption DEF N!ConstantsAssumption
<1>1. ASSUME NEW p
      PROVE  /\ N!Consumed(p) \in [Packets -> 0 .. 1]
             /\ \A q \in Packets : q # p => N!Consumed(p)[q] = users[q]
             /\ p \in Packets => N!Consumed(p)[p] = 0
  BY DEF N!Consumed, PacketIInv, N!TypeOK
<1>2. ASSUME NEW h \in SkbHandles, NEW p \in fresh, ~N!Alive(h), skb_' = [skb_ EXCEPT ![h] = p],
             users' = [users EXCEPT ![p] = 1], fresh' = fresh \ {p}, UNCHANGED <<netlink, queued, sent>>
      PROVE  PacketIInv'
  <2>1. N!TypeOK'
    BY <1>0, <1>2 DEF PacketIInv, N!TypeOK
  <2>2. \A o \in SkbHandles : skb_[o] # p
    BY <1>2 DEF PacketIInv
  <2> QED BY <1>0, <1>2, <2>1, <2>2 DEF PacketIInv, N!TypeOK, N!Alive
<1>3. ASSUME NEW h \in SkbHandles, N!ConstructSkb(h) PROVE PacketIInv'
  <2>1. CASE skb_' = [skb_ EXCEPT ![h] = nullptr] /\ UNCHANGED <<users, fresh>>
    BY <1>0, <1>3, <2>1 DEF N!ConstructSkb, N!Alive, PacketIInv, N!TypeOK
  <2> QED BY <1>2, <1>3, <2>1 DEF N!ConstructSkb
<1>4. ASSUME NEW h \in SkbHandles, N!DestructSkb(h) PROVE PacketIInv'
  <2>1. /\ users' \in [Packets -> 0 .. 1] /\ \A q \in Packets : q # skb_[h] => users'[q] = users[q]
        /\ skb_[h] \in Packets => users'[skb_[h]] = 0
        /\ skb_' = [skb_ EXCEPT ![h] = NoObject] /\ UNCHANGED <<netlink, fresh, queued, sent>>
    BY <1>1, <1>4 DEF N!DestructSkb, N!netVars
  <2> QED BY <1>0, <2>1 DEF PacketIInv, N!TypeOK
<1>5. ASSUME NEW h \in SkbHandles, NEW o \in SkbHandles, N!MoveConstructSkb(h, o) PROVE PacketIInv'
  BY <1>0, <1>5 DEF N!MoveConstructSkb, N!netVars, N!Alive, PacketIInv, N!TypeOK
<1>6. ASSUME NEW h \in SkbHandles, NEW o \in SkbHandles, N!MoveAssignSkb(h, o) PROVE PacketIInv'
  <2>1. /\ users' \in [Packets -> 0 .. 1] /\ \A q \in Packets : q # skb_[h] => users'[q] = users[q]
        /\ skb_[h] \in Packets => users'[skb_[h]] = 0
        /\ skb_' = [skb_ EXCEPT ![h] = skb_[o], ![o] = nullptr] /\ UNCHANGED <<netlink, fresh, queued, sent>>
        /\ h # o
    BY <1>1, <1>6 DEF N!MoveAssignSkb, N!netVars, N!NotSelf
  <2>2. N!TypeOK'
    BY <1>0, <2>1 DEF PacketIInv, N!TypeOK
  <2>3. ASSUME NEW p \in Packets \ sent, users'[p] = 1 PROVE \E g \in SkbHandles : skb_'[g] = p
    <3>1. p # skb_[h] /\ users[p] = 1
      BY <2>1, <2>3
    <3>2. PICK g \in SkbHandles : skb_[g] = p
      BY <3>1 DEF PacketIInv
    <3> QED BY <2>1, <3>1, <3>2, <1>0 DEF PacketIInv, N!TypeOK
  <2> QED BY <1>0, <2>1, <2>2, <2>3 DEF PacketIInv, N!TypeOK
<1>7. ASSUME NEW p \in Packets, N!TypeOK', UNCHANGED <<skb_, fresh>>, sent' = sent \union {p}, queued' \subseteq sent',
             \A q \in Packets : q # p => users'[q] = users[q]
      PROVE  PacketIInv'
  BY <1>7 DEF PacketIInv
<1>8. ASSUME NEW h \in SkbHandles, N!unicast(h) \/ N!broadcast(h), ~N!SendsNull(h) PROVE PacketIInv'
  <2>1. skb_[h] \in Packets /\ UNCHANGED <<netlink, skb_, fresh>> /\ sent' = sent \union {skb_[h]}
    BY <1>8 DEF N!unicast, N!broadcast, N!Reaches
  <2>2. /\ users' \in [Packets -> 0 .. 1] /\ \A q \in Packets : q # skb_[h] => users'[q] = users[q]
        /\ queued' \subseteq sent'
    BY <1>1, <1>8, <2>1 DEF N!unicast, N!broadcast, PacketIInv, N!TypeOK
  <2>3. N!TypeOK'
    BY <2>1, <2>2 DEF PacketIInv, N!TypeOK
  <2> QED BY <1>7, <2>1, <2>2, <2>3
<1>9. ASSUME NEW p \in Packets, N!ReceiverReads(p) PROVE PacketIInv'
  <2>1. /\ users' \in [Packets -> 0 .. 1] /\ \A q \in Packets : q # p => users'[q] = users[q]
        /\ queued' = queued \ {p} /\ UNCHANGED <<netlink, skb_, fresh, sent>> /\ p \in sent
    BY <1>1, <1>9 DEF N!ReceiverReads, PacketIInv
  <2> QED BY <2>1 DEF PacketIInv, N!TypeOK
<1>10. CASE N!Construct \/ N!Destruct \/ UNCHANGED N!vars
  BY <1>10 DEF N!Construct, N!Destruct, N!vars, N!netVars, PacketIInv, N!TypeOK
<1>11. ASSUME NEW h \in SkbHandles, N!SendsNull(h) PROVE PacketIInv'
  BY <1>11 DEF N!SendsNull, N!netVars, PacketIInv, N!TypeOK
<1> QED BY <1>3, <1>4, <1>5, <1>6, <1>8, <1>9, <1>10, <1>11 DEF N!Next

------------------------------------------------------------------------------
(***************************************************************************)
(* BPFProgram, DstEntry and KSet.  RefsBalanced is inductive as it stands; *)
(* for a kset, which the kernel does not refer to by itself, its reference *)
(* count is that of its one owner.                                         *)
(***************************************************************************)

RefIInv ==
  /\ R!TypeOK /\ R!RefsBalanced
  /\ class = "KSet" => kernel = {} /\ \A o \in RefObjects : count[o] <= 1

\* The number of the handles on an object.
LEMMA HandlesOnType ==
  ASSUME NEW o
  PROVE  /\ IsFiniteSet(R!HandlesOn(o)) /\ Cardinality(R!HandlesOn(o)) \in Nat
         /\ IsFiniteSet(R!HandlesOn(o)') /\ Cardinality(R!HandlesOn(o)') \in Nat
<1>1. IsFiniteSet(Handles)
  BY PartsAssumption, SameCardinality DEF R!ConstantsAssumption
<1>2. R!HandlesOn(o) \in SUBSET Handles /\ R!HandlesOn(o)' \in SUBSET Handles
  BY DEF R!HandlesOn
<1> QED BY <1>1, <1>2, FS_Subset, FS_CardinalityType

\* RefsBalanced, on the library's Cardinality.
LEMMA RefsCounted ==
  R!RefsBalanced <=>
    \A o \in RefObjects : count[o] = Cardinality(R!HandlesOn(o)) + (IF o \in kernel THEN 1 ELSE 0)
BY SameCardinality DEF R!RefsBalanced

\* A count of at most one is that of one owner.
LEMMA KSetCounts == RefIInv => R!KSetHasOneOwner
<1> SUFFICES ASSUME RefIInv, class = "KSet", NEW o \in RefObjects PROVE R!Cardinality(R!HandlesOn(o)) <= 1
  BY DEF R!KSetHasOneOwner
<1>1. count[o] = Cardinality(R!HandlesOn(o)) /\ count[o] <= 1
  <2>1. o \notin kernel /\ count[o] <= 1
    BY DEF RefIInv
  <2> QED BY <2>1, RefsCounted, HandlesOnType DEF RefIInv
<1> QED BY <1>1, SameCardinality

\* No handle lives: the counts are those of the kernel.
LEMMA RefInit == R!Init => RefIInv
<1> SUFFICES ASSUME R!Init PROVE RefIInv
  OBVIOUS
<1>1. R!TypeOK
  BY DEF R!Init, R!TypeOK
<1>2. ASSUME NEW o \in RefObjects PROVE Cardinality(R!HandlesOn(o)) = 0
  <2>1. R!HandlesOn(o) = {}
    BY PartsAssumption DEF R!Init, R!HandlesOn, R!ConstantsAssumption
  <2> QED BY <2>1, FS_EmptySet
<1>3. R!RefsBalanced
  BY <1>2, RefsCounted DEF R!Init
<1> QED BY <1>1, <1>3 DEF R!Init, RefIInv

\* Release takes one reference from the object p, when p is one.
LEMMA ReleaseTakesOne ==
  ASSUME R!TypeOK, NEW p
  PROVE  \A o \in RefObjects : R!Release(p)[o] = IF o = p THEN count[o] - 1 ELSE count[o]
BY DEF R!Release

\* Every step of the three classes and of the kernel.
LEMMA RefNext == RefIInv /\ [R!Next]_(R!vars) => RefIInv'
<1> SUFFICES ASSUME RefIInv, [R!Next]_(R!vars) PROVE RefIInv'
  OBVIOUS
<1> DEFINE Own(o) == IF o \in kernel THEN 1 ELSE 0
<1> DEFINE On(o) == R!HandlesOn(o)
<1>0. /\ nullptr # NoObject /\ nullptr \notin RefObjects /\ NoObject \notin RefObjects
      /\ ptr \in [Handles -> RefObjects \union {nullptr, NoObject}] /\ count \in [RefObjects -> Nat]
      /\ kernel \subseteq RefObjects
      /\ class \in {"BPFProgram", "DstEntry", "KSet"} /\ R!TypeOK
      /\ \A o \in RefObjects : count[o] = Cardinality(On(o)) + Own(o)
      /\ \A o \in RefObjects : Own(o) \in Nat
      /\ class = "KSet" => kernel = {} /\ \A o \in RefObjects : count[o] <= 1
  BY PartsAssumption, RefsCounted DEF R!ConstantsAssumption, RefIInv, R!TypeOK
<1>1. ASSUME ptr' \in [Handles -> RefObjects \union {nullptr, NoObject}],
             count' \in [RefObjects -> Int], UNCHANGED <<class, kernel>>,
             \A o \in RefObjects : count'[o] - count[o] = Cardinality(On(o)') - Cardinality(On(o)),
             class = "KSet" => \A o \in RefObjects : count'[o] <= 1
      PROVE  RefIInv'
  <2>1. \A o \in RefObjects : count'[o] = Cardinality(On(o)') + Own(o)
    <3> SUFFICES ASSUME NEW o \in RefObjects PROVE count'[o] = Cardinality(On(o)') + Own(o)
      OBVIOUS
    <3>1. /\ count'[o] - count[o] = Cardinality(On(o)') - Cardinality(On(o))
          /\ count[o] = Cardinality(On(o)) + Own(o) /\ Own(o) \in Nat /\ count'[o] \in Int /\ count[o] \in Int
      BY <1>0, <1>1
    <3>2. Cardinality(On(o)') \in Nat /\ Cardinality(On(o)) \in Nat
      BY HandlesOnType
    <3> HIDE DEF On, Own
    <3> QED BY <3>1, <3>2
  <2>2. \A o \in RefObjects : count'[o] \in Nat
    BY <1>0, <2>1, HandlesOnType
  <2>3. R!TypeOK'
    BY <1>0, <1>1, <2>2 DEF R!TypeOK
  <2>4. R!RefsBalanced'
    BY <1>1, <2>1, SameCardinality DEF R!RefsBalanced
  <2> QED BY <1>0, <1>1, <2>3, <2>4 DEF RefIInv
<1>2. ASSUME NEW h \in Handles, NEW o \in RefObjects, R!Acquire(h, o), class = "KSet" => count[o] = 0 PROVE RefIInv'
  <2>1. /\ ptr[h] = NoObject /\ ptr' = [ptr EXCEPT ![h] = o] /\ count' = [count EXCEPT ![o] = @ + 1]
        /\ UNCHANGED <<class, kernel>>
    BY <1>2 DEF R!Acquire, R!Free
  <2>2. Cardinality(On(o)') = Cardinality(On(o)) + 1
    <3>1. h \notin On(o) /\ On(o)' = On(o) \union {h}
      BY <1>0, <2>1 DEF R!HandlesOn
    <3> QED BY <3>1, HandlesOnType, CardinalityAdd
  <2>3. ASSUME NEW p \in RefObjects, p # o PROVE Cardinality(On(p)') = Cardinality(On(p))
    <3>1. On(p)' = On(p)
      BY <1>0, <2>1, <2>3 DEF R!HandlesOn
    <3> QED BY <3>1
  <2>4. ASSUME NEW p \in RefObjects PROVE count'[p] - count[p] = Cardinality(On(p)') - Cardinality(On(p))
    <3>1. count'[p] = IF p = o THEN count[p] + 1 ELSE count[p]
      BY <1>0, <2>1
    <3>2. Cardinality(On(p)') \in Nat /\ Cardinality(On(p)) \in Nat /\ count[p] \in Nat
      BY <1>0, HandlesOnType
    <3> HIDE DEF On, Own
    <3> QED BY <2>2, <2>3, <3>1, <3>2
  <2> QED BY <1>0, <1>1, <1>2, <2>1, <2>4
<1>3. ASSUME NEW h \in Handles, R!AcquireNothing(h) PROVE RefIInv'
  <2>1. ASSUME NEW p \in RefObjects PROVE On(p)' = On(p)
    BY <1>0, <1>3 DEF R!AcquireNothing, R!Free, R!HandlesOn
  <2>2. \A p \in RefObjects : count'[p] - count[p] = Cardinality(On(p)') - Cardinality(On(p))
    BY <1>0, <1>3, <2>1, HandlesOnType DEF R!AcquireNothing
  <2> QED BY <1>0, <1>1, <1>3, <2>2 DEF R!AcquireNothing
\* A handle lets go of its object: the count of that object, and of no other.
<1>4. ASSUME NEW h \in Handles, count' = R!Release(ptr[h]), UNCHANGED <<class, kernel>>,
             ptr' \in [Handles -> RefObjects \union {nullptr, NoObject}],
             \A o \in RefObjects : Cardinality(On(o)') = IF o = ptr[h] THEN Cardinality(On(o)) - 1 ELSE Cardinality(On(o))
      PROVE  RefIInv'
  <2>1. \A o \in RefObjects : count'[o] = IF o = ptr[h] THEN count[o] - 1 ELSE count[o]
    BY <1>0, <1>4, ReleaseTakesOne
  <2>2. count' \in [RefObjects -> Int] /\ \A o \in RefObjects : count'[o] <= count[o]
    <3>1. count' = [o \in RefObjects |-> count'[o]]
      BY <1>4 DEF R!Release
    <3> QED BY <1>0, <2>1, <3>1
  <2>3. \A o \in RefObjects : count'[o] - count[o] = Cardinality(On(o)') - Cardinality(On(o))
    <3> HIDE DEF On, Own
    <3> SUFFICES ASSUME NEW o \in RefObjects
                 PROVE  count'[o] - count[o] = Cardinality(On(o)') - Cardinality(On(o))
      OBVIOUS
    <3>2. Cardinality(On(o)) \in Nat /\ count[o] \in Nat
      BY <1>0, HandlesOnType DEF On
    <3> QED BY <1>4, <2>1, <3>2
  <2>4. class = "KSet" => \A o \in RefObjects : count'[o] <= 1
    BY <1>0, <2>2
  <2> QED BY <1>1, <1>4, <2>2, <2>3, <2>4
<1>5. ASSUME NEW h \in Handles, R!Destruct(h) PROVE RefIInv'
  <2>1. ptr' = [ptr EXCEPT ![h] = NoObject] /\ count' = R!Release(ptr[h]) /\ UNCHANGED <<class, kernel>>
    BY <1>5 DEF R!Destruct
  <2>2. ASSUME NEW o \in RefObjects
        PROVE  Cardinality(On(o)') = IF o = ptr[h] THEN Cardinality(On(o)) - 1 ELSE Cardinality(On(o))
    <3>1. CASE o = ptr[h]
      <4>1. h \in On(o) /\ On(o)' = On(o) \ {h}
        BY <1>0, <2>1, <3>1 DEF R!HandlesOn
      <4> QED BY <3>1, <4>1, HandlesOnType, CardinalityRemove
    <3>2. CASE o # ptr[h]
      <4>1. On(o)' = On(o)
        BY <1>0, <2>1, <3>2 DEF R!HandlesOn
      <4> QED BY <3>2, <4>1
    <3> QED BY <3>1, <3>2
  <2>3. ptr' \in [Handles -> RefObjects \union {nullptr, NoObject}]
    BY <1>0, <2>1
  <2> QED BY <1>4, <2>1, <2>2, <2>3
\* A move: the object of other goes to h, and the old one of h loses a handle.
<1>6. ASSUME NEW h \in Handles, NEW other_ \in Handles, h # other_,
             ptr' = [ptr EXCEPT ![h] = ptr[other_], ![other_] = nullptr], NEW o \in RefObjects
      PROVE  Cardinality(On(o)') = IF o = ptr[h] THEN Cardinality(On(o)) - 1 ELSE Cardinality(On(o))
  <2>1. CASE o = ptr[h] /\ o = ptr[other_]
    <3>1. other_ \in On(o) /\ On(o)' = On(o) \ {other_}
      BY <1>0, <1>6, <2>1 DEF R!HandlesOn
    <3> QED BY <2>1, <3>1, HandlesOnType, CardinalityRemove
  <2>2. CASE o = ptr[h] /\ o # ptr[other_]
    <3>1. h \in On(o) /\ On(o)' = On(o) \ {h}
      BY <1>0, <1>6, <2>2 DEF R!HandlesOn
    <3> QED BY <2>2, <3>1, HandlesOnType, CardinalityRemove
  <2>3. CASE o # ptr[h] /\ o = ptr[other_]
    <3>1. other_ \in On(o) /\ h \notin On(o) /\ On(o)' = (On(o) \ {other_}) \union {h}
      BY <1>0, <1>6, <2>3 DEF R!HandlesOn
    <3> QED BY <2>3, <3>1, HandlesOnType, CardinalitySwap
  <2>4. CASE o # ptr[h] /\ o # ptr[other_]
    <3>1. On(o)' = On(o)
      BY <1>0, <1>6, <2>4 DEF R!HandlesOn
    <3> QED BY <2>4, <3>1
  <2> QED BY <2>1, <2>2, <2>3, <2>4
<1>7. ASSUME NEW h \in Handles, NEW other_ \in Handles, R!MoveConstruct(h, other_) PROVE RefIInv'
  <2>1. /\ ptr[h] = NoObject /\ h # other_ /\ ptr' = [ptr EXCEPT ![h] = ptr[other_], ![other_] = nullptr]
        /\ UNCHANGED <<class, count, kernel>>
    BY <1>7 DEF R!MoveConstruct, R!Free, R!Alive
  <2>2. \A p \in RefObjects : Cardinality(On(p)') = Cardinality(On(p))
    BY <1>0, <1>6, <2>1
  <2>3. \A p \in RefObjects : count'[p] - count[p] = Cardinality(On(p)') - Cardinality(On(p))
    BY <1>0, <2>1, <2>2, HandlesOnType
  <2> QED BY <1>0, <1>1, <2>1, <2>3
<1>8. ASSUME NEW h \in Handles, NEW other_ \in Handles, R!MoveAssign(h, other_) PROVE RefIInv'
  <2>1. /\ h # other_ /\ ptr' = [ptr EXCEPT ![h] = ptr[other_], ![other_] = nullptr]
        /\ count' = R!Release(ptr[h]) /\ UNCHANGED <<class, kernel>>
    BY <1>8 DEF R!MoveAssign
  <2>2. ptr' \in [Handles -> RefObjects \union {nullptr, NoObject}]
    BY <1>0, <2>1
  <2> QED BY <1>4, <1>6, <2>1, <2>2
<1>9. ASSUME NEW o \in RefObjects, R!KernelLetsGo(o) PROVE RefIInv'
  <2>1. /\ o \in kernel /\ kernel' = kernel \ {o} /\ count' = R!Release(o) /\ UNCHANGED <<class, ptr>>
        /\ class # "KSet"
    BY <1>0, <1>9 DEF R!KernelLetsGo
  <2>2. \A p \in RefObjects : count'[p] = IF p = o THEN count[p] - 1 ELSE count[p]
    BY <1>0, <2>1, ReleaseTakesOne
  <2>3. \A p \in RefObjects : On(p)' = On(p)
    BY <2>1 DEF R!HandlesOn
  <2>4. \A p \in RefObjects : count'[p] = Cardinality(On(p)') + (IF p \in kernel' THEN 1 ELSE 0)
    <3> SUFFICES ASSUME NEW p \in RefObjects
                 PROVE  count'[p] = Cardinality(On(p)') + (IF p \in kernel' THEN 1 ELSE 0)
      OBVIOUS
    <3>1. Cardinality(On(p)) \in Nat /\ Cardinality(On(p)') = Cardinality(On(p))
      BY <2>3, HandlesOnType
    <3>2. p = o => count[p] = Cardinality(On(p)) + 1
      BY <1>0, <2>1
    <3>3. p # o => (p \in kernel' <=> p \in kernel)
      BY <2>1
    <3>4. o \notin kernel'
      BY <2>1
    <3> HIDE DEF On
    <3> QED BY <1>0, <2>2, <3>1, <3>2, <3>3, <3>4
  <2>5. R!RefsBalanced'
    BY <2>4, SameCardinality DEF R!RefsBalanced
  <2>6. count' \in [RefObjects -> Nat]
    <3>1. \A p \in RefObjects : count'[p] \in Nat
      BY <2>4, HandlesOnType
    <3> QED BY <2>1, <3>1 DEF R!Release
  <2> QED BY <1>0, <2>1, <2>5, <2>6 DEF RefIInv, R!TypeOK
<1>10. ASSUME NEW h \in Handles, NEW o \in RefObjects,
              R!program_from_fd(h, o) \/ R!ConstructDst(h, o) \/ R!ConstructKSet(h, o)
       PROVE  RefIInv'
  BY <1>2, <1>3, <1>10 DEF R!program_from_fd, R!ConstructDst, R!ConstructKSet
<1>11. ASSUME NEW h \in Handles, R!DestructProgram(h) \/ R!DestructDst(h) \/ R!DestructKSet(h) PROVE RefIInv'
  BY <1>5, <1>11 DEF R!DestructProgram, R!DestructDst, R!DestructKSet
<1>12. ASSUME NEW h \in Handles, NEW o \in Handles,
              \/ R!MoveConstructProgram(h, o) \/ R!MoveConstructDst(h, o) \/ R!MoveConstructKSet(h, o)
              \/ R!MoveAssignProgram(h, o) \/ R!MoveAssignDst(h, o) \/ R!MoveAssignKSet(h, o)
       PROVE  RefIInv'
  BY <1>7, <1>8, <1>12 DEF R!MoveConstructProgram, R!MoveConstructDst, R!MoveConstructKSet,
     R!MoveAssignProgram, R!MoveAssignDst, R!MoveAssignKSet
<1>13. CASE UNCHANGED R!vars
  <2>1. UNCHANGED <<class, ptr, count, kernel>>
    BY <1>13 DEF R!vars
  <2> QED BY <2>1 DEF RefIInv, R!TypeOK, R!RefsBalanced, R!HandlesOn
<1> QED BY <1>9, <1>10, <1>11, <1>12, <1>13 DEF R!Next

------------------------------------------------------------------------------
(***************************************************************************)
(* DebugFS.  An entry is held by at most one Dentry, before and after its  *)
(* removal, one that was never created by none.  Removal takes an entry    *)
(* with everything below it, so that no entry loses its parent.            *)
(***************************************************************************)

DebugfsIInv ==
  /\ D!TypeOK
  /\ \A h, g \in Handles : dentry_[h] \in Entries /\ dentry_[h] = dentry_[g] => h = g
  /\ \A h \in Handles : dentry_[h] \in Entries => parent[dentry_[h]] # NoObject
  /\ \A e \in Entries : D!Exists(e) =>
       /\ parent[e] = root \/ (D!Exists(parent[e]) /\ parent[e] \notin files)
       /\ \E h \in Handles : dentry_[h] = e

\* Held by exactly one Dentry is what TreeOwned counts.
LEMMA DentryCounts == DebugfsIInv => D!TreeOwned
<1> SUFFICES ASSUME DebugfsIInv, NEW e \in Entries, D!Exists(e)
             PROVE  D!Cardinality({h \in Handles : dentry_[h] = e}) = 1
  BY DEF D!TreeOwned, DebugfsIInv
<1> DEFINE T == {h \in Handles : dentry_[h] = e}
<1>1. D!Cardinality(T) = Cardinality(T)
  BY SameCardinality
<1>2. (\E x \in T : TRUE) /\ (\A x, y \in T : x = y)
  BY DEF DebugfsIInv
<1> QED BY <1>1, <1>2, CardinalityAtMostOne

\* An entry lies below itself, and below what its parent lies below.
LEMMA BelowUp ==
  ASSUME NEW e \in Entries, NEW d
  PROVE  /\ D!Below(e, e)
         /\ parent[e] \in Entries /\ D!Below(parent[e], d) => D!Below(e, d)
<1>1. D!Below(e, e)
  BY DEF D!Below
<1>2. ASSUME parent[e] \in Entries, D!Below(parent[e], d) PROVE D!Below(e, d)
  BY <1>2, Zenon DEF D!Below
<1> QED BY <1>1, <1>2

\* No Dentry lives and there is no entry.
LEMMA DebugfsInit == D!Init => DebugfsIInv
BY PartsAssumption DEF D!Init, DebugfsIInv, D!TypeOK, D!ConstantsAssumption, D!Exists

\* What removal of d does: the entry d and those below it are gone, the parents
\* of those that stay, stay.
LEMMA RemoveKeepsParents ==
  ASSUME DebugfsIInv, NEW d, D!Remove(d)
  PROVE  /\ parent' \in [Entries -> Entries \union {root, nullptr, NoObject}] /\ crashed' \in BOOLEAN
         /\ UNCHANGED files
         /\ \A e \in Entries : parent'[e] = NoObject <=> parent[e] = NoObject
         /\ \A e \in Entries : D!Exists(e)' => D!Exists(e) /\ e # d /\ parent'[e] = parent[e]
         /\ \A e \in Entries : D!Exists(e) /\ ~D!Exists(e)' => d \in Entries /\ D!Below(e, d)
         /\ \A e \in Entries : D!Exists(e)' => parent[e] = root \/ (D!Exists(parent[e])' /\ parent[e] \notin files)
<1>0. nullptr # NoObject /\ root \notin Entries \union {nullptr, NoObject} /\ nullptr \notin Entries /\ NoObject \notin Entries
  BY PartsAssumption DEF D!ConstantsAssumption
<1>1. /\ UNCHANGED files /\ crashed' = (d \in Entries /\ ~D!Exists(d))
      /\ parent' = [e \in Entries |-> IF d \in Entries /\ D!Exists(e) /\ D!Below(e, d) THEN nullptr ELSE parent[e]]
  BY DEF D!Remove
<1>2. parent' \in [Entries -> Entries \union {root, nullptr, NoObject}] /\ crashed' \in BOOLEAN
  BY <1>1 DEF DebugfsIInv, D!TypeOK
<1>3. ASSUME NEW e \in Entries
      PROVE  /\ d \in Entries /\ D!Exists(e) /\ D!Below(e, d) => parent'[e] = nullptr
             /\ ~(d \in Entries /\ D!Exists(e) /\ D!Below(e, d)) => parent'[e] = parent[e]
  BY <1>1
<1>4. ASSUME NEW e \in Entries PROVE parent'[e] = NoObject <=> parent[e] = NoObject
  BY <1>0, <1>3 DEF D!Exists
<1>5. ASSUME NEW e \in Entries, D!Exists(e)'
      PROVE  D!Exists(e) /\ e # d /\ parent'[e] = parent[e] /\ ~(d \in Entries /\ D!Below(e, d))
  <2>1. parent'[e] # nullptr /\ parent'[e] # NoObject
    BY <1>5 DEF D!Exists
  <2>2. parent'[e] = parent[e] /\ ~(d \in Entries /\ D!Exists(e) /\ D!Below(e, d))
    BY <1>3, <2>1
  <2>3. D!Exists(e)
    BY <2>1, <2>2 DEF D!Exists
  <2> QED BY <2>2, <2>3, BelowUp
<1>6. ASSUME NEW e \in Entries, D!Exists(e), ~D!Exists(e)' PROVE d \in Entries /\ D!Below(e, d)
  BY <1>3, <1>6 DEF D!Exists
<1>7. ASSUME NEW e \in Entries, D!Exists(e)'
      PROVE  parent[e] = root \/ (D!Exists(parent[e])' /\ parent[e] \notin files)
  <2>1. CASE parent[e] # root
    <3>1. D!Exists(e) /\ ~(d \in Entries /\ D!Below(e, d))
      BY <1>5, <1>7
    <3>2. D!Exists(parent[e]) /\ parent[e] \notin files /\ parent[e] \in Entries
      BY <2>1, <3>1 DEF DebugfsIInv, D!TypeOK, D!Exists
    <3>3. ~(d \in Entries /\ D!Below(parent[e], d))
      BY <3>1, <3>2, BelowUp
    <3>4. parent'[parent[e]] = parent[parent[e]]
      BY <1>3, <3>2, <3>3
    <3>5. D!Exists(parent[e])'
      <4>1. parent'[parent[e]'] \notin {NoObject, nullptr}
        BY <1>5, <1>7, <3>2, <3>4 DEF D!Exists
      <4> QED BY <4>1 DEF D!Exists
    <3> QED BY <3>2, <3>5
  <2> QED BY <2>1
<1> QED BY <1>1, <1>2, <1>4, <1>5, <1>6, <1>7

\* Every step of a Dentry.
LEMMA DebugfsNext == DebugfsIInv /\ [D!Next]_(D!vars) => DebugfsIInv'
<1> SUFFICES ASSUME DebugfsIInv, [D!Next]_(D!vars) PROVE DebugfsIInv'
  OBVIOUS
<1>0. /\ nullptr # NoObject /\ root \notin Entries \union {nullptr, NoObject}
      /\ nullptr \notin Entries /\ NoObject \notin Entries /\ ERR \notin Entries \union {nullptr, NoObject}
  BY PartsAssumption DEF D!ConstantsAssumption
\* Steps that leave the tree as it is and give no entry to another Dentry.
<1>1. ASSUME NEW h \in Handles, NEW v \in {ERR, nullptr}, dentry_[h] = NoObject, crashed' \in BOOLEAN,
             dentry_' = [dentry_ EXCEPT ![h] = v], UNCHANGED <<parent, files>>
      PROVE  DebugfsIInv'
  BY <1>0, <1>1 DEF DebugfsIInv, D!TypeOK, D!Exists
<1>2. ASSUME NEW h \in Handles, NEW p \in Handles, NEW e \in Entries, NEW isFile \in BOOLEAN, dentry_[h] = NoObject,
             dentry_[p] # NoObject, dentry_[p] \notin files, dentry_[p] # ERR, ~D!Dangling(p), parent[e] = NoObject,
             dentry_' = [dentry_ EXCEPT ![h] = e],
             parent' = [parent EXCEPT ![e] = IF dentry_[p] = nullptr THEN root ELSE dentry_[p]],
             files' = IF isFile THEN files \union {e} ELSE files, crashed' \in BOOLEAN
      PROVE  DebugfsIInv'
  <2>1. PICK q \in Entries \union {root} : q = IF dentry_[p] = nullptr THEN root ELSE dentry_[p]
    BY <1>2 DEF DebugfsIInv, D!TypeOK
  <2>2. q = root \/ (q \in Entries /\ q # e /\ q \notin files /\ D!Exists(q))
    BY <1>0, <1>2, <2>1 DEF D!Dangling, D!Exists
  <2>3. parent' = [parent EXCEPT ![e] = q] /\ files' \subseteq files \union {e}
    BY <1>2, <2>1
  <2>4. D!TypeOK'
    BY <1>2, <2>3 DEF DebugfsIInv, D!TypeOK
  <2>5. ASSUME NEW x \in Entries, x # e, D!Exists(x)'
        PROVE  /\ parent'[x] = parent[x] /\ D!Exists(x)
               /\ parent[x] = root \/ (parent[x] \in Entries /\ parent[x] # e /\ parent[x] \notin files /\ D!Exists(parent[x]))
    <3>1. parent'[x] = parent[x] /\ D!Exists(x)
      BY <2>3, <2>5 DEF D!Exists, DebugfsIInv, D!TypeOK
    <3>2. parent[x] = root \/ (D!Exists(parent[x]) /\ parent[x] \notin files)
      BY <3>1 DEF DebugfsIInv
    <3>3. parent[x] \in Entries \union {root}
      BY <3>1 DEF DebugfsIInv, D!TypeOK, D!Exists
    <3> QED BY <1>2, <3>1, <3>2, <3>3 DEF D!Exists
  <2>6. ASSUME NEW x \in Entries, D!Exists(x)'
        PROVE  parent'[x] = root \/ (D!Exists(parent[x])' /\ parent'[x] \notin files')
    <3>1. PICK y \in Entries \union {root} : y = parent'[x]
      BY <2>4, <2>6 DEF D!TypeOK, D!Exists
    <3>2. y = root \/ (y \in Entries /\ y # e /\ y \notin files /\ D!Exists(y))
      <4>1. CASE x = e
        BY <2>2, <2>3, <3>1, <4>1 DEF DebugfsIInv, D!TypeOK
      <4>2. CASE x # e
        BY <2>5, <2>6, <3>1, <4>2
      <4> QED BY <4>1, <4>2
    <3>3. y # root => parent'[y] = parent[y] /\ y \notin files'
      BY <2>3, <3>2 DEF DebugfsIInv, D!TypeOK
    <3> QED BY <3>1, <3>2, <3>3 DEF D!Exists
  <2>7. ASSUME NEW x \in Entries, D!Exists(x)' PROVE \E g \in Handles : dentry_'[g] = x
    <3>1. CASE x = e
      BY <1>2, <3>1 DEF DebugfsIInv, D!TypeOK
    <3>2. CASE x # e
      <4>1. PICK g \in Handles : dentry_[g] = x
        BY <2>5, <2>7, <3>2 DEF DebugfsIInv
      <4> QED BY <1>0, <1>2, <4>1 DEF DebugfsIInv, D!TypeOK
    <3> QED BY <3>1, <3>2
  <2>8. \A g \in Handles : dentry_[g] # e
    BY <1>2 DEF DebugfsIInv
  <2>9. \A g, f \in Handles : dentry_'[g] \in Entries /\ dentry_'[g] = dentry_'[f] => g = f
    BY <1>2, <2>8 DEF DebugfsIInv, D!TypeOK
  <2>10. \A g \in Handles : dentry_'[g] \in Entries => parent'[dentry_'[g]] # NoObject
    BY <1>0, <1>2, <2>2, <2>3, <2>8 DEF DebugfsIInv, D!TypeOK
  <2> QED BY <2>4, <2>6, <2>7, <2>9, <2>10 DEF DebugfsIInv
<1>3. ASSUME NEW h \in Handles, NEW p \in Handles, NEW isFile \in BOOLEAN, D!Create(h, p, isFile) PROVE DebugfsIInv'
  <2>1. dentry_[h] = NoObject /\ dentry_[p] # NoObject /\ dentry_[p] \notin files /\ crashed' \in BOOLEAN
    BY <1>3 DEF D!Create, D!Alive, D!Dangling
  <2>2. CASE dentry_' = [dentry_ EXCEPT ![h] = ERR] /\ UNCHANGED <<parent, files>>
    BY <1>1, <2>1, <2>2
  <2>3. CASE /\ dentry_[p] # ERR /\ ~D!Dangling(p)
             /\ \E e \in Entries :
                  /\ parent[e] = NoObject
                  /\ dentry_' = [dentry_ EXCEPT ![h] = e]
                  /\ parent' = [parent EXCEPT ![e] = IF dentry_[p] = nullptr THEN root ELSE dentry_[p]]
                  /\ files' = IF isFile THEN files \union {e} ELSE files
    BY <1>2, <2>1, <2>3
  <2> QED BY <1>3, <2>2, <2>3 DEF D!Create
<1>4. ASSUME NEW h \in Handles, NEW g \in Handles, h # g, D!MoveConstruct(h, g) PROVE DebugfsIInv'
  BY <1>0, <1>4 DEF D!MoveConstruct, D!Alive, DebugfsIInv, D!TypeOK, D!Exists
\* The end of what h held: an entry that stays is not the one, and has its Dentry.
<1>5. ASSUME NEW h \in Handles, D!Remove(dentry_[h]),
             dentry_' \in [Handles -> Entries \union {ERR, nullptr, NoObject}],
             \A f, g \in Handles : dentry_'[f] \in Entries /\ dentry_'[f] = dentry_'[g] => f = g,
             \A g \in Handles : dentry_'[g] \in Entries => \E f \in Handles : dentry_'[g] = dentry_[f],
             \A g \in Handles : dentry_[g] # dentry_[h] /\ dentry_[g] \in Entries =>
                                  \E f \in Handles : dentry_'[f] = dentry_[g]
      PROVE  DebugfsIInv'
  <2>1. D!TypeOK'
    BY <1>5, RemoveKeepsParents DEF DebugfsIInv, D!TypeOK
  <2>2. \A g \in Handles : dentry_'[g] \in Entries => parent'[dentry_'[g]] # NoObject
    BY <1>5, RemoveKeepsParents DEF DebugfsIInv
  <2>3. ASSUME NEW e \in Entries, D!Exists(e)' PROVE \E f \in Handles : dentry_'[f] = e
    <3>1. D!Exists(e) /\ e # dentry_[h]
      BY <1>5, <2>3, RemoveKeepsParents
    <3>2. PICK g \in Handles : dentry_[g] = e
      BY <3>1 DEF DebugfsIInv
    <3> QED BY <1>5, <3>1, <3>2
  <2>4. ASSUME NEW e \in Entries, D!Exists(e)'
        PROVE  parent'[e] = root \/ (D!Exists(parent[e])' /\ parent'[e] \notin files')
    BY <1>5, <2>4, RemoveKeepsParents
  <2> QED BY <1>5, <2>1, <2>2, <2>3, <2>4 DEF DebugfsIInv
<1>6. ASSUME NEW h \in Handles, D!Destruct(h) PROVE DebugfsIInv'
  <2>1. D!Remove(dentry_[h]) /\ dentry_' = [dentry_ EXCEPT ![h] = NoObject]
    BY <1>6 DEF D!Destruct
  <2>2. /\ dentry_' \in [Handles -> Entries \union {ERR, nullptr, NoObject}]
        /\ \A f, g \in Handles : dentry_'[f] \in Entries /\ dentry_'[f] = dentry_'[g] => f = g
    BY <1>0, <2>1 DEF DebugfsIInv, D!TypeOK
  <2>3. \A g \in Handles : dentry_'[g] \in Entries => \E f \in Handles : dentry_'[g] = dentry_[f]
    BY <1>0, <2>1 DEF DebugfsIInv, D!TypeOK
  <2>4. \A g \in Handles : dentry_[g] # dentry_[h] /\ dentry_[g] \in Entries =>
                             \E f \in Handles : dentry_'[f] = dentry_[g]
    BY <2>1 DEF DebugfsIInv, D!TypeOK
  <2> QED BY <1>5, <2>1, <2>2, <2>3, <2>4
<1>7. ASSUME NEW h \in Handles, NEW o \in Handles, D!MoveAssign(h, o) PROVE DebugfsIInv'
  <2>1. D!Remove(dentry_[h]) /\ h # o /\ dentry_' = [dentry_ EXCEPT ![h] = dentry_[o], ![o] = nullptr]
    BY <1>7 DEF D!MoveAssign
  <2>2. /\ dentry_' \in [Handles -> Entries \union {ERR, nullptr, NoObject}]
        /\ \A f, g \in Handles : dentry_'[f] \in Entries /\ dentry_'[f] = dentry_'[g] => f = g
    BY <1>0, <2>1 DEF DebugfsIInv, D!TypeOK
  <2>3. \A g \in Handles : dentry_'[g] \in Entries => \E f \in Handles : dentry_'[g] = dentry_[f]
    BY <1>0, <2>1 DEF DebugfsIInv, D!TypeOK
  <2>4. ASSUME NEW g \in Handles, dentry_[g] # dentry_[h], dentry_[g] \in Entries
        PROVE  \E f \in Handles : dentry_'[f] = dentry_[g]
    <3>1. CASE g = o
      BY <2>1, <3>1 DEF DebugfsIInv, D!TypeOK
    <3>2. CASE g # o
      BY <2>1, <2>4, <3>2 DEF DebugfsIInv, D!TypeOK
    <3> QED BY <3>1, <3>2
  <2> QED BY <1>5, <2>1, <2>2, <2>3, <2>4
<1>8. CASE UNCHANGED D!vars
  BY <1>8 DEF D!vars, DebugfsIInv, D!TypeOK, D!Exists
<1>9. ASSUME NEW h \in Handles, NEW p \in Handles, D!create_dir(h, p) \/ D!create_file(h, p) \/ D!MoveConstruct(h, p)
      PROVE  DebugfsIInv'
  BY <1>3, <1>4, <1>9 DEF D!create_dir, D!create_file, D!MoveConstruct, D!Alive
<1>10. ASSUME NEW h \in Handles, D!ConstructNull(h) PROVE DebugfsIInv'
  BY <1>1, <1>10 DEF D!ConstructNull, D!Alive, DebugfsIInv, D!TypeOK
<1> QED BY <1>6, <1>7, <1>8, <1>9, <1>10 DEF D!Next

\* A step that frees the entry of a Dentry and leaves it with that Dentry is
\* the end of another Dentry, of an entry above.
LEMMA DangleStep ==
  ASSUME DebugfsIInv, [D!Next]_(D!vars), NEW h \in Handles, dentry_[h] \in Entries, D!Exists(dentry_[h]),
         dentry_'[h] = dentry_[h], parent'[dentry_[h]] \in {NoObject, nullptr}
  PROVE  \E p \in Handles \ {h} :
           /\ dentry_[p] \in Entries \ {dentry_[h]} /\ D!Below(dentry_[h], dentry_[p])
           /\ dentry_'[p] # dentry_[p]
<1>0. nullptr # NoObject /\ nullptr \notin Entries /\ NoObject \notin Entries /\ root \notin {nullptr, NoObject}
  BY PartsAssumption DEF D!ConstantsAssumption
<1>1. PICK e \in Entries : e = dentry_[h]
  OBVIOUS
<1>2. parent[e] \notin {NoObject, nullptr} /\ parent'[e] \in {NoObject, nullptr}
  BY <1>1 DEF D!Exists
\* Whoever ends without freeing an entry leaves the parent of e.
<1>3. \E p \in Handles : D!Destruct(p) \/ \E o \in Handles : D!MoveAssign(p, o)
  <2>1. parent' # parent
    BY <1>2
  <2>2. ASSUME NEW g \in Handles, NEW p \in Handles, D!create_dir(g, p) \/ D!create_file(g, p) PROVE FALSE
    <3>1. PICK x \in Entries : parent[x] = NoObject /\ parent' = [parent EXCEPT ![x] = IF dentry_[p] = nullptr THEN root ELSE dentry_[p]]
      BY <2>1, <2>2 DEF D!create_dir, D!create_file, D!Create
    <3>2. x # e
      BY <1>2, <3>1
    <3>3. parent'[e] = parent[e]
      BY <3>1, <3>2 DEF DebugfsIInv, D!TypeOK
    <3> QED BY <1>2, <3>3
  <2> QED BY <2>1, <2>2 DEF D!Next, D!vars, D!MoveConstruct, D!ConstructNull
<1>4. PICK p \in Handles : D!Destruct(p) \/ \E o \in Handles : D!MoveAssign(p, o)
  BY <1>3
<1>5. D!Remove(dentry_[p])
  BY <1>4 DEF D!Destruct, D!MoveAssign
<1>6. dentry_[p] \in Entries /\ D!Below(e, dentry_[p])
  <2>1. parent'[e] # parent[e]
    BY <1>2
  <2> QED BY <1>5, <2>1 DEF D!Remove
<1>7. dentry_'[p] # dentry_[p]
  <2>1. CASE D!Destruct(p)
    BY <1>0, <1>6, <2>1 DEF D!Destruct, DebugfsIInv, D!TypeOK
  <2>2. ASSUME NEW o \in Handles, D!MoveAssign(p, o) PROVE dentry_'[p] # dentry_[p]
    <3>1. dentry_'[p] = dentry_[o] /\ p # o
      BY <2>2 DEF D!MoveAssign, DebugfsIInv, D!TypeOK
    <3> QED BY <1>6, <3>1 DEF DebugfsIInv
  <2> QED BY <1>4, <2>1, <2>2
<1>8. p # h
  BY <1>7
<1>9. dentry_[p] # dentry_[h]
  BY <1>8 DEF DebugfsIInv
<1> QED BY <1>1, <1>6, <1>7, <1>8, <1>9

------------------------------------------------------------------------------
(***************************************************************************)
(* NetDevice and XDPAttachment.  A constructor that has attached and not   *)
(* yet taken its reference borrows a NetDevice on the same device: that    *)
(* handle cannot end before dev_get, so its reference keeps the device.  A *)
(* freed device has no reference left.  Programs and attachments of a      *)
(* device that nobody forced are in step, one to one.                      *)
(***************************************************************************)

InStep ==
  /\ \A a, b \in attached : dev_[a] = dev_[b] /\ dev_[a] \notin forced /\ device[dev_[a]] = "registered" => a = b
  /\ \A a \in attached : dev_[a] \notin forced /\ device[dev_[a]] = "registered" => dev_[a] \in installed
  /\ \A d \in installed \ forced : device[d] = "registered" => \E a \in attached : dev_[a] = d

BorrowsInv ==
  /\ \A a \in attached : dev_[a] \in Devices
  /\ \A a \in Attachments : borrows[a] # nullptr => a \in attached /\ handle[borrows[a]] = dev_[a]

\* The types, before it is known that no count goes below zero.
XdpTypes ==
  /\ handle \in [DeviceHandles -> Devices \union {nullptr, NoObject}]
  /\ dev_ \in [Attachments -> Devices \union {nullptr, NoObject}]
  /\ attached \subseteq Attachments
  /\ borrows \in [Attachments -> DeviceHandles \union {nullptr}]
  /\ refs \in [Devices -> Int]
  /\ device \in [Devices -> {"registered", "leaving", "freed"}]
  /\ installed \subseteq Devices /\ forced \subseteq Devices

XdpIInv ==
  /\ X!TypeOK /\ BorrowsInv /\ InStep /\ X!RefsBalanced
  /\ \A d \in Devices : device[d] = "freed" => refs[d] = 0

\* The holders of a device are finite sets.
LEMMA HoldersType ==
  ASSUME X!TypeOK, NEW d
  PROVE  /\ IsFiniteSet(X!HandlesOn(d)) /\ Cardinality(X!HandlesOn(d)) \in Nat
         /\ IsFiniteSet(X!AttachmentsOn(d)) /\ Cardinality(X!AttachmentsOn(d)) \in Nat
<1>1. IsFiniteSet(DeviceHandles) /\ IsFiniteSet(Attachments)
  BY PartsAssumption, SameCardinality DEF X!ConstantsAssumption
<1>2. X!HandlesOn(d) \in SUBSET DeviceHandles /\ X!AttachmentsOn(d) \in SUBSET Attachments
  BY DEF X!HandlesOn, X!AttachmentsOn, X!TypeOK
<1> QED BY <1>1, <1>2, FS_Subset, FS_CardinalityType

\* The same after a step, of which less is known.
LEMMA HoldersTypeNext ==
  ASSUME attached' \subseteq Attachments, NEW d
  PROVE  /\ Cardinality(X!HandlesOn(d)') \in Nat /\ Cardinality(X!AttachmentsOn(d)') \in Nat
<1>1. IsFiniteSet(DeviceHandles) /\ IsFiniteSet(Attachments)
  BY PartsAssumption, SameCardinality DEF X!ConstantsAssumption
<1>2. X!HandlesOn(d)' \in SUBSET DeviceHandles /\ X!AttachmentsOn(d)' \in SUBSET Attachments
  BY DEF X!HandlesOn, X!AttachmentsOn
<1> QED BY <1>1, <1>2, FS_Subset, FS_CardinalityType

\* A device that has a reference is not freed, and a device with a holder has
\* a reference.
LEMMA HeldIsNotFreed ==
  ASSUME XdpIInv, NEW d \in Devices,
         X!HandlesOn(d) # {} \/ (\E a \in attached : dev_[a] = d)
  PROVE  device[d] # "freed"
<1>1. refs[d] = Cardinality(X!HandlesOn(d)) + Cardinality(X!AttachmentsOn(d))
  BY SameCardinality DEF XdpIInv, X!RefsBalanced
<1>2. X!HandlesOn(d) # {} \/ X!AttachmentsOn(d) # {}
  <2>1. ASSUME NEW a \in attached, dev_[a] = d, borrows[a] # nullptr PROVE X!HandlesOn(d) # {}
    <3>1. borrows[a] \in DeviceHandles /\ handle[borrows[a]] = d
      BY <2>1 DEF XdpIInv, BorrowsInv, X!TypeOK
    <3> QED BY <3>1 DEF X!HandlesOn
  <2> QED BY <2>1 DEF X!AttachmentsOn
<1>3. refs[d] # 0
  <2>1. X!TypeOK
    BY DEF XdpIInv
  <2>2. /\ Cardinality(X!HandlesOn(d)) \in Nat /\ Cardinality(X!AttachmentsOn(d)) \in Nat
        /\ X!HandlesOn(d) # {} => Cardinality(X!HandlesOn(d)) # 0
        /\ X!AttachmentsOn(d) # {} => Cardinality(X!AttachmentsOn(d)) # 0
    BY <2>1, HoldersType, FS_EmptySet
  <2> QED BY <1>1, <1>2, <2>2
<1> QED BY <1>3 DEF XdpIInv

\* XdpIInv is strong enough.
LEMMA XdpCounts == XdpIInv => DeviceRefsBalanced
<1> SUFFICES ASSUME XdpIInv PROVE DeviceRefsBalanced
  OBVIOUS
<1>1. X!HeldDeviceStays
  BY HeldIsNotFreed DEF X!HeldDeviceStays
<1>2. X!ProgramHasOneAttachment
  <2> SUFFICES ASSUME NEW d \in Devices \ forced, device[d] = "registered"
               PROVE  X!Cardinality({a \in attached : dev_[a] = d}) = IF d \in installed THEN 1 ELSE 0
    BY DEF X!ProgramHasOneAttachment
  <2> DEFINE T == {a \in attached : dev_[a] = d}
  <2>1. X!Cardinality(T) = Cardinality(T)
    BY SameCardinality
  <2>2. CASE d \in installed
    <3>1. (\E x \in T : TRUE) /\ (\A x, y \in T : x = y)
      BY <2>2 DEF XdpIInv, InStep
    <3>2. Cardinality(T) = 1
      BY <3>1, CardinalityAtMostOne
    <3> QED BY <2>1, <2>2, <3>2
  <2>3. CASE d \notin installed
    <3>1. T = {}
      BY <2>3 DEF XdpIInv, InStep
    <3> QED BY <2>1, <2>3, <3>1, CardinalityAtMostOne
  <2> QED BY <2>2, <2>3
<1> QED BY <1>1, <1>2 DEF XdpIInv, DeviceRefsBalanced

\* No handle and no attachment lives.
LEMMA XdpInit == X!Init => XdpIInv
<1> SUFFICES ASSUME X!Init PROVE XdpIInv
  OBVIOUS
<1>1. X!TypeOK
  BY DEF X!Init, X!TypeOK
<1>2. ASSUME NEW d \in Devices PROVE X!HandlesOn(d) = {} /\ X!AttachmentsOn(d) = {}
  BY PartsAssumption DEF X!Init, X!HandlesOn, X!AttachmentsOn, X!ConstantsAssumption
<1>3. X!RefsBalanced
  BY <1>2, FS_EmptySet, SameCardinality DEF X!Init, X!RefsBalanced
<1>4. BorrowsInv /\ InStep /\ \A d \in Devices : device[d] = "freed" => refs[d] = 0
  BY DEF X!Init, BorrowsInv, InStep
<1> QED BY <1>1, <1>3, <1>4 DEF XdpIInv

\* How the counts of a device may change: what the step adds to the references
\* it adds to the holders.
LEMMA XdpStep ==
  ASSUME XdpIInv, XdpTypes', BorrowsInv', InStep',
         \A d \in Devices :
           refs'[d] - refs[d] = (Cardinality(X!HandlesOn(d)') - Cardinality(X!HandlesOn(d)))
                                + (Cardinality(X!AttachmentsOn(d)') - Cardinality(X!AttachmentsOn(d))),
         \A d \in Devices : device'[d] = "freed" => refs'[d] = 0
  PROVE  XdpIInv'
<1>1. ASSUME NEW d \in Devices
      PROVE  refs'[d] = Cardinality(X!HandlesOn(d)') + Cardinality(X!AttachmentsOn(d)')
  <2> DEFINE a == Cardinality(X!HandlesOn(d)) b == Cardinality(X!AttachmentsOn(d))
             e == Cardinality(X!HandlesOn(d)') f == Cardinality(X!AttachmentsOn(d)')
  <2>1. /\ a \in Nat /\ b \in Nat /\ e \in Nat /\ f \in Nat
        /\ refs[d] \in Nat /\ refs'[d] \in Int
    BY HoldersType, HoldersTypeNext DEF XdpIInv, X!TypeOK, XdpTypes
  <2>2. refs[d] = a + b /\ refs'[d] - refs[d] = (e - a) + (f - b)
    BY SameCardinality DEF XdpIInv, X!RefsBalanced
  <2> HIDE DEF a, b, e, f
  <2>3. refs'[d] = e + f
    BY <2>1, <2>2
  <2> QED BY <2>3 DEF e, f
<1>2. X!RefsBalanced'
  BY <1>1, SameCardinality DEF X!RefsBalanced
<1>3. X!TypeOK'
  <2>1. \A d \in Devices : refs'[d] \in Nat
    BY <1>1, HoldersTypeNext DEF XdpTypes
  <2> QED BY <2>1 DEF XdpTypes, X!TypeOK
<1> QED BY <1>2, <1>3 DEF XdpIInv

\* The steps of a NetDevice.
LEMMA NetDeviceNext ==
  ASSUME XdpIInv, NEW h \in DeviceHandles,
         X!find_device(h) \/ X!DestructDevice(h)
           \/ \E o \in DeviceHandles : X!MoveConstructDevice(h, o) \/ X!MoveAssignDevice(h, o)
  PROVE  XdpIInv'
<1> DEFINE On(d) == X!HandlesOn(d)
<1>0. /\ nullptr # NoObject /\ nullptr \notin Devices /\ NoObject \notin Devices
      /\ nullptr \notin DeviceHandles /\ NoObject \notin DeviceHandles
      /\ handle \in [DeviceHandles -> Devices \union {nullptr, NoObject}] /\ refs \in [Devices -> Nat]
      /\ X!TypeOK
  BY PartsAssumption DEF X!ConstantsAssumption, XdpIInv, X!TypeOK
<1>1. UNCHANGED <<dev_, attached, borrows, device, installed, forced>>
  BY DEF X!find_device, X!DestructDevice, X!MoveConstructDevice, X!MoveAssignDevice, X!attachmentVars, X!kernelVars
<1>2. ASSUME handle' \in [DeviceHandles -> Devices \union {nullptr, NoObject}], refs' \in [Devices -> Int],
             \A a \in Attachments : borrows[a] # nullptr => handle'[borrows[a]] = handle[borrows[a]],
             \A d \in Devices : refs'[d] - refs[d] = Cardinality(On(d)') - Cardinality(On(d)),
             \A d \in Devices : device[d] = "freed" => refs'[d] = 0
      PROVE  XdpIInv'
  <2>1. XdpTypes'
    BY <1>0, <1>1, <1>2 DEF XdpTypes, X!TypeOK
  <2>2. BorrowsInv' /\ InStep'
    BY <1>1, <1>2 DEF XdpIInv, BorrowsInv, InStep
  <2>3. ASSUME NEW d \in Devices
        PROVE  refs'[d] - refs[d] = (Cardinality(X!HandlesOn(d)') - Cardinality(X!HandlesOn(d)))
                                    + (Cardinality(X!AttachmentsOn(d)') - Cardinality(X!AttachmentsOn(d)))
    <3>1. X!AttachmentsOn(d)' = X!AttachmentsOn(d)
      BY <1>1 DEF X!AttachmentsOn
    <3>2. Cardinality(X!AttachmentsOn(d)) \in Nat /\ Cardinality(On(d)) \in Nat /\ Cardinality(On(d)') \in Nat
      <4>1. attached' \subseteq Attachments
        BY <2>1 DEF XdpTypes
      <4> QED BY <1>0, <4>1, HoldersType, HoldersTypeNext
    <3> QED BY <1>2, <3>1, <3>2
  <2>4. \A d \in Devices : device'[d] = "freed" => refs'[d] = 0
    BY <1>1, <1>2
  <2> QED BY <2>1, <2>2, <2>3, <2>4, XdpStep
<1>3. ASSUME NEW a \in Attachments, borrows[a] # nullptr
      PROVE  borrows[a] \in DeviceHandles /\ handle[borrows[a]] \in Devices
  BY <1>3 DEF XdpIInv, BorrowsInv, X!TypeOK
\* A freed device is none that a NetDevice can find or gives up.
<1>4. ASSUME NEW g \in DeviceHandles, handle[g] \in Devices PROVE device[handle[g]] # "freed"
  <2>1. g \in X!HandlesOn(handle[g])
    BY <1>4 DEF X!HandlesOn
  <2> QED BY <1>4, <2>1, HeldIsNotFreed
\* find_device that finds d.
<1>5. ASSUME NEW d \in Devices, handle[h] = NoObject, device[d] = "registered",
             handle' = [handle EXCEPT ![h] = d], refs' = [refs EXCEPT ![d] = @ + 1]
      PROVE  XdpIInv'
  <2>1. Cardinality(On(d)') = Cardinality(On(d)) + 1
    <3>1. h \notin On(d) /\ On(d)' = On(d) \union {h}
      BY <1>0, <1>5 DEF X!HandlesOn
    <3> QED BY <1>0, <3>1, HoldersType, CardinalityAdd
  <2>2. ASSUME NEW p \in Devices PROVE refs'[p] - refs[p] = Cardinality(On(p)') - Cardinality(On(p))
    <3>1. p # d => On(p)' = On(p)
      BY <1>0, <1>5 DEF X!HandlesOn
    <3>2. Cardinality(On(p)) \in Nat /\ refs[p] \in Nat
      BY <1>0, HoldersType
    <3>3. p # d => refs'[p] = refs[p]
      BY <1>0, <1>5
    <3>4. refs'[d] = refs[d] + 1
      BY <1>0, <1>5
    <3> HIDE DEF On
    <3> QED BY <2>1, <3>1, <3>2, <3>3, <3>4
  <2>3. \A p \in Devices : device[p] = "freed" => refs'[p] = 0
    BY <1>0, <1>5 DEF XdpIInv
  <2>4. \A a \in Attachments : borrows[a] # nullptr => handle'[borrows[a]] = handle[borrows[a]]
    BY <1>0, <1>3, <1>5
  <2>5. refs' \in [Devices -> Int] /\ handle' \in [DeviceHandles -> Devices \union {nullptr, NoObject}]
    BY <1>0, <1>5
  <2> QED BY <1>2, <2>2, <2>3, <2>4, <2>5
<1>6. ASSUME handle[h] = NoObject, handle' = [handle EXCEPT ![h] = nullptr], UNCHANGED refs PROVE XdpIInv'
  <2>1. \A p \in Devices : On(p)' = On(p)
    BY <1>0, <1>6 DEF X!HandlesOn
  <2>2. \A p \in Devices : refs'[p] - refs[p] = Cardinality(On(p)') - Cardinality(On(p))
    BY <1>0, <1>6, <2>1, HoldersType
  <2>3. \A a \in Attachments : borrows[a] # nullptr => handle'[borrows[a]] = handle[borrows[a]]
    BY <1>0, <1>3, <1>6
  <2>4. refs' \in [Devices -> Int] /\ handle' \in [DeviceHandles -> Devices \union {nullptr, NoObject}]
    BY <1>0, <1>6
  <2> QED BY <1>2, <1>6, <2>2, <2>3, <2>4 DEF XdpIInv
\* h lets go of its device.
<1>7. ASSUME refs' = X!Put(handle[h]), handle' \in [DeviceHandles -> Devices \union {nullptr, NoObject}],
             \A a \in Attachments : borrows[a] # nullptr => handle'[borrows[a]] = handle[borrows[a]],
             \A d \in Devices : Cardinality(On(d)') = IF d = handle[h] THEN Cardinality(On(d)) - 1 ELSE Cardinality(On(d))
      PROVE  XdpIInv'
  <2>1. /\ \A d \in Devices : refs'[d] = IF d = handle[h] THEN refs[d] - 1 ELSE refs[d]
        /\ refs' \in [Devices -> Int]
    BY <1>0, <1>7 DEF X!Put
  <2>2. ASSUME NEW d \in Devices PROVE refs'[d] - refs[d] = Cardinality(On(d)') - Cardinality(On(d))
    <3>1. Cardinality(On(d)) \in Nat /\ refs[d] \in Nat
      BY <1>0, HoldersType
    <3> HIDE DEF On
    <3> QED BY <1>7, <2>1, <3>1
  <2>3. \A d \in Devices : device[d] = "freed" => refs'[d] = 0
    BY <1>4, <2>1 DEF XdpIInv
  <2> QED BY <1>2, <1>7, <2>1, <2>2, <2>3
<1>8. ASSUME X!DestructDevice(h) PROVE XdpIInv'
  <2>1. /\ refs' = X!Put(handle[h]) /\ handle' = [handle EXCEPT ![h] = NoObject]
        /\ \A a \in Attachments : borrows[a] # h
    BY <1>8 DEF X!DestructDevice, X!Alive
  <2>2. ASSUME NEW d \in Devices
        PROVE  Cardinality(On(d)') = IF d = handle[h] THEN Cardinality(On(d)) - 1 ELSE Cardinality(On(d))
    <3>1. CASE d = handle[h]
      <4>1. h \in On(d) /\ On(d)' = On(d) \ {h}
        BY <1>0, <2>1, <3>1 DEF X!HandlesOn
      <4> QED BY <1>0, <3>1, <4>1, HoldersType, CardinalityRemove
    <3>2. CASE d # handle[h]
      <4>1. On(d)' = On(d)
        BY <1>0, <2>1, <3>2 DEF X!HandlesOn
      <4> QED BY <3>2, <4>1
    <3> QED BY <3>1, <3>2
  <2>3. \A a \in Attachments : borrows[a] # nullptr => handle'[borrows[a]] = handle[borrows[a]]
    BY <1>0, <1>3, <2>1
  <2>4. handle' \in [DeviceHandles -> Devices \union {nullptr, NoObject}]
    BY <1>0, <2>1
  <2> QED BY <1>7, <2>1, <2>2, <2>3, <2>4
<1>9. ASSUME NEW o \in DeviceHandles, h # o, handle' = [handle EXCEPT ![h] = handle[o], ![o] = nullptr], NEW d \in Devices
      PROVE  Cardinality(On(d)') = IF d = handle[h] THEN Cardinality(On(d)) - 1 ELSE Cardinality(On(d))
  <2>1. CASE d = handle[h] /\ d = handle[o]
    <3>1. o \in On(d) /\ On(d)' = On(d) \ {o}
      BY <1>0, <1>9, <2>1 DEF X!HandlesOn
    <3> QED BY <1>0, <2>1, <3>1, HoldersType, CardinalityRemove
  <2>2. CASE d = handle[h] /\ d # handle[o]
    <3>1. h \in On(d) /\ On(d)' = On(d) \ {h}
      BY <1>0, <1>9, <2>2 DEF X!HandlesOn
    <3> QED BY <1>0, <2>2, <3>1, HoldersType, CardinalityRemove
  <2>3. CASE d # handle[h] /\ d = handle[o]
    <3>1. o \in On(d) /\ h \notin On(d) /\ On(d)' = (On(d) \ {o}) \union {h}
      BY <1>0, <1>9, <2>3 DEF X!HandlesOn
    <3> QED BY <1>0, <2>3, <3>1, HoldersType, CardinalitySwap
  <2>4. CASE d # handle[h] /\ d # handle[o]
    <3>1. On(d)' = On(d)
      BY <1>0, <1>9, <2>4 DEF X!HandlesOn
    <3> QED BY <2>4, <3>1
  <2> QED BY <2>1, <2>2, <2>3, <2>4
<1>10. ASSUME NEW o \in DeviceHandles, X!MoveConstructDevice(h, o) PROVE XdpIInv'
  <2>1. /\ handle[h] = NoObject /\ h # o /\ handle' = [handle EXCEPT ![h] = handle[o], ![o] = nullptr] /\ UNCHANGED refs
        /\ \A a \in Attachments : borrows[a] # o
    BY <1>10 DEF X!MoveConstructDevice, X!Alive, X!kernelVars
  <2>2. \A p \in Devices : Cardinality(On(p)') = Cardinality(On(p))
    BY <1>0, <1>9, <2>1
  <2>3. \A p \in Devices : refs'[p] - refs[p] = Cardinality(On(p)') - Cardinality(On(p))
    BY <1>0, <2>1, <2>2, HoldersType
  <2>4. \A a \in Attachments : borrows[a] # nullptr => handle'[borrows[a]] = handle[borrows[a]]
    BY <1>0, <1>3, <2>1
  <2>5. refs' \in [Devices -> Int] /\ handle' \in [DeviceHandles -> Devices \union {nullptr, NoObject}]
    BY <1>0, <2>1
  <2> QED BY <1>2, <2>1, <2>3, <2>4, <2>5 DEF XdpIInv
<1>11. ASSUME NEW o \in DeviceHandles, X!MoveAssignDevice(h, o) PROVE XdpIInv'
  <2>1. /\ h # o /\ handle' = [handle EXCEPT ![h] = handle[o], ![o] = nullptr] /\ refs' = X!Put(handle[h])
        /\ \A a \in Attachments : borrows[a] # o /\ borrows[a] # h
    BY <1>11 DEF X!MoveAssignDevice, X!Alive, X!NotSelf
  <2>2. \A a \in Attachments : borrows[a] # nullptr => handle'[borrows[a]] = handle[borrows[a]]
    BY <1>0, <1>3, <2>1
  <2>3. handle' \in [DeviceHandles -> Devices \union {nullptr, NoObject}]
    BY <1>0, <2>1
  <2> QED BY <1>7, <1>9, <2>1, <2>2, <2>3
<1>12. CASE X!find_device(h)
  BY <1>5, <1>6, <1>12 DEF X!find_device
<1> QED BY <1>8, <1>10, <1>11, <1>12

\* What the steps of an XDPAttachment need to know of the state.
LEMMA AttachmentFacts ==
  ASSUME XdpIInv
  PROVE  /\ nullptr # NoObject /\ nullptr \notin Devices /\ NoObject \notin Devices /\ nullptr \notin DeviceHandles
         /\ X!TypeOK /\ BorrowsInv /\ InStep
         /\ \A a \in Attachments : dev_[a] \notin Devices => a \notin attached /\ borrows[a] = nullptr
         /\ \A a \in attached : device[dev_[a]] # "freed"
<1>1. \A a \in attached : device[dev_[a]] # "freed"
  BY HeldIsNotFreed DEF XdpIInv, BorrowsInv
<1> QED BY <1>1, PartsAssumption DEF X!ConstantsAssumption, XdpIInv, BorrowsInv

\* The handles stand still in the steps of an XDPAttachment.
LEMMA AttachmentStep ==
  ASSUME XdpIInv, UNCHANGED handle, XdpTypes', BorrowsInv', InStep',
         \A d \in Devices :
           refs'[d] - refs[d] = Cardinality(X!AttachmentsOn(d)') - Cardinality(X!AttachmentsOn(d)),
         \A d \in Devices : device'[d] = "freed" => refs'[d] = 0
  PROVE  XdpIInv'
<1>1. ASSUME NEW d \in Devices
      PROVE  refs'[d] - refs[d] = (Cardinality(X!HandlesOn(d)') - Cardinality(X!HandlesOn(d)))
                                  + (Cardinality(X!AttachmentsOn(d)') - Cardinality(X!AttachmentsOn(d)))
  <2>1. X!HandlesOn(d)' = X!HandlesOn(d)
    BY DEF X!HandlesOn
  <2>2. Cardinality(X!AttachmentsOn(d)) \in Nat /\ Cardinality(X!HandlesOn(d)) \in Nat /\ Cardinality(X!AttachmentsOn(d)') \in Nat
    BY HoldersType, HoldersTypeNext DEF XdpIInv, XdpTypes
  <2> QED BY <2>1, <2>2
<1> QED BY <1>1, XdpStep

\* The constructor attaches: no reference yet, the caller's NetDevice is borrowed.
LEMMA AttachNext ==
  ASSUME XdpIInv, NEW a \in Attachments, NEW h \in DeviceHandles, NEW f \in X!Flags, X!Attach(a, h, f)
  PROVE  XdpIInv'
<1>0. /\ nullptr # NoObject /\ nullptr \notin Devices /\ NoObject \notin Devices /\ nullptr \notin DeviceHandles
      /\ X!TypeOK /\ BorrowsInv /\ InStep
      /\ \A b \in Attachments : dev_[b] \notin Devices => b \notin attached /\ borrows[b] = nullptr
  BY AttachmentFacts
<1>1. PICK d \in Devices : d = handle[h]
  BY DEF X!Attach
<1>2. /\ dev_[a] = NoObject /\ dev_' = [dev_ EXCEPT ![a] = d] /\ forced' = IF f = "none" THEN forced \union {d} ELSE forced
      /\ UNCHANGED <<handle, refs, device>> /\ a \notin attached /\ borrows[a] = nullptr
  BY <1>0, <1>1 DEF X!Attach
<1>3. CASE /\ X!CanInstall(d, f) /\ installed' = installed \union {d} /\ attached' = attached \union {a}
           /\ borrows' = [borrows EXCEPT ![a] = h]
  <2>1. XdpTypes'
    BY <1>0, <1>2, <1>3 DEF X!TypeOK, XdpTypes
  <2>2. BorrowsInv'
    BY <1>0, <1>1, <1>2, <1>3 DEF BorrowsInv, X!TypeOK
  <2>3. d \notin forced' => \A b \in attached : dev_[b] # d
    BY <1>0, <1>2, <1>3 DEF X!CanInstall, X!Flags, InStep
  <2>4. InStep'
    <3>1. /\ dev_'[a] = d /\ \A b \in attached : b # a /\ dev_'[b] = dev_[b]
          /\ forced \subseteq forced' /\ device[d] = "registered"
      BY <1>0, <1>2, <1>3 DEF X!TypeOK, X!CanInstall
    <3> QED BY <1>0, <1>2, <1>3, <2>3, <3>1 DEF InStep
  <2>5. \A p \in Devices : X!AttachmentsOn(p)' = X!AttachmentsOn(p)
    BY <1>0, <1>2, <1>3 DEF X!AttachmentsOn, X!TypeOK
  <2>6. \A p \in Devices : refs'[p] - refs[p] = Cardinality(X!AttachmentsOn(p)') - Cardinality(X!AttachmentsOn(p))
    BY <1>0, <1>2, <2>5, HoldersType DEF X!TypeOK
  <2> QED BY <1>2, <2>1, <2>2, <2>4, <2>6, AttachmentStep DEF XdpIInv
<1>4. CASE UNCHANGED <<installed, attached, borrows>>
  <2>1. XdpTypes'
    BY <1>0, <1>2, <1>4 DEF X!TypeOK, XdpTypes
  <2>2. \A b \in attached : b # a /\ dev_'[b] = dev_[b]
    BY <1>0, <1>2 DEF X!TypeOK
  <2>3. BorrowsInv'
    BY <1>0, <1>2, <1>4, <2>2 DEF BorrowsInv
  <2>4. InStep'
    BY <1>0, <1>2, <1>4, <2>2 DEF InStep
  <2>5. \A p \in Devices : X!AttachmentsOn(p)' = X!AttachmentsOn(p)
    BY <1>2, <1>4, <2>2 DEF X!AttachmentsOn
  <2>6. \A p \in Devices : refs'[p] - refs[p] = Cardinality(X!AttachmentsOn(p)') - Cardinality(X!AttachmentsOn(p))
    BY <1>0, <1>2, <2>5, HoldersType DEF X!TypeOK
  <2> QED BY <1>2, <2>1, <2>3, <2>4, <2>6, AttachmentStep DEF XdpIInv
<1> QED BY <1>1, <1>3, <1>4 DEF X!Attach

\* dev_get: the borrowed NetDevice has kept the device.
LEMMA TakeReferenceNext ==
  ASSUME XdpIInv, NEW a \in Attachments, X!TakeReference(a)
  PROVE  XdpIInv'
<1>0. /\ nullptr \notin DeviceHandles /\ X!TypeOK /\ BorrowsInv /\ InStep
      /\ \A b \in attached : device[dev_[b]] # "freed"
  BY AttachmentFacts
<1>1. PICK d \in Devices : a \in attached /\ d = dev_[a]
  BY <1>0 DEF X!TakeReference, BorrowsInv
<1>2. /\ borrows[a] # nullptr /\ refs' = [refs EXCEPT ![d] = @ + 1] /\ borrows' = [borrows EXCEPT ![a] = nullptr]
      /\ UNCHANGED <<handle, dev_, attached, device, installed, forced>>
  BY <1>1 DEF X!TakeReference
<1>3. XdpTypes'
  BY <1>0, <1>2 DEF X!TypeOK, XdpTypes
<1>4. BorrowsInv' /\ InStep'
  BY <1>0, <1>2 DEF BorrowsInv, InStep, X!TypeOK
<1>5. Cardinality(X!AttachmentsOn(d)') = Cardinality(X!AttachmentsOn(d)) + 1
  <2>1. a \notin X!AttachmentsOn(d) /\ X!AttachmentsOn(d)' = X!AttachmentsOn(d) \union {a}
    BY <1>0, <1>1, <1>2 DEF X!AttachmentsOn, X!TypeOK
  <2> QED BY <1>0, <2>1, HoldersType, CardinalityAdd
<1>6. ASSUME NEW p \in Devices
      PROVE  refs'[p] - refs[p] = Cardinality(X!AttachmentsOn(p)') - Cardinality(X!AttachmentsOn(p))
  <2>1. p # d => X!AttachmentsOn(p)' = X!AttachmentsOn(p)
    BY <1>0, <1>1, <1>2 DEF X!AttachmentsOn, X!TypeOK
  <2>2. Cardinality(X!AttachmentsOn(p)) \in Nat /\ refs[p] \in Nat
    BY <1>0, HoldersType DEF X!TypeOK
  <2>3. refs'[d] = refs[d] + 1 /\ (p # d => refs'[p] = refs[p])
    BY <1>0, <1>2 DEF X!TypeOK
  <2> QED BY <1>5, <2>1, <2>2, <2>3
<1>7. \A p \in Devices : device'[p] = "freed" => refs'[p] = 0
  BY <1>0, <1>1, <1>2 DEF XdpIInv, X!TypeOK
<1> QED BY <1>2, <1>3, <1>4, <1>6, <1>7, AttachmentStep

\* Detach gives back the reference of the device that a is attached to.
LEMMA DetachStep ==
  ASSUME XdpIInv, NEW a \in Attachments, X!Detach(a), UNCHANGED <<handle, device>>, XdpTypes', BorrowsInv', InStep',
         \A d \in Devices :
           Cardinality(X!AttachmentsOn(d)') =
             IF d = X!Held(a) THEN Cardinality(X!AttachmentsOn(d)) - 1 ELSE Cardinality(X!AttachmentsOn(d))
  PROVE  XdpIInv'
<1>0. X!TypeOK /\ (\A b \in attached : device[dev_[b]] # "freed") /\ nullptr \notin Devices
  BY AttachmentFacts
<1>1. \A d \in Devices : refs'[d] = IF d = X!Held(a) THEN refs[d] - 1 ELSE refs[d]
  BY DEF X!Detach, X!Put
<1>2. ASSUME NEW d \in Devices
      PROVE  refs'[d] - refs[d] = Cardinality(X!AttachmentsOn(d)') - Cardinality(X!AttachmentsOn(d))
  <2>1. Cardinality(X!AttachmentsOn(d)) \in Nat /\ refs[d] \in Nat
    BY <1>0, HoldersType DEF X!TypeOK
  <2> QED BY <1>1, <2>1
<1>3. ASSUME NEW d \in Devices, device'[d] = "freed" PROVE refs'[d] = 0
  <2>1. d # X!Held(a)
    BY <1>0, <1>3 DEF X!Held
  <2> QED BY <1>1, <1>3, <2>1 DEF XdpIInv
<1> QED BY <1>2, <1>3, AttachmentStep

\* ~XDPAttachment.
LEMMA DestructAttachmentNext ==
  ASSUME XdpIInv, NEW a \in Attachments, X!DestructAttachment(a)
  PROVE  XdpIInv'
<1>0. /\ nullptr # NoObject /\ nullptr \notin Devices /\ NoObject \notin Devices
      /\ X!TypeOK /\ BorrowsInv /\ InStep
  BY AttachmentFacts
<1>1. /\ borrows[a] = nullptr /\ dev_' = [dev_ EXCEPT ![a] = NoObject] /\ attached' = attached \ {a}
      /\ UNCHANGED <<handle, borrows, device, forced>> /\ X!Detach(a)
      /\ installed' = installed \ {d \in Devices : d = X!Held(a) /\ device[d] = "registered"}
      /\ refs' = X!Put(X!Held(a))
  BY DEF X!DestructAttachment, X!Constructed, X!Detach
<1>2. XdpTypes'
  BY <1>0, <1>1 DEF X!TypeOK, XdpTypes, X!Put
<1>3. \A b \in attached' : b \in attached /\ b # a /\ dev_'[b] = dev_[b]
  BY <1>0, <1>1 DEF X!TypeOK
<1>4. BorrowsInv'
  BY <1>0, <1>1, <1>3 DEF BorrowsInv
<1>5. InStep'
  <2>1. ASSUME NEW b \in attached', dev_'[b] \notin forced', device'[dev_'[b]] = "registered" PROVE dev_'[b] \in installed'
    <3>1. dev_[b] \in installed
      BY <1>0, <1>1, <1>3, <2>1 DEF InStep
    <3>2. dev_[b] # X!Held(a)
      BY <1>0, <1>1, <1>3, <2>1 DEF InStep, X!Held, BorrowsInv
    <3> QED BY <1>1, <1>3, <2>1, <3>1, <3>2
  <2>2. ASSUME NEW d \in installed' \ forced', device'[d] = "registered" PROVE \E b \in attached' : dev_'[b] = d
    <3>1. d \in installed \ forced /\ d \in Devices /\ d # X!Held(a) /\ device[d] = "registered"
      BY <1>0, <1>1, <2>2 DEF X!TypeOK
    <3>2. PICK b \in attached : dev_[b] = d
      BY <1>0, <3>1 DEF InStep
    <3>3. b # a
      BY <3>1, <3>2 DEF X!Held
    <3> QED BY <1>1, <1>3, <3>2, <3>3
  <2>3. \A b, c \in attached' : dev_'[b] = dev_'[c] /\ dev_'[b] \notin forced' /\ device'[dev_'[b]] = "registered" => b = c
    BY <1>0, <1>1, <1>3 DEF InStep
  <2> QED BY <2>1, <2>2, <2>3 DEF InStep
<1>6. ASSUME NEW d \in Devices
      PROVE  Cardinality(X!AttachmentsOn(d)') =
               IF d = X!Held(a) THEN Cardinality(X!AttachmentsOn(d)) - 1 ELSE Cardinality(X!AttachmentsOn(d))
  <2>1. X!AttachmentsOn(d)' = X!AttachmentsOn(d) \ {a}
    BY <1>1, <1>3 DEF X!AttachmentsOn
  <2>2. a \in X!AttachmentsOn(d) <=> d = X!Held(a)
    BY <1>0, <1>1 DEF X!AttachmentsOn, X!Held
  <2> QED BY <1>0, <2>1, <2>2, HoldersType, FS_RemoveElement
<1> QED BY <1>1, <1>2, <1>4, <1>5, <1>6, DetachStep

\* A move: what o was attached to is what a is attached to now.
LEMMA TakeOverCounts ==
  ASSUME XdpIInv, NEW a \in Attachments, NEW o \in Attachments, a # o, X!TakeOver(a, o),
         borrows[a] = nullptr, borrows[o] = nullptr, UNCHANGED borrows, NEW d \in Devices
  PROVE  Cardinality(X!AttachmentsOn(d)') =
           IF d = X!Held(a) THEN Cardinality(X!AttachmentsOn(d)) - 1 ELSE Cardinality(X!AttachmentsOn(d))
<1> DEFINE At == X!AttachmentsOn(d)
<1>0. nullptr \notin Devices /\ X!TypeOK
  BY AttachmentFacts
<1>1. /\ dev_' = [dev_ EXCEPT ![a] = dev_[o], ![o] = nullptr]
      /\ attached' = IF o \in attached THEN (attached \ {o}) \union {a} ELSE attached \ {a}
  BY DEF X!TakeOver
<1>2. (a \in At <=> d = X!Held(a)) /\ (o \in At <=> d = X!Held(o)) /\ o \notin At'
  BY <1>0, <1>1 DEF X!AttachmentsOn, X!Held, X!TypeOK
<1>3. \A b : b # a /\ b # o => (b \in At' <=> b \in At)
  BY <1>0, <1>1 DEF X!AttachmentsOn, X!TypeOK
<1>4. a \in At' <=> o \in At
  BY <1>0, <1>1 DEF X!AttachmentsOn, X!TypeOK
<1>5. IsFiniteSet(At)
  BY <1>0, HoldersType
<1> HIDE DEF At
<1>6. CASE a \in At /\ o \in At
  <2>1. At' = At \ {o}
    BY <1>2, <1>3, <1>4, <1>6
  <2>2. Cardinality(At') = Cardinality(At) - 1
    BY <1>5, <1>6, <2>1, CardinalityRemove
  <2> QED BY <1>2, <1>6, <2>2 DEF At
<1>7. CASE a \in At /\ o \notin At
  <2>1. At' = At \ {a}
    BY <1>2, <1>3, <1>4, <1>7
  <2>2. Cardinality(At') = Cardinality(At) - 1
    BY <1>5, <1>7, <2>1, CardinalityRemove
  <2> QED BY <1>2, <1>7, <2>2 DEF At
<1>8. CASE a \notin At /\ o \in At
  <2>1. At' = (At \ {o}) \union {a}
    BY <1>2, <1>3, <1>4, <1>8
  <2>2. Cardinality(At') = Cardinality(At)
    BY <1>5, <1>8, <2>1, CardinalitySwap
  <2> QED BY <1>2, <1>8, <2>2 DEF At
<1>9. CASE a \notin At /\ o \notin At
  <2>1. At' = At
    BY <1>2, <1>3, <1>4, <1>9
  <2> QED BY <1>2, <1>9, <2>1 DEF At
<1> QED BY <1>6, <1>7, <1>8, <1>9

\* Both moves keep programs and attachments in step, after a has detached from
\* its old device.
LEMMA TakeOverInStep ==
  ASSUME XdpIInv, NEW a \in Attachments, NEW o \in Attachments, a # o, X!TakeOver(a, o),
         borrows[a] = nullptr, borrows[o] = nullptr, UNCHANGED <<handle, borrows, device, forced>>,
         installed' = installed \ {d \in Devices : d = X!Held(a) /\ device[d] = "registered"}
  PROVE  BorrowsInv' /\ InStep'
<1>0. nullptr \notin Devices /\ X!TypeOK /\ BorrowsInv /\ InStep
  BY AttachmentFacts
<1>1. /\ dev_'[a] = dev_[o] /\ dev_'[o] = nullptr /\ \A b \in Attachments : b # a /\ b # o => dev_'[b] = dev_[b]
      /\ attached' = IF o \in attached THEN (attached \ {o}) \union {a} ELSE attached \ {a}
  BY <1>0 DEF X!TakeOver, X!TypeOK
<1>2. /\ \A b \in attached' : b \in Attachments /\ b # o /\ (b # a => b \in attached /\ dev_'[b] = dev_[b])
      /\ a \in attached' <=> o \in attached
      /\ \A b \in attached : b # a /\ b # o => b \in attached' /\ dev_'[b] = dev_[b]
  BY <1>0, <1>1 DEF X!TypeOK
<1>3. BorrowsInv'
  BY <1>0, <1>1, <1>2 DEF BorrowsInv, X!TypeOK
<1> DEFINE from(b) == IF b = a THEN o ELSE b
<1>4. \A b \in attached' : from(b) \in attached /\ from(b) # a /\ dev_'[b] = dev_[from(b)]
  BY <1>1, <1>2
<1>5. \A b, c \in attached' : from(b) = from(c) => b = c
  BY <1>2
<1> HIDE DEF from
<1>6. \A b, c \in attached' : dev_'[b] = dev_'[c] /\ dev_'[b] \notin forced' /\ device'[dev_'[b]] = "registered" => b = c
  BY <1>0, <1>4, <1>5 DEF InStep
<1>7. ASSUME NEW b \in attached', dev_'[b] \notin forced', device'[dev_'[b]] = "registered" PROVE dev_'[b] \in installed'
  <2>1. dev_[from(b)] \in installed
    BY <1>0, <1>4, <1>7 DEF InStep
  <2>2. dev_[from(b)] # X!Held(a)
    BY <1>0, <1>4, <1>7 DEF InStep, X!Held, BorrowsInv
  <2> QED BY <1>4, <2>1, <2>2
<1>8. ASSUME NEW d \in installed' \ forced', device'[d] = "registered" PROVE \E b \in attached' : dev_'[b] = d
  <2>1. d \in installed \ forced /\ d \in Devices /\ d # X!Held(a) /\ device[d] = "registered"
    BY <1>0, <1>8 DEF X!TypeOK
  <2>2. PICK b \in attached : dev_[b] = d
    BY <1>0, <2>1 DEF InStep
  <2>3. b # a
    BY <2>1, <2>2 DEF X!Held
  <2>4. CASE b = o
    BY <1>1, <1>2, <2>2, <2>4
  <2>5. CASE b # o
    BY <1>2, <2>2, <2>3, <2>5
  <2> QED BY <2>4, <2>5
<1> QED BY <1>3, <1>6, <1>7, <1>8 DEF InStep

\* The moves of an XDPAttachment.
LEMMA MoveAttachmentNext ==
  ASSUME XdpIInv, NEW a \in Attachments, NEW o \in Attachments,
         X!MoveConstructAttachment(a, o) \/ X!MoveAssignAttachment(a, o)
  PROVE  XdpIInv'
<1>0. /\ nullptr # NoObject /\ nullptr \notin Devices /\ NoObject \notin Devices /\ X!TypeOK
      /\ \A b \in Attachments : dev_[b] \notin Devices => b \notin attached /\ borrows[b] = nullptr
  BY AttachmentFacts
<1>1. /\ a # o /\ borrows[a] = nullptr /\ borrows[o] = nullptr /\ X!TakeOver(a, o)
      /\ UNCHANGED <<handle, borrows, device, forced>>
  BY <1>0 DEF X!MoveConstructAttachment, X!MoveAssignAttachment, X!Constructed, X!NotSelf, X!kernelVars
<1>2. CASE X!MoveAssignAttachment(a, o)
  <2>1. X!Detach(a)
    BY <1>2 DEF X!MoveAssignAttachment
  <2>2. XdpTypes'
    BY <1>0, <1>1, <2>1 DEF X!Detach, X!Put, X!TakeOver, X!TypeOK, XdpTypes
  <2>3. BorrowsInv' /\ InStep'
    BY <1>1, <2>1, TakeOverInStep DEF X!Detach
  <2> QED BY <1>1, <2>1, <2>2, <2>3, TakeOverCounts, DetachStep
<1>3. CASE X!MoveConstructAttachment(a, o)
  <2>1. UNCHANGED <<refs, installed>> /\ X!Held(a) = nullptr
    BY <1>0, <1>3 DEF X!MoveConstructAttachment, X!kernelVars, X!Held
  <2>2. installed' = installed \ {d \in Devices : d = X!Held(a) /\ device[d] = "registered"}
    BY <1>0, <2>1
  <2>3. BorrowsInv' /\ InStep'
    BY <1>1, <2>2, TakeOverInStep
  <2>4. XdpTypes'
    BY <1>0, <1>1, <2>1 DEF X!TakeOver, X!TypeOK, XdpTypes
  <2>5. \A d \in Devices : Cardinality(X!AttachmentsOn(d)') = Cardinality(X!AttachmentsOn(d))
    BY <1>0, <1>1, <2>1, TakeOverCounts
  <2>6. \A d \in Devices : refs'[d] - refs[d] = Cardinality(X!AttachmentsOn(d)') - Cardinality(X!AttachmentsOn(d))
    BY <1>0, <2>1, <2>5, HoldersType DEF X!TypeOK
  <2> QED BY <1>1, <2>1, <2>3, <2>4, <2>6, AttachmentStep DEF XdpIInv
<1> QED BY <1>2, <1>3

\* Every step of a NetDevice, an XDPAttachment or the kernel.
LEMMA XdpNext == XdpIInv /\ [X!Next]_(X!vars) => XdpIInv'
<1> SUFFICES ASSUME XdpIInv, [X!Next]_(X!vars) PROVE XdpIInv'
  OBVIOUS
<1>1. ASSUME UNCHANGED <<handle, dev_, attached, borrows, refs, forced>>,
             device' \in [Devices -> {"registered", "leaving", "freed"}], installed' \subseteq installed,
             \A d \in Devices : device'[d] = "registered" => device[d] = "registered",
             \A d \in Devices : device'[d] = "registered" => (d \in installed <=> d \in installed'),
             \A d \in Devices : device'[d] = "freed" => device[d] = "freed" \/ refs[d] = 0
      PROVE  XdpIInv'
  <2>0. X!TypeOK /\ BorrowsInv /\ InStep
    BY DEF XdpIInv
  <2>1. XdpTypes' /\ BorrowsInv'
    BY <1>1, <2>0 DEF X!TypeOK, XdpTypes, BorrowsInv
  <2>2. InStep'
    BY <1>1, <2>0 DEF InStep, BorrowsInv, X!TypeOK
  <2>3. \A d \in Devices : X!AttachmentsOn(d)' = X!AttachmentsOn(d)
    BY <1>1 DEF X!AttachmentsOn
  <2>4. \A d \in Devices : refs'[d] - refs[d] = Cardinality(X!AttachmentsOn(d)') - Cardinality(X!AttachmentsOn(d))
    BY <1>1, <2>0, <2>3, HoldersType DEF X!TypeOK
  <2> QED BY <1>1, <2>1, <2>2, <2>4, AttachmentStep DEF XdpIInv
<1>2. ASSUME NEW d \in Devices, X!Unregister(d) \/ X!FreeDevice(d) PROVE XdpIInv'
  <2>1. UNCHANGED <<handle, dev_, attached, borrows, refs, forced>> /\ X!TypeOK
    BY <1>2 DEF X!Unregister, X!FreeDevice, X!attachmentVars, XdpIInv
  <2>2. CASE X!Unregister(d)
    BY <1>1, <2>1, <2>2 DEF X!Unregister, X!TypeOK
  <2>3. CASE X!FreeDevice(d)
    BY <1>1, <2>1, <2>3 DEF X!FreeDevice, X!TypeOK
  <2> QED BY <1>2, <2>2, <2>3
<1>3. CASE UNCHANGED X!vars
  BY <1>1, <1>3 DEF X!vars, XdpIInv, X!TypeOK
<1> QED BY <1>2, <1>3, NetDeviceNext, AttachNext, TakeReferenceNext, DestructAttachmentNext, MoveAttachmentNext DEF X!Next

------------------------------------------------------------------------------
(***************************************************************************)
(* SharedPtrs in a chain.  During head = head->next the node that is read  *)
(* is either still to be released or released: if head was its only owner  *)
(* it is then gone, and no later step of that release comes back to it; if *)
(* not, it has an owner left and the release is over.                      *)
(***************************************************************************)

\* The live nodes whose next is n.
Preds(n) == {m \in Nodes : C!Live(m) /\ next[m] = n}

AssignInv ==
  /\ assign = "no" => (alone => readFreed)
  /\ readFreed => alone /\ assign = "no" /\ releasing = nullptr
  /\ assign # "no" =>
       /\ head = nullptr /\ source \in Nodes
       /\ alone => (releasing = source /\ ref_count[source] = 1) \/ ref_count[source] = 0
       /\ ~alone => \/ releasing = source /\ ref_count[source] > 1
                    \/ releasing = nullptr /\ ref_count[source] > 0

ChainIInv == C!TypeOK /\ C!ChainCounts /\ AssignInv

\* Finitely many nodes point to a node.
LEMMA PredsType ==
  ASSUME NEW n
  PROVE  /\ IsFiniteSet(Preds(n)) /\ Cardinality(Preds(n)) \in Nat
         /\ IsFiniteSet(Preds(n)') /\ Cardinality(Preds(n)') \in Nat
<1>1. IsFiniteSet(Nodes)
  BY PartsAssumption, SameCardinality DEF C!ConstantsAssumption
<1>2. Preds(n) \in SUBSET Nodes /\ Preds(n)' \in SUBSET Nodes
  BY DEF Preds
<1> QED BY <1>1, <1>2, FS_Subset, FS_CardinalityType

\* ChainCounts, on the library's Cardinality.
LEMMA ChainCounted ==
  /\ C!ChainCounts <=>
       \A n \in Nodes : ref_count[n] = C!Count(head, n) + C!Count(other, n) + C!Count(releasing, n) + Cardinality(Preds(n))
  /\ C!ChainCounts' <=>
       \A n \in Nodes : ref_count'[n] = C!Count(head', n) + C!Count(other', n) + C!Count(releasing', n) + Cardinality(Preds(n)')
<1>1. C!ChainCounts <=>
       \A n \in Nodes : ref_count[n] = C!Count(head, n) + C!Count(other, n) + C!Count(releasing, n) + Cardinality(Preds(n))
  BY SameCardinality, Zenon DEF C!ChainCounts, Preds
<1>2. C!ChainCounts' <=>
       \A n \in Nodes : ref_count'[n] = C!Count(head', n) + C!Count(other', n) + C!Count(releasing', n) + Cardinality(Preds(n)')
  BY SameCardinality, Zenon DEF C!ChainCounts, Preds, C!Count
<1> QED BY <1>1, <1>2

\* What the counts say of one node.
LEMMA CountFacts ==
  ASSUME ChainIInv, NEW n \in Nodes
  PROVE  /\ ref_count[n] \in Nat /\ Cardinality(Preds(n)) \in Nat
         /\ ref_count[n] = C!Count(head, n) + C!Count(other, n) + C!Count(releasing, n) + Cardinality(Preds(n))
         /\ head = n \/ other = n \/ releasing = n \/ Preds(n) # {} => ref_count[n] > 0
         /\ releasing = n /\ ref_count[n] = 1 => head # n /\ other # n /\ Preds(n) = {}
<1>1. /\ ref_count[n] \in Nat /\ Cardinality(Preds(n)) \in Nat
      /\ ref_count[n] = C!Count(head, n) + C!Count(other, n) + C!Count(releasing, n) + Cardinality(Preds(n))
  BY ChainCounted, PredsType DEF ChainIInv, C!TypeOK
<1>2. Preds(n) # {} <=> Cardinality(Preds(n)) # 0
  BY PredsType, FS_EmptySet
<1> QED BY <1>1, <1>2 DEF C!Count

\* There is no node.
LEMMA ChainInit == C!Init => ChainIInv
<1> SUFFICES ASSUME C!Init PROVE ChainIInv
  OBVIOUS
<1>1. C!TypeOK /\ AssignInv
  BY DEF C!Init, C!TypeOK, AssignInv
<1>2. ASSUME NEW n \in Nodes PROVE Cardinality(Preds(n)) = 0
  <2>1. Preds(n) = {}
    BY DEF C!Init, Preds, C!Live
  <2> QED BY <2>1, FS_EmptySet
<1>3. C!ChainCounts
  BY <1>2, ChainCounted, PartsAssumption DEF C!Init, C!Count, C!ConstantsAssumption
<1> QED BY <1>1, <1>3 DEF ChainIInv

\* ChainIInv is strong enough.
LEMMA ChainHolds == ChainIInv => ChainInv
<1> SUFFICES ASSUME ChainIInv PROVE C!StepNeedsAnotherOwner
  BY DEF ChainIInv, ChainInv
<1>1. readFreed => alone
  BY DEF ChainIInv, AssignInv
<1>2. ASSUME releasing = nullptr, assign # "no" PROVE C!Live(source) <=> ~alone
  <2>1. source \in Nodes /\ nullptr \notin Nodes /\ ref_count[source] \in Nat
    BY <1>2, PartsAssumption DEF ChainIInv, AssignInv, C!TypeOK, C!ConstantsAssumption
  <2>2. CASE alone
    <3>1. ref_count[source] = 0
      BY <1>2, <2>1, <2>2 DEF ChainIInv, AssignInv
    <3> QED BY <2>2, <3>1 DEF C!Live
  <2>3. CASE ~alone
    <3>1. ref_count[source] > 0
      BY <1>2, <2>1, <2>3 DEF ChainIInv, AssignInv
    <3> QED BY <2>3, <3>1 DEF C!Live
  <2> QED BY <2>2, <2>3
<1> QED BY <1>1, <1>2 DEF C!StepNeedsAnotherOwner

\* A new node in front of the others.
LEMMA PushNext ==
  ASSUME ChainIInv, NEW n \in Nodes, C!Push(n)
  PROVE  ChainIInv'
<1>0. nullptr \notin Nodes /\ C!TypeOK /\ AssignInv
  BY PartsAssumption DEF C!ConstantsAssumption, ChainIInv
<1>1. /\ releasing = nullptr /\ assign = "no" /\ ~readFreed /\ ref_count' = [ref_count EXCEPT ![n] = 1]
      /\ next' = [next EXCEPT ![n] = head] /\ head' = n /\ UNCHANGED <<other, releasing, assign, source, alone, readFreed>>
  BY DEF C!Push, C!Idle
<1>2. ref_count[n] = 0 /\ head # n /\ other # n /\ Preds(n) = {}
  BY CountFacts DEF C!Push, C!Live
<1>3. C!TypeOK' /\ AssignInv'
  BY <1>0, <1>1 DEF C!TypeOK, AssignInv
<1>4. ASSUME NEW m \in Nodes
      PROVE  ref_count'[m] = C!Count(head', m) + C!Count(other', m) + C!Count(releasing', m) + Cardinality(Preds(m)')
  <2>1. CASE m = n
    <3>1. Preds(n)' = {}
      BY <1>0, <1>1, <1>2 DEF Preds, C!Live, C!TypeOK
    <3>2. ref_count'[n] = 1 /\ Cardinality(Preds(n)') = 0
      BY <1>0, <1>1, <3>1, FS_EmptySet DEF C!TypeOK
    <3> QED BY <1>0, <1>1, <1>2, <2>1, <3>2 DEF C!Count
  <2>2. CASE m # n
    <3>1. /\ ref_count'[m] = ref_count[m] /\ Cardinality(Preds(m)) \in Nat
          /\ ref_count[m] = C!Count(head, m) + C!Count(other, m) + C!Count(releasing, m) + Cardinality(Preds(m))
      BY <1>0, <1>1, <2>2, CountFacts DEF C!TypeOK
    <3>2. CASE head = m
      <4>1. n \notin Preds(m) /\ Preds(m)' = Preds(m) \union {n}
        BY <1>0, <1>1, <1>2, <2>2, <3>2 DEF Preds, C!Live, C!TypeOK
      <4>2. Cardinality(Preds(m)') = Cardinality(Preds(m)) + 1
        BY <4>1, PredsType, CardinalityAdd
      <4> QED BY <1>1, <2>2, <3>1, <3>2, <4>2 DEF C!Count
    <3>3. CASE head # m
      <4>1. Preds(m)' = Preds(m)
        BY <1>0, <1>1, <1>2, <2>2, <3>3 DEF Preds, C!Live, C!TypeOK
      <4> QED BY <1>1, <2>2, <3>1, <3>3, <4>1 DEF C!Count
    <3> QED BY <3>2, <3>3
  <2> QED BY <2>1, <2>2
<1> QED BY <1>3, <1>4, ChainCounted DEF ChainIInv

\* The steps of head and other that leave the chain as it is.
LEMMA OwnersNext ==
  ASSUME ChainIInv, C!CopyHead \/ C!DestructOther \/ C!DestructHead \/ \E how \in {"copy", "move"} : C!Advance(how)
  PROVE  ChainIInv'
<1>0. nullptr \notin Nodes /\ C!TypeOK /\ AssignInv
  BY PartsAssumption DEF C!ConstantsAssumption, ChainIInv
<1>1. /\ releasing = nullptr /\ assign = "no" /\ ~readFreed /\ UNCHANGED <<next, readFreed>>
  BY DEF C!CopyHead, C!DestructOther, C!DestructHead, C!Advance, C!Idle
<1>2. CASE C!CopyHead
  <2>1. /\ head \in Nodes /\ other = nullptr /\ other' = head /\ ref_count' = [ref_count EXCEPT ![head] = @ + 1]
        /\ UNCHANGED <<head, next, releasing, assign, source, alone, readFreed>>
    BY <1>0, <1>2 DEF C!CopyHead, C!TypeOK
  <2>2. C!TypeOK' /\ AssignInv'
    BY <1>0, <1>1, <2>1 DEF C!TypeOK, AssignInv
  <2>3. ASSUME NEW m \in Nodes
        PROVE  ref_count'[m] = C!Count(head', m) + C!Count(other', m) + C!Count(releasing', m) + Cardinality(Preds(m)')
    <3>1. /\ ref_count[m] \in Nat /\ Cardinality(Preds(m)) \in Nat
          /\ ref_count[m] = C!Count(head, m) + C!Count(other, m) + C!Count(releasing, m) + Cardinality(Preds(m))
      BY CountFacts
    <3>2. ref_count[head] > 0
      BY <2>1, CountFacts
    <3>3. Preds(m)' = Preds(m)
      BY <1>0, <2>1, <3>2 DEF Preds, C!Live, C!TypeOK
    <3>4. (m = head => ref_count'[m] = ref_count[m] + 1) /\ (m # head => ref_count'[m] = ref_count[m])
      BY <1>0, <2>1 DEF C!TypeOK
    <3> QED BY <1>0, <1>1, <2>1, <3>1, <3>3, <3>4 DEF C!Count
  <2> QED BY <2>2, <2>3, ChainCounted DEF ChainIInv
<1>3. CASE C!DestructOther \/ C!DestructHead \/ \E how \in {"copy", "move"} : C!Advance(how)
  <2>1. /\ UNCHANGED <<next, ref_count, readFreed>>
        /\ \/ releasing' = other /\ other' = nullptr /\ UNCHANGED head
           \/ releasing' = head /\ head' = nullptr /\ UNCHANGED other
    BY <1>3 DEF C!DestructOther, C!DestructHead, C!Advance
  <2>2. ASSUME NEW m \in Nodes
        PROVE  ref_count'[m] = C!Count(head', m) + C!Count(other', m) + C!Count(releasing', m) + Cardinality(Preds(m)')
    <3>1. /\ ref_count[m] \in Nat /\ Cardinality(Preds(m)) \in Nat
          /\ ref_count[m] = C!Count(head, m) + C!Count(other, m) + C!Count(releasing, m) + Cardinality(Preds(m))
      BY CountFacts
    <3>2. Preds(m)' = Preds(m)
      BY <2>1 DEF Preds, C!Live
    <3> QED BY <1>0, <1>1, <2>1, <3>1, <3>2 DEF C!Count
  <2>3. CASE C!DestructOther \/ C!DestructHead
    BY <1>0, <1>1, <2>1, <2>2, <2>3, ChainCounted DEF ChainIInv, C!TypeOK, AssignInv, C!DestructOther, C!DestructHead
  <2>4. ASSUME NEW how \in {"copy", "move"}, C!Advance(how) PROVE ChainIInv'
    <3>1. /\ head \in Nodes /\ assign' = how /\ source' = head /\ alone' = (ref_count[head] = 1)
          /\ releasing' = head /\ head' = nullptr /\ UNCHANGED <<other, next, ref_count, readFreed>>
      BY <1>0, <2>4 DEF C!Advance, C!TypeOK
    <3>2. ref_count[head] \in Nat /\ ref_count[head] > 0
      BY <3>1, CountFacts
    <3>3. C!TypeOK'
      BY <1>0, <2>4, <3>1 DEF C!TypeOK
    <3>4. AssignInv'
      <4>1. CASE ref_count[head] = 1
        <5>1. /\ assign' # "no" /\ head' = nullptr /\ source' \in Nodes
              /\ releasing' = source' /\ ref_count'[source'] = 1
          BY <3>1, <4>1
        <5>2. alone'
          BY <3>1, <4>1, Zenon
        <5>3. ~readFreed'
          <6>1. readFreed' = readFreed
            BY <3>1
          <6> QED BY <1>1, <6>1
        <5> QED BY <5>1, <5>2, <5>3 DEF AssignInv
      <4>2. CASE ref_count[head] # 1
        <5>1. /\ assign' # "no" /\ head' = nullptr /\ source' \in Nodes
              /\ releasing' = source' /\ ref_count'[source'] > 1
          BY <3>1, <3>2, <4>2
        <5>2. ~alone'
          BY <3>1, <4>2, Zenon
        <5>3. ~readFreed'
          <6>1. readFreed' = readFreed
            BY <3>1
          <6> QED BY <1>1, <6>1
        <5> QED BY <5>1, <5>2, <5>3 DEF AssignInv
      <4> QED BY <4>1, <4>2
    <3> QED BY <2>2, <3>3, <3>4, ChainCounted DEF ChainIInv
  <2> QED BY <1>3, <2>3, <2>4
<1> QED BY <1>2, <1>3

\* One step of release().
LEMMA ReleaseNext ==
  ASSUME ChainIInv, C!Release
  PROVE  ChainIInv'
<1>0. nullptr \notin Nodes /\ C!TypeOK /\ AssignInv
  BY PartsAssumption DEF C!ConstantsAssumption, ChainIInv
<1>1. PICK r \in Nodes : r = releasing
  BY <1>0 DEF C!Release, C!TypeOK
<1>2. /\ ref_count' = [ref_count EXCEPT ![r] = @ - 1]
      /\ ref_count[r] = 1 => releasing' = next[r]
      /\ ref_count[r] # 1 => releasing' = nullptr
      /\ UNCHANGED <<head, other, next, assign, source, alone, readFreed>>
  BY <1>1 DEF C!Release
<1>3. /\ ref_count[r] \in Nat /\ ref_count[r] > 0
      /\ ref_count[r] = 1 => head # r /\ other # r /\ Preds(r) = {}
  BY <1>1, CountFacts
<1>4. C!TypeOK'
  <2>1. ref_count[r] - 1 \in Nat
    BY <1>3
  <2> QED BY <1>0, <1>2, <2>1 DEF C!TypeOK
<1>5. /\ ref_count'[r] = ref_count[r] - 1
      /\ \A m \in Nodes : m # r => ref_count'[m] = ref_count[m]
  BY <1>0, <1>2 DEF C!TypeOK
<1>6. AssignInv'
  <2>1. CASE assign = "no"
    BY <1>0, <1>1, <1>2, <2>1 DEF AssignInv
  <2>2. CASE assign # "no"
    <3>1. source \in Nodes /\ head = nullptr /\ ~readFreed /\ ref_count[source] \in Nat
      BY <1>0, <1>1, <2>2 DEF AssignInv, C!TypeOK
    <3>2. CASE alone
      <4>1. CASE source = r
        BY <1>0, <1>2, <1>3, <1>5, <2>2, <3>1, <3>2, <4>1 DEF AssignInv
      <4>2. CASE source # r
        BY <1>0, <1>1, <1>2, <1>5, <2>2, <3>1, <3>2, <4>2 DEF AssignInv
      <4> QED BY <4>1, <4>2
    <3>3. CASE ~alone
      BY <1>0, <1>1, <1>2, <1>5, <2>2, <3>1, <3>3 DEF AssignInv
    <3> QED BY <3>2, <3>3
  <2> QED BY <2>1, <2>2
<1>7. ASSUME NEW m \in Nodes
      PROVE  ref_count'[m] = C!Count(head', m) + C!Count(other', m) + C!Count(releasing', m) + Cardinality(Preds(m)')
  <2>1. /\ ref_count[m] \in Nat /\ Cardinality(Preds(m)) \in Nat
        /\ ref_count[m] = C!Count(head, m) + C!Count(other, m) + C!Count(releasing, m) + Cardinality(Preds(m))
    BY CountFacts
  <2>2. CASE ref_count[r] # 1
    <3>1. Preds(m)' = Preds(m)
      <4>1. \A x \in Nodes : ref_count'[x] > 0 <=> ref_count[x] > 0
        BY <1>3, <1>5, <2>2
      <4> QED BY <1>2, <4>1 DEF Preds, C!Live
    <3> QED BY <1>0, <1>1, <1>2, <1>5, <2>1, <2>2, <3>1 DEF C!Count
  <2>3. CASE ref_count[r] = 1
    <3>1. /\ \A x \in Nodes : x # r => (ref_count'[x] > 0 <=> ref_count[x] > 0)
          /\ ~(ref_count'[r] > 0) /\ ref_count[r] > 0
      BY <1>3, <1>5, <2>3
    <3>2. Preds(m)' = Preds(m) \ {r}
      BY <1>2, <3>1 DEF Preds, C!Live
    <3>3. r \in Preds(m) <=> next[r] = m
      BY <3>1 DEF Preds, C!Live
    <3>4. CASE next[r] = m
      <4>1. Cardinality(Preds(m)') = Cardinality(Preds(m)) - 1
        BY <3>2, <3>3, <3>4, PredsType, CardinalityRemove
      <4>2. m # r
        BY <1>3, <2>3, <3>3, <3>4
      <4> QED BY <1>1, <1>2, <1>5, <2>1, <2>3, <3>4, <4>1, <4>2 DEF C!Count
    <3>5. CASE next[r] # m
      <4>1. Preds(m)' = Preds(m)
        BY <3>2, <3>3, <3>5
      <4> QED BY <1>1, <1>2, <1>5, <2>1, <2>3, <3>5, <4>1 DEF C!Count
    <3> QED BY <3>4, <3>5
  <2> QED BY <2>2, <2>3
<1> QED BY <1>4, <1>6, <1>7, ChainCounted DEF ChainIInv

\* The assignment reads the next of source.
LEMMA TakeNext ==
  ASSUME ChainIInv, C!Take
  PROVE  ChainIInv'
<1>0. nullptr \notin Nodes /\ C!TypeOK /\ AssignInv
  BY PartsAssumption DEF C!ConstantsAssumption, ChainIInv
<1>1. /\ releasing = nullptr /\ assign \in {"copy", "move"} /\ head = nullptr /\ source \in Nodes /\ ~readFreed
      /\ assign' = "no" /\ source' = nullptr /\ UNCHANGED <<other, releasing>> /\ alone' = (alone /\ readFreed')
      /\ readFreed' = ~C!Live(source) /\ ref_count[source] \in Nat
  BY <1>0 DEF C!Take, AssignInv, C!TypeOK
<1>2. /\ alone => ref_count[source] = 0
      /\ ~alone => ref_count[source] > 0
  BY <1>0, <1>1 DEF AssignInv
<1>3. AssignInv'
  BY <1>1, <1>2 DEF AssignInv, C!Live
<1>4. CASE ~C!Live(source)
  <2>1. UNCHANGED <<head, next, ref_count>>
    BY <1>1, <1>4 DEF C!Take
  <2>2. C!TypeOK'
    BY <1>0, <1>1, <2>1 DEF C!TypeOK
  <2>3. \A m \in Nodes : Preds(m)' = Preds(m)
    BY <2>1 DEF Preds, C!Live
  <2>4. C!ChainCounts'
    BY <1>1, <2>1, <2>3, ChainCounted DEF ChainIInv
  <2> QED BY <1>3, <2>2, <2>4 DEF ChainIInv
<1>5. CASE C!Live(source)
  <2>1. /\ head' = next[source] /\ ref_count[source] > 0
        /\ next' = IF assign = "move" THEN [next EXCEPT ![source] = nullptr] ELSE next
        /\ ref_count' = [n \in Nodes |-> IF assign = "copy" /\ n = next[source] THEN ref_count[n] + 1 ELSE ref_count[n]]
    BY <1>1, <1>5 DEF C!Take, C!Live
  <2>2. C!TypeOK'
    BY <1>0, <1>1, <2>1 DEF C!TypeOK
  <2>3. \A m \in Nodes : source \in Preds(m) <=> next[source] = m
    BY <1>1, <1>5 DEF Preds
  <2>4. ASSUME NEW m \in Nodes
        PROVE  ref_count'[m] = C!Count(head', m) + C!Count(other', m) + C!Count(releasing', m) + Cardinality(Preds(m)')
    <3>1. /\ ref_count[m] \in Nat /\ Cardinality(Preds(m)) \in Nat
          /\ ref_count[m] = C!Count(head, m) + C!Count(other, m) + C!Count(releasing, m) + Cardinality(Preds(m))
          /\ Preds(m) # {} => ref_count[m] > 0
      BY CountFacts
    <3>2. CASE assign = "copy"
      <4>1. /\ next' = next /\ (m = next[source] => ref_count'[m] = ref_count[m] + 1)
            /\ m # next[source] => ref_count'[m] = ref_count[m]
        BY <2>1, <3>2
      <4>2. \A x \in Nodes : ref_count'[x] > 0 <=> ref_count[x] > 0
        <5> SUFFICES ASSUME NEW x \in Nodes PROVE ref_count'[x] > 0 <=> ref_count[x] > 0
          OBVIOUS
        <5>1. x = next[source] => ref_count[x] > 0
          BY <2>3, CountFacts
        <5>2. ref_count[x] \in Nat /\ ref_count'[x] = IF x = next[source] THEN ref_count[x] + 1 ELSE ref_count[x]
          BY <2>1, <3>2, CountFacts
        <5> QED BY <5>1, <5>2
      <4>3. Preds(m)' = Preds(m)
        BY <4>1, <4>2 DEF Preds, C!Live
      <4> QED BY <1>0, <1>1, <2>1, <3>1, <4>1, <4>3 DEF C!Count
    <3>3. CASE assign = "move"
      <4>1. next' = [next EXCEPT ![source] = nullptr] /\ \A x \in Nodes : ref_count'[x] = ref_count[x]
        BY <2>1, <3>3
      <4>2. Preds(m)' = Preds(m) \ {source}
        BY <1>0, <4>1 DEF Preds, C!Live, C!TypeOK
      <4>3. CASE next[source] = m
        <5>1. Cardinality(Preds(m)') = Cardinality(Preds(m)) - 1
          BY <2>3, <4>2, <4>3, PredsType, CardinalityRemove
        <5> QED BY <1>0, <1>1, <2>1, <3>1, <4>1, <4>3, <5>1 DEF C!Count
      <4>4. CASE next[source] # m
        <5>1. Preds(m)' = Preds(m)
          BY <2>3, <4>2, <4>4
        <5> QED BY <1>0, <1>1, <2>1, <3>1, <4>1, <4>4, <5>1 DEF C!Count
      <4> QED BY <4>3, <4>4
    <3> QED BY <1>1, <3>2, <3>3
  <2> QED BY <1>3, <2>2, <2>4, ChainCounted DEF ChainIInv
<1> QED BY <1>4, <1>5

\* Every step of the chain.
LEMMA ChainNext == ChainIInv /\ [C!Next]_(C!vars) => ChainIInv'
<1> SUFFICES ASSUME ChainIInv, [C!Next]_(C!vars) PROVE ChainIInv'
  OBVIOUS
<1>1. CASE UNCHANGED C!vars
  <2>1. UNCHANGED <<head, other, next, ref_count, releasing, assign, source, alone, readFreed>>
    BY <1>1 DEF C!vars
  <2>2. \A m \in Nodes : Preds(m)' = Preds(m)
    BY <2>1 DEF Preds, C!Live
  <2>3. C!ChainCounts'
    BY <2>1, <2>2, ChainCounted DEF ChainIInv
  <2> QED BY <2>1, <2>3 DEF ChainIInv, C!TypeOK, AssignInv
<1> QED BY <1>1, PushNext, OwnersNext, ReleaseNext, TakeNext DEF C!Next

------------------------------------------------------------------------------
(***************************************************************************)
(* DeviceClass, CharDevice and Device in a scope.  The class in the kernel *)
(* belongs to the one DeviceClass that lives with it set.  Unless it was   *)
(* moved away, a node has its Device behind the DeviceClass in the scope:  *)
(* the Device goes first.  A Device that was created has its node.         *)
(***************************************************************************)

ScopeIInv ==
  /\ V!TypeOK
  /\ \A i, j \in 1 .. Len(scope) : scope[i] = scope[j] => i = j
  /\ \A x \in V!Classes : class_[x] # NoObject => V!Lives(x)
  /\ \A x, y \in V!Classes : class_[x] = "set" /\ class_[y] = "set" => x = y
  /\ "class" \in registered <=> \E x \in V!Classes : class_[x] = "set"
  /\ is_added_ => V!Lives("cdev")
  /\ "cdev" \in registered => is_added_
  /\ "node" \in registered /\ ~moved =>
       /\ class_["class"] = "set"
       /\ \E i, j \in 1 .. Len(scope) : i < j /\ scope[i] = "class" /\ scope[j] = "device"
  /\ device_ = "set" => "node" \in registered
  /\ V!Lives("device") => device_ # NoObject
  /\ scopePhase = "oops" => device_ = ERR \/ (moved /\ class_["class"] = ERR)
  /\ scopePhase = "leaving" => scope # <<>>

\* ScopeIInv is strong enough.
LEMMA ScopeHolds == ScopeIInv => ScopeUnwinds
<1> SUFFICES ASSUME ScopeIInv PROVE ScopeUnwinds
  OBVIOUS
<1>1. scope = <<>> => "class" \notin registered /\ "cdev" \notin registered
  <2> SUFFICES ASSUME scope = <<>> PROVE "class" \notin registered /\ "cdev" \notin registered
    OBVIOUS
  <2>1. \A x : ~V!Lives(x)
    BY DEF V!Lives, V!Contains
  <2>2. \A x \in V!Classes : class_[x] # "set"
    BY <2>1, PartsAssumption DEF ScopeIInv, V!ConstantsAssumption
  <2> QED BY <2>1, <2>2 DEF ScopeIInv
<1>2. ASSUME "node" \in registered, ~moved PROVE "class" \in registered /\ V!Lives("device")
  <2>1. class_["class"] = "set" /\ \E j \in 1 .. Len(scope) : scope[j] = "device"
    BY <1>2 DEF ScopeIInv
  <2> QED BY <2>1 DEF ScopeIInv, V!Classes, V!Lives, V!Contains
<1> QED BY <1>1, <1>2 DEF ScopeIInv, ScopeUnwinds, V!ScopeUnwinds

\* The scope is empty and nothing is registered.
LEMMA ScopeInit == V!Init => ScopeIInv
<1> SUFFICES ASSUME V!Init PROVE ScopeIInv
  OBVIOUS
<1>1. scope = <<>> /\ Len(scope) = 0 /\ class_ = [x \in V!Classes |-> NoObject] /\ registered = {} /\ scopePhase = "running"
  BY DEF V!Init
<1>2. V!TypeOK
  <2>1. scope \in Seq(V!Objects) /\ class_ \in [V!Classes -> {"set", ERR, nullptr, NoObject}]
    BY <1>1
  <2>2. device_ \in {"set", ERR, NoObject} /\ registered \subseteq {"class", "cdev", "node"}
    BY DEF V!Init
  <2>3. is_added_ \in BOOLEAN /\ moved \in BOOLEAN /\ scopePhase \in {"running", "leaving", "oops"}
    BY DEF V!Init
  <2> QED BY <2>1, <2>2, <2>3 DEF V!TypeOK
<1>3. \A x : ~V!Lives(x)
  BY <1>1 DEF V!Lives, V!Contains
<1> QED BY <1>1, <1>2, <1>3, PartsAssumption DEF V!Init, ScopeIInv, V!ConstantsAssumption

\* A new object is the last of the scope, and was not in it.
LEMMA NewObjectStep ==
  ASSUME ScopeIInv, NEW x \in V!Objects, V!NewObject(x)
  PROVE  /\ scope' \in Seq(V!Objects) /\ Len(scope') = Len(scope) + 1 /\ Len(scope) \in Nat
         /\ \A i \in 1 .. Len(scope) : scope'[i] = scope[i]
         /\ scope'[Len(scope) + 1] = x
         /\ \A i, j \in 1 .. Len(scope') : scope'[i] = scope'[j] => i = j
         /\ \A y : V!Lives(y)' <=> V!Lives(y) \/ y = x
         /\ ~V!Lives(x)
<1>1. scope \in Seq(V!Objects) /\ scope' = Append(scope, x) /\ ~V!Lives(x)
  BY DEF ScopeIInv, V!TypeOK, V!NewObject
<1>2. /\ scope' \in Seq(V!Objects) /\ Len(scope') = Len(scope) + 1 /\ Len(scope) \in Nat
      /\ (\A i \in 1 .. Len(scope) : scope'[i] = scope[i]) /\ scope'[Len(scope) + 1] = x
  BY <1>1
<1>3. \A i \in 1 .. Len(scope) : scope[i] # x
  BY <1>1 DEF V!Lives, V!Contains
<1>4. \A i, j \in 1 .. Len(scope') : scope'[i] = scope'[j] => i = j
  <2> SUFFICES ASSUME NEW i \in 1 .. Len(scope'), NEW j \in 1 .. Len(scope'), scope'[i] = scope'[j] PROVE i = j
    OBVIOUS
  <2>1. (i \in 1 .. Len(scope) \/ i = Len(scope) + 1) /\ (j \in 1 .. Len(scope) \/ j = Len(scope) + 1)
    BY <1>2
  <2> QED BY <1>2, <1>3, <2>1 DEF ScopeIInv
<1>5. ASSUME NEW y PROVE V!Lives(y)' <=> V!Lives(y) \/ y = x
  <2>1. V!Lives(y)' <=> \E i \in 1 .. Len(scope) + 1 : scope'[i] = y
    BY <1>2 DEF V!Lives, V!Contains
  <2>2. \A i : i \in 1 .. Len(scope) + 1 <=> i \in 1 .. Len(scope) \/ i = Len(scope) + 1
    BY <1>2
  <2> QED BY <1>2, <2>1, <2>2 DEF V!Lives, V!Contains
<1> QED BY <1>1, <1>2, <1>4, <1>5

\* The youngest object ends: it is not in the scope any more.
LEMMA EndedStep ==
  ASSUME ScopeIInv, NEW x \in V!Objects, V!Youngest = x, scope # <<>>, V!Ended
  PROVE  /\ scope' \in Seq(V!Objects) /\ Len(scope') = Len(scope) - 1 /\ Len(scope) \in Nat
         /\ \A i \in 1 .. Len(scope') : i \in 1 .. Len(scope) /\ scope'[i] = scope[i]
         /\ \A i \in 1 .. Len(scope) : scope[i] # x => i \in 1 .. Len(scope')
         /\ \A y : V!Lives(y)' <=> V!Lives(y) /\ y # x
         /\ \A i \in 1 .. Len(scope) : scope[i] = x => i = Len(scope)
<1>1. scope \in Seq(V!Objects) /\ scope' = SubSeq(scope, 1, Len(scope) - 1) /\ scope[Len(scope)] = x
  BY DEF ScopeIInv, V!TypeOK, V!Ended, V!Front, V!Youngest, V!Last
<1>2. Len(scope) \in Nat /\ Len(scope) > 0
  BY <1>1
<1>3. /\ scope' \in Seq(V!Objects) /\ Len(scope') = Len(scope) - 1
      /\ \A i \in 1 .. Len(scope') : i \in 1 .. Len(scope) /\ scope'[i] = scope[i]
  <2> DEFINE n == Len(scope) - 1
             r == SubSeq(scope, 1, n)
  <2>1. n \in Int /\ \A i \in 1 .. n : i \in 1 .. Len(scope) /\ scope[i] \in V!Objects
    BY <1>1, <1>2
  <2>2. /\ r \in Seq(V!Objects) /\ Len(r) = IF 1 <= n THEN n - 1 + 1 ELSE 0
        /\ \A i \in 1 .. n - 1 + 1 : r[i] = scope[1 + i - 1]
    <3> HIDE DEF n
    <3> QED BY <2>1, SubSeqProperties
  <2>3. scope' = r
    BY <1>1
  <2> HIDE DEF r
  <2>4. n \in Nat
    BY <1>2
  <2>5. Len(r) = n /\ \A i \in 1 .. n : r[i] = scope[i]
    <3> HIDE DEF n
    <3>1. Len(r) = n
      BY <2>2, <2>4
    <3>2. ASSUME NEW i \in 1 .. n PROVE r[i] = scope[i]
      <4>1. i \in 1 .. n - 1 + 1 /\ 1 + i - 1 = i
        BY <2>4
      <4> QED BY <2>2, <4>1
    <3> QED BY <3>1, <3>2
  <2> QED BY <2>1, <2>2, <2>3, <2>5
<1>4. \A i \in 1 .. Len(scope) : scope[i] = x => i = Len(scope)
  BY <1>1, <1>2 DEF ScopeIInv
<1>5. \A i \in 1 .. Len(scope) : scope[i] # x => i \in 1 .. Len(scope')
  BY <1>1, <1>2, <1>3
<1>6. \A i \in 1 .. Len(scope') : i # Len(scope)
  BY <1>2, <1>3
<1>7. ASSUME NEW y PROVE V!Lives(y)' <=> V!Lives(y) /\ y # x
  <2>1. (V!Lives(y)' <=> \E i \in 1 .. Len(scope') : scope'[i] = y) /\ (V!Lives(y) <=> \E i \in 1 .. Len(scope) : scope[i] = y)
    BY DEF V!Lives, V!Contains
  <2> QED BY <1>3, <1>4, <1>5, <1>6, <2>1
<1> QED BY <1>2, <1>3, <1>4, <1>5, <1>7

\* The constructors, which append an object to the scope.
LEMMA ConstructNext ==
  ASSUME ScopeIInv,
         \/ \E x \in V!Classes : V!ConstructClass(x) \/ \E y \in V!Classes : V!MoveConstructClass(x, y)
         \/ V!ConstructCharDevice \/ V!ConstructDevice
  PROVE  ScopeIInv'
<1>0. /\ nullptr # NoObject /\ ERR \notin {nullptr, NoObject} /\ "set" \notin {nullptr, NoObject, ERR}
      /\ "class" \in V!Classes /\ V!Classes \subseteq V!Objects /\ "cdev" \in V!Objects /\ "device" \in V!Objects
      /\ "device" \notin V!Classes
      /\ class_ \in [V!Classes -> {"set", ERR, nullptr, NoObject}] /\ V!TypeOK
  BY PartsAssumption DEF V!ConstantsAssumption, V!Classes, V!Objects, ScopeIInv, V!TypeOK
\* What is left to show of a constructor, once the scope has grown.
<1>1. ASSUME NEW x \in V!Objects, V!NewObject(x), V!TypeOK', scopePhase' = scopePhase,
             \A y \in V!Classes : class_'[y] # NoObject => V!Lives(y) \/ y = x,
             \A y, z \in V!Classes : class_'[y] = "set" /\ class_'[z] = "set" => y = z,
             "class" \in registered' <=> \E y \in V!Classes : class_'[y] = "set",
             is_added_' => V!Lives("cdev"),
             "cdev" \in registered' => is_added_',
             device_' = "set" => "node" \in registered',
             V!Lives("device") \/ x = "device" => device_' # NoObject,
             "node" \in registered' /\ ~moved' =>
               /\ class_'["class"] = "set"
               /\ \/ "node" \in registered /\ ~moved
                  \/ x = "device" /\ V!Lives("class")
      PROVE  ScopeIInv'
  <2>1. /\ Len(scope') = Len(scope) + 1 /\ Len(scope) \in Nat
        /\ \A i \in 1 .. Len(scope) : scope'[i] = scope[i]
        /\ scope'[Len(scope) + 1] = x
        /\ \A i, j \in 1 .. Len(scope') : scope'[i] = scope'[j] => i = j
        /\ \A y : V!Lives(y)' <=> V!Lives(y) \/ y = x
    BY <1>1, NewObjectStep
  <2>2. scopePhase' # "oops" /\ scopePhase' # "leaving"
    BY <1>1 DEF V!NewObject, V!Running
  <2>3. ASSUME "node" \in registered', ~moved'
        PROVE  \E i, j \in 1 .. Len(scope') : i < j /\ scope'[i] = "class" /\ scope'[j] = "device"
    <3>1. CASE "node" \in registered /\ ~moved
      <4>1. PICK i \in 1 .. Len(scope), j \in 1 .. Len(scope) : i < j /\ scope[i] = "class" /\ scope[j] = "device"
        BY <3>1 DEF ScopeIInv
      <4>2. i \in 1 .. Len(scope') /\ j \in 1 .. Len(scope')
        BY <2>1
      <4> QED BY <2>1, <4>1, <4>2
    <3>2. CASE x = "device" /\ V!Lives("class")
      <4>1. PICK i \in 1 .. Len(scope) : scope[i] = "class"
        BY <3>2 DEF V!Lives, V!Contains
      <4>2. i \in 1 .. Len(scope') /\ Len(scope) + 1 \in 1 .. Len(scope') /\ i < Len(scope) + 1
        BY <2>1
      <4> QED BY <2>1, <3>2, <4>1, <4>2
    <3> QED BY <1>1, <2>3, <3>1, <3>2
  <2>4. "node" \in registered' /\ ~moved' => class_'["class"] = "set"
    BY <1>1
  <2>5. \A y \in V!Classes : class_'[y] # NoObject => V!Lives(y)'
    BY <1>1, <2>1
  <2>6. is_added_' => V!Lives("cdev")'
    BY <1>1, <2>1
  <2>7. V!Lives("device")' => device_' # NoObject
    BY <1>1, <2>1
  <2> QED BY <1>1, <2>1, <2>2, <2>3, <2>4, <2>5, <2>6, <2>7 DEF ScopeIInv
<1>2. ASSUME NEW x \in V!Classes, V!ConstructClass(x) PROVE ScopeIInv'
  <2>1. /\ V!NewObject(x) /\ UNCHANGED <<device_, is_added_, scopePhase, moved>>
        /\ \/ "class" \notin registered /\ registered' = registered \union {"class"} /\ class_' = [class_ EXCEPT ![x] = "set"]
           \/ class_' = [class_ EXCEPT ![x] = ERR] /\ UNCHANGED registered
    BY <1>2 DEF V!ConstructClass, V!Register
  <2>2. scope' \in Seq(V!Objects) /\ ~V!Lives(x)
    BY <1>0, <2>1, NewObjectStep
  <2>3. V!TypeOK'
    BY <1>0, <2>1, <2>2 DEF V!TypeOK
  <2>4. class_[x] = NoObject
    BY <2>2 DEF ScopeIInv
  <2>5. \A y \in V!Classes : class_'[y] # NoObject => V!Lives(y) \/ y = x
    BY <1>0, <2>1 DEF ScopeIInv
  <2>6. /\ \A y, z \in V!Classes : class_'[y] = "set" /\ class_'[z] = "set" => y = z
        /\ "class" \in registered' <=> \E y \in V!Classes : class_'[y] = "set"
    BY <1>0, <2>1, <2>4 DEF ScopeIInv
  <2>7. is_added_' => V!Lives("cdev")
    BY <2>1 DEF ScopeIInv
  <2>8. "cdev" \in registered' => is_added_'
    BY <2>1 DEF ScopeIInv
  <2>9. "node" \in registered' /\ ~moved' => class_'["class"] = "set" /\ "node" \in registered /\ ~moved
    <3> SUFFICES ASSUME "node" \in registered', ~moved' PROVE class_'["class"] = "set" /\ "node" \in registered /\ ~moved
      OBVIOUS
    <3>1. "node" \in registered /\ ~moved
      BY <2>1
    <3>2. class_["class"] = "set"
      BY <3>1 DEF ScopeIInv
    <3> QED BY <1>0, <2>1, <2>4, <3>1, <3>2
  <2>10. (device_' = "set" => "node" \in registered') /\ (V!Lives("device") => device_' # NoObject)
    BY <2>1 DEF ScopeIInv
  <2> QED BY <1>0, <1>1, <2>1, <2>3, <2>5, <2>6, <2>7, <2>8, <2>9, <2>10
<1>3. ASSUME NEW x \in V!Classes, NEW y \in V!Classes, V!MoveConstructClass(x, y) PROVE ScopeIInv'
  <2>1. /\ V!NewObject(x) /\ V!Lives(y) /\ class_' = [class_ EXCEPT ![x] = class_[y], ![y] = nullptr]
        /\ moved' = (moved \/ (y = "class" /\ "node" \in registered))
        /\ UNCHANGED <<device_, is_added_, registered, scopePhase>>
    BY <1>3 DEF V!MoveConstructClass, V!LosesClass
  <2>2. scope' \in Seq(V!Objects) /\ ~V!Lives(x)
    BY <1>0, <2>1, NewObjectStep
  <2>3. V!TypeOK'
    <3>1. class_' \in [V!Classes -> {"set", ERR, nullptr, NoObject}]
      BY <1>0, <2>1
    <3>2. moved' \in BOOLEAN
      BY <2>1
    <3> QED BY <1>0, <2>1, <2>2, <3>1, <3>2 DEF V!TypeOK
  <2>4. x # y /\ class_[x] = NoObject
    BY <2>1, <2>2 DEF ScopeIInv
  <2>5. class_'[x] = class_[y] /\ class_'[y] = nullptr /\ \A z \in V!Classes : z # x /\ z # y => class_'[z] = class_[z]
    BY <1>0, <2>1, <2>4
  <2>6. \A z \in V!Classes : class_'[z] # NoObject => V!Lives(z) \/ z = x
    BY <2>1, <2>5 DEF ScopeIInv
  <2>7. /\ \A z, w \in V!Classes : class_'[z] = "set" /\ class_'[w] = "set" => z = w
        /\ "class" \in registered' <=> \E z \in V!Classes : class_'[z] = "set"
    BY <1>0, <2>1, <2>4, <2>5 DEF ScopeIInv
  <2>8. is_added_' => V!Lives("cdev")
    BY <2>1 DEF ScopeIInv
  <2>9. "cdev" \in registered' => is_added_'
    BY <2>1 DEF ScopeIInv
  <2>10. "node" \in registered' /\ ~moved' => class_'["class"] = "set" /\ "node" \in registered /\ ~moved
    <3> SUFFICES ASSUME "node" \in registered', ~moved' PROVE class_'["class"] = "set" /\ "node" \in registered /\ ~moved
      OBVIOUS
    <3>1. "node" \in registered
      BY <2>1
    <3>2. ~moved /\ y # "class"
      BY <2>1, <3>1
    <3>3. class_["class"] = "set"
      BY <3>1, <3>2 DEF ScopeIInv
    <3> QED BY <1>0, <2>4, <2>5, <3>1, <3>2, <3>3
  <2>11. (device_' = "set" => "node" \in registered') /\ (V!Lives("device") => device_' # NoObject)
    BY <2>1 DEF ScopeIInv
  <2> QED BY <1>0, <1>1, <2>1, <2>3, <2>6, <2>7, <2>8, <2>9, <2>10, <2>11
<1>4. CASE V!ConstructCharDevice
  <2>1. V!NewObject("cdev") /\ is_added_' = FALSE /\ UNCHANGED <<class_, device_, registered, scopePhase, moved>>
    BY <1>4 DEF V!ConstructCharDevice
  <2>2. scope' \in Seq(V!Objects) /\ ~V!Lives("cdev")
    BY <1>0, <2>1, NewObjectStep
  <2>3. V!TypeOK'
    BY <1>0, <2>1, <2>2 DEF V!TypeOK
  <2>4. "cdev" \notin registered
    BY <2>2 DEF ScopeIInv
  <2>5. /\ \A y \in V!Classes : class_'[y] # NoObject => V!Lives(y)
        /\ \A y, z \in V!Classes : class_'[y] = "set" /\ class_'[z] = "set" => y = z
        /\ "class" \in registered' <=> \E y \in V!Classes : class_'[y] = "set"
    BY <2>1 DEF ScopeIInv
  <2>6. "node" \in registered' /\ ~moved' => class_'["class"] = "set" /\ "node" \in registered /\ ~moved
    BY <2>1 DEF ScopeIInv
  <2>7. (device_' = "set" => "node" \in registered') /\ (V!Lives("device") => device_' # NoObject)
    BY <2>1 DEF ScopeIInv
  <2> QED BY <1>0, <1>1, <2>1, <2>3, <2>4, <2>5, <2>6, <2>7
<1>5. CASE V!ConstructDevice
  <2>1. /\ V!NewObject("device") /\ V!Lives("class") /\ UNCHANGED <<class_, is_added_, scopePhase, moved>>
        /\ \/ class_["class"] = "set" /\ registered' = registered \union {"node"} /\ device_' = "set"
           \/ device_' = ERR /\ UNCHANGED registered
    BY <1>5 DEF V!ConstructDevice, V!Register
  <2>2. scope' \in Seq(V!Objects) /\ ~V!Lives("device")
    BY <1>0, <2>1, NewObjectStep
  <2>3. V!TypeOK'
    BY <1>0, <2>1, <2>2 DEF V!TypeOK
  <2>4. /\ \A y \in V!Classes : class_'[y] # NoObject => V!Lives(y)
        /\ \A y, z \in V!Classes : class_'[y] = "set" /\ class_'[z] = "set" => y = z
        /\ "class" \in registered' <=> \E y \in V!Classes : class_'[y] = "set"
    BY <2>1 DEF ScopeIInv
  <2>5. is_added_' => V!Lives("cdev")
    BY <2>1 DEF ScopeIInv
  <2>6. "cdev" \in registered' => is_added_'
    BY <2>1 DEF ScopeIInv
  <2>7. "node" \in registered' /\ ~moved' => class_'["class"] = "set"
    BY <2>1 DEF ScopeIInv
  <2>8. (device_' = "set" => "node" \in registered') /\ device_' # NoObject
    BY <1>0, <2>1 DEF ScopeIInv
  <2> QED BY <1>0, <1>1, <2>1, <2>3, <2>4, <2>5, <2>6, <2>7, <2>8
<1> QED BY <1>2, <1>3, <1>4, <1>5

\* The destructors, of the youngest object.
LEMMA DestructNext ==
  ASSUME ScopeIInv,
         (\E x \in V!Classes : V!DestructClass(x)) \/ V!DestructCharDevice \/ V!DestructDevice
  PROVE  ScopeIInv'
<1>0. /\ nullptr # NoObject /\ ERR \notin {nullptr, NoObject} /\ "set" \notin {nullptr, NoObject, ERR}
      /\ "class" \in V!Classes /\ V!Classes \subseteq V!Objects /\ "cdev" \in V!Objects /\ "device" \in V!Objects
      /\ "cdev" \notin V!Classes /\ "device" \notin V!Classes
      /\ class_ \in [V!Classes -> {"set", ERR, nullptr, NoObject}] /\ V!TypeOK
  BY PartsAssumption DEF V!ConstantsAssumption, V!Classes, V!Objects, ScopeIInv, V!TypeOK
\* What is left to show of a destructor, once the scope has shrunk.
<1>1. ASSUME NEW x \in V!Objects, scopePhase = "leaving", V!Youngest = x, V!Ended, V!TypeOK',
             \A y \in V!Classes : class_'[y] # NoObject => V!Lives(y) /\ y # x,
             \A y, z \in V!Classes : class_'[y] = "set" /\ class_'[z] = "set" => y = z,
             "class" \in registered' <=> \E y \in V!Classes : class_'[y] = "set",
             is_added_' => V!Lives("cdev") /\ "cdev" # x,
             "cdev" \in registered' => is_added_',
             device_' = "set" => "node" \in registered',
             V!Lives("device") /\ x # "device" => device_' # NoObject,
             "node" \in registered' /\ ~moved' =>
               "node" \in registered /\ ~moved /\ class_'["class"] = "set" /\ x # "device"
      PROVE  ScopeIInv'
  <2>0. scope # <<>>
    BY <1>1 DEF ScopeIInv
  <2>1. /\ Len(scope') = Len(scope) - 1 /\ Len(scope) \in Nat
        /\ \A i \in 1 .. Len(scope') : i \in 1 .. Len(scope) /\ scope'[i] = scope[i]
        /\ \A i \in 1 .. Len(scope) : scope[i] # x => i \in 1 .. Len(scope')
        /\ \A y : V!Lives(y)' <=> V!Lives(y) /\ y # x
        /\ \A i \in 1 .. Len(scope) : scope[i] = x => i = Len(scope)
    BY <1>1, <2>0, EndedStep
  <2>2. scopePhase' # "oops" /\ (scopePhase' = "leaving" => scope' # <<>>)
    <3>1. scopePhase' = IF Len(scope) = 1 THEN "running" ELSE "leaving"
      BY <1>1 DEF V!Ended
    <3>2. Len(<<>>) = 0
      OBVIOUS
    <3>3. Len(scope) # 1 => Len(scope') # 0
      BY <2>1
    <3> QED BY <3>1, <3>2, <3>3
  <2>3. ASSUME "node" \in registered', ~moved'
        PROVE  \E i, j \in 1 .. Len(scope') : i < j /\ scope'[i] = "class" /\ scope'[j] = "device"
    <3>1. PICK i \in 1 .. Len(scope), j \in 1 .. Len(scope) : i < j /\ scope[i] = "class" /\ scope[j] = "device"
      BY <1>1, <2>3 DEF ScopeIInv
    <3>2. j \in 1 .. Len(scope')
      BY <1>1, <2>1, <2>3, <3>1
    <3>3. i \in 1 .. Len(scope')
      BY <2>1, <3>1, <3>2
    <3> QED BY <2>1, <3>1, <3>2, <3>3
  <2>4. "node" \in registered' /\ ~moved' => class_'["class"] = "set"
    BY <1>1
  <2>5. \A y \in V!Classes : class_'[y] # NoObject => V!Lives(y)'
    BY <1>1, <2>1
  <2>6. is_added_' => V!Lives("cdev")'
    BY <1>1, <2>1
  <2>7. \A i, j \in 1 .. Len(scope') : scope'[i] = scope'[j] => i = j
    BY <2>1 DEF ScopeIInv
  <2>8. V!Lives("device")' => device_' # NoObject
    BY <1>1, <2>1
  <2> QED BY <1>1, <2>2, <2>3, <2>4, <2>5, <2>6, <2>7, <2>8 DEF ScopeIInv
<1>2. ASSUME NEW x \in V!Objects, scopePhase = "leaving", V!Youngest = x, V!Ended
      PROVE  scope' \in Seq(V!Objects) /\ scopePhase' \in {"running", "leaving", "oops"}
  <2>1. scope # <<>>
    BY <1>2 DEF ScopeIInv
  <2> QED BY <1>2, <2>1, EndedStep DEF V!Ended
<1>3. ASSUME NEW x \in V!Classes, V!DestructClass(x) PROVE ScopeIInv'
  <2>1. /\ scopePhase = "leaving" /\ V!Youngest = x /\ V!Ended /\ class_' = [class_ EXCEPT ![x] = NoObject]
        /\ UNCHANGED <<device_, is_added_, moved>>
        /\ class_[x] = "set" => registered' = registered \ {"class"}
        /\ class_[x] # "set" => registered' = registered
    BY <1>3 DEF V!DestructClass, V!DestroyedClass
  <2>2. V!TypeOK'
    BY <1>0, <1>2, <2>1 DEF V!TypeOK
  <2>3. \A y \in V!Classes : class_'[y] # NoObject => V!Lives(y) /\ y # x
    BY <1>0, <2>1 DEF ScopeIInv
  <2>4. /\ \A y, z \in V!Classes : class_'[y] = "set" /\ class_'[z] = "set" => y = z
        /\ "class" \in registered' <=> \E y \in V!Classes : class_'[y] = "set"
    BY <1>0, <2>1 DEF ScopeIInv
  <2>5. is_added_' => V!Lives("cdev") /\ "cdev" # x
    BY <1>0, <2>1 DEF ScopeIInv
  <2>6. "cdev" \in registered' => is_added_'
    BY <2>1 DEF ScopeIInv
  <2>7. ASSUME "node" \in registered', ~moved'
        PROVE  "node" \in registered /\ ~moved /\ class_'["class"] = "set" /\ x # "device"
    <3>1. "node" \in registered /\ ~moved
      BY <2>1, <2>7
    <3>2. PICK i \in 1 .. Len(scope), j \in 1 .. Len(scope) : i < j /\ scope[i] = "class" /\ scope[j] = "device"
      BY <3>1 DEF ScopeIInv
    <3>3. x # "class"
      <4>1. scope # <<>>
        BY <2>1 DEF ScopeIInv
      <4>2. Len(scope) \in Nat /\ \A k \in 1 .. Len(scope) : scope[k] = x => k = Len(scope)
        BY <1>0, <2>1, <4>1, EndedStep
      <4> QED BY <3>2, <4>2
    <3> QED BY <1>0, <2>1, <3>1, <3>3 DEF ScopeIInv
  <2>8. (device_' = "set" => "node" \in registered') /\ (V!Lives("device") => device_' # NoObject)
    BY <2>1 DEF ScopeIInv
  <2> QED BY <1>0, <1>1, <2>1, <2>2, <2>3, <2>4, <2>5, <2>6, <2>7, <2>8
<1>4. CASE V!DestructCharDevice
  <2>1. /\ scopePhase = "leaving" /\ V!Youngest = "cdev" /\ V!Ended /\ is_added_' = FALSE /\ UNCHANGED <<class_, device_, moved>>
        /\ registered' = IF is_added_ THEN registered \ {"cdev"} ELSE registered
    BY <1>4 DEF V!DestructCharDevice
  <2>2. registered' = registered \ {"cdev"}
    BY <2>1 DEF ScopeIInv
  <2>3. V!TypeOK'
    BY <1>0, <1>2, <2>1, <2>2 DEF V!TypeOK
  <2>4. /\ \A y \in V!Classes : class_'[y] # NoObject => V!Lives(y) /\ y # "cdev"
        /\ \A y, z \in V!Classes : class_'[y] = "set" /\ class_'[z] = "set" => y = z
        /\ "class" \in registered' <=> \E y \in V!Classes : class_'[y] = "set"
    BY <1>0, <2>1, <2>2 DEF ScopeIInv
  <2>5. "node" \in registered' /\ ~moved' =>
          "node" \in registered /\ ~moved /\ class_'["class"] = "set" /\ "cdev" # "device"
    BY <2>1, <2>2 DEF ScopeIInv
  <2>6. ~is_added_' /\ "cdev" \notin registered'
    BY <2>1, <2>2
  <2>7. (device_' = "set" => "node" \in registered') /\ (V!Lives("device") => device_' # NoObject)
    BY <2>1, <2>2 DEF ScopeIInv
  <2> QED BY <1>0, <1>1, <2>1, <2>3, <2>4, <2>5, <2>6, <2>7
<1>5. CASE V!DestructDevice /\ device_ # ERR /\ class_["class"] # ERR
  <2>1. /\ scopePhase = "leaving" /\ V!Youngest = "device" /\ V!Ended /\ UNCHANGED <<class_, is_added_, moved>>
        /\ device_' = NoObject
        /\ registered' = IF class_["class"] = "set" THEN registered \ {"node"} ELSE registered
    BY <1>5 DEF V!DestructDevice
  <2>2. V!TypeOK'
    BY <1>0, <1>2, <2>1 DEF V!TypeOK
  <2>3. /\ \A y \in V!Classes : class_'[y] # NoObject => V!Lives(y) /\ y # "device"
        /\ \A y, z \in V!Classes : class_'[y] = "set" /\ class_'[z] = "set" => y = z
        /\ "class" \in registered' <=> \E y \in V!Classes : class_'[y] = "set"
    BY <1>0, <2>1 DEF ScopeIInv
  <2>4. is_added_' => V!Lives("cdev") /\ "cdev" # "device"
    BY <2>1 DEF ScopeIInv
  <2>5. "cdev" \in registered' => is_added_'
    BY <2>1 DEF ScopeIInv
  <2>6. ASSUME "node" \in registered', ~moved' PROVE FALSE
    <3>1. "node" \in registered /\ ~moved
      BY <2>1, <2>6
    <3>2. class_["class"] = "set"
      BY <3>1 DEF ScopeIInv
    <3> QED BY <2>1, <2>6, <3>2
  <2>7. device_' # "set"
    BY <1>0, <2>1
  <2> QED BY <1>0, <1>1, <2>1, <2>2, <2>3, <2>4, <2>5, <2>6, <2>7
<1>6. CASE V!DestructDevice /\ (device_ = ERR \/ class_["class"] = ERR)
  <2>1. scopePhase' = "oops" /\ UNCHANGED <<scope, device_, registered, class_, is_added_, moved>>
    BY <1>6 DEF V!DestructDevice
  <2>2. V!TypeOK'
    BY <1>0, <2>1 DEF V!TypeOK
  <2>3. ASSUME device_ # ERR PROVE moved /\ class_["class"] = ERR
    <3>1. class_["class"] = ERR
      BY <1>6, <2>3
    <3>2. V!Lives("device")
      <4>1. scope \in Seq(V!Objects) /\ scope # <<>> /\ scope[Len(scope)] = "device"
        BY <1>6 DEF V!DestructDevice, V!Youngest, V!Last, ScopeIInv, V!TypeOK
      <4>2. Len(scope) \in 1 .. Len(scope)
        BY <4>1
      <4> QED BY <4>1, <4>2 DEF V!Lives, V!Contains
    <3>3. "node" \in registered
      BY <1>0, <2>3, <3>2 DEF ScopeIInv, V!TypeOK
    <3> QED BY <1>0, <3>1, <3>3 DEF ScopeIInv
  <2> QED BY <1>6, <2>1, <2>2, <2>3 DEF ScopeIInv, V!Lives
<1> QED BY <1>3, <1>4, <1>5, <1>6

\* Every step of the scope.
LEMMA ScopeNext == ScopeIInv /\ [V!Next]_(V!vars) => ScopeIInv'
<1> SUFFICES ASSUME ScopeIInv, [V!Next]_(V!vars) PROVE ScopeIInv'
  OBVIOUS
<1>0. /\ nullptr # NoObject /\ "set" \notin {nullptr, NoObject, ERR} /\ "class" \in V!Classes
      /\ class_ \in [V!Classes -> {"set", ERR, nullptr, NoObject}] /\ V!TypeOK
  BY PartsAssumption DEF V!ConstantsAssumption, V!Classes, ScopeIInv, V!TypeOK
<1>1. ASSUME NEW x \in V!Classes, NEW y \in V!Classes, V!MoveAssignClass(x, y) PROVE ScopeIInv'
  <2>1. /\ scopePhase = "running" /\ V!Lives(x) /\ V!Lives(y) /\ x # y
        /\ class_' = [class_ EXCEPT ![x] = class_[y], ![y] = nullptr]
        /\ moved' = (moved \/ "node" \in registered)
        /\ UNCHANGED <<scope, device_, is_added_, scopePhase>>
        /\ class_[x] = "set" => registered' = registered \ {"class"}
        /\ class_[x] # "set" => registered' = registered
    BY <1>1 DEF V!MoveAssignClass, V!DestroyedClass, V!Running
  <2>2. V!TypeOK'
    <3>1. class_' \in [V!Classes -> {"set", ERR, nullptr, NoObject}]
      BY <1>0, <2>1
    <3>2. moved' \in BOOLEAN
      BY <2>1
    <3> QED BY <1>0, <2>1, <3>1, <3>2 DEF V!TypeOK
  <2>3. class_'[x] = class_[y] /\ class_'[y] = nullptr /\ \A z \in V!Classes : z # x /\ z # y => class_'[z] = class_[z]
    BY <1>0, <2>1
  <2>4. \A z : V!Lives(z)' <=> V!Lives(z)
    BY <2>1 DEF V!Lives
  <2>5. \A z \in V!Classes : class_'[z] # NoObject => V!Lives(z)'
    BY <2>1, <2>3, <2>4 DEF ScopeIInv
  <2>6. /\ \A z, w \in V!Classes : class_'[z] = "set" /\ class_'[w] = "set" => z = w
        /\ "class" \in registered' <=> \E z \in V!Classes : class_'[z] = "set"
    BY <1>0, <2>1, <2>3 DEF ScopeIInv
  <2>7. ~("node" \in registered' /\ ~moved')
    <3>1. "node" \in registered' => "node" \in registered
      BY <2>1
    <3> QED BY <2>1, <3>1
  <2>8. is_added_' => V!Lives("cdev")'
    BY <2>1, <2>4 DEF ScopeIInv
  <2>9. "cdev" \in registered' => is_added_'
    BY <2>1 DEF ScopeIInv
  <2>10. /\ \A i, j \in 1 .. Len(scope') : scope'[i] = scope'[j] => i = j
         /\ scopePhase' = "running"
    BY <2>1 DEF ScopeIInv
  <2>11. (device_' = "set" => "node" \in registered') /\ (V!Lives("device")' => device_' # NoObject)
    BY <2>1, <2>4 DEF ScopeIInv
  <2> QED BY <2>2, <2>5, <2>6, <2>7, <2>8, <2>9, <2>10, <2>11 DEF ScopeIInv
<1>2. CASE V!add
  <2>1. /\ scopePhase = "running" /\ V!Lives("cdev") /\ UNCHANGED <<scope, class_, device_, scopePhase, moved>>
        /\ \/ registered' = registered \union {"cdev"} /\ is_added_' = TRUE
           \/ UNCHANGED <<registered, is_added_>>
    BY <1>2 DEF V!add, V!Running, V!Register
  <2>2. V!TypeOK'
    BY <1>0, <2>1 DEF V!TypeOK
  <2>3. \A z : V!Lives(z)' <=> V!Lives(z)
    BY <2>1 DEF V!Lives
  <2>4. "cdev" \in registered' => is_added_'
    BY <2>1 DEF ScopeIInv
  <2>5. /\ "node" \in registered' <=> "node" \in registered
        /\ "class" \in registered' <=> "class" \in registered
    BY <2>1
  <2> QED BY <2>1, <2>2, <2>3, <2>4, <2>5 DEF ScopeIInv
<1>3. CASE V!LeaveScope \/ UNCHANGED V!vars
  <2>1. /\ UNCHANGED <<scope, class_, device_, is_added_, registered, moved>>
        /\ \/ scope # <<>> /\ scopePhase' = "leaving"
           \/ scopePhase' = scopePhase
    BY <1>3 DEF V!LeaveScope, V!vars
  <2>2. V!TypeOK'
    BY <1>0, <2>1 DEF V!TypeOK
  <2>3. \A z : V!Lives(z)' <=> V!Lives(z)
    BY <2>1 DEF V!Lives
  <2> QED BY <2>1, <2>2, <2>3 DEF ScopeIInv
<1> QED BY <1>1, <1>2, <1>3, ConstructNext, DestructNext DEF V!Next

------------------------------------------------------------------------------
(***************************************************************************)
(* The theorems.  A step of MCNext is a step of one part, and a stuttering *)
(* step of every other.                                                    *)
(***************************************************************************)

\* A step of MCNext is a step of each part, or leaves it alone.
LEMMA PartSteps ==
  ASSUME [MCNext]_allVars
  PROVE  /\ [S!Next]_(S!vars) /\ [N!Next]_(N!vars) /\ [R!Next]_(R!vars) /\ [X!Next]_(X!vars)
         /\ [D!Next]_(D!vars) /\ [V!Next]_(V!vars) /\ [C!Next]_(C!vars)
<1>1. [S!Next]_(S!vars)
  BY DEF MCNext, allVars, Still, socketVars, S!vars
<1>2. [N!Next]_(N!vars)
  BY DEF MCNext, allVars, Still, netlinkVars, N!vars
<1>3. [R!Next]_(R!vars)
  BY DEF MCNext, allVars, Still, refVars, R!vars
<1>4. [X!Next]_(X!vars)
  BY DEF MCNext, allVars, Still, xdpVars, X!vars
<1>5. [D!Next]_(D!vars)
  BY DEF MCNext, allVars, Still, debugfsVars, D!vars
<1>6. [V!Next]_(V!vars)
  BY DEF MCNext, allVars, Still, scopeVars, V!vars
<1>7. [C!Next]_(C!vars)
  BY DEF MCNext, allVars, Still, chainVars, C!vars
<1> QED BY <1>1, <1>2, <1>3, <1>4, <1>5, <1>6, <1>7

\* Whatever is moved, assigned over, closed, sent or fails to be created, a
\* socket that is not released, a packet that netlink was not given and a kset
\* have one owner, and the references to programs and routes are balanced: the
\* destructors and move assignments of KernelSocket, SKB, BPFProgram, DstEntry
\* and KSet neither leak nor give back twice.
THEOREM HandlesBalancedHolds == MCSpec => []HandlesBalanced
<1> DEFINE I == SocketIInv /\ PacketIInv /\ RefIInv
<1>1. MCInit => I
  BY SocketInit, PacketInit, RefInit DEF MCInit
<1>2. I /\ [MCNext]_allVars => I'
  BY PartSteps, SocketNext, PacketNext, RefNext
<1>3. I => HandlesBalanced
  BY SocketCounts, PacketCounts, KSetCounts DEF HandlesBalanced, SocketIInv, PacketIInv, RefIInv
<1> QED BY <1>1, <1>2, <1>3, PTL DEF MCSpec

\* dev_get and dev_put of NetDevice and XDPAttachment are balanced, no device
\* is freed under a pointer to it, even between the attaching of a program and
\* dev_get, and with the exclusive flag programs and attachments agree.
THEOREM DeviceRefsBalancedHolds == MCSpec => []DeviceRefsBalanced
<1>1. MCInit => XdpIInv
  BY XdpInit DEF MCInit
<1>2. XdpIInv /\ [MCNext]_allVars => XdpIInv'
  BY PartSteps, XdpNext
<1> QED BY <1>1, <1>2, XdpCounts, PTL DEF MCSpec

\* Every entry that debugfs has lies in a directory that it has and belongs to
\* exactly one Dentry, whatever fails, moves or ends before.
THEOREM TreeOwnedHolds == MCSpec => []TreeOwned
<1>1. MCInit => DebugfsIInv
  BY DebugfsInit DEF MCInit
<1>2. DebugfsIInv /\ [MCNext]_allVars => DebugfsIInv'
  BY PartSteps, DebugfsNext
<1>3. DebugfsIInv => TreeOwned
  BY DentryCounts DEF TreeOwned, DebugfsIInv
<1> QED BY <1>1, <1>2, <1>3, PTL DEF MCSpec

\* A Dentry is left with a freed entry only by the end of a Dentry above it:
\* debugfs_remove_recursive of any other Dentry does not reach it.
THEOREM OnlyParentsDangleHolds == MCSpec => OnlyParentsDangle
<1> DEFINE A == \A h \in Handles :
                  LET e == dentry_[h] IN
                  e \in Entries /\ D!Exists(e) /\ dentry_'[h] = e /\ ~D!Exists(e)' =>
                    \E p \in Handles \ {h} :
                      dentry_[p] \in Entries \ {e} /\ D!Below(e, dentry_[p]) /\ dentry_'[p] # dentry_[p]
<1>1. MCInit => DebugfsIInv
  BY DebugfsInit DEF MCInit
<1>2. DebugfsIInv /\ [MCNext]_allVars => DebugfsIInv'
  BY PartSteps, DebugfsNext
<1>3. DebugfsIInv /\ [MCNext]_allVars => [A]_(D!vars)
  <2> SUFFICES ASSUME DebugfsIInv, [MCNext]_allVars, NEW h \in Handles, dentry_[h] \in Entries,
                      D!Exists(dentry_[h]), dentry_'[h] = dentry_[h], ~D!Exists(dentry_[h])'
               PROVE  \E p \in Handles \ {h} :
                        /\ dentry_[p] \in Entries \ {dentry_[h]} /\ D!Below(dentry_[h], dentry_[p])
                        /\ dentry_'[p] # dentry_[p]
    OBVIOUS
  <2>1. parent'[dentry_[h]] \in {NoObject, nullptr}
    BY DEF D!Exists
  <2>2. [D!Next]_(D!vars)
    BY PartSteps
  <2> QED BY <2>1, <2>2, DangleStep
<1>4. MCSpec => [][A]_(D!vars)
  BY <1>1, <1>2, <1>3, PTL DEF MCSpec
<1> QED BY <1>4 DEF OnlyParentsDangle, D!OnlyParentsDangle

\* A scope of DeviceClass, CharDevice and Device objects takes back what it
\* registered, the node before its class, wherever it is left, and crashes
\* only in ~Device after device_create failed, or after a failed class was
\* assigned to the DeviceClass of the Device.
THEOREM ScopeUnwindsHolds == MCSpec => []ScopeUnwinds
<1>1. MCInit => ScopeIInv
  BY ScopeInit DEF MCInit
<1>2. ScopeIInv /\ [MCNext]_allVars => ScopeIInv'
  BY PartSteps, ScopeNext
<1> QED BY <1>1, <1>2, ScopeHolds, PTL DEF MCSpec

\* The count of a node is the number of the SharedPtrs on it, in a chain of any
\* shape and during every release, and head = head->next reads freed memory
\* exactly when nobody but head owned the node.
THEOREM ChainInvHolds == MCSpec => []ChainInv
<1>1. MCInit => ChainIInv
  BY ChainInit DEF MCInit
<1>2. ChainIInv /\ [MCNext]_allVars => ChainIInv'
  BY PartSteps, ChainNext
<1> QED BY <1>1, <1>2, ChainHolds, PTL DEF MCSpec

==============================================================================
