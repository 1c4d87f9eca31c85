------------------------------ MODULE MCOwners ------------------------------
(***************************************************************************)
(* The objects of kpp that own something of the kernel's in one model:     *)
(* UniquePtr, KernelSocket, SKB with NetlinkSocket, NetDevice with         *)
(* XDPAttachment, the handles BPFProgram, DstEntry and KSet, the Dentry of *)
(* debugfs, the device classes in a scope, and SharedPtrs inside of what   *)
(* they own.  They share no state, so each behaviour is one of a single    *)
(* part, and the others stand still.                                       *)
(***************************************************************************)
EXTENDS UniquePtr

VARIABLE part  \* the part under test

CONSTANT ERR

CONSTANTS Threads, Handles, Sockets
VARIABLES sock_, phase, asked, arrived, call, this
S == INSTANCE KernelSocket
socketVars == <<sock_, phase, asked, arrived, call, this>>

CONSTANTS SkbHandles, Packets
VARIABLES netlink, skb_, users, fresh, queued, sent
N == INSTANCE NetlinkSocket WITH Handles <- SkbHandles, sock_ <- netlink
netlinkVars == <<netlink, skb_, users, fresh, queued, sent>>

CONSTANTS DeviceHandles, Attachments, Devices
VARIABLES handle, dev_, attached, borrows, refs, device, installed, forced
X == INSTANCE XDPAttachment WITH Handles <- DeviceHandles
xdpVars == <<handle, dev_, attached, borrows, refs, device, installed, forced>>

CONSTANTS RefObjects
VARIABLES class, ptr, count, kernel
R == INSTANCE RefHandles WITH Objects <- RefObjects
refVars == <<class, ptr, count, kernel>>

CONSTANTS Entries, root
VARIABLES dentry_, parent, files, crashed
D == INSTANCE DebugFS
debugfsVars == <<dentry_, parent, files, crashed>>

VARIABLES scope, class_, device_, is_added_, registered, scopePhase, moved
V == INSTANCE DeviceScope WITH phase <- scopePhase
scopeVars == <<scope, class_, device_, is_added_, registered, scopePhase, moved>>

CONSTANT Nodes
VARIABLES head, other, next, ref_count, releasing, assign, source, alone, readFreed
C == INSTANCE SharedChain WITH crashed <- readFreed
chainVars == <<head, other, next, ref_count, releasing, assign, source, alone, readFreed>>

ASSUME PartsAssumption ==
  /\ S!ConstantsAssumption /\ N!ConstantsAssumption /\ X!ConstantsAssumption
  /\ R!ConstantsAssumption /\ D!ConstantsAssumption /\ V!ConstantsAssumption
  /\ C!ConstantsAssumption

MCInit ==
  /\ part \in {"UniquePtr", "KernelSocket", "NetlinkSocket", "XDPAttachment", "RefHandles",
               "DebugFS", "DeviceScope", "SharedChain"}
  /\ Init /\ S!Init /\ N!Init /\ X!Init /\ D!Init /\ V!Init /\ C!Init
  /\ R!Init /\ (part # "RefHandles" => class = "KSet")

Still(p, v) == part # p => UNCHANGED v

MCNext ==
  /\ \/ part = "UniquePtr" /\ Next
     \/ part = "KernelSocket" /\ S!Next
     \/ part = "NetlinkSocket" /\ N!Next
     \/ part = "XDPAttachment" /\ X!Next
     \/ part = "RefHandles" /\ R!Next
     \/ part = "DebugFS" /\ D!Next
     \/ part = "DeviceScope" /\ V!Next
     \/ part = "SharedChain" /\ C!Next
  /\ Still("UniquePtr", vars) /\ Still("KernelSocket", socketVars)
  /\ Still("NetlinkSocket", netlinkVars) /\ Still("XDPAttachment", xdpVars)
  /\ Still("RefHandles", refVars) /\ Still("DebugFS", debugfsVars)
  /\ Still("DeviceScope", scopeVars) /\ Still("SharedChain", chainVars)
  /\ UNCHANGED part

allVars == <<part, vars, socketVars, netlinkVars, xdpVars, refVars, debugfsVars, scopeVars, chainVars>>

MCSpec == MCInit /\ [][MCNext]_allVars /\ S!Fairness

------------------------------------------------------------------------------
\* KernelSocket: shutdown ends the waits inside of receive, send and accept.
ShutdownWakes == S!ShutdownWakes

\* NetDevice and XDPAttachment: the variables keep their types, dev_get and
\* dev_put are balanced, a device that is pointed to is not freed, and with
\* the exclusive flag programs and attachments agree.
DeviceRefsBalanced ==
  X!TypeOK /\ X!RefsBalanced /\ X!HeldDeviceStays /\ X!ProgramHasOneAttachment

\* KernelSocket, SKB, BPFProgram, DstEntry and KSet: the variables keep their
\* types; a socket that is not released, a packet that netlink was not given
\* and a kset have one owner; references to programs and routes are balanced.
HandlesBalanced ==
  /\ S!TypeOK /\ S!SocketHasOneOwner
  /\ N!TypeOK /\ N!UnsentHasOneOwner
  /\ R!TypeOK /\ R!RefsBalanced /\ R!KSetHasOneOwner

\* DebugFS: the variables keep their types, and every entry has one Dentry.
TreeOwned == D!TypeOK /\ D!TreeOwned

\* DebugFS: only the end of a parent makes a Dentry dangle.
OnlyParentsDangle == D!OnlyParentsDangle

\* DeviceClass, CharDevice and Device: the variables keep their types, and a
\* scope takes back what it registered.
ScopeUnwinds == V!TypeOK /\ V!ScopeUnwinds

\* SharedPtr: the variables keep their types, counts are right in a chain, and
\* stepping along it needs another owner.
ChainInv == C!TypeOK /\ C!ChainCounts /\ C!StepNeedsAnotherOwner
==============================================================================
