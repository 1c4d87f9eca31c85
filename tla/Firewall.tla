------------------------------ MODULE Firewall ------------------------------
(***************************************************************************)
(* The firewall driver (include/driver/firewall_driver.cpp): a netfilter   *)
(* hook (kpp/net/NetfilterHook.hpp) that drops TCP packets for one port,   *)
(* and the packet wrapper kpp::SKB (kpp/net/SKB.hpp) it reads them through.*)
(* CPUs process packets in softirq context between any two steps of        *)
(* loading and unloading the module.                                       *)
(*                                                                         *)
(* External, as the code uses it: netfilter calls every registered hook    *)
(* inside an RCU read section, then drops or passes on the packet, whose   *)
(* one reference it owns; unloading waits for the read sections that were  *)
(* running when it began, then frees the code of the module.  Code that is *)
(* entered or continued after that crashes the machine.                    *)
(***************************************************************************)
EXTENDS Integers

CONSTANTS
  Cpus,         \* CPUs that receive packets
  TcpPorts,     \* destination ports of TCP packets
  BlockedPort,  \* the value of port_to_block_, 80 in the code
  Udp,          \* stands for a packet that is not TCP
  Unset         \* an uninitialised field

ASSUME ConstantsAssumption ==
  /\ BlockedPort \in TcpPorts
  /\ Udp \notin TcpPorts /\ Unset \notin TcpPorts /\ Udp # Unset

VARIABLES
  module,         \* "out", "init", "live", "freeing" (exit has returned), "gone" (exited and freed)
  pc,             \* the next step of init
  port_to_block_, \* the field of the Firewall object
  hook,           \* the fields of the NetfilterHook object that are set
  hook_,          \* the UniquePtr in Firewall is not null
  registered,     \* the hook is in netfilter's list
  grace,          \* the CPUs whose read sections unloading still waits for
  packet          \* packet[c]: the packet CPU c is working on

vars == <<module, pc, port_to_block_, hook, hook_, registered, grace, packet>>

loading == <<module, pc, port_to_block_, hook, hook_, registered>>

HookFields == {"owner_ptr_", "callback_ptr_", "ops_"}

(***************************************************************************)
(* A packet: kind is its TCP port or Udp, refs the references on the       *)
(* sk_buff, verdict what the hook returned, and at the step that comes     *)
(* next: "call" the trampoline, "ip" and "tcp" the header checks of the    *)
(* callback, "destruct" the end of the SKB object, "verdict" back in       *)
(* netfilter.                                                              *)
(***************************************************************************)
NoPacket == [at |-> "none", kind |-> Udp, refs |-> 0, verdict |-> "none"]

Panicked == \E c \in Cpus : packet[c].at = "panic"

------------------------------------------------------------------------------
(***************************************************************************)
(* firewall_driver_init and the constructors it runs.                      *)
(***************************************************************************)

Insmod ==
  /\ module = "out"
  /\ module' = "init" /\ pc' = "firewall"
  /\ UNCHANGED <<port_to_block_, hook, hook_, registered, grace, packet>>

At(s) == module = "init" /\ pc = s

\* make_unique<Firewall>: init fails if kmalloc does; otherwise the member
\* initialiser of port_to_block_ runs before the body of the constructor.
MakeFirewall ==
  /\ At("firewall")
  /\ \/ port_to_block_' = BlockedPort /\ pc' = "hook" /\ UNCHANGED module
     \/ module' = "out" /\ pc' = "idle" /\ UNCHANGED port_to_block_
  /\ UNCHANGED <<hook, hook_, registered, grace, packet>>

MakeHookNoOwner ==
  /\ At("hook")
  /\ \/ hook' = {"callback_ptr_"} /\ pc' = "ops"
     \/ pc' = "return" /\ UNCHANGED hook
  /\ UNCHANGED <<module, port_to_block_, hook_, registered, grace, packet>>

\* make_unique<NetfilterHook>: the result is not checked.
MakeHook ==
  /\ At("hook")
  /\ \/ hook' = {"owner_ptr_", "callback_ptr_"} /\ pc' = "ops"
     \/ pc' = "return" /\ UNCHANGED hook
  /\ UNCHANGED <<module, port_to_block_, hook_, registered, grace, packet>>

\* The body of the constructor: the fields of ops_, then the registration,
\* whose result is not checked either.
FillOps ==
  /\ At("ops")
  /\ hook' = hook \union {"ops_"}
  /\ pc' = "register"
  /\ UNCHANGED <<module, port_to_block_, hook_, registered, grace, packet>>

RegisterHook ==
  /\ At("register")
  /\ registered' \in {TRUE, FALSE}
  /\ pc' = "assign"
  /\ UNCHANGED <<module, port_to_block_, hook, hook_, grace, packet>>

AssignHook ==
  /\ At("assign")
  /\ hook_' = TRUE
  /\ pc' = "return"
  /\ UNCHANGED <<module, port_to_block_, hook, registered, grace, packet>>

InitReturns ==
  /\ At("return")
  /\ module' = "live" /\ pc' = "idle"
  /\ UNCHANGED <<port_to_block_, hook, hook_, registered, grace, packet>>

(***************************************************************************)
(* firewall_driver_exit: g_firewall.release() returns the Firewall, and    *)
(* nothing destroys it or its hook_.                                       *)
(***************************************************************************)
InHook(c) == packet[c].at \in {"call", "ip", "tcp", "destruct"}

Exit ==
  /\ module = "live"
  /\ module' = "freeing"
  /\ grace' = {c \in Cpus : InHook(c)}
  /\ UNCHANGED <<pc, port_to_block_, hook, hook_, registered, packet>>

FreeModule ==
  /\ module = "freeing" /\ grace = {}
  /\ module' = "gone"
  /\ UNCHANGED <<pc, port_to_block_, hook, hook_, registered, grace, packet>>

------------------------------------------------------------------------------
(***************************************************************************)
(* Packets.                                                                *)
(***************************************************************************)

\* A packet arrives and netfilter looks at its list of hooks.
Arrive(c, k) ==
  /\ packet[c] = NoPacket
  /\ packet' = [packet EXCEPT ![c] =
       [at |-> IF registered THEN "call" ELSE "verdict", kind |-> k, refs |-> 1, verdict |-> "none"]]
  /\ UNCHANGED <<loading, grace>>

Loaded == module # "gone"
Goto(c, s) == packet' = [packet EXCEPT ![c].at = s]
Decide(c, s, v) == packet' = [packet EXCEPT ![c].at = s, ![c].verdict = v]

\* hook_trampoline: with a complete hook the packet is wrapped in an SKB.
Trampoline(c) ==
  /\ Loaded /\ packet[c].at = "call"
  /\ IF HookFields \subseteq hook THEN Goto(c, "ip") ELSE Decide(c, "verdict", "ACCEPT")
  /\ UNCHANGED <<loading, grace>>

\* Firewall::hook_callback: not TCP, accept.
CheckIp(c) ==
  /\ Loaded /\ packet[c].at = "ip"
  /\ IF packet[c].kind = Udp THEN Decide(c, "destruct", "ACCEPT") ELSE Goto(c, "tcp")
  /\ UNCHANGED <<loading, grace>>

\* Firewall::hook_callback: compare the destination port.
CheckTcp(c) ==
  /\ Loaded /\ packet[c].at = "tcp"
  /\ Decide(c, "destruct", IF packet[c].kind = port_to_block_ THEN "DROP" ELSE "ACCEPT")
  /\ UNCHANGED <<loading, grace>>

\* The trampoline returns: ~SKB() gives up a reference on the packet.
DestructSkb(c) ==
  /\ Loaded /\ packet[c].at = "destruct"
  /\ packet' = [packet EXCEPT ![c].at = "verdict", ![c].refs = @ - 1]
  /\ grace' = grace \ {c}
  /\ UNCHANGED loading

\* Netfilter drops the packet or the protocol stack consumes it in the end.
ActOnVerdict(c) ==
  /\ packet[c].at = "verdict"
  /\ packet' = [packet EXCEPT ![c] = NoPacket]
  /\ grace' = grace \ {c}
  /\ UNCHANGED loading

\* The code of the hook is gone.
RunFreedCode(c) ==
  /\ ~Loaded /\ InHook(c)
  /\ Goto(c, "panic")
  /\ UNCHANGED <<loading, grace>>

------------------------------------------------------------------------------
Init ==
  /\ module = "out" /\ pc = "idle"
  /\ port_to_block_ = Unset /\ hook = {} /\ hook_ = FALSE
  /\ registered = FALSE /\ grace = {}
  /\ packet = [c \in Cpus |-> NoPacket]

LoaderStep ==
  \/ Insmod \/ MakeFirewall \/ MakeHook \/ FillOps \/ RegisterHook \/ AssignHook \/ InitReturns
  \/ Exit \/ FreeModule

PacketStep(c) ==
  \/ \E k \in TcpPorts \union {Udp} : Arrive(c, k)
  \/ Trampoline(c) \/ CheckIp(c) \/ CheckTcp(c) \/ DestructSkb(c) \/ ActOnVerdict(c)
  \/ RunFreedCode(c)

Next == ~Panicked /\ (LoaderStep \/ \E c \in Cpus : PacketStep(c))

Spec == Init /\ [][Next]_vars

------------------------------------------------------------------------------
(***************************************************************************)
(* Properties.                                                             *)
(***************************************************************************)

\* Every variable keeps its type; the wrapper gives up at most one reference
\* on a packet.
TypeOK ==
  /\ module \in {"out", "init", "live", "freeing", "gone"}
  /\ pc \in {"idle", "firewall", "hook", "ops", "register", "assign", "return"}
  /\ port_to_block_ \in {BlockedPort, Unset}
  /\ hook \subseteq HookFields /\ hook_ \in BOOLEAN
  /\ registered \in BOOLEAN /\ grace \subseteq Cpus
  /\ packet \in [Cpus -> [at : {"none", "call", "ip", "tcp", "destruct", "verdict", "panic"},
                          kind : TcpPorts \union {Udp}, refs : {0, 1},
                          verdict : {"none", "ACCEPT", "DROP"}]]

\* Once netfilter can call the hook, everything the trampoline and the
\* callback read is set, although the constructors of NetfilterHook and
\* Firewall are still running.
HookReady ==
  registered => HookFields \subseteq hook /\ port_to_block_ = BlockedPort

\* Every packet that arrived while the hook was registered and whose hook ran
\* to its end is dropped exactly if it is TCP for the blocked port, from the
\* first packet on, while the module is loaded or being unloaded.
BlocksPort ==
  \A c \in Cpus : packet[c].at \in {"destruct", "verdict"} /\ packet[c].verdict # "none" =>
    (packet[c].verdict = "DROP" <=> packet[c].kind = BlockedPort)

\* What the documentation says of kpp::SKB, a safe life cycle: netfilter gets
\* back a packet that it can still use.
PacketAliveAfterHook ==
  \A c \in Cpus : packet[c].at = "verdict" => packet[c].refs > 0

\* What the documentation says of kpp::NetfilterHook, hooks are always safely
\* registered and unregistered: when the code of the module is freed its hook
\* is not in netfilter's list any more.
HookGoneAfterExit == module = "gone" => ~registered
==============================================================================
