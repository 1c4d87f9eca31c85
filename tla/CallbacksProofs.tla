--------------------------- MODULE CallbacksProofs ---------------------------
(***************************************************************************)
(* Proofs about what the kernel calls back: the invariants of MCCallbacks  *)
(* hold for any number of CPUs, ports, loads, open files, readers and      *)
(* references.                                                             *)
(***************************************************************************)
EXTENDS MCCallbacks, TLAPS

mcVars == <<part, vars, echoVars, statusVars, attributeVars, notifierVars>>

------------------------------------------------------------------------------
(***************************************************************************)
(* Firewall.  The order of the constructors is the invariant: the port is  *)
(* set before the hook is made, the hook is complete before it is          *)
(* registered, and whoever is inside of the callback has come through a    *)
(* registered hook.  A packet holds its reference until ~SKB.              *)
(***************************************************************************)

FirewallIInv ==
  /\ FirewallInv
  /\ module = "init" /\ pc \in {"hook", "ops", "register", "assign", "return"} =>
       port_to_block_ = BlockedPort
  /\ module = "init" /\ pc \in {"ops", "register", "assign"} =>
       {"owner_ptr_", "callback_ptr_"} \subseteq hook
  /\ module = "init" /\ pc \in {"register", "assign"} => "ops_" \in hook
  /\ registered => ~ (module = "init" /\ pc \in {"firewall", "hook", "ops", "register"}) /\ module # "out"
  /\ \A c \in Cpus :
       /\ InHook(c) => registered /\ packet[c].refs = 1
       /\ packet[c].at \in {"call", "ip", "tcp"} => packet[c].verdict = "none"


\* No hook is registered and no packet has arrived at first.
LEMMA FirewallInit == Init => FirewallIInv
<1> SUFFICES ASSUME Init PROVE FirewallIInv
  OBVIOUS
<1>1. \A c \in Cpus : packet[c] = NoPacket
  BY DEF Init
<1>2. TypeOK
  BY ConstantsAssumption DEF Init, TypeOK, NoPacket
<1>3. \A c \in Cpus : packet[c].at = "none" /\ packet[c].verdict = "none"
  <2>1. NoPacket.at = "none" /\ NoPacket.verdict = "none"
    BY DEF NoPacket
  <2> QED BY <1>1, <2>1
<1> QED BY <1>2, <1>3 DEF Init, FirewallIInv, FirewallInv, HookReady, BlocksPort, InHook

\* The loader does not touch the packets.
LEMMA FirewallLoads == FirewallIInv /\ LoaderStep => FirewallIInv'
<1> SUFFICES ASSUME FirewallIInv, LoaderStep PROVE FirewallIInv'
  OBVIOUS
<1>1. /\ UNCHANGED packet
      /\ registered => registered'
  <2>1. UNCHANGED packet /\ (UNCHANGED registered \/ RegisterHook)
    BY DEF LoaderStep, Insmod, MakeFirewall, MakeHook, FillOps, RegisterHook, AssignHook,
           InitReturns, Exit, FreeModule
  <2>2. RegisterHook => ~registered
    BY DEF RegisterHook, At, FirewallIInv
  <2> QED BY <2>1, <2>2
<1>2. TypeOK'
  <2>1. /\ module' \in {"out", "init", "live", "freeing", "gone"}
        /\ pc' \in {"idle", "firewall", "hook", "ops", "register", "assign", "return"}
        /\ port_to_block_' \in {BlockedPort, Unset}
    BY DEF FirewallIInv, FirewallInv, TypeOK, LoaderStep, Insmod, MakeFirewall, MakeHook, FillOps,
           RegisterHook, AssignHook, InitReturns, Exit, FreeModule
  <2>2. hook' \subseteq HookFields /\ hook_' \in BOOLEAN
    BY DEF FirewallIInv, FirewallInv, TypeOK, LoaderStep, Insmod, MakeFirewall, MakeHook, FillOps,
           RegisterHook, AssignHook, InitReturns, Exit, FreeModule, HookFields
  <2>3. registered' \in BOOLEAN /\ grace' \subseteq Cpus
    BY DEF FirewallIInv, FirewallInv, TypeOK, LoaderStep, Insmod, MakeFirewall, MakeHook, FillOps,
           RegisterHook, AssignHook, InitReturns, Exit, FreeModule
  <2> QED BY <1>1, <2>1, <2>2, <2>3 DEF FirewallIInv, FirewallInv, TypeOK
<1>3. BlocksPort'
  BY <1>1 DEF FirewallIInv, FirewallInv, BlocksPort
<1>4. \A c \in Cpus :
        /\ InHook(c)' => registered' /\ packet'[c].refs = 1
        /\ packet'[c].at \in {"call", "ip", "tcp"} => packet'[c].verdict = "none"
  BY <1>1 DEF FirewallIInv, InHook
<1> DEFINE Order ==
      /\ HookReady
      /\ module = "init" /\ pc \in {"hook", "ops", "register", "assign", "return"} =>
           port_to_block_ = BlockedPort
      /\ module = "init" /\ pc \in {"ops", "register", "assign"} =>
           {"owner_ptr_", "callback_ptr_"} \subseteq hook
      /\ module = "init" /\ pc \in {"register", "assign"} => "ops_" \in hook
      /\ registered => ~ (module = "init" /\ pc \in {"firewall", "hook", "ops", "register"}) /\ module # "out"
<1>5. Order'
  <2>1. Order /\ registered \in BOOLEAN
    BY DEF FirewallIInv, FirewallInv, TypeOK
  <2> USE DEF HookReady, HookFields, At
  <2>2. CASE Insmod
    BY <2>1, <2>2 DEF Insmod
  <2>3. CASE MakeFirewall
    BY <2>1, <2>3 DEF MakeFirewall
  <2>4. CASE MakeHook
    BY <2>1, <2>4 DEF MakeHook
  <2>5. CASE FillOps
    BY <2>1, <2>5 DEF FillOps
  <2>6. CASE RegisterHook
    BY <2>1, <2>6 DEF RegisterHook
  <2>7. CASE AssignHook
    BY <2>1, <2>7 DEF AssignHook
  <2>8. CASE InitReturns
    BY <2>1, <2>8 DEF InitReturns
  <2>9. CASE Exit \/ FreeModule
    BY <2>1, <2>9 DEF Exit, FreeModule
  <2> QED BY <2>2, <2>3, <2>4, <2>5, <2>6, <2>7, <2>8, <2>9 DEF LoaderStep
<1> QED BY <1>2, <1>3, <1>4, <1>5 DEF FirewallIInv, FirewallInv

\* A packet step changes one packet; what it must make of it.
PacketOK(p) ==
  /\ p \in [at : {"none", "call", "ip", "tcp", "destruct", "verdict", "panic"},
            kind : TcpPorts \union {Udp}, refs : {0, 1}, verdict : {"none", "ACCEPT", "DROP"}]
  /\ p.at \in {"destruct", "verdict"} /\ p.verdict # "none" =>
       (p.verdict = "DROP" <=> p.kind = BlockedPort)
  /\ p.at \in {"call", "ip", "tcp", "destruct"} => registered /\ p.refs = 1
  /\ p.at \in {"call", "ip", "tcp"} => p.verdict = "none"

\* A step of one CPU that leaves its packet in order keeps the invariant.
LEMMA PacketChanges ==
  ASSUME FirewallIInv, NEW c \in Cpus, NEW p, PacketOK(p), packet' = [packet EXCEPT ![c] = p],
         UNCHANGED loading, grace' \subseteq Cpus
  PROVE  FirewallIInv'
<1>1. UNCHANGED <<module, pc, port_to_block_, hook, hook_, registered>>
  BY DEF loading
<1>2. TypeOK'
  BY <1>1 DEF FirewallIInv, FirewallInv, TypeOK, PacketOK
<1>3. packet'[c] = p /\ \A b \in Cpus \ {c} : packet'[b] = packet[b]
  BY DEF FirewallIInv, FirewallInv, TypeOK
<1>4. BlocksPort'
  BY <1>3 DEF FirewallIInv, FirewallInv, BlocksPort, PacketOK
<1>5. \A b \in Cpus :
        /\ InHook(b)' => registered' /\ packet'[b].refs = 1
        /\ packet'[b].at \in {"call", "ip", "tcp"} => packet'[b].verdict = "none"
  BY <1>1, <1>3 DEF FirewallIInv, InHook, PacketOK
<1>6. HookReady'
  BY <1>1 DEF FirewallIInv, FirewallInv, HookReady
<1> QED BY <1>1, <1>2, <1>4, <1>5, <1>6 DEF FirewallIInv, FirewallInv

\* Every step of a packet on its way through the hook.
LEMMA FirewallPackets ==
  ASSUME FirewallIInv, NEW c \in Cpus, PacketStep(c)
  PROVE  FirewallIInv'
<1> DEFINE q == packet[c]
<1>1. PacketOK(q) /\ grace \subseteq Cpus /\ grace \ {c} \subseteq Cpus
  BY DEF FirewallIInv, FirewallInv, TypeOK, BlocksPort, InHook, PacketOK
<1>2. q = [at |-> q.at, kind |-> q.kind, refs |-> q.refs, verdict |-> q.verdict]
  BY <1>1 DEF PacketOK
<1>3. packet \in [Cpus -> [at : {"none", "call", "ip", "tcp", "destruct", "verdict", "panic"},
                          kind : TcpPorts \union {Udp}, refs : {0, 1},
                          verdict : {"none", "ACCEPT", "DROP"}]]
  BY DEF FirewallIInv, FirewallInv, TypeOK
<1>4. ASSUME NEW k \in TcpPorts \union {Udp}, Arrive(c, k) PROVE FirewallIInv'
  <2> DEFINE p == [at |-> IF registered THEN "call" ELSE "verdict", kind |-> k, refs |-> 1,
                   verdict |-> "none"]
  <2>1. packet' = [packet EXCEPT ![c] = p] /\ UNCHANGED <<loading, grace>>
    BY <1>4 DEF Arrive
  <2>2. PacketOK(p)
    BY DEF PacketOK
  <2> HIDE DEF p
  <2> QED BY <1>1, <2>1, <2>2, PacketChanges
<1>5. ASSUME NEW s, Goto(c, s), UNCHANGED <<loading, grace>>,
             \/ q.at = "call" /\ s = "ip"
             \/ q.at = "ip" /\ s = "tcp"
             \/ s = "panic"
      PROVE  FirewallIInv'
  <2> DEFINE p == [q EXCEPT !.at = s]
  <2>1. packet' = [packet EXCEPT ![c] = p]
    BY <1>3, <1>5 DEF Goto
  <2>2. PacketOK(p)
    BY <1>1, <1>5 DEF PacketOK
  <2> HIDE DEF p
  <2> QED BY <1>1, <1>5, <2>1, <2>2, PacketChanges
<1>6. ASSUME NEW s, NEW v, Decide(c, s, v), UNCHANGED <<loading, grace>>,
             s \in {"destruct", "verdict"}, q.at \in {"call", "ip", "tcp"},
             v \in {"ACCEPT", "DROP"}, v = "DROP" <=> q.kind = BlockedPort
      PROVE  FirewallIInv'
  <2> DEFINE p == [q EXCEPT !.at = s, !.verdict = v]
  <2>1. packet' = [packet EXCEPT ![c] = p]
    BY <1>3, <1>6 DEF Decide
  <2>2. PacketOK(p)
    BY <1>1, <1>6 DEF PacketOK
  <2> HIDE DEF p
  <2> QED BY <1>1, <1>6, <2>1, <2>2, PacketChanges
<1>7. InHook(c) => HookFields \subseteq hook /\ port_to_block_ = BlockedPort
  BY DEF FirewallIInv, FirewallInv, HookReady
<1>8. CASE Trampoline(c)
  BY <1>5, <1>7, <1>8 DEF Trampoline, InHook
<1>9. CASE CheckIp(c)
  <2>1. CASE q.kind = Udp
    BY <1>6, <1>9, <2>1, ConstantsAssumption DEF CheckIp
  <2>2. CASE q.kind # Udp
    BY <1>5, <1>9, <2>2 DEF CheckIp
  <2> QED BY <2>1, <2>2
<1>10. CASE CheckTcp(c)
  <2>1. port_to_block_ = BlockedPort
    BY <1>7, <1>10 DEF CheckTcp, InHook
  <2> QED BY <1>6, <1>10, <2>1 DEF CheckTcp
<1>11. CASE DestructSkb(c)
  <2> DEFINE p == [q EXCEPT !.at = "verdict", !.refs = 0]
  <2>1. q.at = "destruct" /\ q.refs = 1 /\ q.refs - 1 = 0
    BY <1>1, <1>11 DEF DestructSkb, PacketOK
  <2>2. packet' = [packet EXCEPT ![c] = p] /\ UNCHANGED loading /\ grace' = grace \ {c}
    BY <1>3, <1>11, <2>1 DEF DestructSkb
  <2>3. PacketOK(p)
    BY <1>1, <2>1 DEF PacketOK
  <2> HIDE DEF p
  <2> QED BY <1>1, <2>2, <2>3, PacketChanges
<1>12. CASE ActOnVerdict(c)
  <2>1. packet' = [packet EXCEPT ![c] = NoPacket] /\ UNCHANGED loading /\ grace' = grace \ {c}
    BY <1>12 DEF ActOnVerdict
  <2>2. PacketOK(NoPacket)
    BY DEF PacketOK, NoPacket
  <2> QED BY <1>1, <2>1, <2>2, PacketChanges
<1>13. CASE RunFreedCode(c)
  BY <1>5, <1>13 DEF RunFreedCode
<1> QED BY <1>4, <1>8, <1>9, <1>10, <1>11, <1>12, <1>13 DEF PacketStep

\* Every step of the firewall module and of its hook.
LEMMA FirewallNext == FirewallIInv /\ [Next]_vars => FirewallIInv'
<1> SUFFICES ASSUME FirewallIInv, [Next]_vars PROVE FirewallIInv'
  OBVIOUS
<1>1. CASE UNCHANGED vars
  BY <1>1 DEF vars, FirewallIInv, FirewallInv, TypeOK, HookReady, BlocksPort, InHook
<1> QED BY <1>1, FirewallLoads, FirewallPackets DEF Next

------------------------------------------------------------------------------
(***************************************************************************)
(* EchoModule.  While init runs, the step that comes next tells which      *)
(* objects exist and which registrations of this load; earlier loads have  *)
(* left theirs behind, of which only their number is known.  A load has an *)
(* outcome once its module is out, so that the files of a running load are *)
(* not those of a failed one.                                              *)
(***************************************************************************)

\* init has come to one of the steps in T, or has returned.
Reached(T) == echoModule = "live" \/ (echoModule = "init" /\ echoPc \in T)

\* Load n failed in its last step, after the cdev was added.
Orphan(n) == outcome[n] = "failed" /\ n \in cdevs

ModuleIInv ==
  /\ ModuleInv
  /\ echoModule = "init" =>
       echoPc \in {"driver", "region", "class", "cdev", "add", "device", "return"}
  /\ echoModule # "out" => loads \in 1 .. MaxLoads
  /\ \A n \in regions \union classes \union cdevs \union nodes : n <= loads
  /\ echoModule # "out" => refcnt = opens[loads] /\ outcome[loads] = "none"
  /\ \A n \in E!Loads : n > loads => outcome[n] = "none"
  /\ echoModule \in {"init", "live"} =>
       /\ loads \in regions <=> Reached({"class", "cdev", "add", "device", "return"})
       /\ loads \in classes <=> Reached({"cdev", "add", "device", "return"})
       /\ loads \in cdevs <=> Reached({"device", "return"})
       /\ loads \in nodes <=> Reached({"return"})
  /\ Reached({"region", "class", "cdev", "add", "device", "return"}) =>
       "driver" \in globals /\ <<loads, "driver">> \in heap
  /\ Reached({"add", "device", "return"}) => "cdev" \in globals /\ <<loads, "cdev">> \in heap
  /\ Reached({"return"}) => "device" \in globals
  /\ \A n \in E!Loads : opens[n] > 0 => (n = loads /\ Reached({"device", "return"})) \/ Orphan(n)

\* No load has happened yet.
LEMMA ModuleInit == E!Init => ModuleIInv
<1> SUFFICES ASSUME E!Init PROVE ModuleIInv
  OBVIOUS
<1>1. MaxLoads \in Nat /\ MaxOpens \in Nat
  BY PartsAssumption DEF E!BoundsAssumption
<1>2. E!TypeOK
  <2>1. 0 \in 0 .. MaxLoads /\ 0 \in 0 .. MaxOpens
    BY <1>1
  <2>2. outcome \in [E!Loads -> {"none", "failed", "exited"}]
    BY DEF E!Init
  <2>3. opens \in [E!Loads -> 0 .. MaxOpens]
    BY <2>1 DEF E!Init
  <2> QED BY <2>1, <2>2, <2>3 DEF E!Init, E!TypeOK
<1> QED BY <1>1, <1>2 DEF E!Init, ModuleIInv, ModuleInv, E!RegistrationInv, E!NodeOpensDriver,
                          E!ReachableIsAllocated, E!OpenFilesPinDriver, Reached

\* The parts of the invariant that an unload and a failed load leave: what the
\* kernel can reach is allocated, by this or an earlier load.
Left ==
  /\ E!TypeOK /\ E!ReachableIsAllocated
  /\ \A n \in regions \union classes \union cdevs \union nodes : n <= loads

\* A new load has no registrations: its number is new.
LEMMA ModuleLoads == ModuleIInv /\ E!Insmod => ModuleIInv'
<1> SUFFICES ASSUME ModuleIInv, E!Insmod PROVE ModuleIInv'
  OBVIOUS
<1>1. MaxLoads \in Nat /\ loads \in Nat /\ loads < MaxLoads
  BY PartsAssumption DEF E!BoundsAssumption, E!Insmod, ModuleIInv, ModuleInv, E!RegistrationInv, E!TypeOK
<1>2. /\ loads' = loads + 1 /\ echoModule = "out" /\ echoModule' = "init" /\ echoPc' = "driver"
      /\ globals' = {} /\ is_added_' = FALSE /\ refcnt' = 0
      /\ UNCHANGED <<heap, regions, classes, cdevs, nodes, opens, stale, outcome>>
  BY DEF E!Insmod, E!registries
<1>3. /\ loads' \in 1 .. MaxLoads /\ loads' \in 0 .. MaxLoads
      /\ \A n \in regions \union classes \union cdevs \union nodes : n <= loads /\ n \in Nat
  BY <1>1, <1>2 DEF ModuleIInv, ModuleInv, E!RegistrationInv, E!TypeOK, E!Loads
<1>4. /\ \A n \in regions \union classes \union cdevs \union nodes : n <= loads'
      /\ loads' \notin regions \union classes \union cdevs \union nodes
  BY <1>1, <1>2, <1>3
<1>5. E!TypeOK'
  <2>1. 0 \in 0 .. MaxOpens
    BY PartsAssumption DEF E!BoundsAssumption
  <2> QED BY <1>2, <1>3, <1>4, <2>1 DEF ModuleIInv, ModuleInv, E!RegistrationInv, E!TypeOK
<1>6. /\ outcome[loads'] = "none"
      /\ \A n \in E!Loads : n > loads' => outcome[n] = "none"
  BY <1>1, <1>2, <1>3 DEF ModuleIInv, E!Loads
<1>7. \A n \in E!Loads : opens[n] \in Nat /\ (opens[n] > 0 => Orphan(n))
  BY <1>2 DEF ModuleIInv, ModuleInv, E!RegistrationInv, E!TypeOK, Reached
<1>8. opens[loads'] = 0 /\ \A n \in E!Loads : opens'[n] > 0 => Orphan(n)'
  BY <1>2, <1>3, <1>6, <1>7 DEF Orphan, E!Loads
<1> QED BY <1>2, <1>3, <1>4, <1>5, <1>6, <1>8
        DEF Orphan, ModuleIInv, ModuleInv, E!RegistrationInv, E!NodeOpensDriver, E!ReachableIsAllocated,
            E!OpenFilesPinDriver, Reached

\* While init has not added the cdev, and after exit has started, no file is
\* open on the device of the load.
LEMMA NoFileOpen ==
  ModuleIInv /\ echoModule # "out" /\ ~Reached({"device", "return"}) => opens[loads] = 0 /\ refcnt = 0
<1> SUFFICES ASSUME ModuleIInv, echoModule # "out", ~Reached({"device", "return"})
             PROVE  opens[loads] = 0 /\ refcnt = 0
  OBVIOUS
<1>1. loads \in E!Loads /\ outcome[loads] = "none" /\ refcnt = opens[loads]
  BY DEF ModuleIInv, E!Loads
<1>2. opens[loads] \in Nat /\ ~(opens[loads] > 0)
  BY <1>1 DEF ModuleIInv, ModuleInv, E!RegistrationInv, E!TypeOK, Orphan
<1> QED BY <1>1, <1>2

\* A step of init that fails leaves what it and its predecessors registered.
LEMMA ModuleFails ==
  ASSUME ModuleIInv, echoModule = "init", echoPc # "return",
         echoModule' \in {"out", "oops"}, echoPc' = "idle",
         UNCHANGED <<loads, is_added_, regions, classes, cdevs, nodes, opens, refcnt, stale>>,
         globals' \subseteq E!Names, heap' \subseteq E!Loads \X E!Names, heap \subseteq heap',
         \/ echoModule' = "out" /\ outcome' = [outcome EXCEPT ![loads] = "failed"]
         \/ echoModule' = "oops" /\ echoPc = "cdev" /\ outcome' = outcome
  PROVE  ModuleIInv'
<1>0. /\ loads \in E!Loads /\ loads \in Nat /\ \A n \in E!Loads : n \in Nat
      /\ outcome \in [E!Loads -> {"none", "failed", "exited"}]
  BY DEF ModuleIInv, ModuleInv, E!RegistrationInv, E!TypeOK, E!Loads
<1>1. /\ outcome' \in [E!Loads -> {"none", "failed", "exited"}]
      /\ \A n \in E!Loads : n # loads => outcome'[n] = outcome[n]
      /\ echoModule' = "out" => outcome'[loads] = "failed"
      /\ echoModule' = "oops" => outcome'[loads] = "none"
  BY <1>0 DEF ModuleIInv
<1>2. E!TypeOK'
  BY <1>1 DEF ModuleIInv, ModuleInv, E!RegistrationInv, E!TypeOK
<1>3. E!ReachableIsAllocated'
  BY DEF ModuleIInv, ModuleInv, E!ReachableIsAllocated
<1>4. Left'
  BY <1>2, <1>3 DEF Left, ModuleIInv
<1>5. loads' \in 1 .. MaxLoads /\ echoModule' \notin {"init", "live"}
  BY DEF ModuleIInv
<1>6. \A n \in E!Loads : opens'[n] > 0 => Orphan(n)'
  <2> SUFFICES ASSUME NEW n \in E!Loads, opens[n] > 0 PROVE outcome'[n] = "failed" /\ n \in cdevs
    BY DEF Orphan
  <2>1. CASE n # loads
    BY <1>1, <2>1 DEF ModuleIInv, Orphan
  <2>2. CASE n = loads
    <3>1. Reached({"device", "return"})
      BY <1>0, <2>2, NoFileOpen
    <3>2. n \in cdevs /\ echoPc = "device"
      BY <2>2, <3>1 DEF Reached, ModuleIInv
    <3> QED BY <1>1, <2>2, <3>2
  <2> QED BY <2>1, <2>2
<1>7. \A n \in E!Loads : n > loads' => outcome'[n] = "none"
  BY <1>0, <1>1 DEF ModuleIInv
<1>8. echoModule' # "out" => refcnt' = opens'[loads'] /\ outcome'[loads'] = "none"
  BY <1>1 DEF ModuleIInv
<1> QED BY <1>4, <1>5, <1>6, <1>7, <1>8
        DEF Left, Orphan, ModuleIInv, ModuleInv, E!RegistrationInv, E!NodeOpensDriver,
            E!OpenFilesPinDriver, Reached

\* A step of exit registers nothing and keeps what is allocated.
LEMMA ModuleExits ==
  ASSUME ModuleIInv, echoModule \in {"live", "exit"}, opens[loads] = 0, refcnt = 0,
         echoModule' \in {"exit", "out"}, echoPc' \in {"idle", "device", "cdev", "class", "region", "driver", "return"},
         UNCHANGED <<loads, heap, is_added_, classes, cdevs, nodes, opens, refcnt, stale>>,
         regions' \subseteq regions, globals' \subseteq globals,
         \/ echoModule' = "exit" /\ outcome' = outcome
         \/ echoModule' = "out" /\ outcome' = [outcome EXCEPT ![loads] = "exited"]
  PROVE  ModuleIInv'
<1>0. /\ loads \in E!Loads /\ loads \in Nat /\ \A n \in E!Loads : n \in Nat
      /\ outcome \in [E!Loads -> {"none", "failed", "exited"}]
  BY DEF ModuleIInv, ModuleInv, E!RegistrationInv, E!TypeOK, E!Loads
<1>5. /\ outcome' \in [E!Loads -> {"none", "failed", "exited"}]
      /\ \A n \in E!Loads : n # loads => outcome'[n] = outcome[n]
      /\ echoModule' = "exit" => outcome'[loads] = "none"
  BY <1>0 DEF ModuleIInv
<1>1. E!TypeOK'
  BY <1>5 DEF ModuleIInv, ModuleInv, E!RegistrationInv, E!TypeOK
<1>2. E!ReachableIsAllocated'
  BY DEF ModuleIInv, ModuleInv, E!ReachableIsAllocated
<1>3. Left'
  BY <1>1, <1>2 DEF Left, ModuleIInv
<1>4. loads' \in 1 .. MaxLoads /\ echoModule' \notin {"init", "live"}
  BY DEF ModuleIInv
<1>6. \A n \in E!Loads : opens'[n] > 0 => Orphan(n)'
  BY <1>0, <1>5 DEF ModuleIInv, Orphan
<1>7. \A n \in E!Loads : n > loads' => outcome'[n] = "none"
  BY <1>0, <1>5 DEF ModuleIInv
<1>8. echoModule' # "out" => refcnt' = opens'[loads'] /\ outcome'[loads'] = "none"
  BY <1>5 DEF ModuleIInv
<1> QED BY <1>3, <1>4, <1>6, <1>7, <1>8
        DEF Left, Orphan, ModuleIInv, ModuleInv, E!RegistrationInv, E!NodeOpensDriver,
            E!OpenFilesPinDriver, Reached

\* The step s of init that succeeds, and what it adds to each registry.
Goes(s, t, name, R, K, D, V) ==
  /\ echoModule = "init" /\ echoPc = s /\ echoModule' = "init" /\ echoPc' = t
  /\ globals' = globals \union name /\ heap' = heap \union ({loads} \X name)
  /\ regions' = regions \union R /\ classes' = classes \union K
  /\ cdevs' = cdevs \union D /\ nodes' = nodes \union V
  /\ UNCHANGED <<loads, opens, refcnt, stale, outcome>>
  /\ is_added_' = (is_added_ \/ D # {})

\* Each step of the init function leaves what its pc says.
LEMMA ModuleGoes ==
  ASSUME ModuleIInv, NEW s, NEW t, NEW name, NEW R, NEW K, NEW D, NEW V,
         Goes(s, t, name, R, K, D, V),
         \/ s = "driver" /\ t = "region" /\ name = {"driver"} /\ R = {} /\ K = {} /\ D = {} /\ V = {}
         \/ s = "region" /\ t = "class" /\ name = {} /\ R = {loads} /\ K = {} /\ D = {} /\ V = {}
         \/ s = "class" /\ t = "cdev" /\ name = {"class"} /\ R = {} /\ K = {loads} /\ D = {} /\ V = {}
         \/ s = "cdev" /\ t = "add" /\ name = {"cdev"} /\ R = {} /\ K = {} /\ D = {} /\ V = {}
         \/ s = "add" /\ t = "device" /\ name = {} /\ R = {} /\ K = {} /\ D = {loads} /\ V = {}
         \/ s = "device" /\ t = "return" /\ name = {"device"} /\ R = {} /\ K = {} /\ D = {} /\ V = {loads}
  PROVE  ModuleIInv'
<1>1. /\ echoModule = "init" /\ echoPc = s /\ echoModule' = "init" /\ echoPc' = t
      /\ globals' = globals \union name /\ heap' = heap \union ({loads} \X name)
      /\ regions' = regions \union R /\ classes' = classes \union K
      /\ cdevs' = cdevs \union D /\ nodes' = nodes \union V
      /\ UNCHANGED <<loads, opens, refcnt, stale, outcome>>
      /\ is_added_' = (is_added_ \/ D # {})
  BY DEF Goes
<1>2. /\ loads \in 1 .. MaxLoads /\ loads <= loads /\ name \subseteq E!Names
      /\ R \subseteq {loads} /\ K \subseteq {loads} /\ D \subseteq {loads} /\ V \subseteq {loads}
  BY <1>1 DEF ModuleIInv, E!Names
<1>3. \A n \in E!Loads : opens[n] > 0 => (n = loads /\ echoPc = "device") \/ Orphan(n)
  BY <1>1 DEF ModuleIInv, Reached
<1>4. E!TypeOK'
  <2>1. /\ globals' \subseteq E!Names /\ regions' \subseteq E!Loads /\ classes' \subseteq E!Loads
        /\ cdevs' \subseteq E!Loads /\ nodes' \subseteq E!Loads
    BY <1>1, <1>2 DEF ModuleIInv, ModuleInv, E!RegistrationInv, E!TypeOK, E!Loads
  <2>2. heap' \subseteq E!Loads \X E!Names
    BY <1>1, <1>2 DEF ModuleIInv, ModuleInv, E!RegistrationInv, E!TypeOK, E!Loads
  <2>3. is_added_' \in BOOLEAN /\ (is_added_' <=> loads \in cdevs')
    <3>1. D = {} \/ D = {loads}
      BY <1>2
    <3>2. is_added_ \in BOOLEAN /\ (is_added_ <=> loads \in cdevs)
      BY <1>1 DEF ModuleIInv, ModuleInv, E!RegistrationInv, E!TypeOK
    <3> QED BY <1>1, <3>1, <3>2
  <2>4. echoPc' \in {"idle", "driver", "region", "class", "cdev", "add", "device", "return"}
    BY <1>1
  <2> QED BY <1>1, <2>1, <2>2, <2>3, <2>4 DEF ModuleIInv, ModuleInv, E!RegistrationInv, E!TypeOK
<1>5. \A n \in regions' \union classes' \union cdevs' \union nodes' : n <= loads'
  BY <1>1, <1>2 DEF ModuleIInv
<1>6. /\ echoPc' \in {"driver", "region", "class", "cdev", "add", "device", "return"}
      /\ loads' \in regions' <=> echoPc' \in {"class", "cdev", "add", "device", "return"}
      /\ loads' \in classes' <=> echoPc' \in {"cdev", "add", "device", "return"}
      /\ loads' \in cdevs' <=> echoPc' \in {"device", "return"}
      /\ loads' \in nodes' <=> echoPc' \in {"return"}
  BY <1>1 DEF ModuleIInv, Reached
<1>7. /\ echoPc' \in {"region", "class", "cdev", "add", "device", "return"} =>
           "driver" \in globals' /\ <<loads, "driver">> \in heap'
      /\ echoPc' \in {"add", "device", "return"} => "cdev" \in globals' /\ <<loads, "cdev">> \in heap'
      /\ echoPc' \in {"return"} => "device" \in globals'
  BY <1>1 DEF ModuleIInv, Reached
<1>8. E!ReachableIsAllocated'
  <2> SUFFICES ASSUME NEW n \in cdevs' PROVE <<n, "cdev">> \in heap' /\ <<n, "driver">> \in heap'
    BY DEF E!ReachableIsAllocated
  <2>1. CASE n \in cdevs
    BY <1>1, <2>1 DEF ModuleIInv, ModuleInv, E!ReachableIsAllocated
  <2>2. CASE n \notin cdevs
    <3>1. n = loads
      BY <1>1, <1>2, <2>2
    <3> QED BY <1>1, <1>6, <1>7, <3>1
  <2> QED BY <2>1, <2>2
<1>9. \A n \in E!Loads : opens'[n] > 0 => (n = loads /\ echoPc' = "return") \/ Orphan(n)'
  BY <1>1, <1>3 DEF Orphan
<1>10. /\ refcnt' = opens'[loads'] /\ outcome'[loads'] = "none"
       /\ \A n \in E!Loads : n > loads' => outcome'[n] = "none"
  BY <1>1 DEF ModuleIInv
<1>11. E!NodeOpensDriver' /\ E!OpenFilesPinDriver'
  BY <1>1, <1>6, <1>7, <1>9, <1>10 DEF E!NodeOpensDriver, E!OpenFilesPinDriver, E!Loaded, Orphan
<1> QED BY <1>1, <1>2, <1>4, <1>5, <1>6, <1>7, <1>8, <1>9, <1>10, <1>11
        DEF ModuleIInv, ModuleInv, E!RegistrationInv, Reached

\* Each step of init either goes on or fails.
LEMMA ModuleInits ==
  ASSUME ModuleIInv,
         E!MakeDriver \/ E!AllocRegion \/ E!MakeClass \/ E!MakeCharDevice \/ E!AddCharDevice \/ E!MakeDevice
  PROVE  ModuleIInv'
<1> DEFINE Fails ==
      /\ echoModule = "init" /\ echoPc # "return"
      /\ echoModule' \in {"out", "oops"} /\ echoPc' = "idle"
      /\ UNCHANGED <<loads, is_added_, regions, classes, cdevs, nodes, opens, refcnt, stale>>
      /\ globals' \subseteq E!Names /\ heap' \subseteq E!Loads \X E!Names /\ heap \subseteq heap'
      /\ \/ echoModule' = "out" /\ outcome' = [outcome EXCEPT ![loads] = "failed"]
         \/ echoModule' = "oops" /\ echoPc = "cdev" /\ outcome' = outcome
<1>1. Fails => ModuleIInv'
  BY ModuleFails
<1>2. /\ globals \subseteq E!Names /\ heap \subseteq E!Loads \X E!Names /\ is_added_ \in BOOLEAN
      /\ outcome \in [E!Loads -> {"none", "failed", "exited"}]
      /\ echoModule = "init" => loads \in E!Loads
  BY DEF ModuleIInv, ModuleInv, E!RegistrationInv, E!TypeOK, E!Loads
<1>3. \A x \in E!Names : echoModule = "init" =>
        /\ globals \union {x} \subseteq E!Names
        /\ heap \union {<<loads, x>>} \subseteq E!Loads \X E!Names
  <2>1. ASSUME NEW x \in E!Names, echoModule = "init" PROVE <<loads, x>> \in E!Loads \X E!Names
    BY <1>2, <2>1
  <2> QED BY <1>2, <2>1
<1>4. /\ \A x : {loads} \X {x} = {<<loads, x>>}
      /\ {loads} \X {} = {}
      /\ is_added_ = (is_added_ \/ {} # {})
      /\ TRUE = (is_added_ \/ {loads} # {})
  BY <1>2
<1> USE DEF E!At, E!Allocate, E!Continue, E!InitFails, E!registries, E!Names
<1>5. CASE E!MakeDriver
  <2>1. Fails \/ Goes("driver", "region", {"driver"}, {}, {}, {}, {})
    BY <1>2, <1>3, <1>4, <1>5 DEF E!MakeDriver, Goes
  <2> QED BY <1>1, <2>1, ModuleGoes
<1>6. CASE E!AllocRegion
  <2>1. Fails \/ Goes("region", "class", {}, {loads}, {}, {}, {})
    BY <1>2, <1>3, <1>4, <1>6 DEF E!AllocRegion, Goes
  <2> QED BY <1>1, <2>1, ModuleGoes
<1>7. CASE E!MakeClass
  <2>1. Fails \/ Goes("class", "cdev", {"class"}, {}, {loads}, {}, {})
    BY <1>2, <1>3, <1>4, <1>7 DEF E!MakeClass, Goes
  <2> QED BY <1>1, <2>1, ModuleGoes
<1>8. CASE E!MakeCharDevice
  <2>1. Fails \/ Goes("cdev", "add", {"cdev"}, {}, {}, {}, {})
    BY <1>2, <1>3, <1>4, <1>8 DEF E!MakeCharDevice, Goes
  <2> QED BY <1>1, <2>1, ModuleGoes
<1>9. CASE E!AddCharDevice
  <2>1. Fails \/ Goes("add", "device", {}, {}, {}, {loads}, {})
    BY <1>2, <1>3, <1>4, <1>9 DEF E!AddCharDevice, Goes
  <2> QED BY <1>1, <2>1, ModuleGoes
<1>10. CASE E!MakeDevice
  <2>1. Fails \/ Goes("device", "return", {"device"}, {}, {}, {}, {loads})
    BY <1>2, <1>3, <1>4, <1>10 DEF E!MakeDevice, Goes
  <2> QED BY <1>1, <2>1, ModuleGoes
<1> QED BY <1>5, <1>6, <1>7, <1>8, <1>9, <1>10

\* A file is opened where Reached({"device", "return"}) holds; a file that was
\* left by a failed load can only be closed.
LEMMA ModuleOpens ==
  ASSUME ModuleIInv, NEW n \in E!Loads, E!Open(n) \/ E!Close(n)
  PROVE  ModuleIInv'
<1>1. UNCHANGED <<loads, echoModule, echoPc, globals, heap, is_added_, regions, classes, cdevs, nodes,
                  outcome>>
  BY DEF E!Open, E!Close, E!registries
<1>2. /\ MaxOpens \in Nat /\ opens \in [E!Loads -> 0 .. MaxOpens] /\ stale \in BOOLEAN
      /\ opens[n] \in 0 .. MaxOpens /\ refcnt \in 0 .. MaxOpens
      /\ E!Loaded(n) => refcnt = opens[n]
  BY PartsAssumption
     DEF E!BoundsAssumption, ModuleIInv, ModuleInv, E!RegistrationInv, E!TypeOK, E!Loaded
<1>3. PICK x \in 0 .. MaxOpens :
        /\ opens' = [opens EXCEPT ![n] = x]
        /\ \/ E!Loaded(n) /\ refcnt' = x /\ UNCHANGED stale
           \/ E!Gone(n) /\ stale' = TRUE /\ UNCHANGED refcnt
        /\ opens[n] > 0 \/ x = 0 \/ (E!Loaded(n) /\ n \in cdevs)
  <2>1. CASE E!Open(n) /\ E!Loaded(n)
    <3>1. /\ opens[n] + 1 \in 0 .. MaxOpens /\ opens' = [opens EXCEPT ![n] = opens[n] + 1]
          /\ refcnt' = opens[n] + 1 /\ UNCHANGED stale /\ n \in cdevs
      BY <1>2, <2>1 DEF E!Open, E!References, E!FopsOwner, E!Loaded, E!Gone
    <3> QED BY <2>1, <3>1
  <2>2. CASE E!Open(n) /\ ~E!Loaded(n)
    <3>1. opens' = [opens EXCEPT ![n] = opens[n]] /\ E!Gone(n) /\ stale' = TRUE /\ UNCHANGED refcnt
      BY <1>2, <2>2 DEF E!Open
    <3>2. opens[n] > 0 \/ opens[n] = 0
      BY <1>2
    <3> QED BY <1>2, <3>1, <3>2
  <2>3. CASE E!Close(n)
    <3>1. /\ opens[n] - 1 \in 0 .. MaxOpens /\ opens' = [opens EXCEPT ![n] = opens[n] - 1]
          /\ \/ E!Loaded(n) /\ refcnt' = opens[n] - 1 /\ UNCHANGED stale
             \/ E!Gone(n) /\ stale' = TRUE /\ UNCHANGED refcnt
          /\ opens[n] > 0
      BY <1>2, <2>3 DEF E!Close, E!References, E!FopsOwner
    <3> QED BY <3>1
  <2> QED BY <2>1, <2>2, <2>3
<1>4. /\ opens' \in [E!Loads -> 0 .. MaxOpens] /\ refcnt' \in 0 .. MaxOpens /\ stale' \in BOOLEAN
      /\ opens'[n] = x /\ \A m \in E!Loads : m # n => opens'[m] = opens[m]
  BY <1>2, <1>3
<1>5. E!TypeOK'
  BY <1>1, <1>4 DEF ModuleIInv, ModuleInv, E!RegistrationInv, E!TypeOK
<1>6. echoModule # "out" => refcnt' = opens'[loads]
  <2> SUFFICES ASSUME echoModule # "out" PROVE refcnt' = opens'[loads]
    OBVIOUS
  <2>1. loads \in E!Loads /\ refcnt = opens[loads]
    BY DEF ModuleIInv, E!Loads
  <2>2. E!Gone(n) => n # loads
    BY DEF E!Gone
  <2> QED BY <1>3, <1>4, <2>1, <2>2 DEF E!Loaded
<1>7. \A m \in E!Loads : opens'[m] > 0 => (m = loads /\ Reached({"device", "return"})) \/ Orphan(m)
  <2> SUFFICES ASSUME NEW m \in E!Loads, opens'[m] > 0
               PROVE  (m = loads /\ Reached({"device", "return"})) \/ Orphan(m)
    OBVIOUS
  <2>1. CASE opens[m] > 0
    BY <2>1 DEF ModuleIInv
  <2>2. CASE ~(opens[m] > 0)
    <3>1. m = n /\ E!Loaded(n) /\ n \in cdevs
      BY <1>3, <1>4, <2>2
    <3> QED BY <3>1 DEF E!Loaded, ModuleIInv
  <2> QED BY <2>1, <2>2
<1>8. E!OpenFilesPinDriver'
  <2> SUFFICES ASSUME NEW m \in E!Loads, opens'[m] > 0
               PROVE  \/ E!Loaded(m) /\ refcnt' = opens'[m] /\ {"driver", "cdev"} \subseteq globals
                      \/ Orphan(m)
    BY <1>1 DEF E!OpenFilesPinDriver, E!Loaded, Orphan
  <2>1. CASE m = loads /\ Reached({"device", "return"})
    BY <1>6, <2>1 DEF ModuleIInv, Reached, E!Loaded
  <2> QED BY <1>7, <2>1
<1> QED BY <1>1, <1>5, <1>6, <1>7, <1>8
        DEF Orphan, ModuleIInv, ModuleInv, E!RegistrationInv, E!NodeOpensDriver, E!ReachableIsAllocated,
            Reached

\* Every step of the echo module and of its users.
LEMMA ModuleNext == ModuleIInv /\ [E!Next]_(E!vars) => ModuleIInv'
<1> SUFFICES ASSUME ModuleIInv, [E!Next]_(E!vars) PROVE ModuleIInv'
  OBVIOUS
<1>1. CASE UNCHANGED E!vars
  BY <1>1 DEF E!vars, ModuleIInv, ModuleInv, E!RegistrationInv, E!TypeOK, E!NodeOpensDriver,
              E!ReachableIsAllocated, E!OpenFilesPinDriver, E!Loaded, Orphan, Reached
<1>2. CASE E!InitReturns
  BY <1>2 DEF E!InitReturns, E!At, E!registries, ModuleIInv, ModuleInv, E!RegistrationInv, E!TypeOK,
              E!NodeOpensDriver, E!ReachableIsAllocated, E!OpenFilesPinDriver, E!Loaded, Orphan, Reached
<1>3. outcome \in [E!Loads -> {"none", "failed", "exited"}]
  BY DEF ModuleIInv, ModuleInv, E!RegistrationInv, E!TypeOK
<1>4. CASE E!Rmmod
  BY <1>3, <1>4, ModuleExits DEF E!Rmmod, E!registries, ModuleIInv
<1>5. echoModule = "exit" => opens[loads] = 0 /\ refcnt = 0
  BY NoFileOpen DEF Reached
<1>6. ASSUME NEW s, NEW t \in {"cdev", "class", "region", "return"}, E!Release(s, t) PROVE ModuleIInv'
  BY <1>3, <1>5, <1>6, ModuleExits DEF E!Release, E!registries
<1>7. CASE E!UnregisterRegion
  BY <1>3, <1>5, <1>7, ModuleExits DEF E!UnregisterRegion
<1>8. CASE E!ExitReturns
  BY <1>3, <1>5, <1>8, ModuleExits DEF E!ExitReturns, E!registries
<1>9. E!LoaderStep => ModuleIInv'
  BY <1>2, <1>6, <1>7, <1>8, ModuleInits DEF E!LoaderStep
<1> QED BY <1>1, <1>4, <1>9, ModuleLoads, ModuleOpens DEF E!Next

------------------------------------------------------------------------------
(***************************************************************************)
(* StatusModule.  The whole state but the readers is a function of the     *)
(* step that comes next.                                                   *)
(***************************************************************************)

StatusStep ==
  \/ statusModule = "out" /\ kset = "none" /\ kset_refs = 0 /\ status = "none" /\ refs = 0
  \/ statusModule = "init" /\ statusPc = "kset" /\ kset = "none" /\ kset_refs = 0
       /\ status = "none" /\ refs = 0
  \/ statusModule = "init" /\ statusPc = "object" /\ kset = "added" /\ kset_refs = 1
       /\ status = "none" /\ refs = 0
  \/ statusModule = "init" /\ statusPc = "add" /\ kset = "added" /\ kset_refs = 1
       /\ status = "allocated" /\ refs = 0
  \/ /\ \/ statusModule = "init" /\ statusPc = "return"
        \/ statusModule = "live"
        \/ statusModule = "exit" /\ statusPc = "del"
     /\ kset = "added" /\ kset_refs = 2 /\ status = "visible" /\ refs = 1
  \/ statusModule = "exit" /\ statusPc = "drain" /\ kset = "added" /\ kset_refs = 2
       /\ status = "hidden" /\ refs = 1
  \/ statusModule = "exit" /\ statusPc \in {"release", "unregister"} /\ kset = "added"
       /\ kset_refs = 1 /\ status = "deleted" /\ refs = 1

StatusIInv == StatusInv /\ StatusStep


\* Nothing is in sysfs before the first load.
LEMMA StatusInit == S!Init => StatusIInv
<1> SUFFICES ASSUME S!Init PROVE StatusIInv
  OBVIOUS
<1>1. 0 \in 0 .. MaxLoads
  BY PartsAssumption DEF S!BoundsAssumption
<1>2. S!TypeOK
  BY <1>1 DEF S!Init, S!TypeOK
<1> QED BY <1>2 DEF S!Init, StatusIInv, StatusInv, S!ShowIsSafe, S!GoneFromSysfs, StatusStep

\* One step after the other; exit waits until nobody reads.
LEMMA StatusNext == StatusIInv /\ [S!Next]_(S!vars) => StatusIInv'
<1> SUFFICES ASSUME StatusIInv, [S!Next]_(S!vars) PROVE StatusIInv'
  OBVIOUS
<1>1. MaxLoads \in Nat
  BY PartsAssumption DEF S!BoundsAssumption
<1> USE DEF StatusIInv, StatusInv, S!TypeOK, S!ShowIsSafe, S!GoneFromSysfs, StatusStep, S!At
<1>2. CASE UNCHANGED S!vars
  BY <1>2 DEF S!vars
<1>3. CASE S!Insmod
  BY <1>1, <1>3 DEF S!Insmod
<1>4. CASE S!Exit
  BY <1>4 DEF S!Exit
<1>5. CASE S!CreateKset
  BY <1>5 DEF S!CreateKset, S!Leave
<1>6. CASE S!MakeStatus
  BY <1>6 DEF S!MakeStatus, S!Leave, S!UnregisterKset
<1>7. CASE S!InitAndAdd
  BY <1>7 DEF S!InitAndAdd, S!Leave, S!UnregisterKset
<1>8. CASE S!InitReturns
  BY <1>8 DEF S!InitReturns
<1>9. CASE S!DelStarts
  BY <1>9 DEF S!DelStarts
<1>10. CASE S!DelFinishes
  BY <1>10 DEF S!DelFinishes
<1>11. CASE S!ReleaseStatus
  BY <1>11 DEF S!ReleaseStatus
<1>12. CASE S!UnregisterAndReturn
  BY <1>12 DEF S!UnregisterAndReturn, S!Leave, S!UnregisterKset
<1>13. ASSUME NEW r \in Readers, S!ShowStarts(r) \/ S!ShowEnds(r) PROVE StatusIInv'
  BY <1>13 DEF S!ShowStarts, S!ShowEnds
<1> QED BY <1>2, <1>3, <1>4, <1>5, <1>6, <1>7, <1>8, <1>9, <1>10, <1>11, <1>12, <1>13
        DEF S!Next, S!LoaderStep

------------------------------------------------------------------------------
(***************************************************************************)
(* Attribute and Notifier.  Programs and CPUs are inside only while the    *)
(* object is registered or its removal still waits for them.               *)
(***************************************************************************)

AttributeInv ==
  /\ A!TypeOK /\ A!TrampolineSeesOwner
  /\ using \in [Users -> {A!Nowhere} \union [pc : {"trampoline", "member"}, op : A!Ops]]
  /\ fops = ptrs
  /\ visible => life = "added"
  /\ life \in {"none", "built", "freeing"} <=> ownerRefs = 0
  /\ life = "deleted" => \A u \in Users : using[u] = A!Nowhere

NotifierInv ==
  /\ N!TypeOK /\ N!CallSeesObject
  /\ onChain => owner = "live" \/ left
  /\ \A c \in ChainCpus : at[c] # "none" => left \/ owner = "unregistering" \/ (owner = "live" /\ onChain)
  /\ left => owner = "none"

\* Nobody uses the file before there is one.
LEMMA AttributeInit == A!Init => AttributeInv
<1> SUFFICES ASSUME A!Init PROVE AttributeInv
  OBVIOUS
<1>1. 0 \in 0 .. MaxRefs
  BY PartsAssumption DEF A!ConstantsAssumption
<1>2. \A u \in Users : using[u] = A!Nowhere
  BY DEF A!Init
<1>3. using \in [Users -> {A!Nowhere} \union [pc : {"trampoline", "member"}, op : A!Ops]]
  BY DEF A!Init
<1> QED BY <1>1, <1>2, <1>3 DEF A!Init, AttributeInv, A!TypeOK, A!TrampolineSeesOwner

\* The owner's steps move no user; a step of a user moves only that one.
LEMMA AttributeOwner ==
  ASSUME AttributeInv,
         \/ \E O \in SUBSET A!Ops : A!Construct(O)
         \/ A!init_and_add \/ A!CreateGroup \/ A!get \/ A!del \/ A!DelReturns \/ A!put \/ A!Release
  PROVE  AttributeInv'
<1>1. UNCHANGED using
  BY DEF A!Construct, A!init_and_add, A!CreateGroup, A!get, A!del, A!DelReturns, A!put, A!Release
<1>2. MaxRefs \in Nat \ {0} /\ ownerRefs \in 0 .. MaxRefs
  BY PartsAssumption DEF A!ConstantsAssumption, AttributeInv, A!TypeOK
<1>3. /\ life' \in {"none", "built", "added", "deleting", "deleted", "freeing"}
      /\ ptrs' \subseteq A!Ops /\ fops' = ptrs' /\ visible' \in BOOLEAN
  BY DEF AttributeInv, A!TypeOK, A!Construct, A!init_and_add, A!CreateGroup, A!get, A!del,
         A!DelReturns, A!put, A!Release
<1>4. ownerRefs' \in 0 .. MaxRefs
  BY <1>2 DEF A!Construct, A!init_and_add, A!CreateGroup, A!get, A!del, A!DelReturns, A!put, A!Release
<1>5. /\ visible' => life' = "added"
      /\ life' \in {"none", "built", "freeing"} <=> ownerRefs' = 0
  BY <1>2 DEF AttributeInv, A!TypeOK, A!Construct, A!init_and_add, A!CreateGroup, A!get, A!del,
              A!DelReturns, A!put, A!Release
<1>6. /\ \A u \in Users : using[u] # A!Nowhere => life' \notin {"none", "built"} /\ using[u].op \in ptrs'
      /\ life' = "deleted" => \A u \in Users : using[u] = A!Nowhere
  BY DEF AttributeInv, A!TrampolineSeesOwner, A!Quiet, A!Construct, A!init_and_add, A!CreateGroup,
         A!get, A!del, A!DelReturns, A!put, A!Release
<1> QED BY <1>1, <1>3, <1>4, <1>5, <1>6 DEF AttributeInv, A!TypeOK, A!TrampolineSeesOwner

\* Every step of a user of the attribute.
LEMMA AttributeUser ==
  ASSUME AttributeInv, NEW u \in Users,
         (\E o \in A!Ops : A!Access(u, o)) \/ A!show_trampoline(u) \/ A!store_trampoline(u) \/ A!MemberReturns(u)
  PROVE  AttributeInv'
<1>1. UNCHANGED <<life, ptrs, fops, visible, ownerRefs>>
  BY DEF A!Access, A!show_trampoline, A!store_trampoline, A!Trampoline, A!MemberReturns
<1>2. \A o : A!At("trampoline", o) # A!Nowhere /\ A!At("trampoline", o).op = o
             /\ A!At("member", o) # A!Nowhere /\ A!At("member", o).op = o
  BY DEF A!At, A!Nowhere
<1>3. PICK x : /\ using' = [using EXCEPT ![u] = x]
               /\ \/ x = A!Nowhere
                  \/ /\ x \in [pc : {"trampoline", "member"}, op : A!Ops] /\ x.op \in ptrs
                     /\ life \notin {"none", "built", "deleted"}
  <2>1. ASSUME NEW o \in A!Ops, A!Access(u, o)
        PROVE  /\ using' = [using EXCEPT ![u] = A!At("trampoline", o)] /\ o \in ptrs /\ life = "added"
               /\ A!At("trampoline", o) \in [pc : {"trampoline", "member"}, op : A!Ops]
    BY <2>1 DEF A!Access, AttributeInv, A!At
  <2>2. ASSUME NEW o \in A!Ops, A!Trampoline(u, o)
        PROVE  \/ using' = [using EXCEPT ![u] = A!Nowhere]
               \/ /\ using' = [using EXCEPT ![u] = A!At("member", o)] /\ o \in ptrs
                  /\ life \notin {"none", "built", "deleted"}
                  /\ A!At("member", o) \in [pc : {"trampoline", "member"}, op : A!Ops]
    <3>1. using[u] # A!Nowhere
      BY <1>2, <2>2 DEF A!Trampoline
    <3>2. life \notin {"none", "built", "deleted"}
      BY <3>1 DEF AttributeInv, A!TrampolineSeesOwner
    <3>3. A!At("member", o) \in [pc : {"trampoline", "member"}, op : A!Ops]
      BY DEF A!At
    <3> QED BY <2>2, <3>2, <3>3 DEF A!Trampoline
  <2>3. CASE A!MemberReturns(u)
    BY <2>3 DEF A!MemberReturns
  <2>4. "show" \in A!Ops /\ "store" \in A!Ops
    BY DEF A!Ops
  <2>5. CASE \E o \in A!Ops : A!Access(u, o)
    BY <1>2, <2>1, <2>5
  <2>6. CASE \E o \in A!Ops : A!Trampoline(u, o)
    BY <1>2, <2>2, <2>6
  <2> QED BY <2>3, <2>4, <2>5, <2>6 DEF A!show_trampoline, A!store_trampoline
<1>4. /\ using'[u] = x /\ \A v \in Users \ {u} : using'[v] = using[v]
      /\ using' \in [Users -> {A!Nowhere} \union [pc : {"trampoline", "member"}, op : A!Ops]]
  BY <1>3 DEF AttributeInv
<1>5. \A v \in Users : using'[v] # A!Nowhere => life' \notin {"none", "built"} /\ using'[v].op \in ptrs'
  BY <1>1, <1>3, <1>4 DEF AttributeInv, A!TrampolineSeesOwner
<1>6. life' = "deleted" => \A v \in Users : using'[v] = A!Nowhere
  BY <1>1, <1>3, <1>4 DEF AttributeInv
<1>7. A!TypeOK'
  BY <1>1, <1>4 DEF AttributeInv, A!TypeOK
<1> QED BY <1>1, <1>4, <1>5, <1>6, <1>7 DEF AttributeInv, A!TrampolineSeesOwner

\* Every step of the attribute.
LEMMA AttributeNext == AttributeInv /\ [A!Next]_(A!vars) => AttributeInv'
<1> SUFFICES ASSUME AttributeInv, [A!Next]_(A!vars) PROVE AttributeInv'
  OBVIOUS
<1>1. CASE UNCHANGED A!vars
  BY <1>1 DEF A!vars, AttributeInv, A!TypeOK, A!TrampolineSeesOwner
<1> QED BY <1>1, AttributeOwner, AttributeUser DEF A!Next

\* Before register nobody calls.
LEMMA NotifierInit == N!Init => NotifierInv
BY DEF N!Init, NotifierInv, N!TypeOK, N!CallSeesObject

\* The constructor registers last, and a destructor that unregisters waits for
\* the calls.
LEMMA NotifierNext == NotifierInv /\ [N!Next]_(N!vars) => NotifierInv'
<1> SUFFICES ASSUME NotifierInv, [N!Next]_(N!vars) PROVE NotifierInv'
  OBVIOUS
<1> USE DEF NotifierInv, N!TypeOK, N!CallSeesObject
<1>1. CASE UNCHANGED N!vars
  BY <1>1 DEF N!vars
<1>2. CASE N!Construct
  BY <1>2 DEF N!Construct
<1>3. CASE N!Register
  BY <1>3 DEF N!Register
<1>4. CASE N!Destruct
  BY <1>4 DEF N!Destruct, N!Gone
<1>5. CASE N!DestructReturns
  BY <1>5 DEF N!DestructReturns, N!Quiet, N!Gone
<1>6. ASSUME NEW c \in ChainCpus, N!Notify(c) PROVE NotifierInv'
  BY <1>6 DEF N!Notify
<1>7. ASSUME NEW c \in ChainCpus, N!Trampoline(c) PROVE NotifierInv'
  BY <1>7 DEF N!Trampoline
<1>8. ASSUME NEW c \in ChainCpus, N!CallbackReturns(c) PROVE NotifierInv'
  BY <1>8 DEF N!CallbackReturns
<1> QED BY <1>1, <1>2, <1>3, <1>4, <1>5, <1>6, <1>7, <1>8 DEF N!Next

------------------------------------------------------------------------------
(***************************************************************************)
(* MCSpec.  A step of the model is a step of one part, or leaves it alone. *)
(***************************************************************************)

\* A step of MCNext is one of the firewall, or leaves it alone.
LEMMA FirewallStep == [MCNext]_mcVars => [Next]_vars
BY DEF MCNext, mcVars, Still

\* A step of MCNext is one of the echo module, or leaves it alone.
LEMMA ModuleStep == [MCNext]_mcVars => [E!Next]_(E!vars)
BY DEF MCNext, mcVars, Still, echoVars, E!vars

\* A step of MCNext is one of the status module, or leaves it alone.
LEMMA StatusModuleStep == [MCNext]_mcVars => [S!Next]_(S!vars)
BY DEF MCNext, mcVars, Still, statusVars, S!vars

\* A step of MCNext is one of the attribute, or leaves it alone.
LEMMA AttributeStep == [MCNext]_mcVars => [A!Next]_(A!vars)
BY DEF MCNext, mcVars, Still, attributeVars, A!vars

\* A step of MCNext is one of the notifier, or leaves it alone.
LEMMA NotifierStep == [MCNext]_mcVars => [N!Next]_(N!vars)
BY DEF MCNext, mcVars, Still, notifierVars, N!vars

\* Firewall: with packets on any number of CPUs between any two steps of the
\* constructors, the hook is complete whenever it can be called, and a packet
\* whose hook ran is dropped exactly if it is TCP for the blocked port.
THEOREM FirewallInvHolds == MCSpec => []FirewallInv
<1>1. MCInit => FirewallIInv
  BY FirewallInit DEF MCInit
<1>2. FirewallIInv /\ [MCNext]_mcVars => FirewallIInv'
  BY FirewallStep, FirewallNext
<1>3. FirewallIInv => FirewallInv
  BY DEF FirewallIInv
<1> QED BY <1>1, <1>2, <1>3, PTL DEF MCSpec, mcVars

\* EchoModule: for any number of loads that fail anywhere, unloads that leave
\* registrations behind and open files, a visible node leads to a registered
\* cdev, what the kernel can reach is allocated, and a file is open only on a
\* loaded driver or on one whose init failed in its last step, while exit waits
\* for every file of its own load.
THEOREM ModuleInvHolds == MCSpec => []ModuleInv
<1>1. MCInit => ModuleIInv
  BY ModuleInit DEF MCInit
<1>2. ModuleIInv /\ [MCNext]_mcVars => ModuleIInv'
  BY ModuleStep, ModuleNext
<1>3. ModuleIInv => ModuleInv
  BY DEF ModuleIInv
<1> QED BY <1>1, <1>2, <1>3, PTL DEF MCSpec, mcVars

\* StatusModule: for any readers, show runs only while its object is there, and
\* a failed init and exit leave nothing in sysfs.
THEOREM StatusInvHolds == MCSpec => []StatusInv
<1>1. MCInit => StatusIInv
  BY StatusInit DEF MCInit
<1>2. StatusIInv /\ [MCNext]_mcVars => StatusIInv'
  BY StatusModuleStep, StatusNext
<1>3. StatusIInv => StatusInv
  BY DEF StatusIInv
<1> QED BY <1>1, <1>2, <1>3, PTL DEF MCSpec, mcVars

\* Attribute and Notifier: for any number of users, references and CPUs, a call
\* of a trampoline sees an object that is built, although its removal may be
\* under way, unless it is the left block of a Notifier without an unregister
\* function.
THEOREM CallSeesObjectHolds == MCSpec => []CallSeesObject
<1>1. MCInit => AttributeInv /\ NotifierInv
  BY AttributeInit, NotifierInit DEF MCInit
<1>2. AttributeInv /\ NotifierInv /\ [MCNext]_mcVars => AttributeInv' /\ NotifierInv'
  BY AttributeStep, NotifierStep, AttributeNext, NotifierNext
<1>3. AttributeInv /\ NotifierInv => CallSeesObject
  BY DEF AttributeInv, NotifierInv, CallSeesObject
<1> QED BY <1>1, <1>2, <1>3, PTL DEF MCSpec, mcVars
==============================================================================
