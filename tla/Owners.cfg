\* UniquePtr: four handles and three blocks, so that every owner can change
\* while others live.  KernelSocket: two threads share three handles on two
\* sockets; a thread that died in the kernel stays in its handle, so that the
\* system may stop.  NetlinkSocket: two SKBs and three packets, each allocated
\* at most once.  XDPAttachment: two NetDevices and three attachments on two
\* devices.  RefHandles: three handles on two objects.  DebugFS: three Dentries
\* and entries, in a tree of up to three levels.  DeviceScope: two DeviceClasses, a CharDevice
\* and a Device.  SharedChain: three nodes.
CONSTANTS
  nullptr = nullptr
  NoObject = NoObject
  ERR = ERR
  Ptrs = {p1, p2, p3, p4}
  Blocks = {b1, b2, b3}
  Threads = {t1, t2}
  Handles = {h1, h2, h3}
  Sockets = {s1, s2}
  SkbHandles = {h1, h2}
  Packets = {q1, q2, q3}
  DeviceHandles = {h1, h2}
  Attachments = {a1, a2, a3}
  Devices = {eth0, eth1}
  RefObjects = {o1, o2}
  Entries = {e1, e2, e3}
  root = root
  Nodes = {n1, n2, n3}
SPECIFICATION MCSpec
CHECK_DEADLOCK FALSE
INVARIANTS
  OneOwner
  DeviceRefsBalanced
  HandlesBalanced
  TreeOwned
  ScopeUnwinds
  ChainInv
PROPERTIES
  FreedOnlyByItsOwner
  ShutdownWakes
  OnlyParentsDangle
