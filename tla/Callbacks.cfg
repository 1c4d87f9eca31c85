\* Firewall: three CPUs and packets of three kinds; running freed code is the
\* end of the system, which may therefore stop.  EchoModule: three loads, two
\* open files; init can die on a null pointer.  StatusModule: three readers,
\* three loads.  Attribute: two users, three references.  Notifier: four CPUs
\* run the chain.
CONSTANTS
  Cpus = {c1, c2, c3}
  TcpPorts = {p80, p22}
  BlockedPort = p80
  Udp = Udp
  Unset = Unset
  MaxLoads = 3
  MaxOpens = 2
  Readers = {r1, r2, r3}
  Users = {u1, u2}
  MaxRefs = 3
  ChainCpus = {c1, c2, c3, c4}
SPECIFICATION MCSpec
CHECK_DEADLOCK FALSE
INVARIANTS
  FirewallInv
  ModuleInv
  StatusInv
  CallSeesObject
PROPERTIES
  TeardownEnds
