\* kpp::NetfilterHook unregisters its hook.
CONSTANTS
  Cpus = {c1}
  TcpPorts = {p80, p22}
  BlockedPort = p80
  Udp = Udp
  Unset = Unset
SPECIFICATION Spec
CHECK_DEADLOCK FALSE
INVARIANTS
  HookGoneAfterExit
