\* One receiver configured for one of two interfaces.
SPECIFICATION Spec
CONSTANTS
  N = 1
  Interfaces = {eth0, eth1}
  AnyInterface = any
  InterfaceIp = eth0
  MaxDatagrams = 1
  SocketBuffer = 1
  ReceiveErrors = FALSE
INVARIANTS ListensOnInterface
CHECK_DEADLOCK FALSE
