\* Two receivers, errors possible, under the fairness of the operating system.
SPECIFICATION FairSpec
CONSTANTS
  N = 2
  Interfaces = {eth0}
  AnyInterface = any
  InterfaceIp = any
  MaxDatagrams = 2
  SocketBuffer = 1
  ReceiveErrors = TRUE
INVARIANTS TypeOK BufferStable NoThreadOutlivesMain ListensUntilShutdown
PROPERTIES ShutdownCompletes EventuallyListens EveryDatagramHandled
CHECK_DEADLOCK FALSE
