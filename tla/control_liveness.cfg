\* A fair network and timer; one request that sets one parameter, at any moment.
SPECIFICATION FairSpec
CONSTANTS
  x = x
  y = y
  Systems = {0}
  OtherIps = {}
  SimInts = {status}
  SimIps = {gps}
  HeadFloats = {range}
  HeadInts = {}
  FixedNames = {mode}
  AnyIp = any
  EmptyIp = empty
  BadIps = {}
  Doubles = {3}
  Serials <- TwoSerials
  IntMod = 8
  FloatUlp = 2
  PortMod = 8
  SerialWidth = 1
  ValidIps = {any, ip1}
  Ints = {6}
  Ports = {3}
  MaxUpdates = 1
  MaxList = 1
INVARIANT CommandsMirrorStore
PROPERTY DevicesCatchUp
CHECK_DEADLOCK FALSE
