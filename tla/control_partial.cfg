\* A request of two parameters, one of which is refused.
SPECIFICATION Spec
CONSTANTS
  x = x
  y = y
  Systems = {0}
  OtherIps = {}
  SimInts = {status}
  SimIps = {gps}
  HeadFloats = {}
  HeadInts = {power}
  FixedNames = {mode}
  AnyIp = any
  EmptyIp = empty
  BadIps = {bad}
  Doubles = {}
  Serials <- TwoSerials
  IntMod = 8
  FloatUlp = 2
  PortMod = 8
  SerialWidth = 1
  ValidIps = {any}
  Ints = {1, 2}
  Ports = {3}
  MaxUpdates = 1
  MaxList = 2
INVARIANT CommandsMirrorStore
CHECK_DEADLOCK FALSE
