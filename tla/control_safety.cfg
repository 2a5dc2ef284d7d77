\* Launches with every combination of addresses, serial numbers and commands;
\* one request of one or two parameters at any moment.
SPECIFICATION Spec
CONSTANTS
  x = x
  y = y
  Systems = {0}
  OtherIps = {}
  SimInts = {status}
  SimIps = {gps}
  HeadFloats = {range}
  HeadInts = {}
  FixedNames = {mode}
  ValidIps = {any, ip1}
  AnyIp = any
  EmptyIp = empty
  BadIps = {bad}
  Ints = {6}
  Doubles = {3}
  Ports = {3}
  Serials <- NoneOrOne
  IntMod = 8
  FloatUlp = 2
  PortMod = 8
  SerialWidth = 1
  MaxUpdates = 1
  MaxList = 2
INVARIANTS TypeOK SilentWithoutControl TerminatedByVisibleIp CommandedStaysUp CommandsKeptApart OneConfiguration
CHECK_DEADLOCK FALSE
