\* A sonar that starts below the window, on a network that reorders.
SPECIFICATION Spec
CONSTANTS
  U32 = 65536
  U16 = 8
  Window = 10
  FirstPing = 1
  StartPings = {1}
  LastPing = 2
  MaxSessions = 1
  MaxInAir = 1
  TotalBins = 2
  TotalBeams = 1
  Sections <- ByBin
  Garbage = {0}
  Residue = {}
  Faults = {"reorder"}
  Advertised = {"acoustic_image"}
CHECK_DEADLOCK FALSE
PROPERTIES CleaningSparesNewer
