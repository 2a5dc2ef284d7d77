\* Headers may be lost, and unwritten memory may hold a ping number.
SPECIFICATION Spec
CONSTANTS
  U32 = 16
  U16 = 8
  Window = 1
  FirstPing = 0
  StartPings = {0, 1}
  LastPing = 3
  MaxSessions = 1
  MaxInAir = 1
  TotalBins = 2
  TotalBeams = 1
  Sections <- ByBin
  Garbage = {1, 9}
  Residue = {}
  Faults = {"lose"}
  Advertised = {"aid0", "acoustic_image"}
CHECK_DEADLOCK FALSE
INVARIANTS ImagesHaveHeader
