\* Datagrams may be lost or duplicated but keep their order.
SPECIFICATION FairSpec
CONSTANTS
  U32 = 4
  U16 = 8
  Window = 1
  FirstPing = 0
  StartPings = {0}
  LastPing = 2
  MaxSessions = 1
  MaxInAir = 2
  TotalBins = 2
  TotalBeams = 1
  Sections <- ByBin
  Garbage = {3}
  Residue = {}
  Faults = {"lose", "duplicate"}
  Advertised = {"aid0", "acoustic_image"}
INVARIANTS NoStaleAssembler ReceivedPingImaged ImagesMatchRaw
PROPERTIES ImplementsAcousticImages EveryPingImaged CompletionSparesWindow
CHECK_DEADLOCK FALSE
