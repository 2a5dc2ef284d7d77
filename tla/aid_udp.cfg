\* UDP at its worst: loss and any order; the last bin comes in one section per beam;
\* the sonar reboots; memory and buffer hold old numbers.  A header filed under 0
\* lies beyond the window of ping 2.
SPECIFICATION Spec
CONSTANTS
  U32 = 16
  U16 = 8
  Window = 1
  FirstPing = 1
  StartPings = {2}
  LastPing = 2
  MaxSessions = 2
  MaxInAir = 1
  TotalBins = 3
  TotalBeams = 2
  Sections <- ByBeam
  Garbage = {0, 2}
  Residue = {0, 2}
  Faults = {"lose", "reorder"}
  Advertised = {"acoustic_image"}
INVARIANTS TypeOK PublishedOnce AssemblersIsolated ImagesIsolated
PROPERTIES CompletionSparesWindow
CHECK_DEADLOCK FALSE
