\* Datagrams with and without each optional section, in any order over one buffer.
CONSTANTS
  p1 = p1
  p2 = p2
  Pings = {p1, p2}
  BeamCounts <- MCBeamCounts
  SectionSets <- MCSectionSets
  BeamsPerWord = 2
  Detects <- MCDetects
  BufferSize <- MCBufferSize
  InitialCells <- MCInitialCells
  OtherLengths <- MCOtherLengths
  MaxReceived = 3
SPECIFICATION Spec
CHECK_DEADLOCK FALSE
INVARIANTS
  TypeOK
  DetectionsFaithful
  FlagsFaithful
  TopicsAgree
