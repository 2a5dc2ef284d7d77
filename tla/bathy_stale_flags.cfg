\* The same datagrams; two of them suffice.
CONSTANTS
  p1 = p1
  p2 = p2
  Pings = {p1, p2}
  BeamCounts <- MCBeamCounts
  SectionSets <- MCSectionSets
  BeamsPerWord = 2
  Detects <- MCDetects
  BufferSize <- MCBufferSize
  InitialCells <- MCInitialCells
  OtherLengths <- MCOtherLengths
  MaxReceived = 2
SPECIFICATION Spec
CHECK_DEADLOCK FALSE
INVARIANT NoQualityMeansOk
