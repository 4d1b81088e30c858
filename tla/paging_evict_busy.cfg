SPECIFICATION Spec
CONSTANTS
  p0 = p0
  p1 = p1
  p2 = p2
  NoPage = NoPage
  Pages <- ThreePages
  NumFrames = 2
  NumRows = 4
  FirstStarts <- AtZero
  StartGaps <- InOrder
  WorkTimes <- OneOrTwo
  MaxBlankLines = 0
  MaxFaults = 0
  MaxWaitObjects = 64
SYMMETRY PageSymmetry
INVARIANTS
  EvictsEndedFrameOnly
