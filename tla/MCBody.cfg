SPECIFICATION FairSpec
CONSTANTS
  Workers = {"slow"}
  Length = 1
  MaxMoves = 2
INVARIANT OneWriteAfterStop
INVARIANT OffMeansOff
INVARIANT FallbackFindsClient
INVARIANT LatestStaysActive
PROPERTY NoMotionAfterReturn
PROPERTY MoveReturns
PROPERTY StopEnds
