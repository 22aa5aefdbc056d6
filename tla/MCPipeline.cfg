\* RUN, pause, RUN again, while results and steps are counted to two.
CONSTANTS
  Dataset = TRUE
  Stride = 2
  MaxToggles = 3
  MaxStep = 2
  MaxSeq = 2
SPECIFICATION FairSpec
INVARIANTS StaleScope PolicyFresh
PROPERTIES PlaysForward ChunkArrives
