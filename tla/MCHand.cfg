\* Ready, start, an init and what the operator may do in between; three frames; a
\* constructor that fails, and one more bridge.
CONSTANTS
  MaxToggles = 3
  MaxFrames = 3
  MaxBridges = 2
SPECIFICATION FairSpec
INVARIANTS OverridesBounded BridgeEnds
PROPERTIES TargetsForward ShutdownHonoured InitTaken
\* The worker's process ends.
CHECK_DEADLOCK FALSE
