SPECIFICATION FairSpec
CONSTANTS
  Fixed = {"camera_topic"}
  Manual = {"simulator", "control"}
  Pool = {}
  Base = {"camera_topic", "control"}
  External = {"simulator"}
  Modes = {}
  Slow = {"control"}
  Stubborn = {"camera_topic"}
  Crashing = {"control"}
  Unstartable = {"control"}
  Requests = {"start", "stop", "shutdown"}
  MaxRequests = 3
  MaxProcs = 5
INVARIANT SafetySequenceKept
INVARIANT RaisesOnlyBesideRequest
INVARIANT ShutdownLeavesNone
PROPERTY CrashNoticed
PROPERTY LauncherEnds
PROPERTY RequestEnds
