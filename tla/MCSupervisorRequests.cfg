SPECIFICATION Spec
CONSTANTS
  Fixed = {"camera_topic"}
  Manual = {"simulator", "control"}
  Pool = {"walking_logger"}
  Base = {"camera_topic", "control"}
  External = {"simulator"}
  Modes = {"walking"}
  Slow = {"control"}
  Stubborn = {}
  Crashing = {}
  Unstartable = {}
  Requests = {"apply", "start", "stop"}
  MaxRequests = 3
  MaxProcs = 6
INVARIANT OneProcessEach
INVARIANT EnvironmentAgrees
