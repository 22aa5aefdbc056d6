SPECIFICATION FairSpec
CONSTANTS
  GateMode = "leader_joint"
  SelectableModes = {"teleop", "walking"}
  IkRunning = FALSE
  InvalidTargets = TRUE
  Commands = {"ready", "notReady", "start", "home", "clear", "shutdown", "recordStart", "recordDone", "select", "stop"}
  MaxOps = 2
INVARIANT ControllerBuiltOnce
INVARIANT TorqueOffUnlessFailed
PROPERTY ModeFollowsLifecycle
PROPERTY ShutdownCompletes
