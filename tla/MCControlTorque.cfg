SPECIFICATION Spec
CONSTANTS
  GateMode = "leader_joint"
  SelectableModes = {"teleop"}
  IkRunning = FALSE
  InvalidTargets = FALSE
  Commands = {"ready", "stop"}
  MaxOps = 2
INVARIANT TorqueOffBeforeExit
