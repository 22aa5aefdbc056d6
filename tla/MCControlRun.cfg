SPECIFICATION FairSpec
CONSTANTS
  GateMode = "vr_ee"
  SelectableModes = {"teleop"}
  IkRunning = TRUE
  InvalidTargets = TRUE
  Commands = {"ready", "start", "home", "clear"}
  MaxOps = 3
INVARIANT HomeForcesEntry
PROPERTY FirstStartFresh
PROPERTY PauseStops
