SPECIFICATION Spec
CONSTANTS
  Fixed = {"camera_topic"}
  Manual = {"simulator", "control"}
  Pool = {}
  Base = {"camera_topic", "control"}
  External = {"simulator"}
  Modes = {}
  Slow = {"control"}
  Stubborn = {}
  Crashing = {}
  Unstartable = {}
  Requests = {"start"}
  MaxRequests = 2
  MaxProcs = 6
INVARIANT ControlNotCut
