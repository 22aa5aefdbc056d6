\* Every request, three of them: an endpoint started, stopped and started again.
CONSTANTS
  Requests = {"endpoint on", "endpoint off", "reliability on", "reliability off", "test on", "test off", "save"}
  Faults = TRUE
  MaxRequests = 3
  MaxProcs = 3
SPECIFICATION Spec
INVARIANTS CamerasExclusive NoOrphans
PROPERTIES EndpointServed
\* The launcher ends.
CHECK_DEADLOCK FALSE
