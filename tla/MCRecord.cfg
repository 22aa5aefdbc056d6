\* Everything the operator can do in either place, four times.
CONSTANTS
  UiRequests = {"ready", "unready", "start", "unstart", "home", "unhome", "quit",
                "status", "recordStart", "recordDone", "recordReset"}
  KeyRequests = {"ready", "start", "home", "pause", "quit",
                 "recordStart", "recordDone", "recordReset"}
  MaxRequests = 4
  MaxFrames = 2
SPECIFICATION FairSpec
INVARIANTS TakesKeptApart StartHomeExclusive
PROPERTIES RecordStartTakesEffect
\* The worker stops in EXIT.
CHECK_DEADLOCK FALSE
