\* Three poses, of which the outer two are not near each other, four changes of
\* the levels and two homings.
CONSTANTS
  Poses = {0, 1, 2}
  Limit = 1
  MaxToggles = 4
  MaxHomings = 2
SPECIFICATION Spec
INVARIANTS StartAligned ChestAnchored
PROPERTIES TargetsPaired
CHECK_DEADLOCK FALSE
