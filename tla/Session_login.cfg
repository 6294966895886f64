SPECIFICATION Safety
CONSTANTS
  FrameIds <- MCFrameIds
  MaxFrames = 5
  MaxQueued = 2
  MaxDue = 1
  Registries = 2
INVARIANT ConfigurationAfterLogin
CHECK_DEADLOCK FALSE
