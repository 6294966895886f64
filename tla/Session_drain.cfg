SPECIFICATION Spec
CONSTANTS
  FrameIds <- MCFrameIds
  MaxFrames = 5
  MaxQueued = 2
  MaxDue = 1
  Registries = 2
PROPERTY DrainsEveryFrame
CHECK_DEADLOCK FALSE
