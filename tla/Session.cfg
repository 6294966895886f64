SPECIFICATION Spec
CONSTANTS
  FrameIds <- MCFrameIds
  MaxFrames = 5
  MaxQueued = 2
  MaxDue = 1
  Registries = 2
INVARIANTS
  TypeOK
  FormatsAgree
  WrittenInItsState
  SleepsOnFramesOnlyAfterSkip
  LimboEndsWithClient
PROPERTIES
  StateMovesForward
  SpeaksTheProtocol
  BufferDrains
  HangupEnds
\* The task ends.
CHECK_DEADLOCK FALSE
