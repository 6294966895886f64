SPECIFICATION Spec
CONSTANTS
  Base = 4
  MaxBytes = 3
  Half = 16
  MaxPacketSize = 8
  Thresholds <- MCThresholds
  Marker = 6
  Bodies <- MCBodies
  Junk <- MCJunk
  MaxSends = 3
PROPERTY WholeFrames
CHECK_DEADLOCK FALSE
