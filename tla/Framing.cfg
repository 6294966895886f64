SPECIFICATION Spec
CONSTANTS
  Base = 4
  MaxBytes = 3
  Half = 16
  MaxPacketSize = 8
  Thresholds <- MCThresholds
  Marker = 6
  Bodies <- MCBodies
  Junk <- MCJunk
  MaxSends = 3
INVARIANTS
  TypeOK
  BodiesInOrder
  BufferBounded
PROPERTY StreamsPackets
\* A client that has sent all it will leaves the task waiting.
CHECK_DEADLOCK FALSE
