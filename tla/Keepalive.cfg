SPECIFICATION Spec
CONSTANTS
  Period = 3
  Timeout <- MCTimeout
  Horizon = 14
INVARIANTS
  TypeOK
  Punctual
  NeverTimesOut
\* Time ends at the horizon.
CHECK_DEADLOCK FALSE
