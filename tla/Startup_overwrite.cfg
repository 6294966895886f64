SPECIFICATION Spec
CONSTANTS
  Process = {p1, p2}
  Contents <- MCContents
  OtherPrograms <- MCOtherPrograms
  MaxStarts = 3
  MaxEdits = 1
PROPERTIES
  OperatorsFilesKept
\* Nobody starts a server any more.
CHECK_DEADLOCK FALSE
