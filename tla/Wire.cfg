SPECIFICATION Spec
CONSTANTS
  Base = 8
  MaxBytes = 3
  Half = 128
  Size <- MCSize
  XSize = 128
  YSize = 4
  Numbers <- MCNumbers
  Texts <- MCTexts
  Jsons <- MCJsons
  Blobs <- MCBlobs
  MaxCount = 2
  MaxDepartures = 2
INVARIANTS
  TypeOK
  RoundTrip
  CutIsTruncated
  AsSessionAssumes
\* A message that has been read is the end.
CHECK_DEADLOCK FALSE
