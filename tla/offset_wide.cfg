SPECIFICATION Spec
CONSTANTS
  Widths <- ThreeBytes
  Lengths <- LongLines
  MaxLines = 2
  ChunkSize = 24
  ReadHint = 24
INVARIANTS RecordsAreNew
CHECK_DEADLOCK FALSE
