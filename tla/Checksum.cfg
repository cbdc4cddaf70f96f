CONSTANTS
  Length = 6
  Bytes <- MCBytes
  Files <- MCFiles
SPECIFICATION Spec
CHECK_DEADLOCK FALSE
INVARIANTS EndingsDoNotCount LinesOfFlyway
