SPECIFICATION ProbeSpec
CONSTANTS
  Captures = {p1, p2}
  Contents = {c1, c2}
  NoFile = NoFile
  MaxPayloads = 2
  MaxNumber = 3
INVARIANTS
  DirectorySound
PROPERTIES
  NeverOverwritten
CHECK_DEADLOCK FALSE
