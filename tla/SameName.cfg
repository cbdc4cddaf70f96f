CONSTANTS
  p1 = p1 p2 = p2 p3 = p3
  v1 = v1 v2 = v2 v3 = v3 w1 = w1 w2 = w2 w3 = w3
  NoVersion = NoVersion
  BadVersion = BadVersion
  NoChecksum = NoChecksum
  Checksums <- MCChecksums
  Descriptions <- MCDescriptions
  Scripts <- MCScripts
  Procs <- MCProcs2
  Transactional = TRUE
  Commands = {"migrate"}
  Disks <- SameName
  Stmts <- MCStmts
  Unresolvable <- MCUnresolvable
  BaselineAt = 1
  Histories <- FreshHistories
  Faults = {}
  MaxRuns = 1
SPECIFICATION Spec
CHECK_DEADLOCK FALSE
PROPERTY EveryFileRuns
