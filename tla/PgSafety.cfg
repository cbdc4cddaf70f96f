CONSTANTS
  p1 = p1 p2 = p2 p3 = p3
  v1 = v1 v2 = v2 v3 = v3 w1 = w1 w2 = w2 w3 = w3
  NoVersion = NoVersion
  BadVersion = BadVersion
  NoChecksum = NoChecksum
  Checksums <- MCChecksums
  Descriptions <- MCDescriptions
  Scripts <- MCScripts
  Procs <- MCProcs2
  Transactional = TRUE
  Commands = {"migrate", "repair", "baseline", "validate", "info"}
  Disks <- AnyRelease
  Stmts <- MCStmts
  Unresolvable <- MCUnresolvable
  BaselineAt = 2
  Histories <- MCHistories
  Faults = {"version", "ensure", "scan", "read", "stmt", "insert", "commit", "delete", "answer", "crash"}
  MaxRuns = 4
SPECIFICATION Spec
SYMMETRY Symmetry
CHECK_DEADLOCK FALSE
INVARIANTS TypeOK EffectsMatchRows InfoIsTrue
PROPERTIES AppendInOrder SuccessIsKept RepairBeforeMore OkMeansUpToDate ActsSerially
