CONSTANTS
  p1 = p1 p2 = p2 p3 = p3
  v1 = v1 v2 = v2 v3 = v3 w1 = w1 w2 = w2 w3 = w3
  NoVersion = NoVersion
  BadVersion = BadVersion
  NoChecksum = NoChecksum
  Checksums <- MCChecksums
  Descriptions <- MCDescriptions
  Scripts <- MCScripts
  Procs <- MCProcs2
  Transactional = FALSE
  Commands = {"migrate", "repair", "baseline"}
  Disks <- Rolling
  Stmts <- MCStmts
  Unresolvable <- MCUnresolvable
  BaselineAt = 1
  Histories <- MCHistories
  Faults = {"stmt", "insert", "answer", "crash"}
  MaxRuns = 4
SPECIFICATION Spec
SYMMETRY Symmetry
CHECK_DEADLOCK FALSE
INVARIANT EffectsMatchRows
PROPERTIES AppendInOrder SuccessIsKept RepairBeforeMore OkMeansUpToDate ActsSerially
