CONSTANTS
  bad = bad
  BadPart = bad
  NoDescription = NoDescription
  Unreadable = Unreadable
  Spaced <- MCSpaced
  Trees <- MCTrees
SPECIFICATION Spec
CHECK_DEADLOCK FALSE
INVARIANTS InOrder RefusedForCause NothingLost
