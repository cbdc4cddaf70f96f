CONSTANTS
  Server = {"dollarQuotes", "eStrings", "commentsBegin"}
  Migrations <- MCMigrations
SPECIFICATION Spec
CHECK_DEADLOCK FALSE
INVARIANTS InSequence NoTextLost CutsLikeServer EachReplacedOnce WordsMoveNoBoundary
