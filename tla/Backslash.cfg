CONSTANTS
  Server = {"backquotes", "backslashEscapes", "hashComments"}
  Migrations <- Literals
SPECIFICATION Spec
CHECK_DEADLOCK FALSE
INVARIANTS CutsLikeServer
