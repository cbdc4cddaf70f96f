CONSTANTS
  Scenarios <- MCScenarios
SPECIFICATION Spec
CHECK_DEADLOCK FALSE
INVARIANTS FlagsArrive ConnectsAsTold Precedence SilentOrWarned
