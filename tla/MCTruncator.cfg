SPECIFICATION Spec
CONSTANTS
  Statements <- MCStatements
  Limits <- MCLimits
INVARIANTS
  TypeOK
  FitsMaxLength
  NeverRaises
  InnermostFirst
  GreedyIsEnough
CHECK_DEADLOCK FALSE
