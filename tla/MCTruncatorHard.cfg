SPECIFICATION Spec
CONSTANTS
  Statements <- MCStatements
  Limits <- MCLimits
INVARIANT
  HardOnlyWhenSmartIsNotEnough
CHECK_DEADLOCK FALSE
