SPECIFICATION Spec
CONSTANTS
  Queries <- MCOverflowQueries
  MaxInt = 19
  Width <- MCWidth
  Slack = 2
INVARIANT
  WithinBuffer
CHECK_DEADLOCK FALSE
