SPECIFICATION Spec
CONSTANTS
  Queries <- MCMixedQueries
  MaxInt = 19
  Width <- MCWidth
  Slack = 2
INVARIANTS
  GroupByKeepsItsTarget
CHECK_DEADLOCK FALSE
