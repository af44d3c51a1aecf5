SPECIFICATION Spec
CONSTANTS
  Queries <- MCQueries
  MaxInt = 19
  Width <- MCWidth
  Slack = 2
INVARIANTS
  TypeOK
  DenseNumbering
  NewParametersAreNew
  BufferSuffices
  PlaceholdersAreNumbers
  EachConstantOnce
  PlainGroupByKeepsItsTarget
CHECK_DEADLOCK FALSE
