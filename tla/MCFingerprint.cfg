CONSTANTS
  MaxDepth = 13
  Nodes <- MCNodes
  Queries <- MCQueries
  HashOrders <- MCHashOrders
  Precedes <- MCPrecedes
  WithoutNumbers <- MCWithoutNumbers
SPECIFICATION Spec
INVARIANTS TypeOK TokensSpellFingerprint WorkIsLinear SimilarQueriesMatch PlainQueriesDiffer
CHECK_DEADLOCK FALSE
