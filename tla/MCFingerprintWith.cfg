CONSTANTS
  MaxDepth = 20
  Nodes <- MCNodes
  Queries <- MCNestingQueries
  HashOrders <- MCHashOrders
  Precedes <- MCPrecedes
  WithoutNumbers <- MCWithoutNumbers
SPECIFICATION Spec
INVARIANT DifferentQueriesDiffer
CHECK_DEADLOCK FALSE
