SPECIFICATION Spec
CONSTANTS
  Nodes <- MCNodes
  Segments <- MCSegments
  Trees <- MCTrees
  Children <- MCChildren
  Message <- MCMessage
  Height <- MCHeight
  EnterNode <- ScopeOfNode
  EnterField <- ScopeOfField
  NoScope <- DefaultScope
  Nothing <- EmptyResult
  Collect <- CollectAll
INVARIANT OnlyTablesReported
CHECK_DEADLOCK FALSE
