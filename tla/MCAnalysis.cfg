SPECIFICATION FairSpec
CONSTANTS
  Nodes <- MCNodes
  Segments <- MCSegments
  Trees <- MCTrees
  Children <- MCChildren
  Message <- MCMessage
  Height <- MCHeight
  EnterNode <- ScopeOfNode
  EnterField <- ScopeOfField
  NoScope <- DefaultScope
  Nothing <- EmptyResult
  Collect <- CollectAll
INVARIANTS
  TypeOK
  VisitedOnce
  BreadthFirst
  ScopeIsInherited
  TablesFound
  CtesAreNoTables
  AliasesResolve
  EachParameterOnce
  TypesInQueryOrder
  CtesListed
  PathsLeadBack
PROPERTY WalkEnds
CHECK_DEADLOCK FALSE
