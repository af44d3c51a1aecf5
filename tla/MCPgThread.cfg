SPECIFICATION Spec
CONSTANTS
  Threads = {t1, t2}
  Contexts = {1, 2, 3, 4, 5, 6}
  NoContext = NoContext
  Fresh <- MCFresh
  Inputs <- MCMessages
  Malformed <- MCMalformed
  Accepts <- MCAccepts
  Unreadable <- MCUnreadable
  KeyLimit = 1
  MaxFree = 2
  StackSize = 5
  MayRunOut = TRUE
SYMMETRY Symmetry
INVARIANTS
  TypeOK
  ContextsUnshared
  NoMisuse
  AtMostThreeContexts
  CallsStartClean
  ResultsFreed
PROPERTIES
  NoContextLost
CHECK_DEADLOCK FALSE
