SPECIFICATION FairSpec
CONSTANTS
  Threads = {t1, t2}
  Contexts = {1, 2, 3, 4, 5, 6}
  NoContext = NoContext
  Fresh <- MCFresh
  Inputs <- MCInputs
  Malformed <- MCMalformed
  Accepts <- MCAccepts
  Unreadable <- MCUnreadable
  KeyLimit = 2
  MaxFree = 2
  StackSize = 5
  MayRunOut = FALSE
INVARIANT
  NeverPanics
PROPERTIES
  CallsReturn
  ImplementsNativeCall
  NoContextLost
