SPECIFICATION OptionsSpec
CONSTANTS
  Threads = {t1}
  Contexts = {1, 2, 3}
  NoContext = NoContext
  Fresh <- MCFresh
  Inputs <- MCInputs
  Malformed = {}
  Accepts <- MCAccepts
  Unreadable = {}
  KeyLimit = 2
  MaxFree = 2
  StackSize = 5
  MayRunOut = FALSE
INVARIANT
  DefaultSettingsInForce
