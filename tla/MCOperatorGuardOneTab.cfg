SPECIFICATION FairSpec
CONSTANTS
  Tabs = {a}
  Tokens = {i, j, k}
  Contexts = {}
  NoContext = NoContext
  NoSession = NoSession
  NoTokens = NoTokens
  NoManager = NoManager
  MaxMail = 1
  Slots = {m, n}
  NoSlot = NoSlot
INVARIANT
  ValidatedBeforeRendered
PROPERTY
  CheckEnds
CHECK_DEADLOCK FALSE
