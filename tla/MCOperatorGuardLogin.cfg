SPECIFICATION FairSpec
CONSTANTS
  Tabs = {a, b}
  Tokens = {i, j}
  Contexts = {}
  NoContext = NoContext
  NoSession = NoSession
  NoTokens = NoTokens
  NoManager = NoManager
  MaxMail = 1
  Slots = {m}
  NoSlot = NoSlot
PROPERTY
  SignedOutGoesToLogin
CHECK_DEADLOCK FALSE
