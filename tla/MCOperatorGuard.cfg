SPECIFICATION Spec
CONSTANTS
  Tabs = {a, b}
  Tokens = {i, j}
  Contexts = {}
  NoContext = NoContext
  NoSession = NoSession
  NoTokens = NoTokens
  NoManager = NoManager
  MaxMail = 2
  Slots = {m, n}
  NoSlot = NoSlot
SYMMETRY Symmetry
INVARIANTS
  TypeOK
  ChecksAreShared
CHECK_DEADLOCK FALSE
