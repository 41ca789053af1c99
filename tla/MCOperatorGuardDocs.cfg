SPECIFICATION Spec
CONSTANTS
  Tabs = {a, b}
  Tokens = {i, j}
  Contexts = {}
  NoContext = NoContext
  NoSession = NoSession
  NoTokens = NoTokens
  NoManager = NoManager
  MaxMail = 1
  Slots = {m, n}
  NoSlot = NoSlot
SYMMETRY Symmetry
INVARIANT
  ValidatedBeforeRendered
CHECK_DEADLOCK FALSE
