SPECIFICATION FairSpec
CONSTANTS
  Tabs = {a, b}
  Tokens = {i, j}
  Contexts = {c}
  NoContext = NoContext
  NoSession = NoSession
  NoTokens = NoTokens
  NoManager = NoManager
  MaxMail = 2
INVARIANTS
  TypeOK
  StaleOnlyWhileMail
  TokensFollowSession
PROPERTIES
  ContextSurvivesCommit
  SignOutReachesEveryTab
