SPECIFICATION Spec
CONSTANTS
  o = o
  p = p
  s = s
  z = z
  Offers = {o, p}
  Stocks = {s, z}
  OfferOf <- MCOfferOf
  NoOffer = NoOffer
  NoStock = NoStock
  NoTimer = NoTimer
  NoCall = NoCall
  MaxQuantity = 2
  MaxDrafts = 2
  MaxAsked = 1
  MaxKeys = 3
  MaxIssues = 2
  Queries = {q, qq}
  EmptyQuery = q
  MaxSwitches = 3
  Accounts = {a}
  NoAccount = NoAccount
  NoAccountDraft = NoAccountDraft
  NoAccountJob = NoAccountJob
  Jobs = {j, k}
  MaxCalls = 3
  Users = {u1, u2}
  Values = {v, b}
  NoTheme = b
  Default = Default
  PreferenceRequests = {r1, r2, r3}
  Unanswered = Unanswered
  MaxTime = 2
  MaxSessions = 3
  ConfigRequests = {r1, r2, r3}
  NoRequest = NoRequest
  Contributions <- MCContributions
  Paths <- MCPaths
  Params = {":p"}
  Permissions = {"m", "n"}
  Ids = {d, e}
  NoId = NoId
  MaxVersion = 2
  MaxLoads = 2
SYMMETRY Symmetry
INVARIANTS
  TypeOK
  CodesAreOfTheOffer
  OncePerDraft
  TypedIsKept
  ChoiceIsShown
  NothingLeft
  EnabledTogether
  ShownIsStored
  AnswersAreCurrent
  OneRowPerUser
  ClientsAreOfSession
  PromiseIsShared
  HookShowsLastAttempt
  LinksOpen
  PagesAreOfTheirModule
  DetailIsOfUrl
  SavedIsShown
CHECK_DEADLOCK FALSE
