---------------------------------- MODULE Console ----------------------------------
(***************************************************************************)
(* The parts of the console, and of the service behind it, that keep a     *)
(* state of their own and share none with each other: the coupon desk, the *)
(* switches of offers, the OAuth accounts, the preferences, the cached SDK *)
(* clients, the public configuration, the shell, and the detail pages.     *)
(*                                                                         *)
(* No action of one part reads or writes a variable of another, so every   *)
(* behaviour of them together shows each part one of the behaviours below, *)
(* in which that part acts and the others rest.                            *)
(***************************************************************************)
EXTENDS Naturals, FiniteSets, Sequences

\* The constants of the parts, under the names they have there, but for Requests.
CONSTANTS
  Offers, Stocks, OfferOf, NoOffer, NoStock, NoTimer, NoCall,
  MaxQuantity, MaxDrafts, MaxAsked, MaxKeys, MaxIssues,
  Queries, EmptyQuery, MaxSwitches,
  Accounts, NoAccount, NoAccountDraft, NoAccountJob, Jobs, MaxCalls,
  Users, Values, NoTheme, Default, PreferenceRequests, Unanswered, MaxTime,
  MaxSessions,
  ConfigRequests, NoRequest,
  Contributions, Paths, Params, Permissions,
  Ids, NoId, MaxVersion, MaxLoads

\* Stocks belong to offers, and what stands for nothing, or for preferences nobody has stored,
\* is nothing else.
ASSUME ConsoleAssumption ==
  /\ OfferOf \in [Stocks -> Offers] /\ NoOffer \notin Offers /\ NoStock \notin Stocks
  /\ NoAccount \notin Accounts
  /\ Default \notin Values
  /\ NoRequest \notin ConfigRequests
  /\ NoId \notin Ids

\* What the table of offers is first asked for can be asked for.
ASSUME QueriesAssumption == EmptyQuery \in Queries

\* The bounds let something happen.
ASSUME BoundsAssumption ==
  /\ {MaxQuantity, MaxDrafts, MaxAsked, MaxKeys, MaxIssues, MaxSwitches, MaxCalls, MaxTime, MaxSessions,
      MaxVersion, MaxLoads} \subseteq Nat \ {0}
  /\ IsFiniteSet(PreferenceRequests)

VARIABLES
  part,        \* the part that acts
  available, issues, form, offer, draft, drafts, keys, asked, timer, options, seen, call,
  typed, replaced,
  active, listed, query, pause, reads, hidden, failed, switches, used, statusPendingId, chosen,
  excused, outrun, strayed,
  stored, strays, gone, jobs, calls, state, view, accountDraft, notice, spoiled, undone, overlapped,
  foreign,
  rows, clock, writes, requests,
  session, cache, controller,
  promise, sent, abandoned, hook,
  modules, scope, path, by,
  page, url, version, loads, shown, loading, error, editor, job, success, outcome, stray

Coupons == INSTANCE CouponDesk
Switches == INSTANCE OfferSwitch
Oauth == INSTANCE OauthAccount
Prefs == INSTANCE Preferences WITH Requests <- PreferenceRequests
Clients == INSTANCE SdkClients
Config == INSTANCE RuntimeConfig WITH Requests <- ConfigRequests
Shell == INSTANCE HostShell
Detail == INSTANCE DetailPage

\* What stands for no call of the OAuth controller is none, and what stands for no answer about
\* preferences is none.
ASSUME JobAssumption == NoAccountJob \notin Oauth!JobRecords
ASSUME AnswersAssumption == Unanswered \notin Prefs!Answers

\* Modules are contributed under prefixes of their own, like /admin/iam.
ASSUME ContributionsAssumption ==
  \A ms \in Contributions :
    /\ ms \in Seq(Shell!AdminModuleContribution)
    /\ \A i \in DOMAIN ms : ms[i].prefix # <<>> /\ ms[i].prefix[1] # "account"

couponsVars == <<available, issues, form, offer, draft, drafts, keys, asked, timer, options,
                 seen, call, typed, replaced>>
switchesVars == <<active, listed, query, pause, reads, hidden, failed, switches, used,
                  statusPendingId, chosen, excused, outrun, strayed>>
oauthVars == <<stored, strays, gone, jobs, calls, state, view, accountDraft, notice, spoiled, undone,
               overlapped, foreign>>
preferencesVars == <<rows, clock, writes, requests>>
clientsVars == <<session, cache, controller>>
configVars == <<promise, sent, abandoned, hook>>
shellVars == <<modules, scope, path, by>>
detailVars == <<page, url, version, loads, shown, loading, error, editor, job, success, outcome, stray>>
vars ==
  <<part, couponsVars, switchesVars, oauthVars, preferencesVars, clientsVars, configVars,
    shellVars, detailVars>>

Parts == {"coupons", "switches", "oauth", "preferences", "clients", "config", "shell", "detail"}

\* A part that rests does so in one of its initial states.
Init ==
  /\ part \in Parts
  /\ Coupons!Init /\ Prefs!Init /\ Clients!Init /\ Config!Init
  /\ Switches!Init
  /\ Oauth!Init
  /\ part # "oauth" => \A x \in Accounts : stored[x].integration = "none"
  /\ Detail!Init
  /\ part # "detail" => page = "customer" /\ url = CHOOSE id \in Ids : TRUE
  /\ IF part = "shell"
     THEN Shell!Init
     ELSE /\ modules = CHOOSE ms \in Contributions : Shell!Accepted(ms)
          /\ scope = {} /\ path = Shell!Root /\ by = "typed"

\* All but the part p stay as they are.
Rest(p) ==
  /\ part = p /\ UNCHANGED part
  /\ p # "coupons" => UNCHANGED couponsVars
  /\ p # "switches" => UNCHANGED switchesVars
  /\ p # "oauth" => UNCHANGED oauthVars
  /\ p # "preferences" => UNCHANGED preferencesVars
  /\ p # "clients" => UNCHANGED clientsVars
  /\ p # "config" => UNCHANGED configVars
  /\ p # "shell" => UNCHANGED shellVars
  /\ p # "detail" => UNCHANGED detailVars

CouponDeskActs == part = "coupons" /\ Coupons!Next /\ Rest("coupons")
OfferSwitchActs == part = "switches" /\ Switches!Next /\ Rest("switches")
OauthAccountActs == part = "oauth" /\ Oauth!Next /\ Rest("oauth")
PreferencesAct == part = "preferences" /\ Prefs!Next /\ Rest("preferences")
SdkClientsAct == part = "clients" /\ Clients!Next /\ Rest("clients")
RuntimeConfigActs == part = "config" /\ Config!Next /\ Rest("config")
HostShellActs == part = "shell" /\ Shell!Next /\ Rest("shell")
DetailPageActs == part = "detail" /\ Detail!Next /\ Rest("detail")

Next ==
  \/ CouponDeskActs \/ OfferSwitchActs \/ OauthAccountActs \/ PreferencesAct
  \/ SdkClientsAct \/ RuntimeConfigActs \/ HostShellActs \/ DetailPageActs

Spec == Init /\ [][Next]_vars

-----------------------------------------------------------------------------
(* Properties, each stated in the module of its part, of the part that acts.  *)

\* The type invariants of the parts.
TypeOK ==
  CASE part = "coupons" -> Coupons!TypeOK
    [] part = "switches" -> Switches!TypeOK
    [] part = "oauth" -> Oauth!TypeOK
    [] part = "preferences" -> Prefs!TypeOK
    [] part = "clients" -> Clients!TypeOK
    [] part = "config" -> Config!TypeOK
    [] part = "shell" -> Shell!TypeOK
    [] part = "detail" -> Detail!TypeOK

\* Codes are generated from stock of the offer whose drawer was open.
CodesAreOfTheOffer == part = "coupons" => Coupons!CodesAreOfTheOffer

\* A batch that is submitted again generates its codes once.
OncePerDraft == part = "coupons" => Coupons!OncePerDraft

\* What was typed in a drawer stays there, but for the automatic choice of a stock.
TypedIsKept == part = "coupons" => Coupons!TypedIsKept

\* Once all is over, the table of offers shows each as the operator last switched it.
ChoiceIsShown == part = "switches" => Switches!ChoiceIsShown

\* A failed creation of an OAuth account leaves neither integration nor client.
NothingLeft == part = "oauth" => Oauth!NothingLeft

\* The resources of an OAuth account are enabled together.
EnabledTogether == part = "oauth" => Oauth!EnabledTogether

\* The OAuth page shows the state of its controller, and that what is stored.
ShownIsStored == part = "oauth" => Oauth!ShownIsStored

\* Answers about preferences hold nothing older than what was stored when they were asked.
AnswersAreCurrent == part = "preferences" => Prefs!AnswersAreCurrent

\* A user has one row of preferences, which keeps its id and creation time.
OneRowPerUser == part = "preferences" => Prefs!OneRowPerUser

\* Cached clients and services are of the session there is.
ClientsAreOfSession == part = "clients" => Clients!ClientsAreOfSession

\* Callers share the pending request of the public configuration, and no failed one.
PromiseIsShared == part = "config" => Config!PromiseIsShared

\* The hook shows how the request of its last attempt stands.
HookShowsLastAttempt == part = "config" => Config!HookShowsLastAttempt

\* No link or redirect of the shell leads to a refusal or to another redirect.
LinksOpen == part = "shell" => Shell!LinksOpen

\* A page is shown only to an operator with access to it and to its module.
PagesAreOfTheirModule == part = "shell" => Shell!PagesAreOfTheirModule

\* A detail page that is done shows what its address names, or a failure.
DetailIsOfUrl == part = "detail" => Detail!DetailIsOfUrl

\* When success is told of a status, the page has it.
SavedIsShown == part = "detail" => Detail!SavedIsShown
=============================================================================
