----------------------------- MODULE ConsoleProofs -----------------------------
(***************************************************************************)
(* The safety properties of the parts of Console that are kept by services *)
(* and module variables: the public configuration, the cached SDK clients, *)
(* the preferences and the shell, for every value of the constants.        *)
(***************************************************************************)
EXTENDS Console, FiniteSetTheorems, WellFoundedInduction, TLAPS

-----------------------------------------------------------------------------
(* The parts by themselves.                                                   *)

\* A step of the console is one of the part that acts; every other part rests.
LEMMA EachByItself ==
  ASSUME [Next]_vars
  PROVE  /\ [Coupons!Next]_couponsVars /\ [Switches!Next]_switchesVars /\ [Oauth!Next]_oauthVars
         /\ [Prefs!Next]_preferencesVars /\ [Clients!Next]_clientsVars
         /\ [Config!Next]_configVars /\ [Shell!Next]_shellVars /\ [Detail!Next]_detailVars
         /\ UNCHANGED part
  BY DEF Next, vars, Rest, CouponDeskActs, OfferSwitchActs, OauthAccountActs, PreferencesAct,
     SdkClientsAct, RuntimeConfigActs, HostShellActs, DetailPageActs

-----------------------------------------------------------------------------
(* The public configuration.                                                  *)

\* The hook waits for a request that was sent, and is unmounted or shows how it stands.
HookOk ==
  /\ hook \in [status : {"unmounted", "loading", "ready", "unavailable"},
               waits : ConfigRequests \cup {NoRequest}]
  /\ hook.status = "unmounted" <=> hook = Config!Unmounted
  /\ hook # Config!Unmounted => hook.waits \in ConfigRequests /\ sent[hook.waits] # "unsent"

ConfigInv ==
  /\ Config!TypeOK
  /\ Config!PromiseIsShared
  /\ HookOk
  /\ Config!HookShowsLastAttempt

LEMMA ConfigInit == Config!Init => ConfigInv
  BY ConsoleAssumption
  DEF Config!Init, ConfigInv, Config!TypeOK, Config!PromiseIsShared, HookOk, Config!HookShowsLastAttempt,
      Config!Unmounted, Config!Pending

\* A request that is sent, or shared, is the one the hook waits for from then on.
LEMMA LoadStep ==
  ASSUME ConfigInv, NEW p, p = promise \/ p = NoRequest, Config!Load(p),
         abandoned' \in SUBSET ConfigRequests, abandoned \subseteq abandoned',
         p # promise => promise \in abandoned' \cup {NoRequest}
  PROVE  ConfigInv'
<1> USE ConsoleAssumption DEF ConfigInv, Config!TypeOK, HookOk, Config!Unmounted
<1>1. PICK r \in ConfigRequests :
        /\ IF p = NoRequest
           THEN sent[r] = "unsent" /\ sent' = [sent EXCEPT ![r] = "pending"]
           ELSE r = p /\ UNCHANGED sent
        /\ promise' = r
        /\ hook' = [status |-> IF sent'[r] = "resolved" THEN "ready" ELSE "loading", waits |-> r]
  BY DEF Config!Load
<1>2. sent'[r] \in {"pending", "resolved"}
  BY <1>1 DEF Config!PromiseIsShared
<1>3. Config!TypeOK' /\ HookOk'
  BY <1>1, <1>2
<1>4. Config!PromiseIsShared'
  BY <1>1, <1>2 DEF Config!PromiseIsShared, Config!Pending
<1>5. Config!HookShowsLastAttempt'
  BY <1>1, <1>2 DEF Config!HookShowsLastAttempt
<1> QED
  BY <1>3, <1>4, <1>5

\* A request that ends shows it to the hook that waits for it.
LEMMA EndStep ==
  ASSUME ConfigInv, NEW r \in Config!Pending, Config!Resolves(r) \/ Config!Fails(r)
  PROVE  ConfigInv'
<1> USE ConsoleAssumption DEF ConfigInv, Config!TypeOK, HookOk, Config!Unmounted, Config!Pending,
        Config!Resolves, Config!Fails, Config!Shows
<1>1. Config!TypeOK' /\ HookOk'
  OBVIOUS
<1>2. Config!PromiseIsShared'
  BY DEF Config!PromiseIsShared
<1>3. Config!HookShowsLastAttempt'
  BY DEF Config!HookShowsLastAttempt
<1> QED
  BY <1>1, <1>2, <1>3

LEMMA ConfigStep == ConfigInv /\ [Config!Next]_configVars => ConfigInv'
<1> SUFFICES ASSUME ConfigInv, [Config!Next]_configVars PROVE ConfigInv'
  OBVIOUS
<1> USE DEF ConfigInv, Config!TypeOK
<1>1. CASE Config!Mount
  BY <1>1, LoadStep DEF Config!Mount
<1>2. CASE Config!Unmount
  BY <1>2, ConsoleAssumption
  DEF Config!Unmount, Config!PromiseIsShared, HookOk, Config!HookShowsLastAttempt, Config!Unmounted,
      Config!Pending
<1>3. CASE Config!Retry
  BY <1>3, LoadStep DEF Config!Retry, Config!Abandon
<1>4. CASE Config!Reset
  BY <1>4, ConsoleAssumption
  DEF Config!Reset, Config!Abandon, Config!PromiseIsShared, HookOk, Config!HookShowsLastAttempt,
      Config!Unmounted, Config!Pending
<1>5. ASSUME NEW r \in Config!Pending, Config!Resolves(r) \/ Config!Fails(r)
      PROVE  ConfigInv'
  BY <1>5, EndStep
<1>6. CASE UNCHANGED configVars
  BY <1>6
  DEF configVars, Config!PromiseIsShared, HookOk, Config!HookShowsLastAttempt, Config!Unmounted,
      Config!Pending
<1> QED
  BY <1>1, <1>2, <1>3, <1>4, <1>5, <1>6 DEF Config!Next, Config!Answered

\* The invariant of the configuration is kept by every step of the console.
LEMMA ConfigInvariance == Spec => []ConfigInv
<1>1. Init => ConfigInv
  BY ConfigInit DEF Init
<1>2. ConfigInv /\ [Next]_vars => ConfigInv'
  BY EachByItself, ConfigStep
<1> QED
  BY <1>1, <1>2, PTL DEF Spec

\* loadManagerAuthRuntimeConfig: however requests, retries and resets interleave, a failed
\* promise is not kept, and callers share the pending one that no reset let go.
THEOREM SharedPromise == Spec => []PromiseIsShared
<1>1. ConfigInv => PromiseIsShared
  BY DEF ConfigInv, PromiseIsShared
<1> QED
  BY <1>1, ConfigInvariance, PTL

\* useManagerAuthRuntimeConfig: the hook shows how the request of its last attempt stands.
THEOREM LastAttemptShown == Spec => []HookShowsLastAttempt
<1>1. ConfigInv => HookShowsLastAttempt
  BY DEF ConfigInv, HookShowsLastAttempt
<1> QED
  BY <1>1, ConfigInvariance, PTL

-----------------------------------------------------------------------------
(* The cached SDK clients.                                                    *)

ClientsInv ==
  /\ session \in 1 .. MaxSessions
  /\ cache \in [Clients!Clients \cup Clients!Services -> Nat]
  /\ controller \in [state : {"none", "pending", "failed", "made"}, made : 0 .. session]
  /\ Clients!ClientsAreOfSession

\* A service is made of a client, and no client is a service.
LEMMA ServicesFacts ==
  /\ Clients!Services = {"paymentService", "orderAdmin", "tradeOperations", "promotionService",
                         "membershipService"}
  /\ Clients!Services \cap Clients!Clients = {}
  /\ "iam" \in Clients!Clients
  /\ \A s \in Clients!Services : Clients!ClientOf[s] \in Clients!Clients
<1>1. Clients!Services = {"paymentService", "orderAdmin", "tradeOperations", "promotionService",
                          "membershipService"}
  BY DEF Clients!Services, Clients!ClientOf
<1>2. Clients!Services \cap Clients!Clients = {} /\ "iam" \in Clients!Clients
  BY <1>1 DEF Clients!Clients
<1>3. \A s \in Clients!Services : Clients!ClientOf[s] \in Clients!Clients
  BY <1>1 DEF Clients!Clients, Clients!ClientOf
<1> QED
  BY <1>1, <1>2, <1>3

LEMMA ClientsStep == ClientsInv /\ [Clients!Next]_clientsVars => ClientsInv'
<1> SUFFICES ASSUME ClientsInv, [Clients!Next]_clientsVars PROVE ClientsInv'
  OBVIOUS
<1> USE ServicesFacts, BoundsAssumption DEF ClientsInv
<1>0. DOMAIN cache = Clients!Clients \cup Clients!Services
  OBVIOUS
<1> USE <1>0
<1>1. ASSUME NEW c \in Clients!Clients, Clients!GetClient(c)
      PROVE  ClientsInv'
  BY <1>1 DEF Clients!GetClient, Clients!Made, Clients!ClientsAreOfSession
<1>2. ASSUME NEW s \in Clients!Services, Clients!GetService(s)
      PROVE  ClientsInv'
  BY <1>2 DEF Clients!GetService, Clients!Made, Clients!ClientsAreOfSession
<1>3. CASE Clients!SessionChanged
  BY <1>3 DEF Clients!SessionChanged, Clients!Dependencies, Clients!ClientsAreOfSession
<1>4. CASE Clients!LoadController \/ Clients!ImportFails
  BY <1>4 DEF Clients!LoadController, Clients!ImportFails, Clients!Import, Clients!ClientsAreOfSession
<1>5. CASE Clients!ImportEnds
  BY <1>5 DEF Clients!ImportEnds, Clients!Import, Clients!Made, Clients!ClientsAreOfSession
<1>6. CASE UNCHANGED clientsVars
  BY <1>6 DEF clientsVars, Clients!ClientsAreOfSession
<1> QED
  BY <1>1, <1>2, <1>3, <1>4, <1>5, <1>6 DEF Clients!Next

LEMMA ClientsInvariance == Spec => []ClientsInv
<1>1. Init => ClientsInv
  BY ServicesFacts, BoundsAssumption DEF Init, Clients!Init, ClientsInv, Clients!ClientsAreOfSession
<1>2. ClientsInv /\ [Next]_vars => ClientsInv'
  BY EachByItself, ClientsStep
<1> QED
  BY <1>1, <1>2, PTL DEF Spec

\* registerManagerAuthenticatedSdkCacheResetter: however often and in whichever order pages
\* ask for clients while the session changes, what is cached is of the session there is.
THEOREM CachesOfSession == Spec => []ClientsAreOfSession
<1>1. ClientsInv => ClientsAreOfSession
  BY DEF ClientsInv, ClientsAreOfSession
<1> QED
  BY <1>1, ClientsInvariance, PTL

-----------------------------------------------------------------------------
(* The preferences of operators.                                              *)

PreferenceRows ==
  [user : Users, id : PreferenceRequests, value : Values, created : Nat, updated : Nat, n : Nat \ {0}]

AnsweredRows ==
  [user : Users, id : PreferenceRequests \cup {Unanswered}, value : Values \cup {Default},
   created : Nat, updated : Nat, n : Nat]

PreferenceCalls ==
  [kind : {"none", "list", "retrieve", "update"}, user : Users \cup {Prefs!Unsent.user},
   value : Values \cup {Default}, step : {"unsent", "asked", "prepared", "written", "answered"},
   now : Nat, since : [Users -> Nat], made : Nat,
   answer : {Unanswered} \cup [status : {"ok", "bad_request", "server_error"},
                               rows : SUBSET AnsweredRows]]

PreferenceTypes ==
  /\ rows \subseteq PreferenceRows
  /\ clock \in Nat
  /\ writes \in [Users -> Nat]
  /\ requests \in [PreferenceRequests -> PreferenceCalls]

\* There is one row for each user who has stored anything, and it counts the writes.
RowsOk ==
  /\ \A x, y \in rows : x.user = y.user => x = y
  /\ \A x \in rows : x.n = writes[x.user]
  /\ \A u \in Users : writes[u] > 0 => \E x \in rows : x.user = u

\* A row that was answered is an earlier state of the one there is.
Earlier(x, y) == x.user = y.user /\ x.id = y.id /\ x.created = y.created /\ x.n <= y.n

Since(r, u) == IF requests[r].kind = "update" THEN requests[r].made ELSE requests[r].since[u]

\* What may be answered to the request r.
AnswerOk(r, found) ==
  /\ found \in SUBSET AnsweredRows
  /\ \A x \in found :
       /\ x.n >= Since(r, x.user)
       /\ x.n = 0 <=> x.value = Default
       /\ x.n > 0 => \E y \in rows : Earlier(x, y)
  /\ requests[r].kind = "list" =>
       \A u \in Users : requests[r].since[u] > 0 => \E x \in found : x.user = u

\* How far a request is says what it holds.
RequestOk(r) ==
  /\ \A u \in Users : requests[r].since[u] <= writes[u]
  /\ requests[r].kind \in {"retrieve", "update"} => requests[r].user \in Users
  /\ requests[r].kind = "update" => requests[r].value \in Values
  /\ requests[r].kind = "none" => requests[r].step = "unsent"
  /\ requests[r].step \in {"prepared", "written"} => requests[r].kind = "update"
  /\ requests[r].step = "written" => requests[r].made <= writes[requests[r].user]
  /\ requests[r].step = "answered" <=> requests[r].answer # Unanswered
  /\ requests[r].step = "answered" /\ requests[r].answer.status = "ok" =>
       AnswerOk(r, requests[r].answer.rows)

PreferencesInv ==
  /\ PreferenceTypes
  /\ RowsOk
  /\ \A r \in PreferenceRequests : RequestOk(r)

\* What the two properties say follows from it.
LEMMA PreferencesProperties ==
  PreferencesInv => Prefs!AnswersAreCurrent /\ Prefs!OneRowPerUser
<1> SUFFICES ASSUME PreferencesInv PROVE Prefs!AnswersAreCurrent /\ Prefs!OneRowPerUser
  OBVIOUS
<1>1. ASSUME NEW r \in Prefs!Answered({"retrieve", "list", "update"})
      PROVE  r \in PreferenceRequests /\ AnswerOk(r, requests[r].answer.rows)
  BY <1>1 DEF Prefs!Answered, PreferencesInv, RequestOk
<1>2. Prefs!AnswersAreCurrent
  BY <1>1 DEF Prefs!AnswersAreCurrent, AnswerOk, Since, AnsweredRows
<1>3. Prefs!OneRowPerUser
  BY <1>1 DEF Prefs!OneRowPerUser, AnswerOk, Earlier, PreferencesInv, RowsOk
<1> QED
  BY <1>2, <1>3

\* No write is undone: the counts only grow, and a row that was there is there still.
Grown ==
  /\ \A u \in Users : writes[u] <= writes'[u]
  /\ \A x \in rows : \E y \in rows' : Earlier(x, y)

LEMMA GrownIfKept ==
  ASSUME PreferencesInv, UNCHANGED <<rows, writes>>
  PROVE  Grown
  BY DEF Grown, PreferencesInv, PreferenceTypes, PreferenceRows, Earlier

\* A request that does not act keeps its part of the invariant.
LEMMA RequestKept ==
  ASSUME PreferencesInv, PreferenceTypes', Grown, NEW r \in PreferenceRequests, requests'[r] = requests[r]
  PROVE  RequestOk(r)'
<1> DEFINE found == requests[r].answer.rows
<1>1. /\ RequestOk(r) /\ requests[r] \in PreferenceCalls /\ requests[r].since \in [Users -> Nat]
      /\ requests[r].made \in Nat /\ writes \in [Users -> Nat] /\ writes' \in [Users -> Nat]
  BY DEF PreferencesInv, PreferenceTypes, PreferenceCalls
<1>2. ASSUME AnswerOk(r, found) PROVE AnswerOk(r, found)'
  <2>1. ASSUME NEW x \in found, x.n > 0 PROVE \E z \in rows' : Earlier(x, z)
    <3>1. PICK y \in rows : Earlier(x, y)
      BY <1>2, <2>1 DEF AnswerOk
    <3>2. PICK z \in rows' : Earlier(y, z)
      BY DEF Grown
    <3>3. x.n \in Nat /\ y.n \in Nat /\ z.n \in Nat
      BY <1>2 DEF AnswerOk, AnsweredRows, PreferencesInv, PreferenceTypes, PreferenceRows
    <3> QED
      BY <3>1, <3>2, <3>3 DEF Earlier
  <2> QED
    BY <1>2, <2>1 DEF AnswerOk, Since
<1>3. /\ \A u \in Users : requests'[r].since[u] <= writes'[u]
      /\ requests'[r].step = "written" => requests'[r].made <= writes'[requests'[r].user]
  BY <1>1 DEF Grown, RequestOk
<1> QED
  BY <1>1, <1>2, <1>3 DEF RequestOk

\* The statement of an upsert: one row more or another state of the one there was.
LEMMA WriteStep ==
  ASSUME PreferencesInv, NEW r \in PreferenceRequests, requests[r].kind = "update",
         writes' = [writes EXCEPT ![requests[r].user] = @ + 1], Prefs!WriteRow(r)
  PROVE  rows' \subseteq PreferenceRows /\ writes' \in [Users -> Nat] /\ RowsOk' /\ Grown
<1> DEFINE u == requests[r].user
           n == writes[u] + 1
           new == [user |-> u, id |-> r, value |-> requests[r].value, created |-> requests[r].now,
                   updated |-> requests[r].now, n |-> n]
           Over(x) == [x EXCEPT !.value = requests[r].value, !.updated = requests[r].now,
                           !.n = writes'[u]]
<1>1. /\ u \in Users /\ requests[r].value \in Values /\ requests[r].now \in Nat
      /\ writes \in [Users -> Nat] /\ n \in Nat \ {0} /\ writes'[u] = n
      /\ writes' \in [Users -> Nat]
      /\ \A v \in Users \ {u} : writes'[v] = writes[v]
      /\ rows \subseteq PreferenceRows /\ RowsOk
      /\ \A x \in rows : x.user \in Users /\ x.n \in Nat
  BY DEF PreferencesInv, PreferenceTypes, RequestOk, PreferenceCalls, PreferenceRows
<1>2. CASE Prefs!Find(u) = {}
  <2>1. rows' = rows \cup {new}
    BY <1>1, <1>2 DEF Prefs!WriteRow
  <2>2. \A x \in rows : x.user # u
    BY <1>2 DEF Prefs!Find
  <2>3. new \in PreferenceRows /\ new.user = u /\ new.n = n
    BY <1>1 DEF PreferenceRows
  <2> HIDE DEF new, n
  <2>4. RowsOk'
    BY <1>1, <2>1, <2>2, <2>3 DEF RowsOk
  <2>5. Grown
    <3>1. \A v \in Users : writes[v] <= writes'[v]
      BY <1>1 DEF n
    <3>2. \A x \in rows : Earlier(x, x)
      BY <1>1 DEF Earlier
    <3> QED
      BY <2>1, <3>1, <3>2 DEF Grown
  <2> QED
    BY <1>1, <2>1, <2>3, <2>4, <2>5
<1>3. CASE Prefs!Find(u) # {}
  <2>1. PICK y \in rows : y.user = u
    BY <1>3 DEF Prefs!Find
  <2>2. rows' = {IF x.user = u THEN Over(x) ELSE x : x \in rows}
    BY <1>3 DEF Prefs!WriteRow
  <2>3. /\ Over(y) \in PreferenceRows /\ Over(y).user = u /\ Over(y).n = n
        /\ Over(y).id = y.id /\ Over(y).created = y.created
    BY <1>1, <2>1 DEF PreferenceRows
  <2>4. \A x \in rows : x.user = u => x = y
    BY <1>1, <2>1 DEF RowsOk
  <2>5. rows' = (rows \ {y}) \cup {Over(y)}
    <3> HIDE DEF Over
    <3> QED
      BY <2>1, <2>2, <2>4
  <2> HIDE DEF Over
  <2>6. RowsOk'
    BY <1>1, <2>1, <2>3, <2>4, <2>5 DEF RowsOk, PreferenceRows
  <2>7. Grown
    <3>1. Earlier(y, Over(y))
      BY <1>1, <2>1, <2>3 DEF Earlier, RowsOk
    <3> QED
      BY <1>1, <2>5, <3>1 DEF Grown, Earlier, PreferenceRows
  <2> QED
    BY <1>1, <2>3, <2>5, <2>6, <2>7
<1> QED
  BY <1>2, <1>3

\* An answer that is no failure holds what may be answered.
LEMMA AnswerStep ==
  ASSUME PreferencesInv, NEW r \in PreferenceRequests, requests[r].kind # "none",
         NEW a \in [status : {"ok", "bad_request", "server_error"}, rows : SUBSET AnsweredRows],
         Prefs!Answer(r, a), a.status = "ok" => AnswerOk(r, a.rows) /\ UNCHANGED rows,
         rows' \subseteq PreferenceRows, writes' \in [Users -> Nat], RowsOk', Grown, UNCHANGED clock
  PROVE  PreferencesInv'
<1>1. /\ requests[r] \in PreferenceCalls /\ requests \in [PreferenceRequests -> PreferenceCalls]
      /\ RequestOk(r) /\ writes \in [Users -> Nat]
  BY DEF PreferencesInv, PreferenceTypes
<1>2. requests' = [requests EXCEPT ![r] = [requests[r] EXCEPT !.step = "answered", !.answer = a]]
  BY <1>1 DEF Prefs!Answer
<1>3. /\ requests'[r] \in PreferenceCalls
      /\ requests'[r].step = "answered" /\ requests'[r].answer = a
      /\ requests'[r].kind = requests[r].kind /\ requests'[r].user = requests[r].user
      /\ requests'[r].value = requests[r].value /\ requests'[r].since = requests[r].since
      /\ requests'[r].made = requests[r].made
  BY <1>1, <1>2 DEF PreferenceCalls
<1>4. PreferenceTypes'
  BY <1>1, <1>2, <1>3 DEF PreferencesInv, PreferenceTypes
<1>5. ASSUME NEW q \in PreferenceRequests \ {r} PROVE RequestOk(q)'
  BY <1>1, <1>2, <1>4, RequestKept
<1>6. RequestOk(r)'
  <2>1. \A u \in Users : requests'[r].since[u] <= writes'[u]
    <3>1. \A u \in Users : requests[r].since[u] \in Nat
      BY <1>1 DEF PreferenceCalls
    <3> QED
      BY <1>1, <1>3, <3>1 DEF Grown, RequestOk
  <2>2. a.status = "ok" => AnswerOk(r, a.rows)'
    BY <1>3 DEF AnswerOk, Since
  <2>3. a # Unanswered
    BY AnswersAssumption DEF Prefs!Answers, AnsweredRows
  <2> QED
    BY <1>1, <1>3, <2>1, <2>2, <2>3 DEF RequestOk
<1> QED
  BY <1>4, <1>5, <1>6 DEF PreferencesInv

\* A stored row may be answered to any request that asked no later than it was written.
LEMMA StoredRow ==
  ASSUME PreferencesInv, NEW r \in PreferenceRequests, NEW x \in rows,
         requests[r].kind = "update" => requests[r].made <= writes[x.user]
  PROVE  /\ x \in AnsweredRows /\ x.n > 0 /\ x.value # Default /\ Earlier(x, x)
         /\ x.n >= Since(r, x.user)
<1>1. x \in PreferenceRows /\ x.n = writes[x.user] /\ RequestOk(r)
  BY DEF PreferencesInv, PreferenceTypes, RowsOk
<1> QED
  BY <1>1, ConsoleAssumption DEF PreferenceRows, AnsweredRows, Earlier, Since, RequestOk

\* Two fields of a request that change at once.
LEMMA TwoFields ==
  ASSUME NEW R, NEW S, NEW f \in [R -> S], NEW r \in R, NEW a, NEW b
  PROVE  /\ [f EXCEPT ![r].step = "prepared", ![r].now = a]
              = [f EXCEPT ![r] = [f[r] EXCEPT !.step = "prepared", !.now = a]]
         /\ [f EXCEPT ![r].step = "written", ![r].made = b]
              = [f EXCEPT ![r] = [f[r] EXCEPT !.step = "written", !.made = b]]
  OBVIOUS

LEMMA PreferencesStep == PreferencesInv /\ [Prefs!Next]_preferencesVars => PreferencesInv'
<1> SUFFICES ASSUME PreferencesInv, [Prefs!Next]_preferencesVars PROVE PreferencesInv'
  OBVIOUS
<1>0. /\ PreferenceTypes /\ RowsOk /\ \A r \in PreferenceRequests : RequestOk(r)
      /\ \A r \in PreferenceRequests : requests[r] \in PreferenceCalls
      /\ UNCHANGED <<rows, writes>> => Grown /\ RowsOk'
  BY GrownIfKept DEF PreferencesInv, PreferenceTypes, RowsOk
<1>a. requests \in [PreferenceRequests -> PreferenceCalls]
  BY <1>0 DEF PreferenceTypes
<1>1. ASSUME NEW r \in PreferenceRequests, NEW k \in {"list", "retrieve", "update"},
             NEW u \in Users \cup {Prefs!Unsent.user}, k # "list" => u \in Users,
             NEW v \in Values \cup {Default}, k = "update" => v \in Values, Prefs!Ask(r, k, u, v)
      PROVE  PreferencesInv'
  <2> DEFINE new == [Prefs!Unsent EXCEPT !.kind = k, !.user = u, !.value = v, !.step = "asked",
                       !.since = writes]
  <2>u. Prefs!Unsent \in PreferenceCalls
    BY DEF Prefs!Unsent, PreferenceCalls
  <2>n. /\ new \in PreferenceCalls
        /\ new.kind = k /\ new.user = u /\ new.value = v /\ new.step = "asked" /\ new.since = writes
        /\ new.answer = Unanswered
    <3>1. writes \in [Users -> Nat]
      BY <1>0 DEF PreferenceTypes
    <3>2. new = [Prefs!Unsent EXCEPT !.kind = k, !.user = u, !.value = v, !.step = "asked",
                   !.since = writes]
      OBVIOUS
    <3> HIDE DEF new
    <3>3. Prefs!Unsent.answer = Unanswered
      BY DEF Prefs!Unsent
    <3> QED
      BY <2>u, <3>1, <3>2, <3>3 DEF PreferenceCalls
  <2>1. requests' = [requests EXCEPT ![r] = new] /\ UNCHANGED <<rows, clock, writes>>
    BY <1>1 DEF Prefs!Ask
  <2> HIDE DEF new
  <2>2. PreferenceTypes'
    BY <1>0, <2>n, <2>1 DEF PreferenceTypes
  <2>3. ASSUME NEW q \in PreferenceRequests \ {r} PROVE RequestOk(q)'
    BY <1>0, <2>1, <2>2, RequestKept DEF PreferenceTypes
  <2>4. RequestOk(r)'
    <3>1. requests'[r] = new /\ \A w \in Users : writes[w] <= writes'[w]
      BY <1>0, <2>1 DEF PreferenceTypes
    <3> QED
      BY <1>0, <1>1, <2>n, <2>1, <3>1 DEF RequestOk
  <2> QED
    BY <1>0, <2>1, <2>2, <2>3, <2>4 DEF PreferencesInv
<1>2. ASSUME NEW r \in PreferenceRequests, Prefs!Retrieve(r)
      PROVE  PreferencesInv'
  <2> DEFINE u == requests[r].user
  <2>1. /\ u \in Users /\ requests[r].kind = "retrieve" /\ UNCHANGED <<rows, clock, writes>>
        /\ writes \in [Users -> Nat] /\ requests[r].since[u] \in Nat
    BY <1>0, <1>2 DEF Prefs!Retrieve, RequestOk, PreferenceTypes, PreferenceCalls
  <2>2. CASE Prefs!Find(u) = {}
    <3> DEFINE x == Prefs!DefaultPreference(u)
    <3>1. /\ x \in AnsweredRows /\ x.user = u /\ x.n = 0 /\ x.value = Default
      BY <2>1 DEF Prefs!DefaultPreference, AnsweredRows
    <3>2. writes[u] = 0
      BY <1>0, <2>1, <2>2 DEF RowsOk, Prefs!Find
    <3>3. requests[r].since[u] = 0
      BY <1>0, <2>1, <3>2 DEF RequestOk
    <3> HIDE DEF x
    <3>4. AnswerOk(r, {x})
      BY <2>1, <3>1, <3>3 DEF AnswerOk, Since
    <3>5. Prefs!Answer(r, [status |-> "ok", rows |-> {x}])
      BY <1>2, <2>2 DEF Prefs!Retrieve, Prefs!Success, x
    <3> QED
      BY <1>0, <2>1, <3>1, <3>4, <3>5, AnswerStep DEF PreferenceTypes
  <2>3. CASE Prefs!Find(u) # {}
    <3>1. PICK x \in Prefs!Find(u) : Prefs!Answer(r, [status |-> "ok", rows |-> {x}])
      BY <1>2, <2>3 DEF Prefs!Retrieve, Prefs!Success
    <3>2. x \in rows
      BY DEF Prefs!Find
    <3>3. AnswerOk(r, {x}) /\ x \in AnsweredRows
      BY <2>1, <3>2, StoredRow DEF AnswerOk
    <3> QED
      BY <1>0, <2>1, <3>1, <3>3, AnswerStep DEF PreferenceTypes
  <2> QED
    BY <2>2, <2>3
<1>3. ASSUME NEW r \in PreferenceRequests, Prefs!ListForAdmin(r)
      PROVE  PreferencesInv'
  <2>1. /\ requests[r].kind = "list" /\ UNCHANGED <<rows, clock, writes>>
        /\ Prefs!Answer(r, [status |-> "ok", rows |-> rows])
    BY <1>3 DEF Prefs!ListForAdmin, Prefs!Success
  <2>2. rows \in SUBSET AnsweredRows
    BY <2>1, StoredRow
  <2>3. AnswerOk(r, rows)
    <3>1. ASSUME NEW u \in Users, requests[r].since[u] > 0 PROVE \E x \in rows : x.user = u
      <4>1. writes[u] > 0
        BY <1>0, <3>1 DEF RequestOk, PreferenceTypes, PreferenceCalls
      <4> QED
        BY <1>0, <4>1 DEF RowsOk
    <3>2. ASSUME NEW x \in rows 
          PROVE /\ x.n >= Since(r, x.user)
                /\ x.n = 0 <=> x.value = Default
                /\ x.n > 0 => \E y \in rows : Earlier(x, y)
      BY <2>1, StoredRow
    <3> QED
      BY <2>2, <3>1, <3>2 DEF AnswerOk
  <2> QED
    BY <1>0, <2>1, <2>2, <2>3, AnswerStep DEF PreferenceTypes
<1>4. ASSUME NEW r \in PreferenceRequests, Prefs!Prepare(r)
      PROVE  PreferencesInv'
  <2>1. requests[r].kind = "update" /\ requests[r].step = "asked" /\ UNCHANGED <<rows, clock, writes>>
    BY <1>4 DEF Prefs!Prepare
  <2>2. CASE Prefs!Answer(r, Prefs!Problem("bad_request"))
    BY <1>0, <2>1, <2>2, AnswerStep DEF Prefs!Problem, PreferenceTypes
  <2>3. CASE requests' = [requests EXCEPT ![r].step = "prepared", ![r].now = clock]
    <3>1. requests' = [requests EXCEPT ![r] = [requests[r] EXCEPT !.step = "prepared", !.now = clock]]
      BY <1>a, <2>3, TwoFields
    <3>2. PreferenceTypes'
      <4>1. [requests[r] EXCEPT !.step = "prepared", !.now = clock] \in PreferenceCalls
        BY <1>0 DEF PreferenceTypes, PreferenceCalls
      <4> QED
        BY <1>0, <2>1, <3>1, <4>1 DEF PreferenceTypes
    <3>3. ASSUME NEW q \in PreferenceRequests \ {r} PROVE RequestOk(q)'
      BY <1>0, <2>1, <3>1, <3>2, RequestKept DEF PreferenceTypes
    <3>4. RequestOk(r)'
      <4>1. /\ requests'[r].kind = "update" /\ requests'[r].step = "prepared"
            /\ requests'[r].user = requests[r].user /\ requests'[r].value = requests[r].value
            /\ requests'[r].since = requests[r].since /\ requests'[r].answer = requests[r].answer
        BY <1>0, <2>1, <3>1 DEF PreferenceTypes, PreferenceCalls
      <4> QED
        BY <1>0, <2>1, <4>1 DEF RequestOk
    <3> QED
      BY <1>0, <2>1, <3>2, <3>3, <3>4 DEF PreferencesInv
  <2> QED
    BY <1>4, <2>2, <2>3 DEF Prefs!Prepare
<1>5. ASSUME NEW r \in PreferenceRequests, Prefs!Upsert(r)
      PROVE  PreferencesInv'
  <2> DEFINE u == requests[r].user
  <2>1. /\ requests[r].kind = "update" /\ u \in Users /\ requests[r].step = "prepared"
        /\ writes \in [Users -> Nat]
        /\ writes' = [writes EXCEPT ![u] = @ + 1] /\ UNCHANGED clock
    BY <1>0, <1>5 DEF Prefs!Upsert, RequestOk, PreferenceTypes
  <2>2. rows' \subseteq PreferenceRows /\ writes' \in [Users -> Nat] /\ RowsOk' /\ Grown
    BY <1>5, <2>1, WriteStep DEF Prefs!Upsert
  <2>3. CASE Prefs!Answer(r, Prefs!Problem("bad_request"))
    BY <2>1, <2>2, <2>3, AnswerStep DEF Prefs!Problem
  <2>4. CASE requests' = [requests EXCEPT ![r].step = "written", ![r].made = writes'[u]]
    <3>1. requests' = [requests EXCEPT ![r] = [requests[r] EXCEPT !.step = "written", !.made = writes'[u]]]
      BY <1>a, <2>4, TwoFields
    <3>2. PreferenceTypes'
      <4>1. [requests[r] EXCEPT !.step = "written", !.made = writes'[u]] \in PreferenceCalls
        BY <1>0, <2>1, <2>2 DEF PreferenceCalls
      <4> QED
        BY <1>0, <2>1, <2>2, <3>1, <4>1 DEF PreferenceTypes
    <3>3. ASSUME NEW q \in PreferenceRequests \ {r} PROVE RequestOk(q)'
      BY <1>0, <2>2, <3>1, <3>2, RequestKept DEF PreferenceTypes
    <3>4. RequestOk(r)'
      <4>1. /\ requests'[r].kind = "update" /\ requests'[r].step = "written"
            /\ requests'[r].user = u /\ requests'[r].value = requests[r].value
            /\ requests'[r].since = requests[r].since /\ requests'[r].made = writes'[u]
            /\ requests'[r].answer = requests[r].answer
            /\ \A w \in Users : requests[r].since[w] \in Nat
        BY <1>0, <2>1, <3>1 DEF PreferenceTypes, PreferenceCalls
      <4> QED
        BY <1>0, <2>1, <2>2, <4>1 DEF RequestOk, Grown
    <3> QED
      BY <2>2, <3>2, <3>3, <3>4 DEF PreferencesInv
  <2> QED
    BY <1>5, <2>3, <2>4 DEF Prefs!Upsert
<1>6. ASSUME NEW r \in PreferenceRequests, Prefs!ReadBack(r)
      PROVE  PreferencesInv'
  <2> DEFINE u == requests[r].user
  <2>1. /\ requests[r].kind = "update" /\ u \in Users /\ UNCHANGED <<rows, clock, writes>>
        /\ requests[r].made <= writes[u]
    BY <1>0, <1>6 DEF Prefs!ReadBack, RequestOk
  <2>2. CASE Prefs!Answer(r, Prefs!Problem("bad_request"))
    BY <1>0, <2>1, <2>2, AnswerStep DEF Prefs!Problem, PreferenceTypes
  <2>3. ASSUME NEW x \in Prefs!Find(u), Prefs!Answer(r, Prefs!Success({x}))
        PROVE  PreferencesInv'
    <3>1. x \in rows /\ x.user = u
      BY DEF Prefs!Find
    <3>2. AnswerOk(r, {x}) /\ x \in AnsweredRows
      BY <2>1, <3>1, StoredRow DEF AnswerOk
    <3> QED
      BY <1>0, <2>1, <2>3, <3>2, AnswerStep DEF Prefs!Success, PreferenceTypes
  <2> QED
    BY <1>6, <2>2, <2>3 DEF Prefs!ReadBack
<1>7. ASSUME NEW r \in PreferenceRequests, Prefs!Fail(r)
      PROVE  PreferencesInv'
  <2>1. UNCHANGED <<rows, clock, writes>> /\ requests[r].step # "unsent"
    BY <1>7 DEF Prefs!Fail
  <2>2. requests[r].kind # "none"
    BY <1>0, <2>1 DEF RequestOk
  <2>3. \E s \in {"bad_request", "server_error"} : Prefs!Answer(r, [status |-> s, rows |-> {}])
    BY <1>7 DEF Prefs!Fail, Prefs!Problem
  <2> QED
    BY <1>0, <2>1, <2>2, <2>3, AnswerStep DEF PreferenceTypes
<1>8. CASE Prefs!Tick \/ UNCHANGED preferencesVars
  <2>1. clock' \in Nat /\ UNCHANGED <<rows, writes, requests>>
    BY <1>0, <1>8 DEF Prefs!Tick, preferencesVars, PreferenceTypes
  <2>2. PreferenceTypes'
    BY <1>0, <2>1 DEF PreferenceTypes
  <2> QED
    BY <1>0, <2>1, <2>2, RequestKept DEF PreferencesInv
<1> QED
  <2>1. Prefs!Unsent.user \in Users \cup {Prefs!Unsent.user}
    OBVIOUS
  <2> QED
    BY <1>1, <1>2, <1>3, <1>4, <1>5, <1>6, <1>7, <1>8, <2>1 DEF Prefs!Next

LEMMA PreferencesInit == Prefs!Init => PreferencesInv
  BY DEF Prefs!Init, Prefs!Unsent, PreferencesInv, PreferenceTypes, RowsOk, RequestOk, PreferenceCalls

LEMMA PreferencesInvariance == Spec => []PreferencesInv
<1>1. Init => PreferencesInv
  BY PreferencesInit DEF Init
<1>2. PreferencesInv /\ [Next]_vars => PreferencesInv'
  BY EachByItself, PreferencesStep
<1> QED
  BY <1>1, <1>2, PTL DEF Spec

\* The requests that are past their upsert or over.
Past == {r \in PreferenceRequests : requests[r].step \in {"written", "answered"}}

\* What is noted is of times there were, and no row is written more often than requests are past
\* their upsert.
CountsOk ==
  /\ clock \in 1 .. MaxTime
  /\ \A x \in rows : x.created \in 1 .. clock /\ x.updated \in 1 .. clock
  /\ \A r \in PreferenceRequests : requests[r].step = "prepared" => requests[r].now \in 1 .. clock
  /\ \A u \in Users : writes[u] <= Cardinality(Past)

LEMMA PastFacts == IsFiniteSet(Past) /\ Cardinality(Past) \in Nat /\ Cardinality(Past) <= Cardinality(PreferenceRequests)
<1>1. Past \in SUBSET PreferenceRequests
  BY DEF Past
<1> QED
  BY <1>1, BoundsAssumption, FS_Subset, FS_CardinalityType

\* A request goes on and no row is written.
LEMMA CountsKept ==
  ASSUME PreferencesInv, CountsOk, UNCHANGED <<rows, clock, writes>>,
         NEW r \in PreferenceRequests, NEW q, requests' = [requests EXCEPT ![r] = q],
         q.step = "prepared" => q.now \in 1 .. clock,
         r \in Past => q.step \in {"written", "answered"}
  PROVE  CountsOk'
<1>1. requests'[r] = q /\ \A n \in PreferenceRequests \ {r} : requests'[n] = requests[n]
  BY DEF PreferencesInv, PreferenceTypes
<1>2. PICK past : past = Past'
  OBVIOUS
<1>3. Past \in SUBSET past /\ past \in SUBSET PreferenceRequests
  BY <1>1, <1>2 DEF Past
<1>4. IsFiniteSet(past) /\ Cardinality(past) \in Nat /\ Cardinality(Past) <= Cardinality(past)
  BY <1>3, BoundsAssumption, FS_Subset, FS_CardinalityType
<1>5. \A u \in Users : writes'[u] <= Cardinality(past)
  BY <1>4, PastFacts DEF CountsOk, PreferencesInv, PreferenceTypes
<1> QED
  BY <1>1, <1>2, <1>5 DEF CountsOk

LEMMA CountsAnswered ==
  ASSUME PreferencesInv, CountsOk, UNCHANGED <<rows, clock, writes>>,
         NEW r \in PreferenceRequests, NEW a, Prefs!Answer(r, a)
  PROVE  CountsOk'
<1>1. requests[r] \in PreferenceCalls /\ requests \in [PreferenceRequests -> PreferenceCalls]
  BY DEF PreferencesInv, PreferenceTypes
<1>2. PICK q : q = [requests[r] EXCEPT !.step = "answered", !.answer = a]
  OBVIOUS
<1>3. requests' = [requests EXCEPT ![r] = q] /\ q.step = "answered"
  BY <1>1, <1>2 DEF Prefs!Answer, PreferenceCalls
<1> QED
  BY <1>3, CountsKept

\* The upsert: its request gets past it as the row is written once more.
LEMMA CountsWritten ==
  ASSUME PreferencesInv, CountsOk, PreferenceTypes', NEW r \in PreferenceRequests, Prefs!Upsert(r)
  PROVE  CountsOk'
<1> DEFINE u == requests[r].user
<1>1. /\ u \in Users /\ requests[r].step = "prepared" /\ requests[r].now \in 1 .. clock
      /\ writes \in [Users -> Nat] /\ requests \in [PreferenceRequests -> PreferenceCalls]
      /\ requests[r] \in PreferenceCalls
      /\ writes' = [writes EXCEPT ![u] = @ + 1] /\ clock' = clock
  BY DEF Prefs!Upsert, PreferencesInv, RequestOk, PreferenceTypes, CountsOk
<1>2. \A x \in rows' : x.created \in 1 .. clock /\ x.updated \in 1 .. clock
  <2>1. Prefs!WriteRow(r) /\ rows \subseteq PreferenceRows
    BY DEF Prefs!Upsert, PreferencesInv, PreferenceTypes
  <2>2. CASE Prefs!Find(u) = {}
    BY <1>1, <2>1, <2>2 DEF Prefs!WriteRow, CountsOk
  <2>3. CASE Prefs!Find(u) # {}
    <3>1. rows' = {IF x.user = u
                   THEN [x EXCEPT !.value = requests[r].value, !.updated = requests[r].now, !.n = writes'[u]]
                   ELSE x : x \in rows}
      BY <2>1, <2>3 DEF Prefs!WriteRow
    <3>2. ASSUME NEW x \in rows
          PROVE  /\ x.created \in 1 .. clock /\ x.updated \in 1 .. clock
                 /\ [x EXCEPT !.value = requests[r].value, !.updated = requests[r].now, !.n = writes'[u]].created
                      = x.created
                 /\ [x EXCEPT !.value = requests[r].value, !.updated = requests[r].now, !.n = writes'[u]].updated
                      = requests[r].now
      BY <2>1 DEF CountsOk, PreferenceRows
    <3> QED
      BY <1>1, <3>1, <3>2
  <2> QED
    BY <2>2, <2>3
<1>3. /\ requests'[r].step \in {"written", "answered"}
      /\ \A n \in PreferenceRequests \ {r} : requests'[n] = requests[n]
  <2>1. CASE \E a : Prefs!Answer(r, a)
    BY <1>1, <2>1 DEF Prefs!Answer, PreferenceCalls
  <2>2. CASE requests' = [requests EXCEPT ![r].step = "written", ![r].made = writes'[u]]
    <3>1. requests' = [requests EXCEPT ![r] = [requests[r] EXCEPT !.step = "written", !.made = writes'[u]]]
      BY <1>1, <2>2, TwoFields
    <3> QED
      BY <1>1, <3>1 DEF PreferenceCalls
  <2> QED
    BY <2>1, <2>2 DEF Prefs!Upsert
<1>4. PICK past : past = Past'
  OBVIOUS
<1>5. past = Past \cup {r} /\ r \notin Past
  BY <1>1, <1>3, <1>4 DEF Past
<1>6. Cardinality(past) = Cardinality(Past) + 1
  BY <1>5, PastFacts, FS_AddElement
<1>7. \A v \in Users : writes'[v] <= Cardinality(past)
  BY <1>1, <1>6, PastFacts DEF CountsOk
<1>8. \A n \in PreferenceRequests : requests'[n].step = "prepared" => requests'[n].now \in 1 .. clock
  BY <1>3 DEF CountsOk
<1> QED
  BY <1>1, <1>2, <1>4, <1>7, <1>8 DEF CountsOk

LEMMA CountsStep ==
  ASSUME PreferencesInv, CountsOk, PreferencesInv', [Prefs!Next]_preferencesVars
  PROVE  CountsOk'
<1>0. requests \in [PreferenceRequests -> PreferenceCalls]
  BY DEF PreferencesInv, PreferenceTypes
<1>1. ASSUME NEW r \in PreferenceRequests, NEW k, NEW u, NEW v, Prefs!Ask(r, k, u, v)
      PROVE  CountsOk'
  <2>1. PICK q : q = [Prefs!Unsent EXCEPT !.kind = k, !.user = u, !.value = v, !.step = "asked", !.since = writes]
    OBVIOUS
  <2>2. q.step = "asked"
    BY <2>1 DEF Prefs!Unsent
  <2>3. /\ requests[r].step = "unsent" /\ requests' = [requests EXCEPT ![r] = q]
        /\ UNCHANGED <<rows, clock, writes>>
    BY <1>1, <2>1 DEF Prefs!Ask
  <2> QED
    BY <2>2, <2>3, CountsKept DEF Past
<1>2. ASSUME NEW r \in PreferenceRequests,
             Prefs!Retrieve(r) \/ Prefs!ListForAdmin(r) \/ Prefs!ReadBack(r) \/ Prefs!Fail(r)
      PROVE  CountsOk'
  <2>1. UNCHANGED <<rows, clock, writes>> /\ \E a : Prefs!Answer(r, a)
    BY <1>2 DEF Prefs!Retrieve, Prefs!ListForAdmin, Prefs!ReadBack, Prefs!Fail
  <2> QED
    BY <2>1, CountsAnswered
<1>3. ASSUME NEW r \in PreferenceRequests, Prefs!Prepare(r) PROVE CountsOk'
  <2>1. requests[r].step = "asked" /\ UNCHANGED <<rows, clock, writes>>
    BY <1>3 DEF Prefs!Prepare
  <2>2. CASE \E a : Prefs!Answer(r, a)
    BY <2>1, <2>2, CountsAnswered
  <2>3. CASE requests' = [requests EXCEPT ![r].step = "prepared", ![r].now = clock]
    <3>1. PICK q : q = [requests[r] EXCEPT !.step = "prepared", !.now = clock]
      OBVIOUS
    <3>2. requests' = [requests EXCEPT ![r] = q]
      BY <1>0, <2>3, <3>1, TwoFields
    <3>3. q.now = clock
      BY <1>0, <3>1 DEF PreferenceCalls
    <3>4. clock \in 1 .. clock
      BY BoundsAssumption DEF CountsOk
    <3> QED
      BY <2>1, <3>2, <3>3, <3>4, CountsKept DEF Past
  <2> QED
    BY <1>3, <2>2, <2>3 DEF Prefs!Prepare
<1>4. ASSUME NEW r \in PreferenceRequests, Prefs!Upsert(r) PROVE CountsOk'
  BY <1>4, CountsWritten DEF PreferencesInv
<1>5. CASE Prefs!Tick
  BY <1>5, BoundsAssumption DEF Prefs!Tick, CountsOk, Past
<1>6. CASE UNCHANGED preferencesVars
  BY <1>6 DEF preferencesVars, CountsOk, Past
<1> QED
  BY <1>1, <1>2, <1>3, <1>4, <1>5, <1>6 DEF Prefs!Next

LEMMA CountsInvariance == Spec => [](PreferencesInv /\ CountsOk)
<1>1. Init => PreferencesInv
  BY PreferencesInit DEF Init
<1>2. Init => CountsOk
  BY PastFacts, BoundsAssumption DEF Init, Prefs!Init, Prefs!Unsent, CountsOk
<1>3. PreferencesInv /\ CountsOk /\ [Next]_vars => (PreferencesInv /\ CountsOk)'
  BY EachByItself, PreferencesStep, CountsStep
<1> QED
  BY <1>1, <1>2, <1>3, PTL DEF Spec

LEMMA SameCardinality == ASSUME NEW S PROVE Prefs!Cardinality(S) = Cardinality(S)
BY DEF Prefs!Cardinality, Cardinality

LEMMA PreferencesTyped == PreferencesInv /\ CountsOk => Prefs!TypeOK
<1> SUFFICES ASSUME PreferencesInv, CountsOk PROVE Prefs!TypeOK
  OBVIOUS
<1>1. ASSUME NEW x \in rows
      PROVE  x \in [user : Users, id : PreferenceRequests, value : Values, created : 1 .. clock,
                    updated : 1 .. clock, n : 1 .. Cardinality(PreferenceRequests)]
  <2>1. x \in PreferenceRows /\ x.n = writes[x.user] /\ x.n \in Nat \ {0} /\ x.user \in Users
    BY DEF PreferencesInv, PreferenceTypes, RowsOk, PreferenceRows
  <2>2. x.n <= Cardinality(PreferenceRequests)
    BY <2>1, PastFacts, BoundsAssumption, FS_CardinalityType DEF CountsOk
  <2>3. x.n \in 1 .. Cardinality(PreferenceRequests)
    BY <2>1, <2>2, BoundsAssumption, FS_CardinalityType
  <2> QED
    BY <2>1, <2>3 DEF CountsOk, PreferenceRows
<1>2. ASSUME NEW r \in PreferenceRequests
      PROVE  /\ requests[r].step \in {"unsent", "asked", "prepared", "written", "answered"}
             /\ requests[r].value \in Values \cup {Default}
             /\ requests[r].step = "answered" <=> requests[r].answer # Unanswered
  BY DEF PreferencesInv, PreferenceTypes, PreferenceCalls, RequestOk
<1>3. rows \subseteq [user : Users, id : PreferenceRequests, value : Values, created : 1 .. clock,
                      updated : 1 .. clock, n : 1 .. Cardinality(PreferenceRequests)]
  BY <1>1
<1>4. clock \in 1 .. MaxTime
  BY DEF CountsOk
<1> QED
  BY <1>2, <1>3, <1>4, SameCardinality DEF Prefs!TypeOK

\* retrieve_preferences, update_preferences, list_for_admin: whatever statements interleave,
\* an answer holds nothing older than what was stored when it was asked for.
THEOREM CurrentAnswers == Spec => []AnswersAreCurrent
<1>1. PreferencesInv => AnswersAreCurrent
  BY PreferencesProperties DEF AnswersAreCurrent
<1> QED
  BY <1>1, PreferencesInvariance, PTL

\* upsert_preference: a user has one row, which keeps its id and its time of creation.
THEOREM OneRow == Spec => []OneRowPerUser
<1>1. PreferencesInv => OneRowPerUser
  BY PreferencesProperties DEF OneRowPerUser
<1> QED
  BY <1>1, PreferencesInvariance, PTL
-----------------------------------------------------------------------------
(* The shell.                                                                 *)

\* The least of some numbers, from the well-founded order of the naturals.
Smaller == {x \in Nat \X Nat : x[1] < x[2]}

LEMMA SmallerIsWellFounded == IsWellFoundedOn(Smaller, Nat)
<1>1. Smaller = OpToRel(<, Nat)
  BY DEF Smaller, OpToRel
<1> QED
  BY <1>1, NatLessThanWellFounded

LEMMA LeastOf ==
  ASSUME NEW S \in SUBSET Nat, S # {}
  PROVE  Shell!Min(S) \in S /\ \A n \in S : Shell!Min(S) <= n
<1>1. PICK m \in S : \A n \in S : ~(<<n, m>> \in Smaller)
  BY SmallerIsWellFounded, WFMin
<1>2. \A n \in S : ~(n < m)
  BY <1>1 DEF Smaller
<1>3. \A n \in S : m <= n
  BY <1>2
<1> QED
  BY <1>3 DEF Shell!Min

\* What is registered: modules with a prefix of their own, and routes under it.
Registered == modules \in Contributions /\ Shell!Accepted(modules) /\ scope \subseteq Permissions

LEMMA RegisteredModules ==
  ASSUME Registered, NEW i \in DOMAIN modules
  PROVE  /\ DOMAIN modules \subseteq Nat /\ DOMAIN modules[i].routes \subseteq Nat
         /\ \E k \in DOMAIN modules[i].routes : modules[i].routes[k].path = modules[i].default
         /\ \A k \in DOMAIN modules[i].routes :
              /\ <<i, k>> \in Shell!Places(modules) /\ Shell!RouteAt(<<i, k>>) = modules[i].routes[k]
              /\ modules[i].routes[k].path \in Seq(STRING) \ {<<>>}
              /\ modules[i].routes[k].path[1] # "account"
<1> DEFINE m == modules[i]
<1>1. /\ modules \in Seq(Shell!AdminModuleContribution)
      /\ m.prefix # <<>> /\ m.prefix[1] # "account"
  BY ContributionsAssumption DEF Registered
<1>2. /\ DOMAIN modules \subseteq Nat /\ DOMAIN m.routes \subseteq Nat
      /\ m.prefix \in Seq(STRING)
      /\ \A k \in DOMAIN m.routes : m.routes[k].path \in Seq(STRING)
  <2>1. DOMAIN modules \subseteq Nat /\ m \in Shell!AdminModuleContribution
    BY <1>1
  <2>2. m.prefix \in Seq(STRING) /\ m.routes \in Seq(Shell!AdminModuleRoute)
    BY <2>1 DEF Shell!AdminModuleContribution
  <2>3. /\ DOMAIN m.routes \subseteq Nat
        /\ \A k \in DOMAIN m.routes : m.routes[k] \in Shell!AdminModuleRoute
    BY <2>2
  <2> QED
    BY <2>1, <2>2, <2>3 DEF Shell!AdminModuleRoute
<1>3. /\ \E k \in DOMAIN m.routes : m.routes[k].path = m.default
      /\ \A k \in DOMAIN m.routes : Shell!IsPrefix(m.prefix, m.routes[k].path)
  BY DEF Registered, Shell!Accepted, Shell!Sound
<1>4. ASSUME NEW k \in DOMAIN m.routes
      PROVE  m.routes[k].path # <<>> /\ m.routes[k].path[1] # "account"
  <2> DEFINE p == m.routes[k].path
             q == m.prefix
  <2>1. p \in Seq(STRING) /\ q \in Seq(STRING) /\ q # <<>> /\ q[1] # "account"
    BY <1>1, <1>2
  <2>2. Len(q) <= Len(p) /\ SubSeq(q, 1, Len(q)) = SubSeq(p, 1, Len(q))
    BY <1>3 DEF Shell!IsPrefix
  <2> HIDE DEF p, q
  <2>3. Len(q) > 0 /\ Len(p) > 0
    BY <2>1, <2>2
  <2>4. SubSeq(q, 1, Len(q))[1] = q[1] /\ SubSeq(p, 1, Len(q))[1] = p[1]
    BY <2>1, <2>2, <2>3
  <2>5. p # <<>> /\ p[1] # "account"
    BY <2>1, <2>2, <2>3, <2>4
  <2> QED
    BY <2>5 DEF p
<1>5. \A k \in DOMAIN m.routes :
        <<i, k>> \in Shell!Places(modules) /\ Shell!RouteAt(<<i, k>>) = m.routes[k]
  BY DEF Shell!Places, Shell!RouteAt
<1> QED
  BY <1>2, <1>3, <1>4, <1>5

\* The path of a route finds the route and the module it belongs to.
LEMMA RouteFindsItself ==
  ASSUME Registered, NEW i \in DOMAIN modules, NEW k \in DOMAIN modules[i].routes
  PROVE  /\ Shell!FindRoute(modules[i].routes[k].path) = {<<i, k>>}
         /\ Shell!FindModule(modules[i].routes[k].path) = {i}
<1> DEFINE p == modules[i].routes[k].path
           exact == {x \in Shell!Places(modules) : Shell!RouteAt(x).path = p}
<1>1. /\ <<i, k>> \in exact /\ i \in Nat /\ k \in Nat
  BY RegisteredModules
<1>2. \A x \in exact : x = <<i, k>>
  BY RegisteredModules DEF Registered, Shell!Accepted, Shell!RouteAt
<1>3. exact = {<<i, k>>}
  BY <1>1, <1>2
<1>4. Shell!FirstOf({<<i, k>>}) = {<<i, k>>}
  BY <1>1 DEF Shell!FirstOf, Shell!Before
<1>5. Shell!FindRoute(p) = {<<i, k>>}
  BY <1>3, <1>4 DEF Shell!FindRoute
<1>6. Shell!FindModule(p) = {i}
  BY <1>5 DEF Shell!FindModule
<1> QED
  BY <1>5, <1>6

\* A link leads to a route the navigation shows, of a module the operator has access to.
LEMMA LinkShowsPage ==
  ASSUME Registered, NEW i \in DOMAIN modules, Shell!HasAccess(modules[i]),
         NEW k \in Shell!AccessibleRoutes(modules[i])
  PROVE  /\ modules[i].routes[k].path # Shell!Root
         /\ Shell!Shows(modules[i].routes[k].path) = "page"
<1> DEFINE p == modules[i].routes[k].path
<1>1. k \in DOMAIN modules[i].routes /\ Shell!HasAccess(modules[i].routes[k])
  BY DEF Shell!AccessibleRoutes
<1>2. /\ p \in Seq(STRING) \ {<<>>} /\ p[1] # "account"
      /\ Shell!RouteAt(<<i, k>>) = modules[i].routes[k]
      /\ Shell!FindRoute(p) = {<<i, k>>} /\ Shell!FindModule(p) = {i}
  BY <1>1, RegisteredModules, RouteFindsItself
<1>3. Shell!CanAccess(p)
  BY <1>1, <1>2 DEF Shell!CanAccess
<1>4. ~Shell!IsPrefix(Shell!AccountCentre, p)
  <2>1. SubSeq(p, 1, 1)[1] = p[1] /\ SubSeq(<<"account">>, 1, 1)[1] = "account"
    BY <1>2
  <2> QED
    BY <1>2, <2>1 DEF Shell!IsPrefix, Shell!AccountCentre
<1> QED
  BY <1>2, <1>3, <1>4 DEF Shell!Shows, Shell!Root

\* The default path of a visible module is that of such a route.
LEMMA DefaultIsLink ==
  ASSUME Registered, NEW i \in Shell!VisibleModules
  PROVE  \E k \in Shell!AccessibleRoutes(modules[i]) :
           Shell!ModuleDefaultPath(modules[i]) = modules[i].routes[k].path
<1> DEFINE open == Shell!AccessibleRoutes(modules[i])
<1>1. i \in DOMAIN modules /\ open # {}
  BY DEF Shell!VisibleModules
<1>2. open \in SUBSET Nat
  BY <1>1, RegisteredModules DEF Shell!AccessibleRoutes
<1>3. Shell!Min(open) \in open
  BY <1>1, <1>2, LeastOf
<1> QED
  BY <1>1, <1>3 DEF Shell!ModuleDefaultPath

\* No route is that of the root, where the welcome page is shown.
LEMMA RootIsWelcome == Registered => Shell!Shows(Shell!Root) = "welcome"
<1> SUFFICES ASSUME Registered PROVE Shell!Shows(Shell!Root) = "welcome"
  OBVIOUS
<1>1. \A x \in Shell!Places(modules) : Shell!RouteAt(x).path \in Seq(STRING) \ {<<>>}
  BY RegisteredModules DEF Shell!Places, Shell!RouteAt
<1>2. \A x \in Shell!Places(modules) :
        Shell!RouteAt(x).path # Shell!Root /\ ~Shell!RoutePathMatches(Shell!RouteAt(x).path, Shell!Root)
  BY <1>1 DEF Shell!Root, Shell!RoutePathMatches
<1>3. Shell!FindRoute(Shell!Root) = {}
  BY <1>2 DEF Shell!FindRoute, Shell!FirstOf
<1>4. ~Shell!IsPrefix(Shell!AccountCentre, Shell!Root)
  BY DEF Shell!IsPrefix, Shell!AccountCentre, Shell!Root
<1> QED
  BY <1>3, <1>4 DEF Shell!Shows

\* Somewhere between its steps the shell is where a link or redirect led it, or elsewhere.
ShellInv == part = "shell" => Registered /\ Shell!TypeOK /\ Shell!LinksOpen

LEMMA ShellStep == ShellInv /\ UNCHANGED part /\ [Shell!Next]_shellVars => ShellInv'
<1> SUFFICES ASSUME Registered, Shell!TypeOK, Shell!LinksOpen, [Shell!Next]_shellVars
             PROVE  Registered' /\ Shell!TypeOK' /\ Shell!LinksOpen'
  BY DEF ShellInv
<1>1. UNCHANGED modules
  BY DEF Shell!Next, shellVars, Shell!TypeAddress, Shell!OpenModule, Shell!OpenFromWelcome,
     Shell!OpenAccountCentre, Shell!OpenRoute, Shell!Redirect, Shell!ScopeChanges, Shell!Go
<1>2. ASSUME UNCHANGED scope, by' \in {"typed", "account", "link", "redirect"},
             path' \in Paths \cup {Shell!RouteAt(x).path : x \in Shell!Places(modules)}
                         \cup {Shell!Root, Shell!AccountCentre},
             by' \in {"link", "redirect"} =>
               Shell!Shows(path') = IF path' = Shell!Root THEN "welcome" ELSE "page"
      PROVE  Registered' /\ Shell!TypeOK' /\ Shell!LinksOpen'
  <2>1. Registered' /\ Shell!TypeOK'
    BY <1>1, <1>2 DEF Registered, Shell!TypeOK, Shell!Accepted, Shell!RouteAt
  <2>2. Shell!Shows(path)' = Shell!Shows(path')
    BY <1>1, <1>2 DEF Shell!Shows, Shell!FindRoute, Shell!CanAccess, Shell!FindModule,
       Shell!HasAccess, Shell!RouteAt
  <2> QED
    BY <1>2, <2>1, <2>2 DEF Shell!LinksOpen
<1>3. ASSUME NEW i \in DOMAIN modules, Shell!HasAccess(modules[i]),
             NEW k \in Shell!AccessibleRoutes(modules[i]), NEW how \in {"link", "redirect"},
             Shell!Go(modules[i].routes[k].path, how)
      PROVE  Registered' /\ Shell!TypeOK' /\ Shell!LinksOpen'
  <2>1. k \in DOMAIN modules[i].routes
    BY DEF Shell!AccessibleRoutes
  <2>2. modules[i].routes[k].path \in {Shell!RouteAt(x).path : x \in Shell!Places(modules)}
    BY <2>1, RegisteredModules
  <2> QED
    BY <1>2, <1>3, <2>2, LinkShowsPage DEF Shell!Go
<1>4. ASSUME NEW i \in Shell!VisibleModules, NEW how \in {"link", "redirect"},
             Shell!Go(Shell!ModuleDefaultPath(modules[i]), how)
      PROVE  Registered' /\ Shell!TypeOK' /\ Shell!LinksOpen'
  BY <1>3, <1>4, DefaultIsLink DEF Shell!VisibleModules
<1>5. CASE Shell!TypeAddress \/ Shell!OpenAccountCentre
  BY <1>2, <1>5 DEF Shell!TypeAddress, Shell!OpenAccountCentre, Shell!Go
<1>6. CASE Shell!OpenModule \/ Shell!OpenFromWelcome
  BY <1>4, <1>6 DEF Shell!OpenModule, Shell!OpenFromWelcome
<1>7. CASE Shell!OpenRoute
  <2>1. Shell!FindModule(path) \subseteq DOMAIN modules
    BY DEF Shell!FindModule, Shell!FindRoute, Shell!FirstOf, Shell!Places
  <2> QED
    BY <1>3, <1>7, <2>1 DEF Shell!OpenRoute
<1>8. CASE Shell!Redirect
  <2>1. CASE Shell!VisibleModules = {}
    BY <1>2, <1>8, <2>1, RootIsWelcome DEF Shell!Redirect, Shell!DefaultPath, Shell!Go
  <2>2. CASE Shell!VisibleModules # {}
    <3>1. Shell!VisibleModules \in SUBSET Nat
      BY <2>2, RegisteredModules DEF Shell!VisibleModules
    <3> QED
      BY <1>4, <1>8, <2>2, <3>1, LeastOf DEF Shell!Redirect, Shell!DefaultPath
  <2> QED
    BY <2>1, <2>2
<1>9. CASE Shell!ScopeChanges
  BY <1>1, <1>9 DEF Shell!ScopeChanges, Registered, Shell!TypeOK, Shell!LinksOpen, Shell!Accepted,
     Shell!RouteAt
<1>10. CASE UNCHANGED shellVars
  <2>1. UNCHANGED <<path, scope, by>>
    BY <1>10 DEF shellVars
  <2> QED
    BY <1>2, <2>1 DEF Shell!TypeOK, Shell!LinksOpen
<1> QED
  BY <1>5, <1>6, <1>7, <1>8, <1>9, <1>10 DEF Shell!Next

LEMMA ShellInvariance == Spec => []ShellInv
<1>1. Init => ShellInv
  BY DEF Init, Shell!Init, ShellInv, Registered, Shell!TypeOK, Shell!LinksOpen
<1>2. ShellInv /\ [Next]_vars => ShellInv'
  BY EachByItself, ShellStep
<1> QED
  BY <1>1, <1>2, PTL DEF Spec

\* resolveDefaultPath, resolveModuleDefaultPath, listVisibleRoutes, AdminHostShell: whatever is
\* contributed and permitted, no link of the shell is refused and no redirect leads to another.
THEOREM OpenLinks == Spec => []LinksOpen
<1>1. ShellInv => LinksOpen
  BY DEF ShellInv, LinksOpen
<1> QED
  BY <1>1, ShellInvariance, PTL

\* findModuleForPath, findRouteForPath: a page is shown only to an operator who has access to it
\* and to the module it belongs to, however modules and routes shadow each other.
THEOREM OwnPages == Spec => []PagesAreOfTheirModule
<1>1. PagesAreOfTheirModule
  <2>1. ASSUME Shell!Shows(path) = "page"
        PROVE  \A x \in Shell!FindRoute(path) :
                 Shell!HasAccess(Shell!RouteAt(x)) /\ Shell!HasAccess(modules[x[1]])
    BY <2>1 DEF Shell!Shows, Shell!CanAccess, Shell!FindModule
  <2> QED
    BY <2>1 DEF PagesAreOfTheirModule, Shell!PagesAreOfTheirModule
<1> QED
  BY <1>1, PTL

=============================================================================
