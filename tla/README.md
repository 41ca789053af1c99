# TLA+ project of the SDKWork Manager

The SDKWork Manager is an administration console: a Rust backend over PostgreSQL
(operator preferences and the commercial entitlement authority) and a React host
(IAM session, protected routes, administration modules over generated SDK clients).
This directory holds TLA+ modules of its parts, TLC configurations that check them on
small instances, and proofs that TLAPS checks for every value of the constants.

Paths are relative to the repository's `src/`. `PC` stands for
`apps/sdkwork-manager-pc/packages`, `CORE` for `PC/sdkwork-manager-pc-core/src`,
`SHELL` for `PC/sdkwork-manager-pc-shell/src`.

## Running

    tlc -workers 2 -config MCEntitlement.cfg MCEntitlement
    tlc -workers 2 -config MCSessionBridge.cfg MCSessionBridge
    tlc -workers 2 -config MCOperatorGuard.cfg MCOperatorGuard
    tlc -workers 2 -config MCWorkspace.cfg MCWorkspace
    tlc -workers 2 -config MCConsole.cfg MCConsole
    tlc -workers 2 -config MCSdkClients.cfg SdkClients
    tlapm EntitlementProofs.tla
    tlapm SessionBridgeProofs.tla
    tlapm OperatorGuardProofs.tla
    tlapm WorkspaceProofs.tla
    tlapm RequestSequences.tla
    tlapm ConsoleProofs.tla
    tlapm ConsoleDeskProofs.tla
    tlapm ConsoleStoreProofs.tla

`PROJECT.json` lists every run, the definitions and the source lines they model, the
mutants that show each property to be sensitive to a bug in the code, the hazards and
the theorems.

## The system

| Component | State | Operations | What is hard | What makes it correct |
| --- | --- | --- | --- | --- |
| Commercial entitlement authority (`crates/sdkwork-platform-manager-{service,repository-sqlx}`, `crates/sdkwork-routes-manager-backend-api`) | two tables: a versioned snapshot row and grant rows per (tenant, app) | replace with an expected version, retrieve, verify decision | concurrent transactions in READ COMMITTED, first inserts without a row to lock, reads by two statements, failures around the commit | no lost update; rows always those of one version; status codes tell the truth; allowed decisions are backed |
| Operator preferences (same crates, `crates/sdkwork-routes-manager-app-api`) | one row per (tenant, user) | retrieve, upsert, list for admin | client-side timestamps, separate read-back | answers hold nothing older than what was stored when they were asked; one row per user |
| IAM session bridge (`CORE/session/iamOperatorSessionBridge.ts`, `operatorSession.ts`, `CORE/sdk/appAuthRuntime.ts`) | `localStorage` shared by tabs; per tab `memorySession`, `storageLoaded`, one TokenManager | load, commit, clear, storage event | tabs interleave, events are late, writes fail silently, equal sessions are not written | tabs agree in the end; the TokenManager follows the session; a sign-out reaches every tab |
| Operator session guard (`SHELL/auth/*`, `SHELL/index.tsx`) | status and effects of the mounted guard; shared pending request, verified key and generation of the module | mount, check, answer, session change, navigation, sign-out | promises, storage events, renders and effects in any order; abandoned requests | protected content only for a validated session; every check ends; no session means the login page |
| OAuth account controller (`PC/sdkwork-manager-pc-admin-iam/src/services/oauthAccountController.ts`) | workspace state, and four kinds of IAM resources | load, create, update, enable | a saga without transactions, compensation that may fail, overlapping calls | a failed creation leaves nothing, resources are enabled together, the page shows what is stored |
| Trade, customer, membership, marketing and IAM catalog pages (`PC/sdkwork-manager-pc-admin-*`) | rows, search, paging, drawers, drafts, pending flags, feedback | load, mutate then reload, pick, switch | answers out of order, callbacks of earlier renders, a mutation that succeeds and a reload that fails | the rows are those of the query shown; feedback tells what happened; no unseen edit is overwritten; codes are generated once, from the right stock |
| Admin SDK clients (`PC/sdkwork-manager-pc-admin-core/src/sdk/index.ts`, `CORE/sdk/authenticatedSdkClients.ts`) | lazily created clients, registered resetters | get, reset on a session change | clients retained outside the resetters | cached clients and services are of the session there is |
| Module registry and host shell (`CORE/composition/module-registry.ts`, `SHELL/admin-host-shell.tsx`) | the validated assembly | register, find a route, access, default path | prefix overlap, parameterised routes, redirects | links and redirects end at pages the operator may see; a page is shown only with access to it and its module |
| Public IAM runtime configuration (`CORE/sdk/authRuntimeConfig.ts`) | one shared promise | load, reset, retry | a failure that settles after a reset | a failed load is not cached, a pending one is shared |
| Service host, database host, gateway, envelopes, base URLs | none after start-up | wiring and formatting | none a model would reach | - |

The parts interact as follows. The host renders a route; the auth guard and the operator
guard read the session bridge. IAM's runtime commits sessions through the bridge; the
bridge writes `localStorage` and dispatches `session-changed`, on which the TokenManager
is synced and the SDK clients are dropped; other tabs get a storage event, read the store
again and dispatch `session-changed` and `session-storage-changed`, which the operator
guard hears. The modules' pages call the backend through the SDK clients; the backend's
handlers call the service and the service the repository.

## Modules

| Module | Models | Correspondence |
| --- | --- | --- |
| `Entitlement` | the three entitlement endpoints from the handler to the tables | a request is one async task; one action per SQL statement with the code up to the next one. `header` and `grant` are the tables, `holder` the owner of the snapshot row's lock, `staged` the uncommitted writes of a transaction, `history` (auxiliary) the committed contents |
| `EntitlementAuthority` | what callers are promised: a register replaced by compare-and-swap, reads of an interval | abstract: no tables, locks or statements |
| `EntitlementRefinement` | `Entitlement` implements `EntitlementAuthority` | `INSTANCE ... WITH`: a request is open while it has a statement to send |
| `EntitlementProofs` | theorems and proofs about `Entitlement` and the refinement | extends `EntitlementRefinement` |
| `SessionBridge` | the session in the tabs of one browser and the TokenManager | a step is one turn of a tab's event loop; `mail[t]` counts queued storage events; `unsaved` (auxiliary) says that the tab's last write failed |
| `SessionBridgeProofs` | theorems and proofs about `SessionBridge` | - |
| `OperatorGuard` | the guard of protected routes over the session bridge (`Bridge == INSTANCE SessionBridge`) | `status` is what `setStatus` was last told and `shown` what was rendered; `request` holds the current-session requests in flight with the key they were sent for, whether their generation is current (`valid`), and who waits (`awaited`: the active effect, a cleaned-up one, nobody); `confirmed`, `issued`, `used` and `restored` are auxiliary |
| `OperatorGuardProofs` | theorems and proofs about `OperatorGuard`, for any number of tabs and for one | - |
| `Workspace` | every list page of trade, membership, customer, marketing and the IAM catalogs | one definition per page says how it differs (`filter`, `paged`, `rowsStay`, `actions`, `refresh`, `versioned`); `at` is the open page. `loads` are its list requests in flight, `timer` its `setTimeout`, `editor` the drawer or dialog, `job` the pending mutation; `overtaken`, `outcome` and `lost` are auxiliary |
| `WorkspaceProofs` | theorems and proofs about `Workspace` | - |
| `RequestSequences` | lemmas about requests that are appended in the order they are sent and removed in any | used by `WorkspaceProofs` and `ConsoleDeskProofs` |
| `CouponDesk` | the drawers that set up stock and generate codes from it, the distribution task, and the picker of a stock | a draft with its idempotency key; `timer` and `asked` carry the draft of the render in which the picker started to wait or asked, as its closures do; `issues` (auxiliary) is what the service carried out |
| `OfferSwitch` | the status switch of offers in their table | `statusPendingId` and the reload of the render in which the switch was used (`switches[i].query`) |
| `OauthAccount` | the controller and the page of OAuth accounts over integrations, clients, surfaces and secrets | `jobs` are calls of the controller; one action per request that is carried out, fails or loses its answer; `state` is the controller's and `view` the page's copy of it; `strays` are the requests of a `Promise.all` whose failure nobody waits for |
| `Preferences` | retrieval, replacement and listing of preferences, statement by statement | `rows` is the table with its unique constraint, `now` the time read before the upsert is sent |
| `SdkClients` | the module variables of the SDK clients and services, and the customer controller | `cache[n]` is the session in which client or service `n` was made |
| `RuntimeConfig` | the shared promise of the public configuration and the hook over it | `hook` is one mounted use; `sent` the requests |
| `HostShell` | registry, route lookup, access and what the host shows at a path | the registered modules are a parameter of a behaviour; `Shows` is the return of `AdminHostShell` |
| `DetailPage` | the pages of one customer and of one membership | one component that stays when its address changes; `job` is `updateStatus` with the id of its render |
| `Console` | the eight modules before this line, `CouponDesk` to `DetailPage`, as one system | `part` is the one that acts, see Bounds |
| `ConsoleProofs` | theorems and proofs about `RuntimeConfig`, `SdkClients`, `Preferences` and `HostShell` in `Console` | one invariant per part, over one frame lemma |
| `ConsoleDeskProofs` | the same for `DetailPage` and `OfferSwitch`, extending it | - |
| `ConsoleStoreProofs` | the same for `CouponDesk` and `OauthAccount`, and the types of all eight | extends `ConsoleDeskProofs` |
| `MCEntitlement`, `MCSessionBridge`, `MCOperatorGuard`, `MCWorkspace`, `MCConsole` | instances for TLC | - |

Names follow the source where TLA+ allows it. A definition whose comment begins with
`Mutant:` is no part of a specification: it is the form of the next definition that a
plausible bug would give it, used to show that a property is sensitive to that bug.

### Abstractions

- `Entitlement`: `tier`, `updated_by` and `updated_at` are stored and returned and never
  tested, so they are left out. The checks of codes, tier, status, number of keys and the
  parse of `expectedVersion` are one Boolean `wellFormed`, and malformed updates stand for all
  malformed requests. The loop of grant upserts is one
  action: nothing outside the transaction sees between its statements, and a failure among
  them is `Fail`. One (tenant, app) pair is modelled: every statement filters by both.
- `SessionBridge`: a session is its token pair and its context; `sessionId` and `user` are
  kept and merged as the context is. The bootstrap access token of credential entry counts
  as no tokens. Clearing the whole `localStorage` from outside is left out.
- `OperatorGuard`: the diagnostic switch `managerSessionCheck=paused`, the legacy copy of
  the session, page reloads and expiry are left out (the last three are in
  `SessionBridge`). React renders after a `setStatus` in a later turn: its scheduler posts
  a task, and other tasks may come first.
- `Workspace`: of a collection the version is kept, and of one entry the version it was
  last changed with. An answer holds the version of some moment between request and answer.
  Rows are not told apart; a draft is the version it was made from. The services are
  external: a mutation takes effect once, at a moment while it is in flight, or not at all.
- `CouponDesk`: of a draft the stock, one quantity and the key are kept. An option request
  is answered with what is there when the answer comes. Names, dates, limits and the
  validation of fields are left out.
- `OfferSwitch`, `DetailPage`: a list or a detail request holds what was so at some moment
  while it was under way; the fields other than the status are left out.
- `OauthAccount`: a resource exists or not and is enabled or not; the secret is written and
  never read. A draft the validation rejects is `Refuse`, whatever field it is about. IAM
  gives the id of a deleted account to no other (`gone`); if it did, the deletions of one
  failed creation could reach the account of another.
- `Preferences`: keys and theme are one value, and the check of the theme is the value
  `NoTheme`. The order of the admin list is left out.
- `SdkClients`: a client is the session it was made in; the base URLs it is made of are
  fixed. `RuntimeConfig`: of the two answers it is kept which of the fields that must be
  there they have; a request that is answered fails all the same when one lacks.
- `HostShell`: paths are sequences of segments; ids, labels, icons and the super
  administrator (who has every permission) are left out. The ways to another path are the
  actions: a typed address, the header, the sidebar, the cards of the welcome page, the
  account button and the redirect.

## Runs

| Run | Configuration | Question | Result |
| --- | --- | --- | --- |
| `entitlement` | `MCEntitlement.cfg` | safety of concurrent replacements, reads and decisions; does the code implement the register; is every request answered? | holds |
| `entitlement_runbook` | `MCEntitlementRunbook.cfg` | does an allowed decision carry the version that grants the key, as the launch runbook says? | no: torn read |
| `entitlement_lost_race` | `MCEntitlementLostRace.cfg` | is a lost race for a version answered as the API's 409? | no: 500 for the first version |
| `session_bridge` | `MCSessionBridge.cfg` | do tabs agree, does the TokenManager follow, does the context survive, does a sign-out reach every tab? | holds |
| `operator_guard` | `MCOperatorGuard.cfg` | are checks shared soundly between mounts and tabs? | holds |
| `operator_guard_one_tab` | `MCOperatorGuardOneTab.cfg` | without other tabs: is only validated content rendered, does every check end? | holds |
| `operator_guard_docs` | `MCOperatorGuardDocs.cfg` | the first question with a second tab, as the architecture document says | no: the answer about one session is taken for its replacement |
| `operator_guard_login` | `MCOperatorGuardLogin.cfg` | is a tab without a session routed to the login page? | no: an answer overwrites the status before the render |
| `workspace` | `MCWorkspace.cfg` | on every list page: are the rows those of the query, is success told truly and shown, is no unseen edit overwritten, does every wait end? | holds, but for answers out of order (see below) |
| `workspace_denial` | `MCWorkspaceDenial.cfg` | on the pages of refund and withdrawal requests: does a failure that is shown mean that no status was changed, as its message says? | no: the review was accepted and its reload failed |
| `console` | `MCConsole.cfg` | the properties of the eight smaller modules | holds, within the conditions the properties name |
| `sdk_clients_retained` | `MCSdkClients.cfg` | can no package retain a client of a previous session, as the comment on the resetters says? | no: the customer controller does |

`CheckEnds` is checked for one tab only, and it fails with two: a guard that is told that
the session is gone and, before it renders, that there is a new one, is rendered with the
status it had, so the effect is not run again and the page shows the validation notice
until the operator moves on. No document promises otherwise, so this is a hazard here and
not a finding.

Several properties hold only on conditions that the code does nothing to
ensure, and their names stand in the modules as auxiliary variables, so that a reader sees
what the code leaves open:

- A tab that left a session while a check of it was in flight, and is given the session back
  by another tab, checks it anew beside the request that is still there
  (`OperatorGuard!restored`): two requests may then confirm one session. It takes a second
  queued storage event to get there.
- No page guards against list answers that arrive in another order than the requests were
  sent (`Workspace!overtaken`, `OfferSwitch!outrun`, `DetailPage!stray`). Moving from page 1
  to 2 and back can leave the rows of page 2 under page 1.
- A switch reloads its table for the query of the render it was used in
  (`OfferSwitch!strayed`), and one `statusPendingId` for all rows lets a switch be used
  again while it is pending, once a second one was used (`OfferSwitch!excused`).
- The stock picker applies its automatic choice through the callback of the render in which
  it asked, and takes back what was typed meanwhile (`CouponDesk!replaced`).
- A creation of an OAuth account whose answer got lost, or whose deletions fail, leaves
  resources behind; a save or switch can start while another is under way, since the page
  disables its buttons by a copy of a state it has not taken yet (`OauthAccount!spoiled`,
  `overlapped`). A save of an account that is not in the list any more creates it anew.

Disagreements with the repository's text that no run of their own shows:

- An IAM catalog reports a save that was accepted and whose refresh failed both as saved and
  as "This change could not be saved." (`Workspace!NotRefreshed`;
  `PC/sdkwork-manager-pc-admin-iam/src/authorization/IamCatalogWorkspace.tsx:127-130`,
  `PC/sdkwork-manager-pc-admin-iam/src/i18n/en-US/iam/identity-access/module.ts:42`).
- A membership page that is left for another of its kind during `updateStatus` tells of a
  success with the message "The action succeeded and the latest data is shown." although
  the membership shown is another (`DetailPage!SavedIsShown` says only that, if it is the
  one that was saved, it has the status).
- A distribution task gets a new idempotency key at every submit
  (`CouponDesk!KeyToSend`): sent again after a lost answer it is carried out twice.
  `OncePerDraft` is therefore stated of batches of codes only.
- The app API answers a failure of the storage during an update of preferences as a bad
  request (`Preferences!Fail`).

### Bounds

- Two requests: every race in the code is between two requests about one pair, because
  a third one can only wait for the row the second one waits for. `MaxVersion = 2`: first
  insert, update of an existing row, and a reader that sees either or both;
  an update may expect a version of -1 (rejected), the current one, an old one or one
  not reached. Two contents differ in every field a decision looks at: an active one that
  expires and grants one key, and a suspended one that does not and grants two, so that
  a replacement revokes one key and keeps the other. `MaxTime = 1`: before and after an expiry.
  The run has no symmetry, because it also checks a temporal property. The proofs need none
  of these bounds.
- Two tabs, two token pairs and one context: a third tab only reads the store as the second
  does. `MaxMail = 2` lets both events of an overtaking pair of writes wait at once.
- The guard has two requests in flight (one in the temporal run, whose counterexample needs
  no more): a check and the one that replaced it. Run `operator_guard` has `MaxMail = 2`, so
  that a session can be left and brought back while its check is in flight; a shorter queue
  hides that case. The runs that look for a counterexample need `MaxMail = 1` only. One tab
  is run with three token pairs, so that a session is refreshed twice during a check.

- `Workspace`: every page of the modules is an initial state. Two pages of rows, one text
  beside the empty one, two list requests in flight when the operator asks for more (a third
  may be under way after a mutation), and three versions of the collection: the one the
  operator sees, another operator's change, and the operator's own on top of it.
- `Console`: no action of one of its modules reads or writes a variable of another, so a
  behaviour of all of them together shows each module a behaviour in which it alone acts; one
  module acts per behaviour, and the others rest in an initial state. The jobs of
  `OauthAccount` are interchangeable (symmetry).
  - `CouponDesk`: two offers with a stock each, two drawers opened one after the other, one
    option request in flight, three keys: a batch sent again, and one of a second drawer.
  - `OfferSwitch`: two offers, one search, three uses of switches: two of one offer with one
    of the other between.
  - `OauthAccount`: one account; two calls of the controller at once, three in all.
  - `Preferences`: two users, three requests, one value with a theme and one without, two
    times.
  - `SdkClients`: three sessions (two in the run that expects a violation). `RuntimeConfig`: three requests, so that a retry and a
    reset can each leave one behind.
  - `HostShell`: assemblies of two modules in either order, one with two routes and one with
    one, whose prefixes and routes have constant segments or a parameter, with each
    combination of requirements; an operator with any subset of two permissions.
  - `DetailPage`: two ids, two versions, two requests in flight when the operator acts.

### Fairness

- `Entitlement!Fairness`: the runtime polls a task that can go on (weak fairness of its
  steps). Waiting for a row lock or another insert ends because PostgreSQL serves the
  waiters of a row in turn (strong fairness of the statements that wait). A failure is
  never owed.
- `SessionBridge!Fairness`: a browser delivers storage events, and an open page renders.
- `OperatorGuard!Fairness`: the event loop runs what waits in it (mounts, effects, renders,
  storage events, the end of a sign-out), and every request is settled in one of its three
  ways: IAM confirms or refuses the session, or the request fails. Operators owe nothing: signing in,
  moving and signing out are not fair.
- `Workspace!Fairness`: a `setTimeout` ends, the oldest list request is answered or fails
  (younger ones may be answered before it, and then are not owed), and a mutation is
  answered or fails. Operators owe nothing, the service need not carry a mutation out.

Runs of `OperatorGuard`, `Workspace` and `Console` switch deadlock checking off: with all
token pairs issued and operators idle the system may rest, as an overview page does once it
has its numbers, and as a part of `Console` does when its bounded requests are used up.
`WaitsEnd` says of `Workspace` what deadlock checking would say of a page that hangs.

## Proofs

TLC checks small instances; the theorems hold for every value of the constants that the
named assumptions admit: any number of requests, tabs, tokens, texts, versions, offers,
accounts, users, sessions, modules and permissions. They cover every invariant and every
action property of the passing runs, and the refinement. No property is proved as it
stands: each rests on an inductive invariant, which says what the code relies on between
its steps. The proofs go action by action and, under each, part by part.

### `EntitlementProofs`

From `ContentsAssumption`, `SentinelAssumption` and `BoundAssumption` of `Entitlement`:

- `TypeCorrectness`, `StoreCorrectness`, `UpdateSafety`, `OutcomeHonesty`, `ViewExactness`
  and `FailClosed`: the invariants of run `entitlement`;
- `VersionDiscipline`: its action property; `Refinement`: its `ImplementsAuthority`;
- `Invariance`: the inductive invariant `IInv` they rest on.

None of the invariants is inductive alone. `IInv` adds what each statement relies on:

- `TransactionOk`: an update that has found a row owns it until it ends, so the version it
  compared is still the current one; before the grants are upserted none of those
  it finds is active; at the commit those active are exactly the keys asked for.
- `OutcomeOk`: an outcome is given once, and an update reads back only after it has stored.
- `ReadOk`: a snapshot read is the header of one version with the keys of the same or a
  later one, and exact as long as its version is the current one.

`StoreIsLatestVersion` and `NoLostUpdate` are parts of `IInv`. Lemmas state what an action
leaves alone. The key step is `Install`: ownership of the row (`holder = r`)
makes `Current = call[r].expected`, so the appended content is version `expected + 1`, the
header written equals it, and every other open transaction is not past its check.

`Refinement` maps each step to the register of `EntitlementAuthority`. `QuietStep` gathers the
statements the caller cannot tell from waiting, `SwapStep` is the commit, `ClosingStep` an
answer without a snapshot, and `AnswerStep` the answer of a request that has read both tables,
which must be one the register could have given in the interval. That needs one more
invariant than `IInv`, `ReadInOrder`: a request that ends before its queries has no snapshot to
answer with, and one that found no row has no keys.

### `SessionBridgeProofs`

From `SessionAssumption`: `BridgeTypes`, `TabsAgree` and `TokensAreOfTheSession`, the
invariants of run `session_bridge`, and `ContextIsKept`, its action property.

`TypeOK`, `StaleOnlyWhileMail` and `TokensFollowSession` are inductive together (`Inv`).
The lemmas say what the code shared by the actions does to a tab and to the others:
`ReadAndMigrate` (reading the storage makes a tab agree with it or notes the failed
write), `SaveKeepsAgreement` (so does saving, also when the session is equal and nothing
is written) and `SyncFollows`. `TokensFollowSession` stands on the order inside a turn:
the session and the TokenManager change in one step, in every action.

### `OperatorGuardProofs`

From `SlotAssumption` and `GuardAssumption`:

- `TypeCorrect` and `OneCheck`: the invariants of run `operator_guard`, for any number of tabs.
  `RequestsOk` is the invariant of one tab's requests: one that is no longer the pending one is
  for a session the tab has left, unless another tab brought that session back. It is
  stated of values, so that what a step does to the requests is a lemma about
  them: other waiters (`AwaitedAnew`), one over (`OneOver`), none current any more
  (`AllOutdated`), one sent (`OneSent`), another session (`OtherSession`). The attempt to prove
  `ChecksAreShared` without the exception failed at `SessionStorageChange`, and a run with a
  longer queue of events then showed the case; `restored` names it.
- `ValidatedFirst`: the invariant of run `operator_guard_one_tab`, under the hypothesis that
  there is one tab, which the property needs (see `operator_guard_docs`). `SoleOk` says that no
  storage event waits, and that the session of a request in flight is the session of the
  tab unless IAM has issued the one it has now.
- `OverTheBridge`: each step is a step of `SessionBridge` or leaves the session alone. The prover
  does not instantiate theorems of a module that is named by `INSTANCE`, so what
  the proofs need of the bridge is stated again here (`SessionInv`).

### `WorkspaceProofs`

From `TextAssumption`, `NoJobAssumption` and `MaxAssumption`: `TypeCorrect`, `QueryShown`,
`SuccessShown` and `EditsKept`, the invariants of run `workspace`, for all pages at once.
`PageFacts` is all that is used of the pages. The parts of `Inv`:

- `InOrder`: of two list requests the one sent first is late first and saw no younger version;
- `JobOk`, `EditorOk`: one request at most reads the rows again for the mutation, after
  it was made, and the drawer stays as it was submitted while the page waits;
- `QueryOk`: the youngest request, if it is not late, is for the query on the screen, and
  without one the rows are, unless loading failed or an answer was overtaken;
- `SuccessOk`: what tells of success has `outcome` made, and either the rows or the youngest
  request to come include it, in the way of each of the three kinds of `refresh`.

Requests end in any order, so the removal of one from the middle of a sequence is the
recurring step: `Removed` and `Appended` of `RequestSequences`, and over them `LoadOver`,
`YoungestLoad` and `LoadSent`.

### `ConsoleProofs`, `ConsoleDeskProofs`, `ConsoleStoreProofs`

From the assumptions of `Console` (`ConsoleAssumption`, `QueriesAssumption`, `BoundsAssumption`,
`JobAssumption`, `AnswersAssumption`: what stands for nothing is nothing else, and bounds are
positive; `ContributionsAssumption`: modules are contributed under prefixes of their
own). `EachByItself` reduces a step of `Console` to a step of one part. Then, for the parts:

- `ConfigInv` (`SharedPromise`, `LastAttemptShown`): a mounted hook waits for a request
  that was sent (`HookOk`), and a request that is sent or shared is the one it waits for
  (`LoadStep`).
- `ClientsInv` (`CachesOfSession`): whatever is cached was made in the present session; the
  dependencies of a service are made in the same turn (`ServicesFacts`).
- `PreferencesInv` (`CurrentAnswers`, `OneRow`): a row counts its writes; what a request holds is an
  earlier state of the row there is and not older than its question (`AnswerOk`). `CountsOk` is
  for the types: a user's writes are at most the requests that are past their write.
- `ShellInv` (`OpenLinks`, `OwnPages`): a route found by its own path is that route
  (`RouteFindsItself`), so a link shows its page (`LinkShowsPage`), and the default path is
  such a link (`DefaultIsLink`); the first visible module and the first open route exist by
  `LeastOf`.
- `DetailInv` (`DetailOfUrl`, `SavedShown`) and `SwitchesInv` (`ChoiceShown`): as in `Workspace`,
  the youngest request decides (`LateFirst`, `YoungestOver`); a switch that is not excused is
  alone, and an offer neither excused nor being switched is what was chosen (`OfferOk`).
- `CouponInv` (`OfTheOffer`, `Once`, `Typed`): whoever may still change the draft, a timer or an
  active option request, has its key and asks for stock of its offer (`PickerOk`); the call is of
  the drawer, which cannot be left meanwhile (`CallOk`).
- `OauthInv` (`LeftNothing`, `ChangedTogether`, `StoredShown`): a creation has its account to itself,
  because an id that is or was there is given to no other (`Born`, `CreateOk`); a change that
  began alone stays so, and what it has still to do is all that may disagree
  (`AloneOk`, `SettledOk`); lists read with nothing else going on are what is stored (`ShownOk`).
  `OtherCalls` says what a step of one call leaves to the others.
- `TypeCorrect` puts the types of the eight together.

### Only model-checked

- `EveryRequestIsAnswered`, `SignOutReachesEveryTab`, `CheckEnds` and `WaitsEnd`: liveness rests on
  fairness, hence on ENABLED, which is out of the prover's reach.
- The counterexamples of the runs that expect a violation are TLC's, as any counterexample is.

Induction theorems that take an operator as a parameter cannot be instantiated by the installed
provers, so what a recursive definition computes for every input could not be
proved; no module here has one. Where a least element is needed, it comes from the
well-foundedness of the naturals, stated about a set.

## Not modelled

- Payment and drive modules: lazy composition of pages that live in other repositories.
- Service host, database host, gateway: start-up is a straight line of external calls that
  all succeed or stop the process.
- HTTP envelopes and problem mapping, base URLs and the contracts of the browser client:
  pure formatting and normalisation without state. The status an outcome is mapped to is
  part of `Entitlement` and `Preferences`.
- The OAuth overview and the entry component of the IAM module: they count what
  `OauthAccount` loads and choose a page by its path.
- Generated SDKs, tools, release scripts, styles and messages.

## Plan

1. (done) `Entitlement` with its abstract specification and proofs; `SessionBridge` with
   proofs; `OperatorGuard` over it.
2. (done) `Workspace`; `CouponDesk`, `OfferSwitch`, `DetailPage`; `OauthAccount`;
   `Preferences`; `SdkClients`; `RuntimeConfig`; `HostShell`; `Console` over them.
3. (done) Proofs of every invariant and action property of the passing runs, and of the
   refinement.
4. To come: the bridge's properties under the guard (`StaleOnlyWhileMail` and
   `TokensFollowSession` for `OperatorGuard`, over `OverTheBridge`); an abstract specification of the
   operator's session (what all tabs agree on once their events are handled) that `SessionBridge`
   implements; one of the list pages (a table that shows some answer to its last query).
