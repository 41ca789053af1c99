-------------------------------- MODULE HostShell --------------------------------
(***************************************************************************)
(* The registry of administration modules and the shell that decides what  *)
(* a path shows: a page, the account centre, the welcome page, a refusal   *)
(* or a redirect.                                                          *)
(*                                                                         *)
(* Modules contribute a prefix and routes; a segment of a route may be a   *)
(* parameter, so several routes match a path.  Paths are sequences of      *)
(* segments: normalizePath and its trailing slashes are left out, and so   *)
(* are ids, which name one route or module each.                           *)
(***************************************************************************)
EXTENDS Naturals, Sequences, SequencesExt

CONSTANTS
  Contributions,  \* what may be registered: sequences of modules
  Paths,          \* what may be typed
  Params,         \* the segments that are parameters
  Permissions     \* an operator may have

VARIABLES
  modules,  \* the registered ones, in their order
  scope,    \* the permissions of the operator; a super administrator has all
  path,     \* pathname
  by        \* auxiliary: how the shell came to the path, under this scope

vars == <<modules, scope, path, by>>

Root == <<>>
AccountCentre == <<"account">>

-----------------------------------------------------------------------------
(* The registry.                                                              *)

AdminModuleRoute ==
  [path : Seq(STRING), required : SUBSET Permissions, mode : {"all", "any"}, visible : BOOLEAN]

AdminModuleContribution ==
  [prefix : Seq(STRING), default : Seq(STRING), required : SUBSET Permissions,
   mode : {"all", "any"}, routes : Seq(AdminModuleRoute)]

RoutePathMatches(p, q) ==
  Len(p) = Len(q) /\ \A i \in DOMAIN p : p[i] \in Params \/ p[i] = q[i]

\* assertModuleContribution.
Sound(m) ==
  /\ m.routes # <<>>
  /\ \E k \in DOMAIN m.routes : m.routes[k].path = m.default
  /\ \A k \in DOMAIN m.routes : IsPrefix(m.prefix, m.routes[k].path)

Overlap(p, q) == IsPrefix(p, q) \/ IsPrefix(q, p)

\* Where routes stand: their module, and their place in it.
Places(ms) == UNION {{<<i, k>> : k \in DOMAIN ms[i].routes} : i \in DOMAIN ms}
RouteAt(x) == modules[x[1]].routes[x[2]]

\* createSdkworkCoreModuleRegistry throws on anything else.
Accepted(ms) ==
  /\ \A i \in DOMAIN ms : Sound(ms[i])
  /\ \A i, j \in DOMAIN ms : i # j => ~Overlap(ms[i].prefix, ms[j].prefix)
  /\ \A x, y \in Places(ms) : x # y => ms[x[1]].routes[x[2]].path # ms[y[1]].routes[y[2]].path

Before(x, y) == x[1] < y[1] \/ (x[1] = y[1] /\ x[2] <= y[2])
FirstOf(S) == {x \in S : \A y \in S : Before(x, y)}

\* Mutant: whichever route matches first.
FindFirstMatch(p) == FirstOf({x \in Places(modules) : RoutePathMatches(RouteAt(x).path, p)})

\* findRegisteredRoute: the route of that path, otherwise the first one that matches; none
\* or one.
FindRoute(p) ==
  LET exact == {x \in Places(modules) : RouteAt(x).path = p} IN
  IF exact # {} THEN FirstOf(exact)
  ELSE FirstOf({x \in Places(modules) : RoutePathMatches(RouteAt(x).path, p)})

\* Mutant: by the prefix first.
FindModuleByPrefix(p) ==
  LET holds == {i \in DOMAIN modules : IsPrefix(modules[i].prefix, p)} IN
  IF holds # {} THEN {i \in holds : \A j \in holds : i <= j}
  ELSE {x[1] : x \in FindRoute(p)}

\* findModuleForPath: the owner of the route, otherwise the module of the prefix.
FindModule(p) ==
  LET holds == {i \in DOMAIN modules : IsPrefix(modules[i].prefix, p)} IN
  IF FindRoute(p) # {} THEN {x[1] : x \in FindRoute(p)}
  ELSE {i \in holds : \A j \in holds : i <= j}

\* hasAdminModuleAccess and hasAdminRouteAccess: all of what is required, or any.
HasAccess(it) ==
  \/ it.required = {}
  \/ it.mode = "all" /\ it.required \subseteq scope
  \/ it.mode = "any" /\ it.required \cap scope # {}

\* listAccessibleModuleRoutes: those the navigation shows.
AccessibleRoutes(m) == {k \in DOMAIN m.routes : HasAccess(m.routes[k]) /\ m.routes[k].visible}

\* resolveAccessibleModuleDefaultPath.
ModuleDefaultPath(m) ==
  LET open == AccessibleRoutes(m) IN
  IF \E k \in open : m.routes[k].path = m.default THEN m.default
  ELSE IF open # {} THEN m.routes[Min(open)].path
  ELSE Root

\* listVisibleModules.
VisibleModules ==
  {i \in DOMAIN modules : HasAccess(modules[i]) /\ AccessibleRoutes(modules[i]) # {}}

\* resolveDefaultPath.
DefaultPath ==
  IF VisibleModules = {} THEN Root ELSE ModuleDefaultPath(modules[Min(VisibleModules)])

-----------------------------------------------------------------------------
(* AdminHostShell.                                                            *)

CanAccess(p) ==
  /\ FindModule(p) # {}
  /\ \A i \in FindModule(p) : HasAccess(modules[i])
  /\ \A x \in FindRoute(p) : HasAccess(RouteAt(x))

\* What the shell shows at a path.
Shows(p) ==
  CASE IsPrefix(AccountCentre, p) -> "account"
    [] OTHER -> IF FindRoute(p) # {} /\ CanAccess(p) THEN "page"
                ELSE IF p = Root THEN "welcome"
                ELSE IF FindModule(p) # {} /\ ~CanAccess(p) THEN "denied"
                ELSE "redirect"

Init ==
  /\ modules \in {ms \in Contributions : Accepted(ms)}
  /\ scope \in SUBSET Permissions
  /\ path = Root
  /\ by = "typed"

Go(p, how) ==
  /\ path' = p
  /\ by' = how
  /\ UNCHANGED <<modules, scope>>

\* An address is typed or a bookmark opened.
TypeAddress == \E p \in Paths : Go(p, "typed")

\* The header and its search box: a visible module.
OpenModule == \E i \in VisibleModules : Go(ModuleDefaultPath(modules[i]), "link")

\* The cards of the welcome page are the same links.
OpenFromWelcome == Shows(path) = "welcome" /\ OpenModule

\* The account button of the header.
OpenAccountCentre == Go(AccountCentre, "account")

\* The sidebar: the routes of the module that is open.
OpenRoute ==
  \E i \in FindModule(path) :
    /\ HasAccess(modules[i])
    /\ \E k \in AccessibleRoutes(modules[i]) : Go(modules[i].routes[k].path, "link")

\* Navigate replace.
Redirect == Shows(path) = "redirect" /\ Go(DefaultPath, "redirect")

\* useManagerPermissionScope: the session changed.
ScopeChanges ==
  /\ scope' \in SUBSET Permissions \ {scope}
  /\ by' = "typed"
  /\ UNCHANGED <<modules, path>>

Next ==
  \/ TypeAddress \/ OpenModule \/ OpenFromWelcome \/ OpenAccountCentre \/ OpenRoute \/ Redirect
  \/ ScopeChanges

Spec == Init /\ [][Next]_vars

-----------------------------------------------------------------------------
(* Properties.                                                                *)

\* The type invariant.
TypeOK ==
  /\ Accepted(modules) /\ scope \subseteq Permissions
  /\ by \in {"typed", "link", "account", "redirect"}
  /\ path \in Paths \cup {RouteAt(x).path : x \in Places(modules)} \cup {Root, AccountCentre}

\* resolveDefaultPath, resolveModuleDefaultPath, listVisibleRoutes and the choice of
\* AdminHostShell agree: no link of the shell leads to a refusal or a redirect, and no
\* redirect to another, whatever permissions the operator has and however routes shadow
\* each other.
LinksOpen == by \in {"link", "redirect"} => Shows(path) = IF path = Root THEN "welcome" ELSE "page"

\* findModuleForPath, findRouteForPath: a page is shown only to an operator who has access
\* to the page and to the module that contributed it.
PagesAreOfTheirModule ==
  Shows(path) = "page" =>
    \A x \in FindRoute(path) : HasAccess(RouteAt(x)) /\ HasAccess(modules[x[1]])
=============================================================================
