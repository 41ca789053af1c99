---------------------------- MODULE OperatorGuard ----------------------------
(***************************************************************************)
(* The protected routes of the administration host over the session bridge: *)
(* RequireOperatorSession, which asks IAM whether the session is valid     *)
(* before it renders them, the module that shares those checks between     *)
(* mounts of the guard, and signing out.                                   *)
(*                                                                         *)
(* A step of a tab is one turn of its event loop: a message from the       *)
(* network or another tab, a render, or the effects that React runs after  *)
(* a render.  A guard that has called setStatus keeps its effects and its  *)
(* listeners until it is rendered again.                                   *)
(*                                                                         *)
(* Left out: managerSessionCheck=paused, which switches the check off for  *)
(* diagnosis, the legacy copy of the session, and a page that is loaded    *)
(* again or a session that expires (SessionBridge has both).               *)
(***************************************************************************)
EXTENDS Naturals

CONSTANTS
  Tabs, Tokens, Contexts, NoContext, NoSession, NoTokens, NoManager, MaxMail,
  Slots,    \* bound: the current-session requests a tab may have in flight
  NoSlot    \* pendingVerification === null

ASSUME SlotAssumption == NoSlot \notin Slots

VARIABLES local, legacy, memory, loaded, tokens, mail, expired, unsaved

Bridge == INSTANCE SessionBridge

\* What SessionBridge assumes of these values.
ASSUME GuardAssumption ==
  /\ NoSession \notin Bridge!Session
  /\ NoTokens \notin Tokens
  /\ NoManager \notin Tokens \cup {NoTokens}

VARIABLES
  page,       \* the route a tab shows: the login page or a protected one
  status,     \* the last status the guard has set
  shown,      \* the status it was rendered with
  observed,   \* observedSessionKey.current
  listening,  \* the guard has added its session listeners
  due,        \* effects wait to run
  request,    \* the current-session requests in flight
  pending,    \* the request of pendingVerification
  verified,   \* verifiedSessionKey
  leaving,    \* a sign-out waits for IAM
  confirmed,  \* auxiliary: the token pairs IAM has confirmed
  issued,     \* auxiliary: the token pairs IAM has issued to each tab
  used,       \* auxiliary: the token pairs IAM has issued at all
  restored    \* auxiliary: those another tab brought back while a check of them was in flight

session == <<local, legacy, memory, loaded, tokens, mail, expired, unsaved>>
checks == <<request, pending, verified>>
guard == <<status, shown, observed, listening, due>>
vars == <<session, checks, guard, page, leaving, confirmed, issued, used, restored>>

Statuses == {"anonymous", "checking", "unavailable", "verified"}
Idle == [key |-> NoTokens, valid |-> FALSE, awaited |-> "nobody"]

\* resolveOperatorSessionVerificationKey(loadOperatorSession())
KeyOf(s) == IF s = NoSession THEN NoTokens ELSE s.tokens
Key(t) == KeyOf(memory[t])

InFlight(t) == {n \in Slots : request[t][n] # Idle}

Init ==
  /\ Bridge!Init
  /\ legacy = [t \in Tabs |-> NoSession]
  /\ page = [t \in Tabs |-> "login"]
  /\ status = [t \in Tabs |-> "anonymous"]
  /\ shown = [t \in Tabs |-> "anonymous"]
  /\ observed = [t \in Tabs |-> NoTokens]
  /\ listening = [t \in Tabs |-> FALSE]
  /\ due = [t \in Tabs |-> FALSE]
  /\ request = [t \in Tabs |-> [n \in Slots |-> Idle]]
  /\ pending = [t \in Tabs |-> NoSlot]
  /\ verified = [t \in Tabs |-> NoTokens]
  /\ leaving = [t \in Tabs |-> FALSE]
  /\ confirmed = {}
  /\ issued = [t \in Tabs |-> {}]
  /\ used = {KeyOf(local)} \ {NoTokens}
  /\ restored = [t \in Tabs |-> {}]

-----------------------------------------------------------------------------
(* The shared checks of currentOperatorSessionVerification.                   *)

\* invalidateCurrentOperatorSessionVerification, with the requests of t left as r:
\* a request of an older generation can no longer confirm a session.
Invalidate(t, r) ==
  /\ request' = [request EXCEPT ![t] = [n \in Slots |-> IF r[n] = Idle THEN Idle
                                         ELSE [r[n] EXCEPT !.valid = FALSE]]]
  /\ pending' = [pending EXCEPT ![t] = NoSlot]
  /\ verified' = [verified EXCEPT ![t] = NoTokens]

\* The cleanup of the guard's effect: active = false.
Abandoned(r) ==
  [n \in Slots |-> IF r[n].awaited = "active" THEN [r[n] EXCEPT !.awaited = "stale"] ELSE r[n]]

\* Mutant: an unmounted guard leaves its effects active.
UnmountedAwaiting(r) == r

\* The guard is unmounted: what its effects still do reaches no one.
Unmounted(r) ==
  [n \in Slots |-> IF r[n] = Idle THEN Idle ELSE [r[n] EXCEPT !.awaited = "nobody"]]

\* Mutant: the effect that finds a pending request does not wait for it.
PassBy(t) == UNCHANGED request

\* The effect of a guard waits for the request that is pending.
Join(t) == request' = [request EXCEPT ![t][pending[t]].awaited = "active"]

\* verifyCurrentOperatorSession by the effect of a guard that is checking the key k:
\* a key already verified needs no request, and a request already pending for it is
\* shared.  The first request creates the IAM runtime.
Verify(t, k) ==
  \/ /\ verified[t] = k
     /\ status' = [status EXCEPT ![t] = "verified"]
     /\ observed' = [observed EXCEPT ![t] = k]
     /\ UNCHANGED <<session, checks>>
  \/ /\ verified[t] # k
     /\ pending[t] # NoSlot
     /\ request[t][pending[t]].key = k
     /\ Join(t)
     /\ UNCHANGED <<session, status, observed, pending, verified>>
  \/ /\ verified[t] # k
     /\ pending[t] # NoSlot => request[t][pending[t]].key # k
     /\ \E n \in Slots \ InFlight(t) :
          /\ request' = [request EXCEPT ![t][n] =
                           [key |-> k, valid |-> TRUE, awaited |-> "active"]]
          /\ pending' = [pending EXCEPT ![t] = n]
     /\ IF tokens[t] = NoManager THEN Bridge!UseTokenManager(t) ELSE UNCHANGED session
     /\ UNCHANGED <<status, observed, verified>>

-----------------------------------------------------------------------------
(* The guard.                                                                 *)

\* ManagerAuthenticatedAuthRouteGuard redirects a signed-in operator, and the guard
\* of the protected route starts from what is known of the session.
Mount(t) ==
  /\ page[t] = "login"
  /\ memory[t] # NoSession
  /\ LET s == IF verified[t] = Key(t) THEN "verified" ELSE "checking"
     IN  /\ status' = [status EXCEPT ![t] = s]
         /\ shown' = [shown EXCEPT ![t] = s]
  /\ page' = [page EXCEPT ![t] = "admin"]
  /\ observed' = [observed EXCEPT ![t] = Key(t)]
  /\ due' = [due EXCEPT ![t] = TRUE]
  /\ UNCHANGED <<session, checks, listening, leaving, confirmed, issued, used, restored>>

\* The effects after a render: the listeners are added, and a guard that is checking
\* verifies the session there is by then.
RunEffects(t) ==
  /\ due[t]
  /\ due' = [due EXCEPT ![t] = FALSE]
  /\ listening' = [listening EXCEPT ![t] = TRUE]
  /\ \/ /\ shown[t] # "checking"
        /\ UNCHANGED <<session, checks, status, observed>>
     \/ /\ shown[t] = "checking"
        /\ Key(t) = NoTokens
        /\ status' = [status EXCEPT ![t] = "anonymous"]
        /\ UNCHANGED <<session, checks, observed>>
     \/ /\ shown[t] = "checking"
        /\ Key(t) # NoTokens
        /\ Verify(t, Key(t))
  /\ UNCHANGED <<shown, page, leaving, confirmed, issued, used, restored>>

\* The protected route gives way to the login page.
Leave(t) ==
  /\ page' = [page EXCEPT ![t] = "login"]
  /\ status' = [status EXCEPT ![t] = "anonymous"]
  /\ shown' = [shown EXCEPT ![t] = "anonymous"]
  /\ observed' = [observed EXCEPT ![t] = NoTokens]
  /\ listening' = [listening EXCEPT ![t] = FALSE]
  /\ due' = [due EXCEPT ![t] = FALSE]

\* A status that was set is rendered; a change from or to "checking" ends the effect
\* of the guard or starts it.
Render(t) ==
  /\ page[t] = "admin"
  /\ ~due[t]
  /\ status[t] # shown[t]
  /\ IF status[t] = "anonymous"
     THEN /\ Leave(t)
          /\ request' = [request EXCEPT ![t] = Unmounted(request[t])]
     ELSE /\ shown' = [shown EXCEPT ![t] = status[t]]
          /\ due' = [due EXCEPT ![t] = (status[t] = "checking")]
          /\ request' = [request EXCEPT ![t] = Abandoned(request[t])]
          /\ UNCHANGED <<status, observed, listening, page>>
  /\ UNCHANGED <<session, pending, verified, leaving, confirmed, issued, used, restored>>

\* The operator moves to another protected path while the session is checked: the
\* effect starts over.  A status that was set is rendered with the new path.
Navigate(t) ==
  /\ page[t] = "admin"
  /\ ~due[t]
  /\ shown[t] = "checking" /\ status[t] = "checking"
  /\ request' = [request EXCEPT ![t] = Abandoned(request[t])]
  /\ due' = [due EXCEPT ![t] = TRUE]
  /\ UNCHANGED <<session, pending, verified, status, shown, observed, listening, page,
                 leaving, confirmed, issued, used, restored>>

\* The request n of tab t is over.
Without(t, n) == [request[t] EXCEPT ![n] = Idle]

\* Mutant: a request that ended stays the pending one.
SettledPending(t, n) == UNCHANGED pending

Settled(t, n) == pending' = [pending EXCEPT ![t] = IF pending[t] = n THEN NoSlot ELSE pending[t]]

\* IAM confirms the session the request was sent for.  What is noted as verified is
\* the session there is now, which the answer may have refreshed.
Confirm(t, n) ==
  /\ n \in InFlight(t)
  /\ LET q == request[t][n]
         k == IF memory[t] = NoSession THEN q.key ELSE Key(t)
     IN  /\ request' = [request EXCEPT ![t] = Without(t, n)]
         /\ Settled(t, n)
         /\ verified' = [verified EXCEPT ![t] = IF q.valid THEN k ELSE verified[t]]
         /\ observed' = [observed EXCEPT ![t] = IF q.awaited # "nobody" THEN k ELSE observed[t]]
         /\ status' = [status EXCEPT ![t] = IF q.awaited = "active" THEN "verified" ELSE status[t]]
         /\ confirmed' = confirmed \cup {q.key}
  /\ UNCHANGED <<session, shown, listening, due, page, leaving, issued, used, restored>>

\* Mutant: a check that failed lets the operator in.
FailOpen == "verified"

\* What a guard shows when the check fails for another reason than the session.
FailClosed == "unavailable"

\* The request fails for another reason than the session.
Break(t, n) ==
  /\ n \in InFlight(t)
  /\ request' = [request EXCEPT ![t] = Without(t, n)]
  /\ Settled(t, n)
  /\ status' = [status EXCEPT ![t] =
                  IF request[t][n].awaited = "active" THEN FailClosed ELSE status[t]]
  /\ UNCHANGED <<session, verified, shown, observed, listening, due, page, leaving,
                 confirmed, issued, used, restored>>

\* handleLocalSessionChange of a mounted guard once the session is gone.
Gone(t) ==
  /\ observed' = [observed EXCEPT ![t] = NoTokens]
  /\ status' = [status EXCEPT ![t] = "anonymous"]

\* IAM refuses the session the request was sent for: whatever session there is by
\* then is cleared, whether or not a guard still waits for the answer.
Refuse(t, n) ==
  /\ n \in InFlight(t)
  /\ Bridge!Clear(t)
  /\ Invalidate(t, Without(t, n))
  /\ IF listening[t] /\ memory[t] # NoSession
     THEN Gone(t)
     ELSE /\ status' = [status EXCEPT ![t] =
                          IF request[t][n].awaited = "active" THEN "anonymous" ELSE status[t]]
          /\ UNCHANGED observed
  /\ UNCHANGED <<shown, listening, due, page, leaving, confirmed, issued, used, restored>>

-----------------------------------------------------------------------------
(* Changes of the session.                                                    *)

\* A page is opened: its route reads the session.
Open(t) ==
  /\ Bridge!Load(t)
  /\ UNCHANGED <<checks, guard, page, leaving, confirmed, issued, used, restored>>

\* The host asks for the public IAM configuration, or the login page creates the IAM
\* runtime: either way the TokenManager is created.
CreateRuntime(t) ==
  /\ tokens[t] = NoManager
  /\ Bridge!UseTokenManager(t)
  /\ UNCHANGED <<checks, guard, page, leaving, confirmed, issued, used, restored>>

\* IAM signs the operator in or refreshes the session with new tokens in this tab, or
\* completes the session the tab has.
Issue(t, s) ==
  /\ s.tokens \notin used \/ s.tokens = Key(t)
  /\ Bridge!Commit(t, s)
  /\ used' = used \cup {s.tokens}
  /\ issued' = [issued EXCEPT ![t] = issued[t] \cup {s.tokens}]
  /\ UNCHANGED <<checks, guard, page, leaving, confirmed, restored>>

\* The bridge's storage listener, then handleLocalSessionChange and
\* handleSessionStorageChange of a mounted guard.
SessionStorageChange(t) ==
  /\ Bridge!StorageEvent(t)
  /\ LET k == KeyOf(memory'[t])
     IN  /\ \/ /\ listening[t] /\ k = NoTokens
               /\ Gone(t)
               /\ Invalidate(t, request[t])
            \/ /\ listening[t] /\ k # NoTokens /\ k # observed[t]
               /\ observed' = [observed EXCEPT ![t] = k]
               /\ status' = [status EXCEPT ![t] = "checking"]
               /\ Invalidate(t, request[t])
            \/ /\ listening[t] /\ k # NoTokens /\ k = observed[t]
               /\ UNCHANGED <<checks, observed, status>>
            \/ /\ ~listening[t]
               /\ UNCHANGED <<checks, observed, status>>
         /\ restored' = [restored EXCEPT ![t] = restored[t] \cup
                           (({request[t][n].key : n \in InFlight(t)} \cap {k}) \ {Key(t)})]
  /\ UNCHANGED <<shown, listening, due, page, leaving, confirmed, issued, used>>

SignOut(t) ==
  /\ page[t] = "admin" /\ shown[t] = "verified"
  /\ ~leaving[t]
  /\ leaving' = [leaving EXCEPT ![t] = TRUE]
  /\ UNCHANGED <<session, checks, guard, page, confirmed, issued, used, restored>>

\* Whatever IAM answers, signing out clears the session there is and goes to the
\* login page.
SignedOut(t) ==
  /\ leaving[t]
  /\ leaving' = [leaving EXCEPT ![t] = FALSE]
  /\ Bridge!Clear(t)
  /\ Leave(t)
  /\ IF listening[t] /\ memory[t] # NoSession
     THEN Invalidate(t, Unmounted(request[t]))
     ELSE /\ request' = [request EXCEPT ![t] = Unmounted(request[t])]
          /\ UNCHANGED <<pending, verified>>
  /\ UNCHANGED <<confirmed, issued, used, restored>>

Turn(t) ==
  \/ Mount(t) \/ RunEffects(t) \/ Render(t)
  \/ \E n \in Slots : Confirm(t, n) \/ Break(t, n) \/ Refuse(t, n)
  \/ Open(t) \/ CreateRuntime(t) \/ SessionStorageChange(t) \/ SignedOut(t)

Next ==
  \/ \E t \in Tabs : Turn(t) \/ Navigate(t) \/ SignOut(t)
  \/ \E t \in Tabs, s \in Bridge!Session : Issue(t, s)

Spec == Init /\ [][Next]_vars

(***************************************************************************)
(* The event loop of a tab runs what waits in it, and IAM or the network   *)
(* settles every request.  Operators owe nothing.                          *)
(***************************************************************************)
Fairness ==
  \A t \in Tabs :
    /\ WF_vars(Mount(t)) /\ WF_vars(RunEffects(t)) /\ WF_vars(Render(t)) /\ WF_vars(Open(t))
    /\ WF_vars(SessionStorageChange(t)) /\ WF_vars(SignedOut(t))
    /\ \A n \in Slots : WF_vars(Confirm(t, n) \/ Break(t, n) \/ Refuse(t, n))

FairSpec == Spec /\ Fairness

-----------------------------------------------------------------------------
(* Properties.                                                               *)

\* Every variable has its type; the login page has no guard, and an effect waits only
\* for a request of a guard that is mounted.
TypeOK ==
  /\ Bridge!TypeOK
  /\ page \in [Tabs -> {"login", "admin"}]
  /\ status \in [Tabs -> Statuses]
  /\ shown \in [Tabs -> Statuses]
  /\ observed \in [Tabs -> Tokens \cup {NoTokens}]
  /\ listening \in [Tabs -> BOOLEAN]
  /\ due \in [Tabs -> BOOLEAN]
  /\ request \in [Tabs -> [Slots -> [key: Tokens \cup {NoTokens}, valid: BOOLEAN,
                                     awaited: {"nobody", "stale", "active"}]]]
  /\ pending \in [Tabs -> Slots \cup {NoSlot}]
  /\ verified \in [Tabs -> Tokens \cup {NoTokens}]
  /\ leaving \in [Tabs -> BOOLEAN]
  /\ confirmed \subseteq Tokens
  /\ issued \in [Tabs -> SUBSET Tokens]
  /\ used \subseteq Tokens
  /\ restored \in [Tabs -> SUBSET Tokens]
  /\ \A t \in Tabs : page[t] = "login" =>
       ~listening[t] /\ \A n \in Slots : request[t][n].awaited = "nobody"

\* Guards that check one session share one request, and a request that is shared is
\* still on its way: of the requests that may confirm a session no two are for the
\* same key, unless another tab brought back a session that was being checked when this
\* tab left it, and no guard joins one that is over or that the session has left behind.
ChecksAreShared ==
  \A t \in Tabs :
    /\ \A m, n \in InFlight(t) :
         request[t][m].valid /\ request[t][n].valid /\ request[t][m].key = request[t][n].key
           => m = n \/ request[t][m].key \in restored[t]
    /\ pending[t] # NoSlot => pending[t] \in InFlight(t) /\ request[t][pending[t]].valid

\* The session check always ends, with content, the login page or an error: no
\* request that is shared, abandoned or out of date leaves a guard checking for good.
\* Only an operator who never stops moving to other paths starts it over for ever.  It
\* holds of one tab; between tabs a guard told twice of a change before it is rendered
\* is left checking.
CheckEnds ==
  \A t \in Tabs :
    \/ []<><<Navigate(t)>>_vars
    \/ page[t] = "admin" /\ shown[t] = "checking" ~> page[t] = "login" \/ shown[t] # "checking"

\* What the architecture document says of protected routes: they are rendered after
\* the session of the tab was validated.  A session that IAM issued to the tab itself
\* needs no check.  It holds of one tab; between tabs the answer about a session is
\* taken for the one that replaced it.
ValidatedBeforeRendered ==
  \A t \in Tabs :
    page[t] = "admin" /\ shown[t] = "verified" /\ status[t] = "verified" /\ memory[t] # NoSession
      => Key(t) \in confirmed \cup issued[t]

\* What it says of logout and of operators without a session: they are routed to the
\* login page.
SignedOutGoesToLogin ==
  \A t \in Tabs :
    page[t] = "admin" /\ loaded[t] /\ memory[t] = NoSession ~> page[t] = "login" \/ memory[t] # NoSession
=============================================================================
