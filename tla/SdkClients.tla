------------------------------- MODULE SdkClients -------------------------------
(***************************************************************************)
(* What the administration packages keep in module variables: the SDK      *)
(* clients, the services made of them, and the IAM controller of the       *)
(* customer pages, which is imported when it is first needed.              *)
(*                                                                         *)
(* A change of the operator session empties every cache that registered a  *)
(* resetter; the controller has none.                                      *)
(***************************************************************************)
EXTENDS Naturals

CONSTANT MaxSessions   \* bound: changes of the operator session

VARIABLES
  session,     \* how often the operator session changed
  cache,       \* the session in which each client and service was made, 0 if there is none
  controller   \* customerControllerPromise, and the session of the client it was made of

vars == <<session, cache, controller>>

-----------------------------------------------------------------------------
(* Clients and services.                                                      *)

Clients == {"manager", "iam", "drive", "driveStorage", "payment", "order", "promotion", "membership"}

\* A service and the client it is made of.
ClientOf ==
  [paymentService |-> "payment", orderAdmin |-> "order", tradeOperations |-> "order",
   promotionService |-> "promotion", membershipService |-> "membership"]

Services == DOMAIN ClientOf

\* The getters: what is there is kept; a service takes, or makes, its client.
Made(c) == IF cache[c] = 0 THEN session ELSE cache[c]

GetClient(c) ==
  /\ cache' = [cache EXCEPT ![c] = Made(c)]
  /\ UNCHANGED <<session, controller>>

GetService(s) ==
  /\ cache' = IF cache[s] # 0 THEN cache
              ELSE [cache EXCEPT ![ClientOf[s]] = Made(ClientOf[s]), ![s] = Made(ClientOf[s])]
  /\ UNCHANGED <<session, controller>>

\* Mutant: a service that was added later is not reset.
DependenciesButOne == (Clients \cup Services) \ {"iam", "tradeOperations"}

\* resetManagerDependencyAdminSdkClients.
Dependencies == (Clients \cup Services) \ {"iam"}

\* resetManagerAuthenticatedSdkClients, on every change of the session: with the IAM client.
SessionChanged ==
  /\ session < MaxSessions
  /\ session' = session + 1
  /\ cache' = [n \in DOMAIN cache |-> IF n \in Dependencies \cup {"iam"} THEN 0 ELSE cache[n]]
  /\ UNCHANGED controller

Import == [state |-> "pending", made |-> 0]

\* loadCustomerController: the import is asked for once.
LoadController ==
  /\ controller.state = "none"
  /\ controller' = Import
  /\ UNCHANGED <<session, cache>>

\* The import ends: the controller is made of the IAM client there is by then.
ImportEnds ==
  /\ controller = Import
  /\ controller' = [state |-> "made", made |-> Made("iam")]
  /\ cache' = [cache EXCEPT !["iam"] = Made("iam")]
  /\ UNCHANGED session

\* The import fails, for good.
ImportFails ==
  /\ controller = Import
  /\ controller' = [state |-> "failed", made |-> 0]
  /\ UNCHANGED <<session, cache>>

Init ==
  /\ session = 1
  /\ cache = [n \in Clients \cup Services |-> 0]
  /\ controller = [state |-> "none", made |-> 0]

Next ==
  \/ \E c \in Clients : GetClient(c)
  \/ \E s \in Services : GetService(s)
  \/ SessionChanged \/ LoadController \/ ImportEnds \/ ImportFails

Spec == Init /\ [][Next]_vars

-----------------------------------------------------------------------------
(* Properties.                                                                *)

\* The type invariant.
TypeOK ==
  /\ session \in 1 .. MaxSessions
  /\ cache \in [Clients \cup Services -> 0 .. session]
  /\ controller \in [state : {"none", "pending", "failed", "made"}, made : 0 .. session]

\* registerManagerAuthenticatedSdkCacheResetter: whatever pages ask for and in whichever
\* order, a client or service in a cache with a resetter is of the session there is, and a
\* service shares its client with whoever else asks for it.
ClientsAreOfSession ==
  /\ \A n \in DOMAIN cache : cache[n] \in {0, session}
  /\ \A s \in Services : cache[s] # 0 => cache[ClientOf[s]] = cache[s]

\* What the comment on registerManagerAuthenticatedSdkCacheResetter says: "no package can
\* retain a client from a previous IAM session", the package of the customer pages
\* and its controller included.
NoClientRetained == ClientsAreOfSession /\ controller.made \in {0, session}
=============================================================================
