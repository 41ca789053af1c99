------------------------ MODULE EntitlementRefinement ------------------------
(***************************************************************************)
(* The service and its repository implement the register that              *)
(* EntitlementAuthority promises.  A request is open while it has a        *)
(* statement to send, and what it has read counts once it is answered.     *)
(***************************************************************************)
EXTENDS Entitlement

Authority == INSTANCE EntitlementAuthority WITH
  Calls <- Calls \cup {NoCall},
  Foundation <- FoundationContent,
  open <- [r \in Requests |-> phase[r] # "idle"],
  view <- [r \in Requests |-> IF phase[r] = "idle" THEN view[r] ELSE NoView]

\* The statements, locks, rollbacks and lost acknowledgements of the code are a
\* compare-and-swap register with interval reads: every replacement takes effect
\* at one instant, at most once, over the version it expects, and every answer is
\* explained by what the register held while the request was open.
ImplementsAuthority == Authority!Spec

\* What the mapping of a step needs besides IInv: a request that ends before its
\* queries answers with no snapshot, and one that found no row with no keys.
ReadInOrder ==
  \A r \in Requests :
    /\ phase[r] \in {"lock", "write", "header"} \cup LockedPhases => view[r] = NoView
    /\ phase[r] = "grants" => view[r].version > 0
    /\ phase[r] = "respond" /\ view[r].version = 0 => view[r].keys = {}
=============================================================================
