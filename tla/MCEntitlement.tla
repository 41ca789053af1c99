---------------------------- MODULE MCEntitlement ----------------------------
(* A small instance of Entitlement: two requests, and contents that differ in   *)
(* status, in expiry and in a key, so that a replacement changes all of them.    *)
EXTENDS EntitlementRefinement, TLC

CONSTANTS k1, k2

MCKeys == {k1, k2}

MCContents ==
  {[status |-> "active", validUntil |-> 1, keys |-> {k1}],
   [status |-> "suspended", validUntil |-> Never, keys |-> {k1, k2}]}

Symmetry == Permutations(Requests)
=============================================================================
