--------------------------- MODULE MCSessionBridge ---------------------------
(* Instance of SessionBridge for TLC: two tabs, two logins, one context, all    *)
(* of them model values of the configuration.  The liveness property leaves no  *)
(* room for symmetry.                                                           *)
EXTENDS SessionBridge
=============================================================================
