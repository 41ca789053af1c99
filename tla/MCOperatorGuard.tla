--------------------------- MODULE MCOperatorGuard ---------------------------
(* Instance of OperatorGuard for TLC: two tabs, two logins, two requests in     *)
(* flight in each tab.                                                          *)
EXTENDS OperatorGuard, TLC

Symmetry == Permutations(Tabs) \cup Permutations(Tokens) \cup Permutations(Slots)
=============================================================================
