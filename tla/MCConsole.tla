-------------------------------- MODULE MCConsole --------------------------------
(* A small instance of every part of Console: two offers with a stock each, an   *)
(* account, two users, and registries of two modules in either order, whose      *)
(* routes shadow each other or differ in what they require.                      *)
EXTENDS Console, TLC

CONSTANTS o, p, s, z

MCOfferOf == (s :> o) @@ (z :> p)

Route(way, required, visible) ==
  [path |-> way, required |-> required, mode |-> "any", visible |-> visible]

Tails == {<<>>, <<"x">>, <<":p">>}
Sometimes == {{}, {"m"}}

\* Modules of two routes, the first of them the default.
Wide(prefix) ==
  {[prefix |-> prefix, default |-> prefix \o t, required |-> {"n"}, mode |-> "all",
    routes |-> <<Route(prefix \o t, k, v), Route(prefix \o w, l, TRUE)>>]
    : t, w \in Tails, k, l \in Sometimes, v \in BOOLEAN}

\* Modules of one route.
Narrow(prefix) ==
  {[prefix |-> prefix, default |-> prefix \o t, required |-> {"n", "m"}, mode |-> md,
    routes |-> <<Route(prefix \o t, k, TRUE)>>]
    : t \in Tails, k \in Sometimes, md \in {"any", "all"}}

MCContributions ==
  UNION {{<<a, b>>, <<b, a>>} : a \in Wide(<<"x">>), b \in Narrow(<<":p">>) \cup Narrow(<<"x", "x">>)}
    \cup UNION {{<<a, b>>, <<b, a>>} : a \in Wide(<<":p">>), b \in Narrow(<<"x">>)}

MCPaths == {<<>>, <<"account">>, <<"x">>, <<"y">>, <<"x", "x">>, <<"x", "y">>}

Symmetry == Permutations(Jobs)
=============================================================================
