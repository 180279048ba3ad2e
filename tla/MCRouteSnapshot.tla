-------------------------- MODULE MCRouteSnapshot ---------------------------
(* Rules that meet at one node with equal and different priorities, nest,  *)
(* leave an inner node without rules, share the root, and restrict hosts   *)
(* and clients; requests for every way the walk and the filter can end.    *)
EXTENDS RouteSnapshot

Slash == <<"/">>
A     == <<"/", "a">>
Deep  == <<"/", "a", "/", "b", "/", "c">>
Every == <<"*">>
Wild  == <<"*", ".", "x.org">>

Ip(second) == <<"10", ".">> \o second \o <<".", "0", ".", "1">>
Net(len)   == [addr |-> <<"10", ".", "1", ".", "0", ".", "0">>, len |-> len]

MCRules == {Rule(Every, Slash, {}, 2), Rule(Every, A, {}, 2),
            Rule(Wild, A, {Net("24")}, 1), Rule(<<"x.org">>, A, {}, 2),
            Rule(Every, Deep, {Net("16"), Net("none")}, 2),
            Rule(Wild, <<"a">>, {Net("8")}, 1)}

MCHosts == {<<"api", ".", "x.org">>, <<"x.org">>, <<"y.org">>}
MCPaths == {<<>>, <<"/", "/">>, A, <<"/", "a", "/", "b">>, Deep \o <<"/", "d">>,
            <<"/", "a", "/", "/", "b", "/", "c", "/">>, <<"/", "ab">>}
MCIps == {Ip(<<"1">>), Ip(<<"1", "1">>), Ip(<<"2">>),
          <<"127", ".", "0", ".", "0", ".", "1">>}

\* A rule for any host, and a rule for one host at a longer prefix.
MCHostRules == {Rule(Every, A, {}, 2), Rule(<<"x.org">>, Deep, {}, 2)}

\* A client network whose second number is a prefix of another.
MCNetRules == {Rule(Every, A, {Net("16")}, 2)}
=============================================================================
