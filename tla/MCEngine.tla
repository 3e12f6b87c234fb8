------------------------------- MODULE MCEngine -------------------------------
EXTENDS Engine, TLC

MCPrefixOf == {<<"user", "user">>, <<"user", "users">>, <<"order", "order">>}
Symmetry == Permutations(Requests) \cup Permutations(Contexts)
MCRoutes == {<<"a">>, <<"a", "b">>, <<":id", "b">>, <<"**">>}
MCPaths  == {<<"user", "a">>, <<"order", "user", "a", "b">>, <<"users", "c", "b">>}
===============================================================================
