---------------------------- MODULE MCGeneration -----------------------------
(* Up to two sources of each kind, of one or seven characters; budgets that *)
(* hold none, one, some and all of them.                                    *)
EXTENDS Generation

Lengths == {1, 7}
Evidence == {<<>>} \cup {<<n>> : n \in Lengths} \cup {<<m, n>> : m, n \in Lengths}
MCCases == [kind : {"ask", "stream"}, local : Evidence, web : {<<>>, <<1>>, <<7>>, <<7, 1>>},
            budget : {4, 14, 23, 45}, mode : {"knowledge_first", "hybrid"}]
MCDeltas == {<<"[", "K", "1", "]">>, <<"x">>, <<"[", "K">>, <<"[", "K", "[">>, <<"1", "]">>,
             <<"[", "W", "2", "]">>}
=============================================================================
