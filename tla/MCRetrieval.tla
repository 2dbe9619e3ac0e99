----------------------------- MODULE MCRetrieval -----------------------------
(* Four addresses on two domains (one of them refused, none of them a       *)
(* search page), four texts (two clean, one that is cleaned to the first,   *)
(* one of which nothing is left).                                           *)
EXTENDS Retrieval

MCUrls == 1 .. 4
MCDomain == [u \in MCUrls |-> IF u <= 2 THEN "d" ELSE "e"]
MCTexts == {"a", "b", "mixed", "bad"}
MCSafe == [t \in MCTexts |-> CASE t = "mixed" -> "a" [] t = "bad" -> Nothing [] OTHER -> t]
MCHitLists == {<<>>, <<4>>, <<1, 3>>, <<1, 2, 1>>}
MCCached == {Nothing, <<1, 3>>}
Result(i, c, t, o, s) == [id |-> i, chunk |-> c, text |-> t, own |-> o, score |-> s]
MCResults == {{}, {Result(1, "x", "a", TRUE, 1)}, {Result(1, "x", "bad", TRUE, 2)},
              {Result(1, "x", "b", FALSE, 2), Result(2, "y", "mixed", TRUE, 1)},
              {Result(1, "x", "a", TRUE, 0), Result(2, "x", "b", TRUE, 2)},
              {Result(1, "x", "a", TRUE, 2), Result(2, "y", "b", TRUE, 2),
               Result(3, "z", "mixed", TRUE, 1)}}
Question(m, e, r, p, k) ==
    [mode |-> m, enabled |-> e, roleAllowed |-> r, policy |-> p, risky |-> k]
MCQuestions ==
    {Question(m, TRUE, TRUE, "inherit", FALSE) : m \in {"knowledge_only", "hybrid"}}
    \cup {Question("hybrid", FALSE, TRUE, "allow", FALSE),
          Question("hybrid", TRUE, FALSE, "allow", FALSE),
          Question("knowledge_first", TRUE, TRUE, "deny", FALSE),
          Question(Nothing, TRUE, TRUE, "allow", TRUE)}
=============================================================================
