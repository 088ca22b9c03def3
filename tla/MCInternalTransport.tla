------------------------ MODULE MCInternalTransport ------------------------
(* Patterns with wildcards, choices and a ">" that is not the last word, and *)
(* two words with the same hash (as "Aa" and "BB" have).                    *)
EXTENDS InternalTransport, TLC

CONSTANTS f, g

One(word) == <<word>>
MCTopic == {<<"a", "b">>, <<"a", "Aa">>, <<"a", "b", "c">>, <<"a", "">>, <<"c">>}
MCPattern == {<<One("a"), <<"b", "BB">>>>, <<One("a"), One(">")>>, <<One("*"), <<"*", "b">>>>,
              <<One(">"), One("c")>>, <<One("*")>>, <<One("a"), One("")>>}
MCHash == [w \in {"a", "b", "c", "", "Aa", "BB"} |-> IF w = "BB" THEN "Aa" ELSE w]
=============================================================================
