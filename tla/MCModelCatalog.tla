--------------------------- MODULE MCModelCatalog ---------------------------
(* A small instance: two models over two providers, which name both models *)
(* alike; a file that prices one of the two migrated chains.               *)
EXTENDS ModelCatalog, TLC

CONSTANTS p1, p2, m1, m2, x

ProvidersOfFile == <<p1, p2>>
RulesOfFile == <<<<p1, x>>>>
RoutesOfFile == <<<<p1>>, <<p2, p1>>>>
AliasesOfFile == [a \in {p1, p2} \X {m1, m2} |-> IF a = <<p2, m1>> THEN None ELSE x]

SubmittedChains == {<<>>, <<<<p1, x>>>>, <<<<p2, x>>>>, <<<<p1, x>>, <<p2, x>>>>, <<<<p1, x>>, <<p1, x>>>>}
SubmittedPairs == {<<p2, "*">>, <<"*", x>>}
=============================================================================
