----------------------------- MODULE MCChainStore -----------------------------
(***************************************************************************)
(* A small block tree for ChainStore: a trunk and two competing branches,  *)
(* one of them shorter but heavier, so that reorganizations go both ways.  *)
(***************************************************************************)
EXTENDS ChainStore, FiniteSets

CONSTANTS TrunkLength

Repeat(x, n) == [i \in 1 .. n |-> x]

Leaves == {Repeat("a", TrunkLength),
           Repeat("a", 1) \o Repeat("b", 4),
           Repeat("a", 3) \o Repeat("c", 3)}

MCBlock == UNION {{SubSeq(l, 1, h) : h \in 0 .. Len(l)} : l \in Leaves}

\* Work per block: "b" blocks are heavier than the others.
WorkOf(x) == CASE x = "a" -> 2 [] x = "b" -> 3 [] x = "c" -> 2
CountOf(b, x) == Cardinality({i \in 1 .. Len(b) : b[i] = x})
MCChainWork ==
    [b \in MCBlock |-> CountOf(b, "a") * WorkOf("a") + CountOf(b, "b") * WorkOf("b")
                        + CountOf(b, "c") * WorkOf("c")]
MCHashRank ==
    [b \in MCBlock |-> 3 * Len(b) + (IF CountOf(b, "b") > 0 THEN 1
                                     ELSE IF CountOf(b, "c") > 0 THEN 0 ELSE 2)]
===============================================================================
