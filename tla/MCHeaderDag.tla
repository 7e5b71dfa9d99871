------------------------------ MODULE MCHeaderDag ------------------------------
(***************************************************************************)
(* Small block trees for HeaderDag: a trunk and a heavier branch that      *)
(* leaves it at genesis; and a longer trunk with a lighter branch besides. *)
(***************************************************************************)
EXTENDS HeaderDag

CONSTANTS Leaves

MCLeaves == {<<"a", "a">>, <<"b", "b">>}
MCLongLeaves == {<<"a", "a", "a", "a">>, <<"b", "b", "b">>, <<"a", "c">>}

MCBlock == UNION {{SubSeq(l, 1, h) : h \in 0 .. Len(l)} : l \in Leaves}

CountOf(b, x) == Cardinality({i \in 1 .. Len(b) : b[i] = x})
\* "b" blocks carry more work than the others.
MCChainWork == [b \in MCBlock |-> 2 * Len(b) + CountOf(b, "b")]
MCHashRank ==
    [b \in MCBlock |-> 3 * Len(b) + (IF CountOf(b, "b") > 0 THEN 1
                                     ELSE IF CountOf(b, "c") > 0 THEN 0 ELSE 2)]

\* Behaviours in which the durable chain only ever grows by an ordinary child.
AppendSpec ==
    Init /\ [][Next /\ (tip' /= tip => Parent(tip') = tip /\ finalized' /= tip')]_vars
===============================================================================
