------------------------- MODULE MCMiningReadiness --------------------------
(* Small instances: a short trunk and two competing children of its tip.   *)
EXTENDS MiningReadiness

MCBlock == {<< >>, <<"t">>, <<"t", "m">>, <<"t", "r">>, <<"s">>}
MCWork == [b \in MCBlock |-> Len(b)]
MCRank == [b \in MCBlock |->
    CASE b = << >> -> 1 [] b = <<"s">> -> 2 [] b = <<"t">> -> 3
      [] b = <<"t", "r">> -> 4 [] OTHER -> 5]

OwnDomain == [p \in Peer |-> p]
=============================================================================
