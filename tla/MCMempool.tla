------------------------------ MODULE MCMempool -------------------------------
(***************************************************************************)
(* Four intents on five slots: two spends of the same coin, a contract     *)
(* call and a trade that compete for another coin.  The blocks of the tree *)
(* confirm some of them, put a coinbase on an output slot, cross the       *)
(* activation heights, an epoch boundary and a payout height.              *)
(***************************************************************************)
EXTENDS Mempool, TLC

CONSTANTS t1, t2, t3, t4, t5, Leaves

MCSlot == 1 .. 5
MCEmpty == "empty"

Spend(i, o, fee, size) ==
    [kind |-> "spend", inputs |-> i, outputs |-> o, fee |-> fee, size |-> size, pages |-> 1,
     anchor |-> Genesis, proofs |-> {3, 4}, deadline |-> 0, permits |-> {}, signer |-> "none",
     validUntil |-> 0]

IntentTable ==
    t1 :> [Spend(1 :> "c1", {3, 4}, 22, 2) EXCEPT !.proofs = {3}]
 @@ t2 :> Spend(1 :> "c1", {3}, 30, 3)
 @@ t3 :> [Spend(2 :> "c2", {4}, 20, 1) EXCEPT !.kind = "call", !.deadline = 3,
                !.permits = {"claim", "recovery"}, !.signer = "claim"]
 @@ t4 :> [Spend(2 :> "c2", {}, 20, 2) EXCEPT !.kind = "trade", !.proofs = {4},
                !.validUntil = 3]
 @@ t5 :> [Spend(2 :> "c2", {5}, 20, 2) EXCEPT !.proofs = {4}]
MCIntent == IntentTable

\* The blocks of the tree by their last label.
LabelTxs(x) == CASE x = "one" -> {t1} [] x = "two" -> {t2} [] x = "three" -> {t3} [] OTHER -> {}
Coinbase(x) == CASE x = "cb4" -> {4} [] x = "cb5" -> {5} [] OTHER -> {}

BlockSet == UNION {{SubSeq(l, 1, h) : h \in 0 .. Len(l)} : l \in Leaves}
MCBlock == BlockSet
MCBlockTxs == [b \in BlockSet |-> IF b = Genesis THEN {} ELSE LabelTxs(b[Len(b)])]

Spent(x) == UNION {DOMAIN IntentTable[t].inputs : t \in LabelTxs(x)}
Minted(x) == Coinbase(x) \cup UNION {IntentTable[t].outputs : t \in LabelTxs(x)}

\* The last block that spends or mints a slot decides what it holds.
SlotsAfter(b) ==
    [s \in MCSlot |->
        LET touch == {i \in 1 .. Len(b) : s \in Spent(b[i]) \cup Minted(b[i])}
            last == CHOOSE i \in touch : \A j \in touch : j <= i
        IN  IF touch # {} THEN (IF s \in Spent(b[last]) THEN MCEmpty ELSE "minted")
            ELSE IF s = 1 THEN "c1" ELSE IF s = 2 THEN "c2" ELSE MCEmpty]

\* TLC keeps the value of a definition, not of what a constant is replaced by.
StateTable == [b \in BlockSet |-> SlotsAfter(b) @@ << >>] @@ << >>
MCState == StateTable

MCChainWork == [b \in BlockSet |-> 2 * Len(b)]
LabelRank(x) ==
    CASE x = "x" -> 1 [] x = "one" -> 5 [] x = "two" -> 5 [] x = "three" -> 3
      [] x = "cb4" -> 4 [] x = "cb5" -> 2
MCHashRank ==
    [b \in BlockSet |->
        LET digit(i) == IF i <= Len(b) THEN LabelRank(b[i]) ELSE 0
        IN  36 * digit(1) + 6 * digit(2) + digit(3)]

MCGrowthFee == [n \in 0 .. 5 |-> IF n >= 3 THEN 10 ELSE 5]

\* Submitters and committers are interchangeable.
Symmetry == Permutations(Submitter) \cup Permutations(Committer)

MCLeaves == {<<"one", "x">>, <<"cb5", "three", "two">>, <<"cb4">>, <<"x", "x">>}
===============================================================================
