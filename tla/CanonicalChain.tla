---------------------------- MODULE CanonicalChain ----------------------------
(***************************************************************************)
(* What the chain store promises to every reader of the canonical chain:   *)
(* a tip and a hard-finalized checkpoint below it.  The tip only ever      *)
(* moves to a chain that wins fork choice against the current one, keeps   *)
(* the finalized checkpoint and gives up at most FinalityDepth blocks; the *)
(* checkpoint only ever advances along the canonical chain and trails the  *)
(* tip by at most FinalityDepth.                                           *)
(***************************************************************************)
EXTENDS Integers, Sequences, ForkChoice

CONSTANTS Block, ChainWork, HashRank, FinalityDepth

VARIABLES tip, finalized

Genesis == << >>
Extends(b, a) == Len(a) <= Len(b) /\ SubSeq(b, 1, Len(a)) = a

\* The newest block of b's chain that a rollback from b may not remove.
RollbackFloor(b) ==
    IF Len(b) <= FinalityDepth THEN Genesis ELSE SubSeq(b, 1, Len(b) - FinalityDepth)

Init ==
    /\ tip = Genesis
    /\ finalized = Genesis

\* One change of the canonical view.
Next ==
    /\ tip' \in Block
    /\ finalized' \in Block
    /\ ChooseChainByWork(ChainWork[tip'], HashRank[tip'], ChainWork[tip], HashRank[tip]) = "A"
    /\ Extends(tip', RollbackFloor(tip))
    /\ Extends(tip', finalized')
    /\ Extends(finalized', finalized)
    /\ Len(tip') - Len(finalized') <= FinalityDepth

Spec == Init /\ [][Next]_<<tip, finalized>>
===============================================================================
