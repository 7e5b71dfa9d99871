------------------------------ MODULE BlockTree -------------------------------
(***************************************************************************)
(* The tree of blocks that every component talks about.                    *)
(*                                                                         *)
(* A block is the sequence of choices that leads to it from genesis, so a  *)
(* block hash, which commits to the whole ancestry, is the block itself:   *)
(* its height is its length and its ancestor at height h is a prefix.      *)
(***************************************************************************)
EXTENDS Integers, Sequences, ForkChoice

CONSTANTS
    Block,            \* the blocks of the block tree, genesis <<>> included
    ChainWork,        \* cumulative work of the chain ending in a block
    HashRank          \* position of a block's hash in lexicographic order

Genesis == << >>
Height(b) == Len(b)
Ancestor(b, h) == SubSeq(b, 1, h)
Parent(b) == Ancestor(b, Height(b) - 1)
\* b is a or a descendant of a.
Extends(b, a) == Height(a) <= Height(b) /\ Ancestor(b, Height(a)) = a

ASSUME BlockAssumption ==
    /\ Genesis \in Block
    /\ \A b \in Block : b \in Seq(STRING) /\ \A h \in 0 .. Len(b) : Ancestor(b, h) \in Block
    /\ ChainWork \in [Block -> Nat]
    /\ HashRank \in [Block -> Nat]
    /\ \A a, b \in Block : HashRank[a] = HashRank[b] => a = b
    /\ \A b \in Block : \A h \in 0 .. Len(b) - 1 : ChainWork[Ancestor(b, h)] < ChainWork[b]

\* Mutant: the longer chain wins instead of the heavier one.
WinsByHeight(a, b) == Height(a) > Height(b)

\* choose_chain_by_work selects candidate a over the current tip b.
Wins(a, b) ==
    ChooseChainByWork(ChainWork[a], HashRank[a], ChainWork[b], HashRank[b]) = "A"
===============================================================================
