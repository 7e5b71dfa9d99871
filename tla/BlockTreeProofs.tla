--------------------------- MODULE BlockTreeProofs ----------------------------
(***************************************************************************)
(* Facts about ancestors and descent, for every block tree.                *)
(***************************************************************************)
EXTENDS BlockTree, TLAPS

\* A block's ancestors are blocks, one per height, the last one being itself.
LEMMA AncestorBlock ==
    ASSUME NEW b \in Block, NEW h \in 0 .. Height(b)
    PROVE  /\ Height(b) \in Nat
           /\ Ancestor(b, h) \in Block
           /\ Height(Ancestor(b, h)) = h
<1>1. b \in Seq(STRING) /\ Ancestor(b, h) \in Block
  BY BlockAssumption DEF Height
<1>2. Len(b) \in Nat
  BY <1>1
<1>3. Len(SubSeq(b, 1, h)) = h
  BY <1>1, <1>2 DEF Height
<1> QED  BY <1>1, <1>2, <1>3 DEF Height, Ancestor

\* The height of a block is a natural number.
LEMMA HeightType ==
    ASSUME NEW b \in Block
    PROVE  Height(b) \in Nat
<1>1. b \in Seq(STRING)
  BY BlockAssumption
<1> QED  BY <1>1 DEF Height

\* A block is its own ancestor at its own height.
LEMMA AncestorSelf ==
    ASSUME NEW b \in Block
    PROVE  Ancestor(b, Height(b)) = b
<1>1. b \in Seq(STRING) /\ Len(b) \in Nat
  BY BlockAssumption
<1> QED  BY <1>1 DEF Height, Ancestor

\* Ancestors of an ancestor are ancestors.
LEMMA AncestorAncestor ==
    ASSUME NEW b \in Block, NEW h \in 0 .. Height(b), NEW g \in 0 .. h
    PROVE  Ancestor(Ancestor(b, h), g) = Ancestor(b, g)
<1>1. b \in Seq(STRING) /\ Len(b) \in Nat
  BY BlockAssumption
<1> QED  BY <1>1 DEF Height, Ancestor

\* Genesis is the only block of height 0.
LEMMA GenesisHeight ==
    /\ Genesis \in Block
    /\ Height(Genesis) = 0
    /\ \A b \in Block : Height(b) = 0 => b = Genesis
    /\ \A b \in Block : Ancestor(b, 0) = Genesis
<1>1. \A b \in Block : b \in Seq(STRING)
  BY BlockAssumption
<1>2. Genesis \in Block
  BY BlockAssumption
<1>3. \A b \in Block : Len(b) = 0 => b = << >>
  BY <1>1
<1>4. \A b \in Block : SubSeq(b, 1, 0) = << >>
  BY <1>1
<1> QED  BY <1>2, <1>3, <1>4 DEF Height, Ancestor, Genesis

\* Descent is a partial order in which the ancestors of a block are a chain.
LEMMA ExtendsFacts ==
    /\ \A b \in Block : Extends(b, b) /\ Extends(b, Genesis)
    /\ \A a, b, c \in Block : Extends(c, b) /\ Extends(b, a) => Extends(c, a)
    /\ \A a, b, c \in Block :
          Extends(c, a) /\ Extends(c, b) /\ Height(a) <= Height(b) => Extends(b, a)
    /\ \A b \in Block : \A h \in 0 .. Height(b) : Extends(b, Ancestor(b, h))
<1>1. \A b \in Block : Extends(b, b) /\ Extends(b, Genesis)
  BY AncestorSelf, GenesisHeight, HeightType DEF Extends
<1>2. \A a, b, c \in Block : Extends(c, b) /\ Extends(b, a) => Extends(c, a)
  BY AncestorAncestor, HeightType DEF Extends
<1>3. \A a, b, c \in Block :
          Extends(c, a) /\ Extends(c, b) /\ Height(a) <= Height(b) => Extends(b, a)
  BY AncestorAncestor, HeightType DEF Extends
<1>4. \A b \in Block : \A h \in 0 .. Height(b) : Extends(b, Ancestor(b, h))
  BY AncestorBlock, HeightType DEF Extends
<1> QED  BY <1>1, <1>2, <1>3, <1>4

\* The child of a tip shares every earlier ancestor with it.
LEMMA ChildFacts ==
    ASSUME NEW p \in Block, NEW b \in Block, Height(b) = Height(p) + 1, Parent(b) = p
    PROVE  /\ Extends(b, p)
           /\ \A h \in 0 .. Height(p) : Ancestor(b, h) = Ancestor(p, h)
<1>1. Height(p) \in Nat /\ Ancestor(b, Height(p)) = p
  BY HeightType DEF Parent
<1> QED  BY <1>1, AncestorAncestor, HeightType DEF Extends

\* The next block of a path from tip to t.
LEMMA NextOnPath ==
    ASSUME NEW p \in Block, NEW t \in Block, Extends(t, p), Height(p) < Height(t)
    PROVE  /\ Ancestor(t, Height(p) + 1) \in Block
           /\ Height(Ancestor(t, Height(p) + 1)) = Height(p) + 1
           /\ Parent(Ancestor(t, Height(p) + 1)) = p
           /\ Extends(t, Ancestor(t, Height(p) + 1))
           /\ Ancestor(t, Height(p) + 1) = t <=> Height(t) = Height(p) + 1
<1>1. Height(p) \in Nat /\ Height(t) \in Nat /\ Height(p) + 1 \in 0 .. Height(t)
  BY HeightType
<1>2. Ancestor(t, Height(p) + 1) \in Block /\ Height(Ancestor(t, Height(p) + 1)) = Height(p) + 1
  BY <1>1, AncestorBlock
<1>3. Parent(Ancestor(t, Height(p) + 1)) = Ancestor(t, Height(p))
  BY <1>1, <1>2, AncestorAncestor DEF Parent
<1>4. Extends(t, Ancestor(t, Height(p) + 1))
  BY <1>1, ExtendsFacts
<1> QED  BY <1>1, <1>2, <1>3, <1>4, AncestorSelf DEF Extends

\* Fork choice compares work first and hashes second.
LEMMA WinsMeaning ==
    ASSUME NEW a \in Block, NEW b \in Block
    PROVE  /\ ChainWork[a] \in Nat /\ ChainWork[b] \in Nat
           /\ HashRank[a] \in Nat /\ HashRank[b] \in Nat
           /\ Wins(a, b) => \/ ChainWork[a] > ChainWork[b]
                            \/ ChainWork[a] = ChainWork[b] /\ HashRank[a] < HashRank[b]
           /\ ChainWork[a] > ChainWork[b] => Wins(a, b)
           /\ ChainWork[a] = ChainWork[b] /\ HashRank[a] < HashRank[b] => Wins(a, b)
<1>1. /\ ChainWork[a] \in Nat /\ ChainWork[b] \in Nat
      /\ HashRank[a] \in Nat /\ HashRank[b] \in Nat
  BY BlockAssumption
<1>2. Wins(a, b) => \/ ChainWork[a] > ChainWork[b]
                    \/ ChainWork[a] = ChainWork[b] /\ HashRank[a] < HashRank[b]
  BY <1>1 DEF Wins, ChooseChainByWork
<1>3. ChainWork[a] > ChainWork[b] => Wins(a, b)
  BY <1>1 DEF Wins, ChooseChainByWork
<1>4. ChainWork[a] = ChainWork[b] /\ HashRank[a] < HashRank[b] => Wins(a, b)
  BY <1>1 DEF Wins, ChooseChainByWork
<1> QED  BY <1>1, <1>2, <1>3, <1>4

\* Fork choice is a strict total order on blocks in which descendants win.
LEMMA WinsOrder ==
    /\ \A a \in Block : ~Wins(a, a)
    /\ \A a, b \in Block : a /= b => Wins(a, b) \/ Wins(b, a)
    /\ \A a, b, c \in Block : Wins(a, b) /\ Wins(b, c) => Wins(a, c)
    /\ \A a, b \in Block : Extends(a, b) /\ a /= b => Wins(a, b)
<1>1. \A a \in Block : ~Wins(a, a)
  BY WinsMeaning
<1>2. \A a, b \in Block : a /= b => Wins(a, b) \/ Wins(b, a)
  <2> SUFFICES ASSUME NEW a \in Block, NEW b \in Block, a /= b
               PROVE  Wins(a, b) \/ Wins(b, a)
    OBVIOUS
  <2>1. HashRank[a] /= HashRank[b]
    BY BlockAssumption
  <2> QED  BY <2>1, WinsMeaning
<1>3. \A a, b, c \in Block : Wins(a, b) /\ Wins(b, c) => Wins(a, c)
  BY WinsMeaning
<1>4. \A a, b \in Block : Extends(a, b) /\ a /= b => Wins(a, b)
  <2> SUFFICES ASSUME NEW a \in Block, NEW b \in Block, Extends(a, b), a /= b
               PROVE  Wins(a, b)
    OBVIOUS
  <2>1. Height(a) \in Nat /\ Height(b) \in Nat
    BY HeightType
  <2>2. Height(b) < Height(a)
    BY <2>1, AncestorSelf DEF Extends
  <2>3. ChainWork[Ancestor(a, Height(b))] < ChainWork[a]
    BY <2>1, <2>2, BlockAssumption DEF Height
  <2> QED  BY <2>3, WinsMeaning DEF Extends
<1> QED  BY <1>1, <1>2, <1>3, <1>4
===============================================================================
