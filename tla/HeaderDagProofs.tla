--------------------------- MODULE HeaderDagProofs ----------------------------
(***************************************************************************)
(* The safety properties of HeaderDag, for every block tree, capacity,     *)
(* provider bound, finality depth and set of peers.                        *)
(*                                                                         *)
(* DagInv says what the DAG's own operations (insert with eviction,        *)
(* advance_finalized, the rebuild) preserve.  IInv adds what the event     *)
(* loop keeps between the DAG and the durable chain; during a              *)
(* reconciliation the rows already passed are covered by the selection.    *)
(***************************************************************************)
EXTENDS HeaderDag, BlockTreeProofs, FiniteSetTheorems

Covers(a, b) == a = b \/ Wins(a, b)

DagTypes ==
    /\ dagFinalized \in Block /\ best \in Block /\ nodes \subseteq Block
    /\ inventories \in [Block -> SUBSET Peer]

DagInv ==
    /\ DagTypes
    /\ DagConnected
    /\ BestIsBest
    /\ IsFiniteSet(nodes) /\ DagWithinCapacity
    /\ InventoriesBounded

LoopTypes ==
    /\ tip \in Block /\ finalized \in Block
    /\ dagCanonicalTip \in Block
    /\ faulted \in BOOLEAN
    /\ pc \in {"idle", "plan", "record", "reconcile", "probe"}
    /\ peer \in Peer \cup {NoPeer}
    /\ pc \in {"plan", "record"} => peer \in Peer
    /\ oldTip \in Block /\ target \in Block
    /\ first \in Nat /\ next \in Nat

ChainInv ==
    /\ Extends(tip, finalized)
    /\ Height(tip) - Height(finalized) <= FinalityDepth
    /\ Extends(finalized, dagFinalized)

\* The rows of the durable chain below the next one are covered.
RowsCovered ==
    /\ Height(dagFinalized) < next
    /\ \A k \in Height(dagFinalized) .. Height(tip) :
          k < next => Covers(best, Ancestor(tip, k))

IInv ==
    /\ DagInv
    /\ LoopTypes
    /\ ChainInv
    /\ SelectionCoversCommitted
    /\ pc = "reconcile" => RowsCovered
-------------------------------------------------------------------------------
\* Among finitely many blocks there is one that loses against all others, so
\* evict_unprotected_leaf finds a leaf whenever there is an unprotected one.
LEMMA LoserExists ==
    ASSUME NEW E \in SUBSET Block, IsFiniteSet(E), E /= {}
    PROVE  \E n \in E : \A m \in E \ {n} : Wins(m, n)
<1> DEFINE Beaten(n) == {m \in E : Wins(n, m)}
           T == {Beaten(n) : n \in E}
           R == StrictSubsetOrdering(E)
<1>1. T \subseteq FiniteSubsetsOf(E) /\ T /= {}
  <2>1. FiniteSubsetsOf(E) = SUBSET E
    BY FS_FiniteSubsetsOfFinite
  <2>2. T \subseteq SUBSET E
    OBVIOUS
  <2>3. \A n \in E : Beaten(n) \in T
    OBVIOUS
  <2> QED  BY <2>1, <2>2, <2>3
<1>2. IsWellFoundedOn(R, FiniteSubsetsOf(E))
  BY FS_StrictSubsetOrderingWellFounded
<1>3. \E x \in T : \A y \in T : ~ (<<y, x>> \in R)
  <2> HIDE DEF T, R
  <2> QED  BY <1>1, <1>2, WFMin
<1>4. PICK n \in E : \A y \in T : ~ (<<y, Beaten(n)>> \in R)
  BY <1>3
<1>5. Beaten(n) = {}
  <2> SUFFICES ASSUME NEW m \in E, Wins(n, m) PROVE FALSE
    OBVIOUS
  <2>1. Beaten(m) \subseteq Beaten(n)
    BY WinsOrder
  <2>2. m \in Beaten(n) /\ m \notin Beaten(m)
    BY WinsOrder
  <2>3. <<Beaten(m), Beaten(n)>> \in R
    BY <2>1, <2>2 DEF StrictSubsetOrdering
  <2> QED  BY <1>4, <2>3
<1>6. \A m \in E \ {n} : Wins(m, n)
  BY <1>5, WinsOrder
<1> QED  BY <1>6

\* A point above the finalized one belongs to its own protected ancestry.
LEMMA AncestryOwn ==
    ASSUME NEW p \in Block, dagFinalized \in Block, Height(p) > Height(dagFinalized)
    PROVE  p \in Ancestry(p)
<1>1. Height(p) \in Height(dagFinalized) + 1 .. Height(p)
  BY HeightType
<1> QED  BY <1>1, AncestorSelf DEF Ancestry

\* What insert evicts is an unprotected leaf of the DAG.
LEMMA EvictedFacts ==
    ASSUME DagInv, NEW b \in Block, Height(b) > 0, ~InsertFails(b)
    PROVE  /\ Evicted(b) \subseteq nodes
           /\ b \notin Evicted(b)
           /\ best \notin Evicted(b)
           /\ Parent(b) \notin Evicted(b)
           /\ \A n \in nodes : Parent(n) \notin Evicted(b)
<1>1. Parent(b) \in Block
  BY AncestorBlock, HeightType DEF Parent
<1>2. Evicted(b) \subseteq Evictable(Parent(b)) /\ (b \in nodes => Evicted(b) = {})
  BY DEF Evicted, Loser, Full
<1>3. Evictable(Parent(b)) \subseteq nodes
  BY DEF Evictable
<1>4. \A n \in Evictable(Parent(b)) : Height(n) > Height(dagFinalized)
  BY <1>3 DEF DagInv, DagConnected
<1>5. best \notin Evictable(Parent(b)) /\ Parent(b) \notin Evictable(Parent(b))
  BY <1>1, <1>4, AncestryOwn DEF Evictable, DagInv, DagTypes
<1>6. \A n \in nodes : Parent(n) \notin Evictable(Parent(b))
  BY DEF Evictable
<1> QED  BY <1>2, <1>3, <1>5, <1>6
\* insert keeps the DAG well formed whatever it evicts, and the selection never
\* gets worse.
LEMMA InsertPreserves ==
    ASSUME DagInv, NEW b \in Block, Insert(b)
    PROVE  /\ DagInv'
           /\ UNCHANGED dagFinalized
           /\ b \in nodes'
           /\ Covers(best', best)
<1>1. /\ Height(b) \in Nat /\ Height(dagFinalized) \in Nat
      /\ Height(dagFinalized) < Height(b)
      /\ Parent(b) \in Block /\ Height(Parent(b)) = Height(b) - 1
  <2>1. /\ Height(b) \in Nat /\ Height(dagFinalized) \in Nat
        /\ Height(dagFinalized) < Height(b)
    BY HeightType DEF DagInv, DagTypes, Insert, InsertFails
  <2> QED  BY <2>1, AncestorBlock DEF Parent
<1>2. /\ Evicted(b) \subseteq nodes
      /\ b \notin Evicted(b) /\ best \notin Evicted(b) /\ Parent(b) \notin Evicted(b)
      /\ \A n \in nodes : Parent(n) \notin Evicted(b)
  BY <1>1, EvictedFacts DEF Insert
<1>3. /\ nodes' = (nodes \ Evicted(b)) \cup {b}
      /\ dagFinalized' = dagFinalized
      /\ best' \in {b, best} /\ Covers(best', best)
      /\ best' /= best => b \notin nodes
      /\ inventories' = [n \in Block |-> IF n \in Evicted(b) THEN {} ELSE inventories[n]]
  BY DEF Insert, Covers
<1>4. b \in nodes \/ Parent(b) \in nodes \cup {dagFinalized}
  BY DEF Insert, InsertFails
<1>5. DagTypes'
  BY <1>3 DEF DagInv, DagTypes
<1>6. DagConnected'
  <2> SUFFICES ASSUME NEW n \in nodes'
               PROVE  /\ Height(n) > Height(dagFinalized)
                      /\ Extends(n, dagFinalized)
                      /\ Parent(n) \in nodes' \cup {dagFinalized}
    BY <1>3 DEF DagConnected
  <2>1. CASE n \in nodes
    BY <2>1, <1>2, <1>3 DEF DagInv, DagConnected
  <2>2. CASE n \notin nodes
    <3>1. n = b /\ Parent(b) \in nodes \cup {dagFinalized}
      BY <2>2, <1>3, <1>4
    <3>2. Extends(Parent(b), dagFinalized)
      BY <3>1, ExtendsFacts DEF DagInv, DagTypes, DagConnected
    <3>3. Extends(b, Parent(b))
      BY <1>1, ChildFacts
    <3>4. Extends(b, dagFinalized)
      BY <1>1, <3>2, <3>3, ExtendsFacts DEF DagInv, DagTypes
    <3> QED  BY <3>1, <3>4, <1>1, <1>2, <1>3
  <2> QED  BY <2>1, <2>2
<1>7. BestIsBest'
  <2>1. best' \in nodes' \cup {dagFinalized'}
    BY <1>2, <1>3 DEF DagInv, BestIsBest
  <2>2. ASSUME NEW n \in (nodes' \cup {dagFinalized'}) \ {best'}
        PROVE  Wins(best', n)
    <3>1. n \in Block /\ best \in Block
      BY <1>3 DEF DagInv, DagTypes
    <3>2. CASE n \in nodes \cup {dagFinalized}
      <4>1. n = best \/ Wins(best, n)
        BY <3>2 DEF DagInv, BestIsBest
      <4>2. best' = best \/ Wins(best', best)
        BY <1>3 DEF Covers
      <4> QED  BY <3>1, <4>1, <4>2, <1>5, WinsOrder DEF DagTypes
    <3>3. CASE n \notin nodes \cup {dagFinalized}
      <4>1. n = b /\ b \notin nodes /\ ~Wins(b, best)
        BY <3>3, <1>3 DEF Insert
      <4> QED  BY <4>1, <3>1, <1>3, WinsOrder
    <3> QED  BY <3>2, <3>3
  <2> QED  BY <2>1, <2>2 DEF BestIsBest
<1>8. IsFiniteSet(nodes') /\ DagWithinCapacity'
  <2> DEFINE rest == nodes \ Evicted(b)
  <2>1. IsFiniteSet(nodes) /\ Cardinality(nodes) \in Nat /\ Cardinality(nodes) <= MaxNodes
    BY FS_CardinalityType DEF DagInv, DagWithinCapacity
  <2>2. IsFiniteSet(rest) /\ Cardinality(rest) \in Nat /\ Cardinality(rest) <= Cardinality(nodes)
    BY <2>1, FS_Subset, FS_CardinalityType
  <2>3. /\ IsFiniteSet(nodes') /\ Cardinality(nodes') \in Nat
        /\ Cardinality(nodes') <= Cardinality(rest) + 1
        /\ b \in rest => Cardinality(nodes') = Cardinality(rest)
    <3>1. nodes' = rest \cup {b}
      BY <1>3
    <3>2. /\ IsFiniteSet(rest \cup {b})
          /\ Cardinality(rest \cup {b}) = IF b \in rest THEN Cardinality(rest)
                                          ELSE Cardinality(rest) + 1
      BY <2>2, FS_AddElement
    <3> HIDE DEF rest
    <3> QED  BY <2>2, <3>1, <3>2
  <2>4. CASE b \in nodes
    BY <2>4, <1>2, <2>1, <2>2, <2>3, DagAssumption DEF DagWithinCapacity
  <2>5. CASE b \notin nodes /\ Cardinality(nodes) < MaxNodes
    BY <2>5, <2>1, <2>2, <2>3, DagAssumption DEF DagWithinCapacity
  <2>6. CASE b \notin nodes /\ ~(Cardinality(nodes) < MaxNodes)
    <3>1. Full(b) /\ Evicted(b) = Loser(Parent(b))
      BY <2>6, <2>1, DagAssumption DEF Full, Evicted
    <3>2. Evictable(Parent(b)) /= {} /\ Evictable(Parent(b)) \subseteq nodes
      BY <3>1 DEF Insert, InsertFails, Evictable
    <3>3. IsFiniteSet(Evictable(Parent(b)))
      BY <3>2, <2>1, FS_Subset
    <3>4. Evicted(b) /= {}
      BY <3>1, <3>2, <3>3, LoserExists DEF Loser, DagInv, DagTypes
    <3>5. rest /= nodes
      BY <3>4, <1>2
    <3>6. Cardinality(rest) < Cardinality(nodes)
      BY <3>5, <2>1, <2>2, FS_Subset
    <3> QED  BY <3>6, <2>1, <2>2, <2>3, DagAssumption DEF DagWithinCapacity
  <2> QED  BY <2>3, <2>4, <2>5, <2>6
<1>9. InventoriesBounded'
  <2> SUFFICES ASSUME NEW n \in Block
               PROVE  /\ inventories'[n] /= {} => n \in nodes'
                      /\ Cardinality(inventories'[n]) <= MaxProviders
    BY DEF InventoriesBounded
  <2>1. CASE n \in Evicted(b)
    BY <2>1, <1>3, FS_EmptySet, DagAssumption
  <2>2. CASE n \notin Evicted(b)
    BY <2>2, <1>3 DEF DagInv, InventoriesBounded
  <2> QED  BY <2>1, <2>2
<1> QED  BY <1>3, <1>5, <1>6, <1>7, <1>8, <1>9 DEF DagInv
\* DagInv survives a change of the inventories alone that keeps provider sets
\* bounded and on headers of the DAG.
LEMMA InventoryChange ==
    ASSUME DagInv, UNCHANGED <<dagFinalized, best, nodes>>,
           inventories' \in [Block -> SUBSET Peer],
           \A n \in Block : /\ inventories'[n] /= {} => n \in nodes
                            /\ Cardinality(inventories'[n]) <= MaxProviders
    PROVE  DagInv'
BY DEF DagInv, DagTypes, DagConnected, BestIsBest, DagWithinCapacity, InventoriesBounded

\* advertise_inventory for headers of the DAG keeps the provider bound.
LEMMA AdvertisedPreserves ==
    ASSUME DagInv, NEW p \in Peer, NEW S \in SUBSET nodes, NEW W,
           inventories' = Advertised(p, S, W), UNCHANGED <<dagFinalized, best, nodes>>
    PROVE  DagInv'
<1>1. \A n \in Block : /\ inventories[n] \in SUBSET Peer
                       /\ inventories[n] /= {} => n \in nodes
                       /\ Cardinality(inventories[n]) <= MaxProviders
  BY DEF DagInv, DagTypes, InventoriesBounded
<1>2. inventories' \in [Block -> SUBSET Peer]
  BY <1>1 DEF Advertised
<1>3. ASSUME NEW n \in Block
      PROVE  /\ inventories'[n] /= {} => n \in nodes
             /\ Cardinality(inventories'[n]) <= MaxProviders
  <2>1. /\ IsFiniteSet(inventories[n])
        /\ Cardinality(inventories[n]) \in Nat
    BY <1>1, FS_Subset, FS_CardinalityType, DagAssumption
  <2>2. CASE n \in S /\ (p \in inventories[n] \/ Cardinality(inventories[n]) < MaxProviders)
    <3>1. inventories'[n] = inventories[n] \cup {p}
      BY <2>2 DEF Advertised
    <3>2. Cardinality(inventories[n] \cup {p}) =
            IF p \in inventories[n] THEN Cardinality(inventories[n])
            ELSE Cardinality(inventories[n]) + 1
      BY <2>1, FS_AddElement
    <3>3. Cardinality(inventories[n] \cup {p}) <= MaxProviders
      BY <3>2, <2>1, <2>2, <1>1, DagAssumption
    <3> QED  BY <3>1, <3>3, <2>2
  <2>3. CASE ~(n \in S /\ (p \in inventories[n] \/ Cardinality(inventories[n]) < MaxProviders))
    <3>1. inventories'[n] \in {inventories[n], inventories[n] \ {p}}
      BY <2>3 DEF Advertised
    <3>2. /\ IsFiniteSet(inventories[n] \ {p})
          /\ Cardinality(inventories[n] \ {p}) <= Cardinality(inventories[n])
      BY <2>1, FS_Subset
    <3>3. Cardinality(inventories[n] \ {p}) \in Nat
      BY <3>2, FS_CardinalityType
    <3>4. /\ Cardinality(inventories[n]) <= MaxProviders
          /\ Cardinality(inventories[n] \ {p}) <= MaxProviders
      BY <3>2, <3>3, <2>1, <1>1, DagAssumption
    <3>5. CASE inventories'[n] = inventories[n]
      BY <3>5, <3>4, <1>1
    <3>6. CASE inventories'[n] = inventories[n] \ {p}
      BY <3>6, <3>4, <1>1
    <3> QED  BY <3>1, <3>5, <3>6
  <2> QED  BY <2>2, <2>3
<1> QED  BY <1>2, <1>3, InventoryChange

\* canonical_header_dag yields a well formed DAG that selects the durable tip.
LEMMA RebuildPreserves ==
    ASSUME LoopTypes, ChainInv, Rebuild
    PROVE  DagInv' /\ best' = tip /\ dagFinalized' = finalized /\ dagCanonicalTip' = tip
<1> DEFINE I == Height(finalized) + 1 .. Height(tip)
<1>1. /\ dagFinalized' = finalized /\ best' = tip /\ dagCanonicalTip' = tip
      /\ nodes' = {Ancestor(tip, k) : k \in I}
      /\ inventories' = [n \in Block |-> {}]
  BY DEF Rebuild
<1>2. /\ tip \in Block /\ finalized \in Block
      /\ Height(tip) \in Nat /\ Height(finalized) \in Nat /\ Height(finalized) <= Height(tip)
      /\ Height(tip) - Height(finalized) <= FinalityDepth
      /\ Ancestor(tip, Height(finalized)) = finalized
  BY HeightType DEF LoopTypes, ChainInv, Extends
<1>3. DagTypes'
  BY <1>1, <1>2, AncestorBlock DEF DagTypes
<1>4. DagConnected'
  <2> SUFFICES ASSUME NEW k \in I
               PROVE  LET n == Ancestor(tip, k)
                      IN  /\ Height(n) > Height(finalized)
                          /\ Extends(n, finalized)
                          /\ Parent(n) \in nodes' \cup {finalized}
    BY <1>1 DEF DagConnected
  <2>1. k \in 0 .. Height(tip) /\ k - 1 \in 0 .. Height(tip) /\ k - 1 \in 0 .. k
        /\ Height(finalized) \in 0 .. k
    BY <1>2
  <2>2. Height(Ancestor(tip, k)) = k
    BY <2>1, <1>2, AncestorBlock
  <2>3. Ancestor(Ancestor(tip, k), Height(finalized)) = finalized
    BY <2>1, <1>2, AncestorAncestor
  <2>4. Parent(Ancestor(tip, k)) = Ancestor(tip, k - 1)
    BY <2>1, <2>2, <1>2, AncestorAncestor DEF Parent
  <2>5. k - 1 = Height(finalized) \/ k - 1 \in I
    BY <1>2
  <2> QED  BY <1>1, <1>2, <2>1, <2>2, <2>3, <2>4, <2>5 DEF Extends
<1>5. BestIsBest'
  <2>1. tip = finalized \/ tip \in nodes'
    <3>1. CASE Height(tip) = Height(finalized)
      BY <3>1, <1>2, AncestorSelf
    <3>2. CASE Height(tip) /= Height(finalized)
      <4>1. Height(tip) \in I
        BY <3>2, <1>2
      <4> QED  BY <4>1, <1>1, <1>2, AncestorSelf
    <3> QED  BY <3>1, <3>2
  <2>2. \A k \in I : Ancestor(tip, k) \in Block /\ Extends(tip, Ancestor(tip, k))
    BY <1>2, AncestorBlock, ExtendsFacts
  <2>3. \A n \in nodes' \cup {finalized} : n \in Block /\ Extends(tip, n)
    BY <1>1, <1>2, <2>2 DEF ChainInv
  <2> QED  BY <1>1, <1>2, <2>1, <2>3, WinsOrder DEF BestIsBest
<1>6. IsFiniteSet(nodes') /\ DagWithinCapacity'
  <2> DEFINE f == [k \in I |-> Ancestor(tip, k)]
  <2>1. IsFiniteSet(I) /\ Cardinality(I) <= FinalityDepth
    <3>1. IsFiniteSet(I) /\ Cardinality(I) = IF Height(finalized) + 1 > Height(tip) THEN 0
                                             ELSE Height(tip) - (Height(finalized) + 1) + 1
      <4>1. Height(finalized) + 1 \in Int /\ Height(tip) \in Int
        BY <1>2
      <4> QED  BY <4>1, FS_Interval
    <3> QED  BY <3>1, <1>2, DagAssumption
  <2>2. f \in Surjection(I, nodes')
    BY <1>1 DEF Surjection
  <2>3. IsFiniteSet(nodes') /\ Cardinality(nodes') <= Cardinality(I)
    <3> HIDE DEF f, I
    <3> QED  BY <2>1, <2>2, FS_Surjection
  <2>4. Cardinality(nodes') \in Nat /\ Cardinality(I) \in Nat
    BY <2>1, <2>3, FS_CardinalityType
  <2> HIDE DEF I
  <2> QED  BY <2>1, <2>3, <2>4, DagAssumption DEF DagWithinCapacity
<1>7. InventoriesBounded'
  BY <1>1, FS_EmptySet, DagAssumption DEF InventoriesBounded
<1> QED  BY <1>1, <1>3, <1>4, <1>5, <1>6, <1>7 DEF DagInv
\* advance_finalized keeps the DAG well formed and its selection.
LEMMA AdvancePreserves ==
    ASSUME DagInv, LoopTypes, ChainInv, AdvanceFinalized, ~AdvanceFails
    PROVE  DagInv' /\ best' = best /\ dagFinalized' = finalized
<1>1. CASE finalized = dagFinalized
  BY <1>1 DEF AdvanceFinalized, dag, DagInv, DagTypes, DagConnected, BestIsBest,
              DagWithinCapacity, InventoriesBounded
<1>2. CASE finalized /= dagFinalized
  <2>1. /\ dagFinalized' = finalized
        /\ nodes' = KeptNodes
        /\ inventories' = [n \in Block |-> IF n \in KeptNodes THEN inventories[n] ELSE {}]
        /\ best' = IF Height(best) <= Height(finalized) THEN finalized ELSE best
        /\ IsAncestor(finalized, best)
    BY <1>2 DEF AdvanceFinalized, AdvanceFails
  <2>2. /\ best \in Block /\ finalized \in Block /\ dagFinalized \in Block
        /\ nodes \subseteq Block /\ KeptNodes \subseteq nodes
        /\ Height(best) \in Nat /\ Height(finalized) \in Nat /\ Height(dagFinalized) \in Nat
    BY HeightType DEF DagInv, DagTypes, LoopTypes, KeptNodes
  <2>3. Height(dagFinalized) < Height(finalized)
    BY <1>2, <2>2, AncestorSelf DEF ChainInv, Extends
  <2>4. /\ Height(finalized) <= Height(best)
        /\ Ancestor(best, Height(finalized)) = finalized
        /\ Extends(best, finalized)
    BY <2>1 DEF IsAncestor, Extends
  <2>5. best' = best
    BY <2>1, <2>2, <2>4, AncestorSelf
  <2>6. DagTypes'
    BY <2>1, <2>2, <2>5 DEF DagTypes, DagInv
  <2>7. DagConnected'
    <3> SUFFICES ASSUME NEW n \in KeptNodes
                 PROVE  /\ Height(n) > Height(finalized)
                        /\ Extends(n, finalized)
                        /\ Parent(n) \in KeptNodes \cup {finalized}
      BY <2>1 DEF DagConnected
    <3>1. /\ n \in nodes /\ n \in Block /\ Height(n) \in Nat /\ Height(n) > Height(finalized)
          /\ Walks(n, Height(finalized)) /\ Ancestor(n, Height(finalized)) = finalized
      BY <2>2, HeightType DEF KeptNodes, IsAncestor
    <3>2. /\ Parent(n) = Ancestor(n, Height(n) - 1)
          /\ Parent(n) \in Block /\ Height(Parent(n)) = Height(n) - 1
      BY <3>1, <2>2, AncestorBlock DEF Parent
    <3>3. CASE Height(n) = Height(finalized) + 1
      BY <3>1, <3>2, <3>3, <2>2 DEF Extends
    <3>4. CASE Height(n) /= Height(finalized) + 1
      <4>1. Height(Parent(n)) > Height(finalized)
        BY <3>1, <3>2, <3>4, <2>2
      <4>2. Parent(n) \in nodes
        BY <4>1, <3>1, <2>2, <2>3 DEF DagInv, DagConnected
      <4>3. \A k \in 0 .. Height(Parent(n)) : Ancestor(Parent(n), k) = Ancestor(n, k)
        BY <3>1, <3>2, AncestorAncestor
      <4>4. Walks(Parent(n), Height(finalized))
        BY <4>1, <4>3, <3>1, <3>2, <2>2 DEF Walks
      <4>5. Ancestor(Parent(n), Height(finalized)) = finalized
        BY <4>1, <4>3, <3>1, <3>2, <2>2
      <4> QED  BY <3>1, <3>2, <4>1, <4>2, <4>4, <4>5, <2>2 DEF KeptNodes, IsAncestor, Extends
    <3> QED  BY <3>3, <3>4
  <2>8. BestIsBest'
    <3>1. best \in KeptNodes \cup {finalized}
      <4>1. CASE Height(best) = Height(finalized)
        BY <4>1, <2>4, <2>2, AncestorSelf
      <4>2. CASE Height(best) > Height(finalized)
        <5>1. best \in nodes
          BY <4>2, <2>2, <2>3 DEF DagInv, BestIsBest
        <5> QED  BY <4>2, <5>1, <2>1 DEF KeptNodes
      <4> QED  BY <4>1, <4>2, <2>4, <2>2
    <3>2. \A n \in KeptNodes \ {best} : Wins(best, n)
      BY <2>2 DEF DagInv, BestIsBest
    <3>3. finalized /= best => Wins(best, finalized)
      BY <2>2, <2>4, WinsOrder
    <3> QED  BY <2>1, <2>5, <3>1, <3>2, <3>3 DEF BestIsBest
  <2>9. IsFiniteSet(nodes') /\ DagWithinCapacity'
    <3>1. IsFiniteSet(nodes) /\ Cardinality(nodes) \in Nat /\ Cardinality(nodes) <= MaxNodes
      BY FS_CardinalityType DEF DagInv, DagWithinCapacity
    <3>2. IsFiniteSet(KeptNodes) /\ Cardinality(KeptNodes) <= Cardinality(nodes)
      BY <3>1, <2>2, FS_Subset
    <3>3. Cardinality(KeptNodes) \in Nat
      BY <3>2, FS_CardinalityType
    <3> QED  BY <2>1, <3>1, <3>2, <3>3, DagAssumption DEF DagWithinCapacity
  <2>10. InventoriesBounded'
    <3> SUFFICES ASSUME NEW n \in Block
                 PROVE  /\ inventories'[n] /= {} => n \in KeptNodes
                        /\ Cardinality(inventories'[n]) <= MaxProviders
      BY <2>1 DEF InventoriesBounded
    <3>1. CASE n \in KeptNodes
      BY <3>1, <2>1 DEF DagInv, InventoriesBounded
    <3>2. CASE n \notin KeptNodes
      BY <3>2, <2>1, FS_EmptySet, DagAssumption
    <3> QED  BY <3>1, <3>2
  <2> QED  BY <2>1, <2>5, <2>6, <2>7, <2>8, <2>9, <2>10 DEF DagInv
<1> QED  BY <1>1, <1>2-------------------------------------------------------------------------------
\* Being covered is transitive.
LEMMA CoversTransitive ==
    ASSUME NEW a \in Block, NEW b \in Block, NEW c \in Block, Covers(a, b), Covers(b, c)
    PROVE  Covers(a, c)
BY WinsOrder DEF Covers

\* A step that leaves the DAG alone leaves it well formed.
LEMMA SameDag ==
    ASSUME DagInv, UNCHANGED dag
    PROVE  DagInv'
BY DEF dag, DagInv, DagTypes, DagConnected, BestIsBest, DagWithinCapacity, InventoriesBounded

\* Two facts that do not mention the DAG's nodes: they survive while the chain, the
\* DAG's finalized point and the committed tip stay and the selection only improves.
LEMMA BetterSelection ==
    ASSUME IInv, DagInv', Covers(best', best),
           UNCHANGED <<chain, dagFinalized, dagCanonicalTip>>
    PROVE  ChainInv' /\ SelectionCoversCommitted'
<1>1. ChainInv'
  BY DEF IInv, ChainInv, chain
<1>2. best \in Block /\ best' \in Block /\ dagCanonicalTip \in Block
  BY DEF IInv, DagInv, DagTypes, LoopTypes
<1>3. Covers(best, dagCanonicalTip)
  BY DEF IInv, SelectionCoversCommitted, Covers
<1>4. Covers(best', dagCanonicalTip)
  BY <1>2, <1>3, CoversTransitive
<1> QED  BY <1>1, <1>4 DEF SelectionCoversCommitted, Covers

\* Going back to the idle loop keeps the types.
LEMMA IdleTypes ==
    ASSUME LoopTypes, Idle, faulted' \in BOOLEAN, UNCHANGED <<chain, dagCanonicalTip>>
    PROVE  LoopTypes' /\ pc' /= "reconcile"
BY GenesisHeight DEF LoopTypes, Idle, chain

\* A commit by another task leaves the DAG behind but never in conflict.
LEMMA CommitStep ==
    ASSUME IInv, CommitCanonical
    PROVE  IInv'
<1>1. DagInv'
  BY SameDag DEF IInv, CommitCanonical
<1>2. /\ tip' \in Block /\ finalized' \in Block
      /\ Extends(tip', finalized') /\ Extends(finalized', finalized)
      /\ Height(tip') - Height(finalized') <= FinalityDepth
  BY DEF CommitCanonical, Chain!Next, Chain!Extends, Extends, Height, Ancestor
<1>3. UNCHANGED <<dagFinalized, best, dagCanonicalTip, faulted, pc, peer, oldTip, target, first, next>>
  BY DEF CommitCanonical, dag, handler
<1>4. LoopTypes'
  BY <1>2, <1>3 DEF IInv, LoopTypes
<1>5. ChainInv'
  <2>1. Extends(finalized', dagFinalized)
    BY <1>2, ExtendsFacts DEF IInv, ChainInv, LoopTypes, DagInv, DagTypes
  <2> QED  BY <1>2, <1>3, <2>1 DEF ChainInv
<1>6. SelectionCoversCommitted' /\ pc' /= "reconcile"
  BY <1>3 DEF IInv, SelectionCoversCommitted, CommitCanonical
<1> QED  BY <1>1, <1>4, <1>5, <1>6 DEF IInv

\* record_validated_headers for a header outside a reconciliation.
LEMMA RecordStep ==
    ASSUME IInv, NEW b \in Block, Insert(b) \/ (InsertFails(b) /\ UNCHANGED dag),
           UNCHANGED <<chain, dagCanonicalTip>>
    PROVE  DagInv' /\ ChainInv' /\ SelectionCoversCommitted'
<1>1. CASE Insert(b)
  <2>1. DagInv' /\ UNCHANGED dagFinalized /\ Covers(best', best)
    BY <1>1, InsertPreserves DEF IInv
  <2> QED  BY <2>1, BetterSelection
<1>2. CASE UNCHANGED dag
  <2>1. DagInv' /\ UNCHANGED dagFinalized /\ Covers(best', best)
    BY <1>2, SameDag DEF IInv, dag, Covers
  <2> QED  BY <2>1, BetterSelection
<1> QED  BY <1>1, <1>2

\* A block announcement keeps the invariant.
LEMMA AnnounceStep ==
    ASSUME IInv, NEW b \in Block, AnnounceChild(b)
    PROVE  IInv'
<1>1. DagInv' /\ ChainInv' /\ SelectionCoversCommitted'
  BY RecordStep DEF AnnounceChild, Record
<1>2. LoopTypes' /\ pc' /= "reconcile"
  <2>1. CASE UNCHANGED handler /\ UNCHANGED faulted
    BY <2>1 DEF AnnounceChild, IInv, LoopTypes, chain, handler
  <2>2. CASE faulted' = TRUE /\ Idle
    BY <2>2, IdleTypes DEF AnnounceChild, IInv
  <2> QED  BY <2>1, <2>2 DEF AnnounceChild, Record
<1> QED  BY <1>1, <1>2 DEF IInv

\* One header of a validated batch keeps the invariant, also when it is refused.
LEMMA RecordHeaderStep ==
    ASSUME IInv, RecordHeader
    PROVE  IInv'
<1>1. Ancestor(target, next) \in Block
  BY AncestorBlock, HeightType DEF RecordHeader, IInv, LoopTypes
<1>2. DagInv' /\ ChainInv' /\ SelectionCoversCommitted'
  BY <1>1, RecordStep DEF RecordHeader, Record
<1>3. LoopTypes' /\ pc' /= "reconcile"
  <2>1. CASE next' = next + 1 /\ UNCHANGED <<pc, peer, oldTip, target, first>> /\ UNCHANGED faulted
    BY <2>1 DEF RecordHeader, IInv, LoopTypes, chain
  <2>2. CASE faulted' = TRUE /\ Idle
    BY <2>2, IdleTypes DEF RecordHeader, IInv
  <2> QED  BY <2>1, <2>2 DEF RecordHeader, Record
<1> QED  BY <1>2, <1>3 DEF IInv
\* A change of the inventories alone keeps what relates the DAG to the chain.
LEMMA SameSelection ==
    ASSUME IInv, DagInv', UNCHANGED <<chain, dagFinalized, best, dagCanonicalTip>>
    PROVE  ChainInv' /\ SelectionCoversCommitted'
BY BetterSelection DEF Covers

\* The arrival of a header batch keeps the invariant.
LEMMA ReceiveStep ==
    ASSUME IInv, NEW p \in Peer, NEW t \in Block, NEW lo \in 0 .. Height(t),
           NEW floor, NEW S, ReceiveHeaders(p, t, lo, floor, S)
    PROVE  IInv'
<1>1. S \in SUBSET nodes /\ inventories' = Advertised(p, S, {})
      /\ UNCHANGED <<chain, dagFinalized, best, nodes, dagCanonicalTip, faulted>>
  BY DEF ReceiveHeaders
<1>2. DagInv'
  BY <1>1, AdvertisedPreserves DEF IInv
<1>3. ChainInv' /\ SelectionCoversCommitted'
  BY <1>1, <1>2, SameSelection
<1>4. LoopTypes' /\ pc' /= "reconcile"
  <2>1. ASSUME NEW a \in AnchorHeights(t, lo, floor),
               pc' = "plan", peer' = p, oldTip' = tip, target' = t, first' = a + 1, next' = a + 1
        PROVE  LoopTypes' /\ pc' /= "reconcile"
    <3>1. a \in Nat
      BY HeightType DEF AnchorHeights, CanonicalAnchors, DagAnchors, Min2
    <3> QED  BY <2>1, <3>1, <1>1 DEF IInv, LoopTypes, chain
  <2>2. CASE UNCHANGED handler
    BY <2>2, <1>1 DEF ReceiveHeaders, IInv, LoopTypes, chain, handler
  <2> QED  BY <2>1, <2>2 DEF ReceiveHeaders
<1> QED  BY <1>2, <1>3, <1>4 DEF IInv

\* The answer of the validation worker keeps the invariant.
LEMMA ValidatedStep ==
    ASSUME IInv, NEW valid \in BOOLEAN, HeadersValidated(valid)
    PROVE  IInv'
<1>1. DagInv' /\ UNCHANGED <<chain, dagFinalized, best, dagCanonicalTip>>
  BY SameDag DEF HeadersValidated, IInv, dag
<1>2. ChainInv' /\ SelectionCoversCommitted'
  BY <1>1, SameSelection
<1>3. LoopTypes' /\ pc' /= "reconcile"
  <2>1. CASE valid
    BY <2>1 DEF HeadersValidated, IInv, LoopTypes, chain
  <2>2. CASE ~valid
    BY <2>2, IdleTypes DEF HeadersValidated, IInv, LoopTypes
  <2> QED  BY <2>1, <2>2
<1> QED  BY <1>1, <1>2, <1>3 DEF IInv

\* Attaching a batch's inventory and freezing the path keeps the invariant.
LEMMA FinishRecordStep ==
    ASSUME IInv, NEW attach \in BOOLEAN, NEW S, FinishRecord(attach, S)
    PROVE  IInv'
<1>1. UNCHANGED <<chain, dagFinalized, best, nodes, dagCanonicalTip>> /\ peer \in Peer
  BY DEF FinishRecord, IInv, LoopTypes
<1>2. DagInv'
  <2>1. CASE attach /\ Batch \subseteq nodes
    <3>1. S \in SUBSET nodes /\ inventories' = Advertised(peer, S, Batch \ S)
      BY <2>1 DEF FinishRecord
    <3> QED  BY <3>1, <1>1, AdvertisedPreserves DEF IInv
  <2>2. CASE ~(attach /\ Batch \subseteq nodes)
    BY <2>2, <1>1, SameDag DEF FinishRecord, IInv, dag
  <2> QED  BY <2>1, <2>2
<1>3. ChainInv' /\ SelectionCoversCommitted'
  BY <1>1, <1>2, SameSelection
<1>4. faulted' \in BOOLEAN
  BY Zenon DEF FinishRecord
<1>5. LoopTypes' /\ pc' /= "reconcile"
  BY <1>4, IdleTypes DEF FinishRecord, IInv
<1> QED  BY <1>2, <1>3, <1>5 DEF IInv

\* Forgetting a provider keeps the invariant.
LEMMA RemoveProviderStep ==
    ASSUME IInv, NEW p \in Peer, RemoveInventoryProvider(p)
    PROVE  IInv'
<1>1. /\ UNCHANGED <<chain, dagFinalized, best, nodes, dagCanonicalTip, faulted, handler>>
      /\ inventories' = [n \in Block |-> inventories[n] \ {p}]
      /\ pc = "idle"
  BY DEF RemoveInventoryProvider
<1>2. inventories' \in [Block -> SUBSET Peer]
  BY <1>1 DEF IInv, DagInv, DagTypes
<1>3. ASSUME NEW n \in Block
      PROVE  /\ inventories'[n] /= {} => n \in nodes
             /\ Cardinality(inventories'[n]) <= MaxProviders
  <2>1. /\ inventories[n] \in SUBSET Peer /\ inventories'[n] = inventories[n] \ {p}
        /\ inventories[n] /= {} => n \in nodes
        /\ Cardinality(inventories[n]) <= MaxProviders
    BY <1>1 DEF IInv, DagInv, DagTypes, InventoriesBounded
  <2>2. IsFiniteSet(inventories[n])
    BY <2>1, FS_Subset, DagAssumption
  <2>3. /\ IsFiniteSet(inventories[n] \ {p})
        /\ Cardinality(inventories[n] \ {p}) <= Cardinality(inventories[n])
    BY <2>2, FS_Subset
  <2>4. Cardinality(inventories[n] \ {p}) \in Nat /\ Cardinality(inventories[n]) \in Nat
    BY <2>2, <2>3, FS_CardinalityType
  <2>5. Cardinality(inventories[n] \ {p}) <= MaxProviders
    BY <2>1, <2>3, <2>4, DagAssumption
  <2> QED  BY <2>1, <2>5
<1>4. DagInv'
  BY <1>1, <1>2, <1>3, InventoryChange DEF IInv
<1>5. ChainInv' /\ SelectionCoversCommitted'
  BY <1>1, <1>4, SameSelection
<1>6. LoopTypes' /\ pc' /= "reconcile"
  BY <1>1 DEF IInv, LoopTypes, chain, handler
<1> QED  BY <1>4, <1>5, <1>6 DEF IInv
\* The durable checkpoint never conflicts with the DAG's finalized point.
LEMMA NoConflict ==
    ASSUME IInv
    PROVE  CheckpointsAgree
<1>1. finalized \in Block /\ dagFinalized \in Block /\ Extends(finalized, dagFinalized)
  BY DEF IInv, DagInv, DagTypes, LoopTypes, ChainInv
<1>2. Height(finalized) \in Nat /\ Height(dagFinalized) \in Nat
  BY <1>1, HeightType
<1> QED  BY <1>1, <1>2, AncestorSelf DEF CheckpointsAgree, CheckpointConflicts, Extends

\* The first part of the heartbeat keeps the invariant: a rebuild, nothing, or the
\* start of a reconciliation at the DAG's finalized point.
LEMMA HeartbeatStep ==
    ASSUME IInv, NEW elapsed \in BOOLEAN, Heartbeat(elapsed)
    PROVE  IInv'
<1>1. UNCHANGED <<chain, peer, target, first>> /\ oldTip' = tip /\ pc = "idle"
  BY DEF Heartbeat
<1>2. CASE UNCHANGED <<dag, dagCanonicalTip>> /\ UNCHANGED next /\ pc' = "probe"
           /\ faulted' \in BOOLEAN
  <2>1. DagInv' /\ UNCHANGED <<dagFinalized, best>>
    BY <1>2, SameDag DEF IInv, dag
  <2>2. ChainInv' /\ SelectionCoversCommitted'
    BY <1>1, <1>2, <2>1, SameSelection
  <2>3. LoopTypes' /\ pc' /= "reconcile"
    BY <1>1, <1>2 DEF IInv, LoopTypes, chain
  <2> QED  BY <2>1, <2>2, <2>3 DEF IInv
<1>3. CASE Rebuild /\ pc' = "probe" /\ UNCHANGED next
  <2>1. DagInv' /\ best' = tip /\ dagFinalized' = finalized /\ dagCanonicalTip' = tip
    BY <1>3, RebuildPreserves DEF IInv
  <2>2. LoopTypes' /\ pc' /= "reconcile"
    BY <1>1, <1>3, <2>1 DEF IInv, LoopTypes, chain, Rebuild
  <2>3. ChainInv' /\ SelectionCoversCommitted'
    BY <1>1, <2>1, ExtendsFacts DEF IInv, LoopTypes, ChainInv, SelectionCoversCommitted, chain
  <2> QED  BY <2>1, <2>2, <2>3 DEF IInv
<1>4. CASE /\ UNCHANGED <<dag, dagCanonicalTip>> /\ UNCHANGED faulted
           /\ pc' = "reconcile" /\ next' = Height(dagFinalized) + 1
  <2>1. DagInv' /\ UNCHANGED <<dagFinalized, best>>
    BY <1>4, SameDag DEF IInv, dag
  <2>2. ChainInv' /\ SelectionCoversCommitted'
    BY <1>1, <1>4, <2>1, SameSelection
  <2>3. /\ tip \in Block /\ finalized \in Block /\ dagFinalized \in Block
        /\ Height(dagFinalized) \in Nat /\ Height(tip) \in Nat
    BY HeightType DEF IInv, DagInv, DagTypes, LoopTypes
  <2>4. LoopTypes'
    BY <1>1, <1>4, <2>3 DEF IInv, LoopTypes, chain
  <2>5. Ancestor(tip, Height(dagFinalized)) = dagFinalized
    BY <2>3, ExtendsFacts DEF IInv, ChainInv, Extends
  <2>6. Covers(best, dagFinalized)
    BY DEF IInv, DagInv, BestIsBest, Covers
  <2>7. RowsCovered'
    BY <1>1, <1>4, <2>1, <2>3, <2>5, <2>6 DEF RowsCovered, chain
  <2> QED  BY <2>1, <2>2, <2>4, <2>7 DEF IInv
<1>5. faulted \in BOOLEAN
  BY DEF IInv, LoopTypes
<1>6. CASE CheckpointConflicts
  BY <1>6, NoConflict DEF CheckpointsAgree
<1> QED  BY <1>2, <1>3, <1>4, <1>5, <1>6 DEF Heartbeat

\* One row of the durable chain keeps the invariant: the row is covered afterwards.
LEMMA ReconcileRowStep ==
    ASSUME IInv, ReconcileRow
    PROVE  IInv'
<1> DEFINE row == Ancestor(tip, next)
<1>1. /\ pc = "reconcile" /\ RowsCovered /\ next <= Height(tip) /\ next \in Nat
      /\ UNCHANGED <<chain, dagCanonicalTip, peer, oldTip, target, first>>
  BY DEF ReconcileRow, RowsRemain, IInv, LoopTypes
<1>2. /\ tip \in Block /\ best \in Block /\ dagFinalized \in Block
      /\ Height(tip) \in Nat /\ Height(dagFinalized) \in Nat /\ row \in Block
  BY <1>1, HeightType, AncestorBlock DEF IInv, DagInv, DagTypes, LoopTypes
<1>3. ASSUME DagInv', UNCHANGED dagFinalized, Covers(best', best), row \in nodes',
             next' = next + 1, UNCHANGED <<faulted, pc>>
      PROVE  IInv'
  <2>1. ChainInv' /\ SelectionCoversCommitted'
    BY <1>1, <1>3, BetterSelection
  <2>2. LoopTypes'
    BY <1>1, <1>3 DEF IInv, LoopTypes, chain
  <2>3. best' \in Block /\ Covers(best', row)
    BY <1>3 DEF DagInv, DagTypes, BestIsBest, Covers
  <2>4. ASSUME NEW k \in Height(dagFinalized) .. Height(tip), k < next + 1
        PROVE  Covers(best', Ancestor(tip, k))
    <3>1. CASE k = next
      BY <3>1, <2>3
    <3>2. CASE k /= next
      <4>1. k < next /\ k \in 0 .. Height(tip)
        BY <3>2, <2>4, <1>1, <1>2
      <4>2. Covers(best, Ancestor(tip, k)) /\ Ancestor(tip, k) \in Block
        BY <4>1, <1>1, <1>2, AncestorBlock DEF RowsCovered
      <4> QED  BY <4>2, <1>2, <1>3, <2>3, CoversTransitive
    <3> QED  BY <3>1, <3>2
  <2>5. RowsCovered'
    BY <1>1, <1>2, <1>3, <2>4 DEF RowsCovered, chain
  <2> QED  BY <1>3, <2>1, <2>2, <2>5 DEF IInv
<1>4. CASE row \in nodes /\ next' = next + 1 /\ UNCHANGED <<dag, faulted, pc>>
  <2>1. DagInv' /\ UNCHANGED dagFinalized /\ Covers(best', best) /\ row \in nodes'
    BY <1>1, <1>4, SameDag DEF IInv, dag, Covers, chain
  <2> QED  BY <1>3, <1>4, <2>1
<1>5. CASE Insert(row) /\ next' = next + 1 /\ UNCHANGED <<faulted, pc>>
  <2>1. DagInv' /\ UNCHANGED dagFinalized /\ Covers(best', best) /\ row \in nodes'
    BY <1>2, <1>5, InsertPreserves DEF IInv
  <2> QED  BY <1>3, <1>5, <2>1
<1>6. CASE faulted' = TRUE /\ pc' = "probe" /\ next' = 0 /\ UNCHANGED dag
  <2>1. DagInv' /\ UNCHANGED <<dagFinalized, best>>
    BY <1>6, SameDag DEF IInv, dag
  <2>2. ChainInv' /\ SelectionCoversCommitted'
    BY <1>1, <2>1, SameSelection
  <2>3. LoopTypes' /\ pc' /= "reconcile"
    BY <1>1, <1>6 DEF IInv, LoopTypes, chain
  <2> QED  BY <2>1, <2>2, <2>3 DEF IInv
<1> QED  BY <1>4, <1>5, <1>6 DEF ReconcileRow
\* The end of a reconciliation keeps the invariant: every row is covered, so the
\* selection covers the durable tip that becomes the committed one.
LEMMA FinishReconcileStep ==
    ASSUME IInv, FinishReconcile
    PROVE  IInv'
<1>1. /\ UNCHANGED <<chain, peer, oldTip, target, first>> /\ pc' = "probe" /\ next' = 0
      /\ ~RowsRemain /\ RowsCovered
  BY DEF FinishReconcile, IInv
<1>2. CASE faulted' = TRUE /\ UNCHANGED <<dag, dagCanonicalTip>>
  <2>1. DagInv' /\ UNCHANGED <<dagFinalized, best>>
    BY <1>2, SameDag DEF IInv, dag
  <2>2. ChainInv' /\ SelectionCoversCommitted'
    BY <1>1, <1>2, <2>1, SameSelection
  <2>3. LoopTypes' /\ pc' /= "reconcile"
    BY <1>1, <1>2 DEF IInv, LoopTypes, chain
  <2> QED  BY <2>1, <2>2, <2>3 DEF IInv
<1>3. CASE ~AdvanceFails /\ AdvanceFinalized /\ faulted' = FALSE /\ dagCanonicalTip' = tip
  <2>1. DagInv' /\ best' = best /\ dagFinalized' = finalized
    BY <1>3, AdvancePreserves DEF IInv
  <2>2. /\ tip \in Block /\ finalized \in Block /\ dagFinalized \in Block
        /\ Height(tip) \in Nat /\ Height(dagFinalized) \in Nat /\ next \in Nat
        /\ Extends(tip, dagFinalized)
    BY HeightType, ExtendsFacts DEF IInv, DagInv, DagTypes, LoopTypes, ChainInv
  <2>3. Covers(best, Ancestor(tip, Height(tip)))
    BY <1>1, <2>2 DEF RowsCovered, RowsRemain, Extends
  <2>4. SelectionCoversCommitted'
    BY <1>3, <2>1, <2>2, <2>3, AncestorSelf DEF SelectionCoversCommitted, Covers
  <2>5. ChainInv'
    BY <1>1, <2>1, <2>2, ExtendsFacts DEF IInv, ChainInv, chain
  <2>6. LoopTypes' /\ pc' /= "reconcile"
    BY <1>1, <1>3, <2>2 DEF IInv, LoopTypes, chain
  <2> QED  BY <2>1, <2>4, <2>5, <2>6 DEF IInv
<1> QED  BY <1>2, <1>3 DEF FinishReconcile

\* The probe at the end of the heartbeat keeps the invariant.
LEMMA ProbeStep ==
    ASSUME IInv, NEW due \in BOOLEAN, Probe(due)
    PROVE  IInv'
<1>1. DagInv' /\ UNCHANGED <<chain, dagFinalized, best, dagCanonicalTip>>
  BY SameDag DEF Probe, IInv, dag
<1>2. ChainInv' /\ SelectionCoversCommitted'
  BY <1>1, SameSelection
<1>3. faulted' \in BOOLEAN
  BY Zenon DEF Probe
<1>4. LoopTypes' /\ pc' /= "reconcile"
  BY <1>3, IdleTypes DEF Probe, IInv
<1> QED  BY <1>1, <1>2, <1>4 DEF IInv

\* A restart establishes the invariant again from the durable chain.
LEMMA RestartStep ==
    ASSUME IInv, Restart
    PROVE  IInv'
<1>1. DagInv' /\ best' = tip /\ dagFinalized' = finalized /\ dagCanonicalTip' = tip
  BY RebuildPreserves DEF Restart, IInv
<1>2. LoopTypes' /\ pc' /= "reconcile"
  BY <1>1, GenesisHeight DEF Restart, Rebuild, Idle, IInv, LoopTypes, chain
<1>3. ChainInv' /\ SelectionCoversCommitted'
  BY <1>1, ExtendsFacts DEF Restart, IInv, LoopTypes, ChainInv, SelectionCoversCommitted, chain
<1> QED  BY <1>1, <1>2, <1>3 DEF IInv
-------------------------------------------------------------------------------
\* Initially the DAG is empty above genesis.
LEMMA Initially ==
    ASSUME Init
    PROVE  IInv
<1>1. /\ tip = Genesis /\ finalized = Genesis /\ Genesis \in Block /\ Height(Genesis) = 0
  BY GenesisHeight DEF Init, Chain!Init, Chain!Genesis, Genesis
<1>2. DagInv
  <2>1. DagTypes /\ DagConnected /\ BestIsBest
    BY <1>1 DEF Init, DagTypes, DagConnected, BestIsBest
  <2>2. IsFiniteSet(nodes) /\ DagWithinCapacity /\ InventoriesBounded
    BY FS_EmptySet, DagAssumption DEF Init, DagWithinCapacity, InventoriesBounded
  <2> QED  BY <2>1, <2>2 DEF DagInv
<1>3. LoopTypes
  BY <1>1 DEF Init, LoopTypes
<1>4. ChainInv /\ SelectionCoversCommitted /\ pc /= "reconcile"
  BY <1>1, ExtendsFacts, DagAssumption DEF Init, ChainInv, SelectionCoversCommitted
<1> QED  BY <1>2, <1>3, <1>4 DEF IInv

\* Every step of the event loop and of the chain keeps the invariant.
LEMMA Inductive ==
    ASSUME IInv, [Next]_vars
    PROVE  IInv'
<1>1. CASE UNCHANGED vars
  <2>1. DagInv' /\ UNCHANGED <<chain, dagFinalized, best, dagCanonicalTip>>
    BY <1>1, SameDag DEF vars, IInv, dag
  <2>2. ChainInv' /\ SelectionCoversCommitted'
    BY <2>1, SameSelection
  <2>3. LoopTypes' /\ (pc' = "reconcile" => RowsCovered')
    BY <1>1 DEF vars, IInv, LoopTypes, RowsCovered, chain, dag, handler
  <2> QED  BY <2>1, <2>2, <2>3 DEF IInv
<1>2. CASE Next
  BY <1>2, CommitStep, AnnounceStep, ReceiveStep, ValidatedStep, RecordHeaderStep,
     FinishRecordStep, RemoveProviderStep, HeartbeatStep, ReconcileRowStep,
     FinishReconcileStep, ProbeStep, RestartStep
     DEF Next
<1> QED  BY <1>1, <1>2

\* The inductive invariant holds in every reachable state.
THEOREM DagInvariant == Spec => []IInv
<1> QED  BY Initially, Inductive, PTL DEF Spec

\* The DAG, the event loop's view of it and the handler stay well typed.
THEOREM DagTypeCorrect == Spec => []TypeOK
<1>1. IInv => TypeOK
  BY DEF IInv, DagInv, DagTypes, LoopTypes, TypeOK
<1> QED  BY <1>1, DagInvariant, PTL

\* Whatever insert evicts and advance_finalized prunes, every header of the DAG
\* hangs on the finalized point through headers of the DAG.
THEOREM Connectivity == Spec => []DagConnected
<1>1. IInv => DagConnected
  BY DEF IInv, DagInv
<1> QED  BY <1>1, DagInvariant, PTL

\* The selected tip is in the DAG and wins fork choice against all of it.
THEOREM Selection == Spec => []BestIsBest
<1>1. IInv => BestIsBest
  BY DEF IInv, DagInv
<1> QED  BY <1>1, DagInvariant, PTL

\* insert, the rebuild and advance_finalized never exceed HEADER_DAG_MAX_NODES, and
\* providers are kept for headers of the DAG only and stay bounded.
THEOREM Capacity == Spec => []DagBounded
<1>1. IInv => DagBounded
  BY DEF IInv, DagInv, DagBounded
<1> QED  BY <1>1, DagInvariant, PTL

\* reconcile_canonical_header_dag never meets a conflicting checkpoint.
THEOREM CheckpointAgreement == Spec => []CheckpointsAgree
<1>1. IInv => CheckpointsAgree
  BY NoConflict
<1> QED  BY <1>1, DagInvariant, PTL

\* The selection never falls behind the durable tip of the last reconciliation.
THEOREM SelectionProgress == Spec => []SelectionCoversCommitted
<1>1. IInv => SelectionCoversCommitted
  BY DEF IInv
<1> QED  BY <1>1, DagInvariant, PTL
===============================================================================
