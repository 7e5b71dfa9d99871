------------------------------ MODULE HeaderDag -------------------------------
(***************************************************************************)
(* The header DAG of noid_node/src/networking/header_dag.rs and the node   *)
(* event loop that feeds it (noid_node/src/main.rs).                       *)
(*                                                                         *)
(* The DAG keeps a bounded set of natively validated headers above its own *)
(* finalized point and selects the best of them.  It is owned by one       *)
(* event-loop task.  The durable chain is written by other tasks and moves *)
(* while the loop awaits header validation; the heartbeat reconciles the   *)
(* two under the chain read lock.  The chain is the abstract one that      *)
(* ChainStore implements.                                                  *)
(*                                                                         *)
(* Headers enter one insert at a time, and each insert is a step.          *)
(***************************************************************************)
EXTENDS BlockTree, FiniteSets

CONSTANTS
    FinalityDepth,     \* CONSENSUS_FINALITY_DEPTH (18)
    MaxNodes,          \* HEADER_DAG_MAX_NODES (1024)
    MaxProviders,      \* MAX_PROVIDERS_PER_HEADER (16)
    MaxFinalityAdvance,\* MAX_INCREMENTAL_FINALITY_ADVANCE (64)
    Peer,              \* peers that advertise objects
    NoPeer             \* no peer is being served

ASSUME DagAssumption ==
    /\ FinalityDepth \in Nat \ {0}
    /\ MaxNodes \in Nat /\ FinalityDepth <= MaxNodes
    /\ MaxProviders \in Nat
    /\ MaxFinalityAdvance \in Nat
    /\ IsFiniteSet(Peer)

VARIABLES
    (* the durable chain *)
    tip,             \* tip of MdbxChainContext
    finalized,       \* its finalized checkpoint
    (* HeaderDag *)
    dagFinalized,    \* finalized, finalized_work
    best,            \* best, best_work
    nodes,           \* nodes
    inventories,     \* inventories: block -> peers that hold its objects
    (* the event loop *)
    dagCanonicalTip, \* header_dag_canonical_tip
    faulted,         \* header_dag_faulted
    pc,              \* "idle", "plan", "record", "reconcile" or "probe"
    peer,            \* sender of the header batch being handled
    oldTip,          \* the durable tip this handler has read
    target,          \* last header of the batch
    first,           \* height of the batch's first header above its anchor
    next             \* height of the next header to insert

chain == <<tip, finalized>>
dag == <<dagFinalized, best, nodes, inventories>>
handler == <<pc, peer, oldTip, target, first, next>>
vars == <<chain, dag, dagCanonicalTip, faulted, handler>>

Min2(a, b) == IF a <= b THEN a ELSE b
Monus(a, b) == IF a >= b THEN a - b ELSE 0
-------------------------------------------------------------------------------
(***************************************************************************)
(* Walks through the DAG.                                                  *)
(***************************************************************************)
\* HeaderDag::parent, repeated from p down to height h, never fails.
Walks(p, h) ==
    \A k \in h + 1 .. Height(p) :
        /\ Ancestor(p, k) \in nodes
        /\ k - 1 <= Height(dagFinalized) => Ancestor(p, k - 1) = dagFinalized

\* is_ancestor; every caller takes an error for "no".
IsAncestor(a, d) ==
    /\ Height(a) <= Height(d)
    /\ Walks(d, Height(a))
    /\ Ancestor(d, Height(a)) = a

\* selected_path_from: common_ancestor finds a point and path_from reaches the
\* best tip from it.
SelectedPathFound(committed) ==
    \E h \in 0 .. Min2(Height(committed), Height(best)) :
        /\ Ancestor(committed, h) = Ancestor(best, h)
        /\ Walks(committed, h)
        /\ Walks(best, h)

\* collect_ancestry_hashes.
Ancestry(p) == {Ancestor(p, k) : k \in Height(dagFinalized) + 1 .. Height(p)}
-------------------------------------------------------------------------------
(***************************************************************************)
(* insert, evict_unprotected_leaf.                                         *)
(***************************************************************************)
\* Mutant: the selected ancestry is not protected.
EvictableParentOnly(p) ==
    {n \in nodes \ Ancestry(p) : \A m \in nodes : Parent(m) /= n}

\* Mutant: the incoming branch is not protected.
EvictableBestOnly(p) ==
    {n \in nodes \ Ancestry(best) : \A m \in nodes : Parent(m) /= n}

\* Leaves off the selected ancestry and off the branch that ends in p.
Evictable(p) ==
    {n \in nodes \ (Ancestry(best) \cup Ancestry(p)) : \A m \in nodes : Parent(m) /= n}

\* The leaf that loses fork choice against every other one.
Loser(p) == {n \in Evictable(p) : \A m \in Evictable(p) \ {n} : Wins(m, n)}

\* Mutant: one header too many.
FullOffByOne(b) == b \notin nodes /\ Cardinality(nodes) > MaxNodes

Full(b) == b \notin nodes /\ Cardinality(nodes) >= MaxNodes

\* BelowFinalized, MissingParent and Capacity; BadHeight, BadCumulativeWork and
\* HashCollision need a header that failed native validation.
InsertFails(b) ==
    \/ Height(b) <= Height(dagFinalized)
    \/ /\ b \notin nodes
       /\ Parent(b) \notin nodes \cup {dagFinalized}
    \/ /\ Full(b)
       /\ \/ ~Walks(best, Height(dagFinalized))
          \/ ~Walks(Parent(b), Height(dagFinalized))
          \/ Evictable(Parent(b)) = {}

\* The node that makes room for b.
Evicted(b) == IF Full(b) THEN Loser(Parent(b)) ELSE {}

Insert(b) ==
    /\ ~InsertFails(b)
    /\ nodes' = (nodes \ Evicted(b)) \cup {b}
    /\ inventories' = [n \in Block |-> IF n \in Evicted(b) THEN {} ELSE inventories[n]]
    /\ best' = IF b \notin nodes /\ Wins(b, best) THEN b ELSE best
    /\ UNCHANGED dagFinalized
-------------------------------------------------------------------------------
(***************************************************************************)
(* Object inventories.                                                     *)
(***************************************************************************)
\* Mutant: a full provider set still takes another peer.
AdvertisedUnbounded(p, S, W) ==
    [n \in Block |->
        IF n \in S THEN inventories[n] \cup {p}
        ELSE IF n \in W THEN inventories[n] \ {p} ELSE inventories[n]]

\* advertise_inventory for known headers: p offers objects of the blocks in S and
\* withdraws what it offered for those in W.  A header keeps MaxProviders peers.
Advertised(p, S, W) ==
    [n \in Block |->
        IF n \in S /\ (p \in inventories[n] \/ Cardinality(inventories[n]) < MaxProviders)
        THEN inventories[n] \cup {p}
        ELSE IF n \in W THEN inventories[n] \ {p} ELSE inventories[n]]

\* remove_inventory_provider: a disconnect or a quarantined source.
RemoveInventoryProvider(p) ==
    /\ pc = "idle"
    /\ inventories' = [n \in Block |-> inventories[n] \ {p}]
    /\ UNCHANGED <<chain, dagFinalized, best, nodes, dagCanonicalTip, faulted, handler>>
-------------------------------------------------------------------------------
(***************************************************************************)
(* Header arrivals.                                                        *)
(***************************************************************************)
Idle ==
    /\ pc' = "idle"
    /\ peer' = NoPeer
    /\ oldTip' = Genesis
    /\ target' = Genesis
    /\ first' = 0
    /\ next' = 0

\* record_validated_headers for one header, in a handler that goes on with Then.
Record(b, Then) ==
    \/ /\ Insert(b)
       /\ Then
       /\ UNCHANGED faulted
    \/ /\ InsertFails(b)
       /\ faulted' = TRUE
       /\ Idle
       /\ UNCHANGED dag

\* A block announcement whose header is a valid child of the durable tip.
AnnounceChild(b) ==
    /\ pc = "idle"
    /\ Height(b) = Height(tip) + 1
    /\ Parent(b) = tip
    /\ Record(b, UNCHANGED handler)
    /\ UNCHANGED <<chain, dagCanonicalTip>>

\* The heights from lo at which t's branch meets the durable chain, as far as
\* find_ancestor_height sees it: always through the last FinalityDepth blocks and,
\* by the RAM window, possibly further down, to floor.
CanonicalAnchors(t, lo, floor) ==
    {k \in lo .. Min2(Height(t), Height(tip)) :
        /\ Ancestor(t, k) = Ancestor(tip, k)
        /\ floor <= k
        /\ Height(dagFinalized) <= k}

DagAnchors(t, lo) ==
    {k \in lo .. Height(t) : Ancestor(t, k) \in nodes \cup {dagFinalized}}

\* header_inventory_validation_anchor: the highest anchor, a canonical one first.
AnchorHeights(t, lo, floor) ==
    IF CanonicalAnchors(t, lo, floor) /= {} THEN CanonicalAnchors(t, lo, floor)
    ELSE DagAnchors(t, lo)

\* The anchor leaves headers to validate and its own ancestry is in the DAG.
Plannable(t, a) ==
    /\ a < Height(t)
    /\ IsAncestor(dagFinalized, Ancestor(t, a))

\* A HeaderInventoryBatch: the headers lo .. Height(t) of t's branch with objects
\* of the blocks in S.  Known headers get their inventory at once; the rest is
\* planned by plan_header_inventory, which awaits native validation.
ReceiveHeaders(p, t, lo, floor, S) ==
    LET anchors == AnchorHeights(t, lo, floor)
    IN  /\ pc = "idle"
        /\ S \subseteq {Ancestor(t, k) : k \in lo .. Height(t)} \cap nodes
        /\ inventories' = Advertised(p, S, {})
        /\ \/ \E a \in anchors :
                 /\ \A k \in anchors : k <= a
                 /\ Plannable(t, a)
                 /\ pc' = "plan"
                 /\ peer' = p
                 /\ oldTip' = tip
                 /\ target' = t
                 /\ first' = a + 1
                 /\ next' = a + 1
           \/ /\ \A a \in anchors : (\A k \in anchors : k <= a) => ~Plannable(t, a)
              /\ UNCHANGED handler
        /\ UNCHANGED <<chain, dagFinalized, best, nodes, dagCanonicalTip, faulted>>

\* The validation worker answers.
HeadersValidated(valid) ==
    /\ pc = "plan"
    /\ IF valid THEN /\ pc' = "record"
                     /\ UNCHANGED <<peer, oldTip, target, first, next>>
                ELSE Idle
    /\ UNCHANGED <<chain, dag, dagCanonicalTip, faulted>>

RecordHeader ==
    /\ pc = "record"
    /\ next <= Height(target)
    /\ Record(Ancestor(target, next),
              next' = next + 1 /\ UNCHANGED <<pc, peer, oldTip, target, first>>)
    /\ UNCHANGED <<chain, dagCanonicalTip>>

Batch == {Ancestor(target, k) : k \in first .. Height(target)}

\* All headers are in: attach the batch's inventory, if its sender is still a
\* provider, and freeze the selected path when the batch ends in the best tip.
FinishRecord(attach, S) ==
    /\ pc = "record"
    /\ next > Height(target)
    /\ S \subseteq Batch
    /\ inventories' = IF attach /\ Batch \subseteq nodes
                      THEN Advertised(peer, S, Batch \ S) ELSE inventories
    /\ faulted' = (faulted \/ (best = target /\ ~SelectedPathFound(oldTip)))
    /\ Idle
    /\ UNCHANGED <<chain, dagFinalized, best, nodes, dagCanonicalTip>>
-------------------------------------------------------------------------------
(***************************************************************************)
(* The durable chain and its reconciliation with the DAG.                  *)
(***************************************************************************)
Chain == INSTANCE CanonicalChain

\* A commit by another task: an append, a reorg or a snapshot install, which
\* finalizes its own boundary.  The reconciling handler holds the read lock.
CommitCanonical ==
    /\ pc /= "reconcile"
    /\ Chain!Next
    /\ \/ finalized' = IF Monus(Height(tip'), FinalityDepth) <= Height(finalized)
                       THEN finalized ELSE Ancestor(tip', Monus(Height(tip'), FinalityDepth))
       \/ Height(tip') > Height(tip) /\ finalized' = tip'
    /\ UNCHANGED <<dag, dagCanonicalTip, faulted, handler>>

\* Mutant: the rebuilt DAG starts at the tip instead of the checkpoint.
RebuildAtTip ==
    /\ dagFinalized' = tip
    /\ best' = tip
    /\ nodes' = {}
    /\ inventories' = [n \in Block |-> {}]
    /\ dagCanonicalTip' = tip
    /\ faulted' = FALSE

\* canonical_header_dag: work grows along the chain, so the tip is the best node.
Rebuild ==
    /\ dagFinalized' = finalized
    /\ best' = tip
    /\ nodes' = {Ancestor(tip, k) : k \in Height(finalized) + 1 .. Height(tip)}
    /\ inventories' = [n \in Block |-> {}]
    /\ dagCanonicalTip' = tip
    /\ faulted' = FALSE

\* "durable finalized checkpoint conflicts with HeaderDAG authority".
CheckpointConflicts ==
    \/ Height(finalized) < Height(dagFinalized)
    \/ Height(finalized) = Height(dagFinalized) /\ finalized /= dagFinalized

\* Mutant: a faulted DAG is not retried.
ReconcileDueOnMove(elapsed) == tip /= dagCanonicalTip

ReconcileDue(elapsed) == tip /= dagCanonicalTip \/ (faulted /\ elapsed)

\* The heartbeat reads the tip and starts reconcile_canonical_header_dag when the
\* tip has moved or, ten seconds after the last attempt, when the DAG is faulted.
Heartbeat(elapsed) ==
    /\ pc = "idle"
    /\ oldTip' = tip
    /\ \/ /\ ~ReconcileDue(elapsed)
          /\ pc' = "probe"
          /\ UNCHANGED <<dag, dagCanonicalTip, faulted, next>>
       \/ /\ ReconcileDue(elapsed)
          /\ Height(finalized) - Height(dagFinalized) > MaxFinalityAdvance
          /\ Rebuild
          /\ pc' = "probe"
          /\ UNCHANGED next
       \/ /\ ReconcileDue(elapsed)
          /\ Height(finalized) - Height(dagFinalized) <= MaxFinalityAdvance
          /\ IF CheckpointConflicts
             THEN pc' = "probe" /\ faulted' = TRUE /\ UNCHANGED next
             ELSE pc' = "reconcile" /\ next' = Height(dagFinalized) + 1 /\ UNCHANGED faulted
          /\ UNCHANGED <<dag, dagCanonicalTip>>
    /\ UNCHANGED <<chain, peer, target, first>>

\* Mutant: the last row is left out.
RowsRemainExclusive == next < Height(tip)

RowsRemain == next <= Height(tip)

\* The rows of the durable chain that the DAG lacks, from its finalized point up.
ReconcileRow ==
    /\ pc = "reconcile"
    /\ RowsRemain
    /\ LET row == Ancestor(tip, next)
       IN  \/ /\ row \in nodes
              /\ next' = next + 1
              /\ UNCHANGED <<dag, faulted, pc>>
           \/ /\ row \notin nodes /\ Insert(row)
              /\ next' = next + 1
              /\ UNCHANGED <<faulted, pc>>
           \/ /\ row \notin nodes /\ InsertFails(row)
              /\ faulted' = TRUE
              /\ pc' = "probe" /\ next' = 0
              /\ UNCHANGED dag
    /\ UNCHANGED <<chain, dagCanonicalTip, peer, oldTip, target, first>>

\* What advance_finalized keeps.
KeptNodes == {n \in nodes : Height(n) > Height(finalized) /\ IsAncestor(finalized, n)}

AdvanceFails == finalized /= dagFinalized /\ ~IsAncestor(finalized, best)

AdvanceFinalized ==
    IF finalized = dagFinalized THEN UNCHANGED dag
    ELSE /\ dagFinalized' = finalized
         /\ nodes' = KeptNodes
         /\ inventories' = [n \in Block |-> IF n \in KeptNodes THEN inventories[n] ELSE {}]
         /\ best' = IF Height(best) <= Height(finalized) THEN finalized ELSE best

FinishReconcile ==
    /\ pc = "reconcile"
    /\ ~RowsRemain
    /\ \/ /\ AdvanceFails
          /\ faulted' = TRUE
          /\ UNCHANGED <<dag, dagCanonicalTip>>
       \/ /\ ~AdvanceFails
          /\ AdvanceFinalized
          /\ faulted' = FALSE
          /\ dagCanonicalTip' = tip
    /\ pc' = "probe" /\ next' = 0
    /\ UNCHANGED <<chain, peer, oldTip, target, first>>

\* The end of the heartbeat: while a better tip waits for its objects and no data
\* plan is active, the path to it from the tip read above is probed now and then.
Probe(due) ==
    /\ pc = "probe"
    /\ faulted' = (faulted \/ (due /\ Wins(best, oldTip) /\ ~SelectedPathFound(oldTip)))
    /\ Idle
    /\ UNCHANGED <<chain, dag, dagCanonicalTip>>

\* The process ends and starts again from the durable chain.
Restart ==
    /\ Rebuild
    /\ Idle
    /\ UNCHANGED chain
-------------------------------------------------------------------------------
Init ==
    /\ Chain!Init
    /\ dagFinalized = Genesis /\ best = Genesis /\ nodes = {}
    /\ inventories = [n \in Block |-> {}]
    /\ dagCanonicalTip = Genesis
    /\ faulted = FALSE
    /\ pc = "idle" /\ peer = NoPeer
    /\ oldTip = Genesis /\ target = Genesis
    /\ first = 0 /\ next = 0

Next ==
    \/ CommitCanonical
    \/ \E b \in Block : AnnounceChild(b)
    \/ \E p \in Peer, t \in Block : \E lo \in 0 .. Height(t) :
          \E floor \in 0 .. Monus(Height(tip), FinalityDepth) :
          \E S \in SUBSET {Ancestor(t, k) : k \in lo .. Height(t)} :
              ReceiveHeaders(p, t, lo, floor, S)
    \/ \E valid \in BOOLEAN : HeadersValidated(valid)
    \/ RecordHeader
    \/ \E attach \in BOOLEAN : \E S \in SUBSET Batch : FinishRecord(attach, S)
    \/ \E p \in Peer : RemoveInventoryProvider(p)
    \/ \E elapsed \in BOOLEAN : Heartbeat(elapsed)
    \/ ReconcileRow
    \/ FinishReconcile
    \/ \E due \in BOOLEAN : Probe(due)
    \/ Restart

Spec == Init /\ [][Next]_vars

\* A started handler runs to its end.  tokio::select! picks at random among the
\* branches that are ready, so a heartbeat that keeps being ready is taken, again
\* and again with the retry interval behind it.
Fairness ==
    /\ SF_vars(Heartbeat(TRUE))
    /\ WF_vars(\E valid \in BOOLEAN : HeadersValidated(valid))
    /\ WF_vars(RecordHeader)
    /\ WF_vars(\E attach \in BOOLEAN : \E S \in SUBSET Batch : FinishRecord(attach, S))
    /\ WF_vars(ReconcileRow)
    /\ WF_vars(FinishReconcile)
    /\ WF_vars(\E due \in BOOLEAN : Probe(due))

FairSpec == Spec /\ Fairness
-------------------------------------------------------------------------------
TypeOK ==
    /\ tip \in Block /\ finalized \in Block
    /\ dagFinalized \in Block /\ best \in Block /\ nodes \subseteq Block
    /\ inventories \in [Block -> SUBSET Peer]
    /\ dagCanonicalTip \in Block
    /\ faulted \in BOOLEAN
    /\ pc \in {"idle", "plan", "record", "reconcile", "probe"}
    /\ peer \in Peer \cup {NoPeer}
    /\ oldTip \in Block /\ target \in Block
    /\ first \in Nat /\ next \in Nat

\* Every header above the DAG's finalized point hangs on it through headers of the
\* DAG, whatever has been evicted or pruned, so no walk in header_dag.rs fails with
\* UnknownHeader or NotAncestor on a header the DAG itself holds.
DagConnected ==
    \A n \in nodes :
        /\ Height(n) > Height(dagFinalized)
        /\ Extends(n, dagFinalized)
        /\ Parent(n) \in nodes \cup {dagFinalized}

\* The selected tip is in the DAG and wins fork choice against every other header
\* of it: neither eviction nor finality advance ever drops the winner.
BestIsBest ==
    /\ best \in nodes \cup {dagFinalized}
    /\ \A n \in (nodes \cup {dagFinalized}) \ {best} : Wins(best, n)

\* The DAG never outgrows HEADER_DAG_MAX_NODES.
DagWithinCapacity == Cardinality(nodes) <= MaxNodes

\* Object providers are kept for headers of the DAG only, through evictions and
\* finality advances, and at most MAX_PROVIDERS_PER_HEADER for each.
InventoriesBounded ==
    \A n \in Block :
        /\ inventories[n] /= {} => n \in nodes
        /\ Cardinality(inventories[n]) <= MaxProviders

\* insert, eviction, the rebuild and advance_finalized together keep both bounds.
DagBounded == DagWithinCapacity /\ InventoriesBounded

\* The DAG's finalized point is an ancestor of the durable checkpoint, however far
\* it lags, so reconciliation never reports a conflicting checkpoint.
CheckpointsAgree == Extends(finalized, dagFinalized) /\ ~CheckpointConflicts

\* The DAG's selection never falls behind the durable tip it was last reconciled
\* with, even when that tip has been evicted.
SelectionCoversCommitted == best = dagCanonicalTip \/ Wins(best, dagCanonicalTip)

\* The selected path and the durable chain fit into the DAG together.
RoomForCanonical == Cardinality(Ancestry(best) \cup Ancestry(tip)) <= MaxNodes

\* A fault (an evicted or unreconciled parent, a full DAG, a committed tip that was
\* evicted) is cleared by the heartbeat's retry, unless the selected branch leaves
\* the durable chain below its checkpoint or fills the DAG.  While the DAG is
\* faulted no exact suffix is applied and mining is not ready.
FaultClears ==
    faulted ~> \/ ~faulted
               \/ ~Extends(best, finalized)
               \/ ~RoomForCanonical

\* main.rs:4779-4781: "Only a large finalized snapshot jump reconstructs the DAG;
\* every ordinary child and non-final reorganization advances/prunes it in place."
ReconcileAdvances ==
    pc = "reconcile" /\ ~RowsRemain => ~AdvanceFails
===============================================================================
