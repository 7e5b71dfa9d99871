------------------------------ MODULE ChainStore ------------------------------
(***************************************************************************)
(* One node's canonical chain: the MDBX tables of                          *)
(* noid_chain/src/storage/mdbx_store.rs, the hot in-RAM view of            *)
(* noid_chain/src/storage/mdbx_context.rs and the writer that owns both    *)
(* while it holds the chain write lock.                                    *)
(*                                                                         *)
(* The UTXO state is represented by the block whose exact post-state it    *)
(* is.                                                                     *)
(*                                                                         *)
(* Every durable operation is one MDBX transaction and is one step here;   *)
(* the process may crash between any two of them.                          *)
(***************************************************************************)
EXTENDS BlockTree

CONSTANTS
    FinalityDepth,    \* CONSENSUS_FINALITY_DEPTH (18)
    HeaderLookback,   \* recent_header_lookback() (35)
    SnapshotWindow,   \* headers kept in RAM by a snapshot install (155)
    MaxReplacement,   \* MAX_REORG_REPLACEMENT_BLOCKS (36)
    UndoRetention,    \* UNDO_RETENTION_DEPTH (36)
    ServingDepth,     \* RETAINED_BLOCK_SERVING_DEPTH (42)
    PruneHeightLimit, \* RETAINED_PAYLOAD_PRUNE_HEIGHT_LIMIT (16)
    Complete,         \* a terminal row that holds a complete HistoryStep proof
    NoAuthority       \* absence of the verified-suffix authority record

ASSUME MarkerAssumption == Complete \notin Block

ASSUME DepthAssumption ==
    /\ FinalityDepth \in Nat \ {0}
    /\ HeaderLookback \in Nat /\ SnapshotWindow \in Nat
    /\ MaxReplacement \in 1 .. HeaderLookback + 1
    /\ UndoRetention \in Nat /\ FinalityDepth < UndoRetention
    /\ ServingDepth \in Nat
    /\ PruneHeightLimit \in Nat \ {0}

VARIABLES
    (* durable tables *)
    headers,     \* T_HEADERS: height -> canonical block
    durableTip,  \* T_CHAIN_TIP and the tip of T_CONSENSUS_META
    durableFinalized, \* the finalized checkpoint of T_CONSENSUS_META
    segments,    \* T_SEGMENTS and T_STATE_META: the block whose state they hold
    undoLogs,    \* T_UNDO_LOGS: height -> state the undo log restores
    recentBlocks,\* T_RECENT_BLOCKS: heights whose body is retained
    terminals,   \* T_HISTORY_STEP_TERMINALS: height -> Complete, or the
                 \* authority tip a recursive-suffix marker points to
    watermark,   \* KEY_RETAINED_PAYLOAD_PRUNE_WATERMARK (0 when absent)
    authority,   \* KEY_VERIFIED_SUFFIX_AUTHORITY
    (* hot state of MdbxChainContext *)
    tip,         \* tip_height, tip_hash, tip_chain_work
    finalized,   \* finalized
    state,       \* the block whose post-state is materialized in RAM
    recent,      \* recent_headers
    staging,     \* reorg_staging: height -> state its undo log restores
    (* the holder of the chain write lock *)
    pc,          \* "idle", "suffix", "staging", "prune", "pruneUndo", "down"
    target,      \* tip of the suffix or replacement being applied, else genesis
    ancestor     \* ancestor height of the reorg being applied

durable == <<headers, durableTip, durableFinalized, segments, undoLogs,
             recentBlocks, terminals, watermark, authority>>
hot == <<tip, finalized, state, recent, staging>>
writer == <<pc, target, ancestor>>
vars == <<durable, hot, writer>>

Min2(a, b) == IF a <= b THEN a ELSE b
\* Mutant: a plain subtraction where the code saturates.
MonusUnclamped(a, b) == a - b
Monus(a, b) == IF a >= b THEN a - b ELSE 0
\* Tables are functions from heights: keep, delete or write some rows.
Keep(f, S) == [h \in DOMAIN f \cap S |-> f[h]]
Delete(f, S) == [h \in DOMAIN f \ S |-> f[h]]
Put(f, k, v) == [h \in DOMAIN f \cup {k} |-> IF h = k THEN v ELSE f[h]]
-------------------------------------------------------------------------------
(***************************************************************************)
(* Reads.                                                                  *)
(***************************************************************************)
\* get_header_from_store: RAM first, MDBX otherwise.
HeaderAt(h) == IF h \in DOMAIN recent THEN recent[h] ELSE headers[h]

\* finalized_for_tip: the checkpoint advances with the tip and never retreats.
FinalizedForTip(tipHeight) ==
    IF Monus(tipHeight, FinalityDepth) <= Height(finalized)
    THEN finalized
    ELSE HeaderAt(Monus(tipHeight, FinalityDepth))

\* recursive_suffix_marker_has_durable_authority, over the tables of one
\* transaction: the singleton record covers the marker, or the authority tip is
\* canonical and holds a complete terminal.
MarkerHasAuthority(h, auth, hdrs, terms, record) ==
    /\ Height(auth) > h
    /\ \/ /\ record /= NoAuthority
          /\ record.tip = auth
          /\ Height(record.boundary) < h
       \/ /\ Height(auth) \in DOMAIN hdrs
          /\ hdrs[Height(auth)] = auth
          /\ Height(auth) \in DOMAIN terms
          /\ terms[Height(auth)] = Complete

\* validate_history_step_parent_boundary_in_rw_txn for a child of block p.
ParentBoundaryValid(p, hdrs, terms, record) ==
    /\ Height(p) \in DOMAIN hdrs
    /\ hdrs[Height(p)] = p
    /\ p = Genesis \/
       /\ Height(p) \in DOMAIN terms
       /\ \/ terms[Height(p)] = Complete
          \/ /\ terms[Height(p)] /= Complete
             /\ MarkerHasAuthority(Height(p), terms[Height(p)], hdrs, terms, record)

\* validate_durable_tip_history_terminal, with
\* durable_tip_has_verified_suffix_authority for a marker.
TipTerminalValid ==
    LET h == Height(durableTip) IN
    \/ h = 0
    \/ /\ h \in DOMAIN terminals
       /\ \/ terminals[h] = Complete
          \/ /\ terminals[h] /= Complete
             /\ authority /= NoAuthority
             /\ Height(authority.boundary) < h
             /\ h < Height(authority.tip)
             /\ terminals[h] = authority.tip

\* restore_from_mdbx accepts the durable image; anything else is Corrupt.
RestoreAccepts ==
    /\ Height(durableFinalized) <= Height(durableTip)
    /\ Height(durableTip) \in DOMAIN headers
    /\ headers[Height(durableTip)] = durableTip
    /\ headers[Height(durableFinalized)] = durableFinalized
    /\ TipTerminalValid
    /\ segments = durableTip
-------------------------------------------------------------------------------
(***************************************************************************)
(* Applying blocks.                                                        *)
(***************************************************************************)
\* The RAM tip moves to b: the header enters the window and the one that fell
\* out of it leaves (end of commit_applied_next_block).
PublishTip(b) ==
    /\ tip' = b
    /\ state' = b
    /\ recent' = Delete(Put(recent, Height(b), b), {Height(b) - HeaderLookback - 1})

\* The MDBX transaction of commit_block for an accepted block b whose terminal
\* row is term, and the checks that make it fail.
CommitBlock(b, term) ==
    LET h == Height(b) IN
    /\ durableTip = Parent(b)
    /\ ParentBoundaryValid(Parent(b), headers, terminals, authority)
    /\ term = Complete \/
       /\ authority /= NoAuthority
       /\ authority.tip = term
       /\ Height(authority.boundary) < h
       /\ h < Height(authority.tip)
    /\ headers' = Put(headers, h, b)
    /\ durableTip' = b
    /\ durableFinalized' = FinalizedForTip(h)
    /\ segments' = b
    /\ undoLogs' = Put(undoLogs, h, state)
    /\ recentBlocks' = recentBlocks \cup {h}
    /\ terminals' = Put(terminals, h, term)
    /\ authority' = IF term = Complete THEN NoAuthority ELSE authority
    /\ UNCHANGED watermark

\* commit_applied_next_block outside a reorg: commit, publish in RAM, prune.
CommitAppliedNextBlock(b, term, remaining) ==
    /\ state = Parent(b)
    /\ CommitBlock(b, term)
    /\ PublishTip(b)
    /\ finalized' = FinalizedForTip(Height(b))
    /\ pc' = "prune"
    /\ target' = remaining
    /\ UNCHANGED <<staging, ancestor>>

\* commit_locally_proved_next_block, and apply_next_block for a block that
\* carries its own terminal: the exact successor of the tip under the lock.
CommitCompleteBlock(b) ==
    /\ pc = "idle"
    /\ Height(b) = Height(tip) + 1
    /\ Parent(b) = tip
    /\ CommitAppliedNextBlock(b, Complete, Genesis)

\* The tip's terminal row is a recursive-suffix marker.
TipIsMarker ==
    /\ Height(tip) /= 0
    /\ Height(tip) \in DOMAIN terminals
    /\ terminals[Height(tip)] /= Complete

\* Mutant: the record is always rebound to the new base.
SuffixAuthorityRebound(t) == [boundary |-> tip, tip |-> t]

\* The record begin_verified_recursive_suffix leaves: a suffix that resumes above a
\* marker keeps the one that covers the marker.
SuffixAuthority(t) == IF TipIsMarker THEN authority ELSE [boundary |-> tip, tip |-> t]

\* begin_preverified_recursive_suffix: the base of the plan is the tip under the
\* lock; a tip that is itself a marker admits only the target it points to.
BeginRecursiveSuffix(t) ==
    LET h == Height(tip) IN
    /\ pc = "idle"
    /\ h < Height(t)
    /\ Extends(t, tip)
    /\ durableTip = tip
    /\ TipIsMarker => /\ terminals[h] = t
                      /\ authority /= NoAuthority
                      /\ authority.tip = t
                      /\ Height(authority.boundary) < h
    /\ authority' = SuffixAuthority(t)
    /\ pc' = "suffix"
    /\ target' = t
    /\ UNCHANGED <<headers, durableTip, durableFinalized, segments, undoLogs,
                   recentBlocks, terminals, watermark, hot, ancestor>>

\* apply_verified_recursive_suffix_block for the next body of the live suffix.
\* Intermediate rows carry a marker, the last one the complete terminal.
ApplySuffixBlock ==
    LET b == Ancestor(target, Height(tip) + 1) IN
    /\ pc = "suffix"
    /\ Parent(b) = tip
    /\ IF b = target
       THEN CommitAppliedNextBlock(b, Complete, Genesis)
       ELSE CommitAppliedNextBlock(b, target, target)

\* A body of the live suffix is rejected or cannot be committed: the candidate
\* state is rolled back and the bodies already applied stay canonical.
RejectSuffixBlock ==
    /\ pc = "suffix"
    /\ pc' = "idle"
    /\ target' = Genesis
    /\ UNCHANGED <<durable, hot, ancestor>>
-------------------------------------------------------------------------------
(***************************************************************************)
(* Reorganization: revert in RAM, apply the replacement in RAM, then one   *)
(* transaction replaces the old suffix.                                    *)
(***************************************************************************)
\* Mutant: no bound on the number of replacement blocks.
ReorgAdmissibleUncapped(a, t) ==
    /\ a < Height(tip)
    /\ Height(tip) - a <= FinalityDepth
    /\ Height(finalized) <= a
    /\ a < Height(t)
    /\ Ancestor(t, a) = HeaderAt(a)
    /\ Wins(t, tip)

\* authorize_preverified_reorg_suffix, the admission half of
\* apply_verified_reorg_suffix_with_applier_indexed and the guards of
\* apply_reorg_mdbx_with_objects, all under the write lock.
ReorgAdmissible(a, t) ==
    /\ a < Height(tip)
    /\ Height(tip) - a <= FinalityDepth
    /\ Height(finalized) <= a
    /\ a = Height(finalized) => HeaderAt(a) = finalized
    /\ a < Height(t)
    /\ Height(t) - a <= MaxReplacement
    /\ Ancestor(t, a) = HeaderAt(a)
    /\ Wins(t, tip)

\* Every undo log is present before any RAM state changes, the ancestor's own
\* row included.
UndoLogsPresent(a) ==
    /\ a /= 0 => a \in DOMAIN undoLogs
    /\ \A h \in a + 1 .. Height(tip) : h \in DOMAIN undoLogs

\* Reverting height h yields the state of the canonical header below it.
UndoRestoresParent(h) == undoLogs[h] = headers[h - 1]

\* apply_reorg_mdbx_with_objects up to the first replacement block: the RAM view
\* is reverted to the ancestor while MDBX stays on the old branch.
BeginReorg(a, t) ==
    /\ pc = "idle"
    /\ ReorgAdmissible(a, t)
    /\ UndoLogsPresent(a)
    /\ \A h \in a + 1 .. Height(tip) : UndoRestoresParent(h)
    /\ tip' = HeaderAt(a)
    /\ state' = undoLogs[a + 1]
    /\ recent' = Delete(recent, a + 1 .. Height(tip))
    /\ staging' = << >>
    /\ pc' = "staging"
    /\ target' = t
    /\ ancestor' = a
    /\ UNCHANGED <<durable, finalized>>

\* apply_verified_recursive_suffix_block under staging: the block is applied in
\* RAM, its commit is staged and finality is deferred.
StageReorgBlock ==
    LET b == Ancestor(target, Height(tip) + 1) IN
    /\ pc = "staging"
    /\ tip /= target
    /\ Parent(b) = tip
    /\ state = tip
    /\ staging' = Put(staging, Height(b), state)
    /\ PublishTip(b)
    /\ UNCHANGED <<durable, finalized, writer>>

\* Mutant: markers at or below the ancestor keep the authority tip of the branch
\* that is being removed.
ReorgTerminalsUnbound ==
    [h \in {k \in DOMAIN terminals : k <= ancestor} \cup (ancestor + 1 .. Height(target)) |->
        IF h = Height(target) THEN Complete
        ELSE IF h > ancestor THEN target
        ELSE terminals[h]]

\* Terminal rows after commit_reorg: the old suffix is gone, the replacement
\* carries markers below its complete tip, and markers that survive in the
\* finality window at or below the ancestor are rebound to the new tip.
ReorgTerminals ==
    LET kept == {h \in DOMAIN terminals : h <= ancestor} IN
    [h \in kept \cup (ancestor + 1 .. Height(target)) |->
        IF h = Height(target) THEN Complete
        ELSE IF h > ancestor THEN target
        ELSE IF h >= ancestor - FinalityDepth /\ terminals[h] /= Complete THEN target
        ELSE terminals[h]]

ReorgHeaders ==
    [h \in {k \in DOMAIN headers : k <= ancestor} \cup (ancestor + 1 .. Height(target)) |->
        IF h <= ancestor THEN headers[h] ELSE Ancestor(target, h)]

\* Mutant: rows of the old branch are not overwritten.
ReorgUndoLogsStale ==
    [h \in DOMAIN undoLogs \cup DOMAIN staging |->
        IF h \in DOMAIN undoLogs THEN undoLogs[h] ELSE staging[h]]

\* Undo rows after commit_reorg: the staged ones above the ancestor.
ReorgUndoLogs ==
    [h \in {k \in DOMAIN undoLogs : k <= ancestor} \cup DOMAIN staging |->
        IF h <= ancestor THEN undoLogs[h] ELSE staging[h]]

\* The checks of commit_reorg: a bounded depth against the durable tip, and a
\* valid HistoryStep parent boundary for every replacement block.
ReorgCommitValid ==
    /\ ancestor <= Height(durableTip)
    /\ Height(durableTip) - ancestor <= FinalityDepth
    /\ \A h \in ancestor + 1 .. Height(target) :
          ParentBoundaryValid(Ancestor(target, h - 1), ReorgHeaders, ReorgTerminals, authority)

\* commit_reorg: one transaction replaces the old suffix, then RAM finality
\* advances and pruning follows.
CommitReorg ==
    LET fin == FinalizedForTip(Height(tip)) IN
    /\ pc = "staging"
    /\ tip = target
    /\ ReorgCommitValid
    /\ headers' = ReorgHeaders
    /\ durableTip' = target
    /\ durableFinalized' = fin
    /\ segments' = state
    /\ undoLogs' = ReorgUndoLogs
    /\ recentBlocks' = {h \in recentBlocks : h <= ancestor} \cup (ancestor + 1 .. Height(target))
    /\ terminals' = ReorgTerminals
    /\ watermark' = Min2(watermark, ancestor)
    /\ authority' = NoAuthority
    /\ finalized' = fin
    /\ staging' = << >>
    /\ pc' = "prune"
    /\ target' = Genesis
    /\ ancestor' = 0
    /\ UNCHANGED <<tip, state, recent>>

\* Mutant: the resident State segments are not reloaded.
LoadHotStateStale ==
    /\ tip' = durableTip
    /\ finalized' = durableFinalized
    /\ recent' = Keep(headers, Monus(Height(durableTip), HeaderLookback) .. Height(durableTip))
    /\ staging' = << >>
    /\ UNCHANGED state

\* The hot view read back from MDBX (restore_from_mdbx and
\* reload_hot_state_from_mdbx).
LoadHotState ==
    /\ tip' = durableTip
    /\ finalized' = durableFinalized
    /\ state' = segments
    /\ recent' = Keep(headers, Monus(Height(durableTip), HeaderLookback) .. Height(durableTip))
    /\ staging' = << >>

\* abort_staged_reorg: a replacement body or the commit fails, and the old
\* branch, still durable, is loaded again.
AbortReorg ==
    /\ pc = "staging"
    /\ LoadHotState
    /\ pc' = "idle"
    /\ target' = Genesis
    /\ ancestor' = 0
    /\ UNCHANGED durable
-------------------------------------------------------------------------------
(***************************************************************************)
(* Snapshot install.                                                       *)
(***************************************************************************)
\* The walk of install_finalized_snapshot_staging over the sealed headers of t:
\* they contain the accepted tip, or they leave the accepted chain at a height
\* a + 1 above finality within the permitted depth and t wins fork choice.
SnapshotHeadersAdmit(t) ==
    \/ Extends(t, durableTip)
    \/ \E a \in Height(durableFinalized) .. Height(durableTip) - 1 :
         /\ Ancestor(t, a) = headers[a]
         /\ Ancestor(t, a + 1) /= headers[a + 1]
         /\ Height(durableTip) - a <= FinalityDepth
         /\ Wins(t, durableTip)

\* Mutant: the watermark is cleared with the tables of the old epoch.
SnapshotWatermarkCleared(t) == 0

\* A fresh epoch has retired everything below the boundary, whose terminal stays.
SnapshotWatermark(t) == Height(t) - 1

\* apply_staged_state_snapshot: state, headers, terminal and metadata of the
\* boundary t replace the local epoch in one transaction; undo logs, bodies,
\* terminals, watermark and authority of the old epoch are cleared.
InstallSnapshot(t) ==
    /\ pc = "idle"
    /\ Height(t) > Height(tip)
    /\ DOMAIN headers = 0 .. Height(durableTip)
    /\ SnapshotHeadersAdmit(t)
    /\ headers' = [h \in 0 .. Height(t) |-> Ancestor(t, h)]
    /\ durableTip' = t
    /\ durableFinalized' = t
    /\ segments' = t
    /\ undoLogs' = << >>
    /\ recentBlocks' = {}
    /\ terminals' = [h \in {Height(t)} |-> Complete]
    /\ watermark' = SnapshotWatermark(t)
    /\ authority' = NoAuthority
    /\ tip' = t
    /\ finalized' = t
    /\ state' = t
    /\ recent' = [h \in Monus(Height(t), SnapshotWindow) .. Height(t) |-> Ancestor(t, h)]
    /\ UNCHANGED <<staging, writer>>
-------------------------------------------------------------------------------
(***************************************************************************)
(* Retention: prune_after_commit runs two transactions after the commit    *)
(* that it follows and its errors are ignored.                             *)
(***************************************************************************)
\* The writer goes on with the live suffix it is applying, or is done.
AfterPruning == IF target = Genesis THEN "idle" ELSE "suffix"

PruneCutoff ==
    Min2(Monus(Height(durableTip), ServingDepth), Height(durableFinalized))

\* Heights below the cutoff that prune_retained_payloads_bounded may retire now.
PruneBudget == Min2(PruneHeightLimit, PruneCutoff - watermark - 1)

\* The preflight of every height the transaction touches: a missing terminal row
\* is an error that discards the whole transaction and skips the next one.
PrunePreflight(last) ==
    \A h \in watermark + 1 .. last : h \in DOMAIN terminals

\* prune_retained_payloads_bounded: retire body and terminal of the next n
\* heights below the cutoff; once all are retired, drop the cutoff's body.  The
\* byte budget may stop the pass after any height but the first, and may also
\* spare the cutoff's body.
PrunePayloads(n, dropBoundaryBody) ==
    LET last == watermark + n
        boundary == IF last + 1 = PruneCutoff /\ dropBoundaryBody THEN {PruneCutoff} ELSE {} IN
    /\ pc = "prune"
    /\ PruneCutoff > watermark
    /\ n <= PruneBudget
    /\ PruneBudget > 0 => n > 0
    /\ PrunePreflight(IF last + 1 = PruneCutoff THEN PruneCutoff ELSE last)
    /\ recentBlocks' = recentBlocks \ ((watermark + 1 .. last) \cup boundary)
    /\ terminals' = Delete(terminals, watermark + 1 .. last)
    /\ watermark' = last
    /\ pc' = "pruneUndo"
    /\ UNCHANGED <<headers, durableTip, durableFinalized, segments, undoLogs,
                   authority, hot, target, ancestor>>

\* Nothing to retire yet.
PruneNothing ==
    /\ pc = "prune"
    /\ PruneCutoff <= watermark
    /\ pc' = "pruneUndo"
    /\ UNCHANGED <<durable, hot, target, ancestor>>

\* The second transaction of prune_after_commit: undo logs outside the
\* retention depth.
PruneUndoLogs ==
    /\ pc = "pruneUndo"
    /\ undoLogs' = Delete(undoLogs, {h \in 0 .. Height(durableTip) - UndoRetention :
                                         Height(durableTip) > UndoRetention})
    /\ pc' = AfterPruning
    /\ UNCHANGED <<headers, durableTip, durableFinalized, segments, recentBlocks,
                   terminals, watermark, authority, hot, target, ancestor>>

\* Either pruning transaction fails; the accepted block is already durable and
\* the error is dropped.
PruneFails ==
    /\ pc \in {"prune", "pruneUndo"}
    /\ pc' = AfterPruning
    /\ UNCHANGED <<durable, hot, target, ancestor>>
-------------------------------------------------------------------------------
(***************************************************************************)
(* Process life cycle.                                                     *)
(***************************************************************************)
\* The process stops anywhere; only the MDBX tables survive.
Crash ==
    /\ pc /= "down"
    /\ pc' = "down"
    /\ tip' = Genesis
    /\ finalized' = Genesis
    /\ state' = Genesis
    /\ recent' = << >>
    /\ staging' = << >>
    /\ target' = Genesis
    /\ ancestor' = 0
    /\ UNCHANGED durable

\* persist_genesis into empty tables, and the matching hot view.
PersistGenesis ==
    /\ headers' = [h \in {0} |-> Genesis]
    /\ durableTip' = Genesis
    /\ durableFinalized' = Genesis
    /\ segments' = Genesis
    /\ undoLogs' = [h \in {0} |-> Genesis]
    /\ recentBlocks' = {}
    /\ terminals' = << >>
    /\ watermark' = 0
    /\ authority' = NoAuthority
    /\ tip' = Genesis
    /\ finalized' = Genesis
    /\ state' = Genesis
    /\ recent' = [h \in {0} |-> Genesis]
    /\ staging' = << >>

\* open_or_create on a populated store: restore it, or clear every table and
\* start again from genesis when the durable image is corrupt.
Restart ==
    /\ pc = "down"
    /\ IF RestoreAccepts
       THEN LoadHotState /\ UNCHANGED durable
       ELSE PersistGenesis
    /\ pc' = "idle"
    /\ UNCHANGED <<target, ancestor>>

\* open_or_create on an empty store.
Init ==
    /\ headers = [h \in {0} |-> Genesis]
    /\ durableTip = Genesis
    /\ durableFinalized = Genesis
    /\ segments = Genesis
    /\ undoLogs = [h \in {0} |-> Genesis]
    /\ recentBlocks = {}
    /\ terminals = << >>
    /\ watermark = 0
    /\ authority = NoAuthority
    /\ tip = Genesis
    /\ finalized = Genesis
    /\ state = Genesis
    /\ recent = [h \in {0} |-> Genesis]
    /\ staging = << >>
    /\ pc = "idle"
    /\ target = Genesis
    /\ ancestor = 0

Next ==
    \/ \E b \in Block :
         \/ CommitCompleteBlock(b)
         \/ BeginRecursiveSuffix(b)
         \/ InstallSnapshot(b)
         \/ \E a \in 0 .. Height(tip) : BeginReorg(a, b)
    \/ ApplySuffixBlock
    \/ RejectSuffixBlock
    \/ StageReorgBlock
    \/ CommitReorg
    \/ AbortReorg
    \/ \E n \in 0 .. PruneHeightLimit, dropBody \in BOOLEAN : PrunePayloads(n, dropBody)
    \/ PruneNothing
    \/ PruneUndoLogs
    \/ PruneFails
    \/ Crash
    \/ Restart

Spec == Init /\ [][Next]_vars
-------------------------------------------------------------------------------
(***************************************************************************)
(* Properties.                                                             *)
(***************************************************************************)
\* A table from heights to values of S.
IsTable(f, S) == DOMAIN f \subseteq Nat /\ f \in [DOMAIN f -> S]

\* Type invariant of the tables, the hot view and the writer.
TypeOK ==
    /\ IsTable(headers, Block)
    /\ durableTip \in Block
    /\ durableFinalized \in Block
    /\ segments \in Block
    /\ IsTable(undoLogs, Block)
    /\ recentBlocks \subseteq Nat
    /\ IsTable(terminals, Block \cup {Complete})
    /\ watermark \in Nat
    /\ authority \in [boundary : Block, tip : Block] \cup {NoAuthority}
    /\ tip \in Block
    /\ finalized \in Block
    /\ state \in Block
    /\ IsTable(recent, Block)
    /\ IsTable(staging, Block)
    /\ pc \in {"idle", "suffix", "staging", "prune", "pruneUndo", "down"}
    /\ target \in Block
    /\ ancestor \in Nat

\* Whenever the write lock is free, or held by a writer that is not staging a
\* reorg, RAM and MDBX name the same tip, checkpoint and state: a rejected body,
\* an aborted reorg, a failed prune and a restart all leave the two in step.
HotMirrorsDurable ==
    /\ pc \notin {"staging", "down"} => tip = durableTip /\ state = segments
    /\ pc /= "down" => finalized = durableFinalized

\* open_or_create never takes its Corrupt branch, which clears the whole
\* database: at every instant a crash may strike, the durable tip is genesis,
\* holds a complete terminal, or is a marker covered by the authority record, and
\* the tip, checkpoint and state tables agree.
DurableImageRestorable == RestoreAccepts

\* Every header read by the native checks finds a row and follows the branch
\* being applied, in particular during a staged reorg, when a height that has
\* left the RAM window would be read from the old branch still in MDBX.
HeaderReadsFollowTip ==
    pc /= "down" =>
        \A h \in 0 .. Height(tip) :
            /\ h \in DOMAIN recent \cup DOMAIN headers
            /\ HeaderAt(h) = Ancestor(tip, h)

\* Each non-final block can be reverted and served: its undo log restores its
\* parent's state, and its body and terminal rows are retained.
NonfinalSuffixCovered ==
    \A h \in Height(durableFinalized) + 1 .. Height(durableTip) :
        /\ h \in DOMAIN undoLogs
        /\ undoLogs[h] = Ancestor(durableTip, h - 1)
        /\ h \in recentBlocks
        /\ h \in DOMAIN terminals

\* Compact-sync markers never block the chain: the tip is always a valid parent
\* boundary for its successor, and a fully staged reorg always passes the parent
\* checks of commit_reorg, whatever markers survive below its ancestor.
MarkersNeverBlockCommit ==
    /\ ParentBoundaryValid(durableTip, headers, terminals, authority)
    /\ pc = "staging" /\ tip = target => ReorgCommitValid

\* prune_retained_payloads_bounded never meets a missing terminal row, so an
\* ignored pruning error can never stall retention for good.
RetirementNeverStalls ==
    \A h \in watermark + 1 .. PruneCutoff : h \in DOMAIN terminals

(***************************************************************************)
(* The inductive invariant behind these properties.                        *)
(***************************************************************************)
\* The header table is exactly the chain of the durable tip, the checkpoint lies
\* on it within the finality depth, and the state tables hold the tip's state.
ChainInv ==
    /\ DOMAIN headers = 0 .. Height(durableTip)
    /\ \A h \in 0 .. Height(durableTip) : headers[h] = Ancestor(durableTip, h)
    /\ Extends(durableTip, durableFinalized)
    /\ Height(durableTip) - Height(durableFinalized) <= FinalityDepth
    /\ segments = durableTip
    /\ TipTerminalValid

\* Pruning stays below the checkpoint and has retired exactly a prefix.
RetentionInv ==
    /\ watermark = 0 \/ watermark < Height(durableFinalized)
    /\ \A h \in watermark + 1 .. Height(durableTip) : h \in DOMAIN terminals
    /\ NonfinalSuffixCovered

\* The RAM window holds headers of the branch being applied only, and outside a
\* reorg the hot view is the durable one.
HotInv ==
    pc /= "down" =>
        /\ finalized = durableFinalized
        /\ state = tip
        /\ \A h \in DOMAIN recent : h <= Height(tip) /\ recent[h] = Ancestor(tip, h)
        /\ pc /= "staging" => tip = durableTip

\* A live suffix under way leads from the tip to its target.
SuffixInv ==
    /\ pc \in {"idle", "down"} => target = Genesis
    /\ pc = "suffix" => target /= Genesis
    /\ pc \in {"suffix", "prune", "pruneUndo"} /\ target /= Genesis =>
           Extends(target, tip) /\ Height(tip) < Height(target)

\* A staged reorg: the RAM branch leaves the durable one at the ancestor, leads to
\* a winning target, and every replaced height is still in the RAM window.
StagingInv ==
    pc = "staging" =>
        /\ Height(durableFinalized) <= ancestor
        /\ ancestor < Height(durableTip)
        /\ Height(durableTip) - ancestor <= FinalityDepth
        /\ ancestor <= Height(tip)
        /\ ancestor < Height(target)
        /\ Height(target) - ancestor <= MaxReplacement
        /\ Extends(target, tip)
        /\ Ancestor(target, ancestor) = Ancestor(durableTip, ancestor)
        /\ Wins(target, durableTip)
        /\ DOMAIN staging = ancestor + 1 .. Height(tip)
        /\ \A h \in DOMAIN staging :
              staging[h] = Ancestor(target, h - 1) /\ h \in DOMAIN recent

IndInv == TypeOK /\ ChainInv /\ RetentionInv /\ HotInv /\ SuffixInv /\ StagingInv
-------------------------------------------------------------------------------
Canonical == INSTANCE CanonicalChain WITH tip <- durableTip, finalized <- durableFinalized

\* The durable tip and checkpoint implement the abstract canonical chain, through
\* appends, partial suffixes, reorgs, snapshot installs, crashes and restarts.
ImplementsCanonicalChain == Canonical!Spec

\* docs/architecture/synchronization.md: "the accepted rollback depth must be
\* less than 18. The maximum canonical reorganization is therefore 17 blocks."
RollbackBelowFinalityDepth ==
    [][Extends(durableTip',
               Ancestor(durableTip, Monus(Height(durableTip), FinalityDepth - 1)))]_vars

\* docs/architecture/synchronization.md: "Recent undo data and block bodies cover
\* this suffix": the undo rows a reorg asks for exist for every ancestor from the
\* finalized boundary up.
EveryNonfinalAncestorRevertible ==
    pc = "idle" => \A a \in Height(finalized) .. Height(tip) - 1 : UndoLogsPresent(a)
===============================================================================
