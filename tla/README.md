# Verification of the Parano1d node

TLA+ specifications of the node software in this repository, the TLC runs that
model-check them on small instances, and TLAPS proofs of their safety properties
for every value of the parameters.

## The system and its parts

A Parano1d node keeps one canonical chain: a sparse vector of UTXO slots (the
State), the headers from genesis, and a bounded suffix of bodies, undo logs and
recursive HistoryStep terminals. Proof of work orders chains, blocks deeper than
`CONSENSUS_FINALITY_DEPTH` (18) are final, and a node may join by installing a
verified snapshot of the State at a recent boundary.

| Part | Source | Model |
|---|---|---|
| Chain store: MDBX tables, hot RAM context, chain writer | `noid_chain/src/storage/mdbx_store.rs`, `mdbx_context.rs` | `ChainStore` |
| Fork choice | `noid_chain/src/consensus/fork_choice.rs` | `ForkChoice` |
| What readers of the chain are promised | the two above | `CanonicalChain` (abstract) |
| Exact suffix application under the write lock | `noid_node/src/main.rs` | `ChainStore` |
| Header DAG, its handlers and its reconciliation with the chain | `noid_node/src/networking/header_dag.rs`, `main.rs` | `HeaderDag` |
| Exact-object fetch of a suffix plan | `networking/suffix_sync.rs`, `object_fetcher.rs`, `main.rs`, `noid_p2p` | `SuffixSync` |
| Mempool, fee floor, deliveries, template selection | `noid_mempool`, `noid_chain/src/mempool.rs`, `main.rs` | `Mempool`, `FeeFloor` |
| Internal miner | `noid_miner/src/miner.rs` | `Miner` |
| Mining readiness | `networking/mining_readiness.rs`, `main.rs` | `MiningReadiness` |

How they meet: the store implements `CanonicalChain`; `HeaderDag` runs beside an
instance of it; `SuffixSync` fetches what a plan from the DAG needs, until the plan is
taken for the apply; the apply commits in the store and delivers the new view to the
mempool, both under the operation gate (`Mempool`); the commit is announced to the
readiness logic and to the miner; the miner obeys the two flags that `MiningReadiness`
publishes and reads its transactions from `Mempool`. Each model takes the others'
effects as steps of its environment that may happen at any moment the code allows.

`PROJECT.json` lists every component with its status, every definition with the
lines it models, and the hazards at the lines where they bite. The mapped lines are
under 2% of the repository's: most of it is the proof system, its circuits and their
tests, whose content is algebra, not state.

## Modules

**`ForkChoice`** is `choose_chain_by_work`: more cumulative work wins and on a tie
the smaller tip hash does.

**`BlockTree`** is the tree of blocks. A block is the path that leads to it from
genesis, so that a block determines its ancestors just as a block hash commits to
them. Every block tree, work function and hash order is allowed that satisfies
`BlockAssumption`.

**`CanonicalChain`** is the abstract specification: a tip and a finalized checkpoint.
Each step moves the tip to a chain that wins fork choice, keeps the checkpoint and
gives up at most `FinalityDepth` blocks; the checkpoint only advances.

### `ChainStore`

One node. The State is represented by the block whose post-state it is. The variables
come in three groups.

- *Durable*: one variable per MDBX table that a chain decision reads (headers, tip
  and consensus metadata, segments, undo logs, bodies, terminals, prune watermark,
  suffix authority).
- *Hot*: the fields of `MdbxChainContext` (tip, finalized, materialized state, the
  RAM header window, staged reorg commits).
- *Writer*: what the holder of the chain write lock is doing.

Each MDBX transaction is one step, because MDBX commits it atomically, and `Crash`
may come between any two.

| Action | Code |
|---|---|
| `CommitCompleteBlock` | `commit_locally_proved_next_block`, `apply_next_block` |
| `BeginRecursiveSuffix`, `ApplySuffixBlock`, `RejectSuffixBlock` | the live suffix: `begin_preverified_recursive_suffix`, `apply_verified_recursive_suffix_block` and its rollback |
| `BeginReorg`, `StageReorgBlock`, `CommitReorg`, `AbortReorg` | `apply_verified_reorg_suffix_with_applier_indexed`, `apply_reorg_mdbx_with_objects`, `commit_reorg`, `abort_staged_reorg` |
| `InstallSnapshot` | `apply_staged_state_snapshot`, `install_finalized_snapshot_staging` |
| `PrunePayloads`, `PruneNothing`, `PruneUndoLogs`, `PruneFails` | the two transactions of `prune_after_commit`, whose errors the callers drop |
| `Crash`, `Restart` | process life cycle, `open_or_create` |

A terminal row is either `Complete` or a *marker*: the authority tip that a body
applied from a compact suffix points to. The byte budget of pruning is a
nondeterministic stop after any height but the first. Any body may be rejected, so
consensus validity of bodies is nondeterministic too.

### `HeaderDag`

The bounded DAG of validated headers and the event loop that owns it. The durable chain
in it is `CanonicalChain`, instantiated, with the checkpoint rule of
`finalized_for_tip`: other tasks may commit at any moment except while the
reconciliation holds the chain read lock. Because `ChainStore` implements
`CanonicalChain`, what holds here holds beside the real store. The handlers are split
where the code awaits, and each insert is a step of its own.

| Action | Code |
|---|---|
| `AnnounceChild` | a header announcement that is a child of the durable tip |
| `ReceiveHeaders`, `HeadersValidated`, `RecordHeader`, `FinishRecord` | a `HeaderInventoryBatch`: `plan_header_inventory` up to its await, the worker's answer, `record_validated_headers`, the inventory and `selected_path_from` |
| `RemoveInventoryProvider` | a disconnect or `quarantine_exact_suffix_sources` |
| `Heartbeat`, `ReconcileRow`, `FinishReconcile`, `Probe` | the heartbeat: `reconcile_canonical_header_dag` with its rebuild, its rows and `advance_finalized`, then the probe of an unresolved better tip |
| `CommitCanonical` | a commit by another task |
| `Restart` | the start of the event loop |

Whether a header is valid, whether a timer has elapsed, whether a sender is still a
provider and how deep the RAM window reaches are nondeterministic. Loading a row from
MDBX does not fail: `ChainStore` shows that the header table holds the whole chain.

### `Mempool` and `FeeFloor`

`FeeFloor` is the floor's record, its median window and its pressure latch
(`noid_mempool/src/floor.rs`). `Mempool` is the pool behind its mutex, the submitting
tasks, the committing tasks and the miner's selection. An intent is a record of the
slots it spends and fills, its fee, size, pages, anchor, deadlines and the owner
authorization versions its proof verifies under. Each critical section is one step; an
authorization proof is verified outside the mutex.

| Action | Code |
|---|---|
| `PreFilter`, `StartVerify`, `FinishVerify`, `Admit`, `Refuse` | `submit_inner`: the checks before the await, the permit, the verification, the second checks with the admission or the eviction, the refusals |
| `Cancel`, `OrphanExits` | the caller's future is dropped; the blocking worker goes on and keeps its permit |
| `TakeGate`, `AppendBlock`, `ReorgTo`, `InstallSnapshot`, `DeliverView`, `ReadmitAfterReorg`, `ReleaseGate` | `apply_exact_suffix_offthread` and `apply_verified_snapshot_boundary`: the commit, `on_new_block`, `readmit_after_reorg`, under the operation gate |
| `CommitMined` | `apply_found_block` |
| `CaptureParent`, `SelectTemplate`, `DropTemplate` | the miner: the parent is read, then `build_from_snapshot_with_limit` selects, rechecks and builds |

`SelectTemplate` follows the three paths of `noid_miner/src/template.rs:380-447`. With the
finance runtime of v2.1 (`Finance`) the pool's view must be the parent itself
(`require_parent`); without it, from v2 on, only the heights must agree
(`select_for_v2_mining`); before v2 nothing is compared, and the entries are chosen by
their epoch anchor, as on every path. The calls are then checked again at the height of
the candidate (`Recheck`), entries that pay less than the parent's fee are left out, and
the build fails as a whole when an entry does not apply to the parent's state. The limits
of the build on inputs, outputs, actions and segments, which skip an entry, are left out.

### `Miner`

`BlockMiner::run`, one step per read or select branch, with the program counter in
`pc`, the two blocking workers, and what other tasks write: the tip, the payout
address, the two readiness watches (value and unseen version), the template-change
broadcast, admissions and the two shutdown flags. `cancel.store(false, Relaxed)` may
become visible late (`StoreVisible`), as the memory model allows.

| Actions | Code |
|---|---|
| `Top`, `WaitFirst`, `WaitLoop`, `WaitChanged`, `WaitPoll` | the head of the loop, `wait_for_proof_network` |
| `DrainNotifications`, `Capture`, `RetryLater`, `Build` | the template: old changes are drained, then chain and pool are read |
| `PrepareResult`, `PrepareChanged`, `PrepareSync`, `PreparePoll`, `PrepareDrained` | the select over the proving worker |
| `StopCheck` ... `NonceCheck`, `Await*`, `Recheck`, `RecheckSync` | the checks before the search and the wait for frontier authority |
| `MarkProof`, `MarkNonce`, `ResetCancel`, `RaceCheck`, `SpawnPow` | the start of the search |
| `PowResult`, `PowHeartbeat`, `PowAdmission`, `PowChanged`, `PowNonce`, `PowSync`, `PowDrained` | the select over the search worker |
| `Found`, `FoundAuthority`, `Seal`, `SealFails`, `Sealed`, `SealedAuthority`, `ApplyFoundBlock` | from the nonce to the commit |
| `CommitElsewhere`, `NotifyTip`, `SwitchPayout`, `PublishProof`, `PublishNonce`, `Admit`, `StopLoop`, `StopSearch` | the other tasks |

### `MiningReadiness`

`MiningReadiness` behind `MiningPeerQuorum`. A lease is the time it has left. Handlers
of the event loop are actions (`CompleteJob`, `HandleTipWatch`, `Heartbeat`,
`AdmitSuffix`, `AdmitSnapshot`, `FailPlan`, `ExtinguishPlan`, `Connect`, `ConfirmTip`,
`ObserveCompatible`, `RejectIncompatible`, `Disconnect`), each with the publication that
ends it; `CommitLocal` and `CommitJob` move the durable tip before the loop learns of it;
`Tick` is the clock. A node started with `--genesis` is isolated and always ready
(`mining_readiness.rs:184-191`); that mode is not modelled.

### `SuffixSync`

One suffix plan, from its creation to the apply or its retirement: the jobs of
`ObjectFetcher`, the requests of `SuffixSync`, the network layer with requests on the
wire and three event lanes that keep no order between them. Every handler ends with the
dispatch (expire, assign primaries and hedges, rotate, hand to the network, undo what
finds the command lane full).

| Action | Code |
|---|---|
| `StartPlan`, `HandleInventory` | the plan is admitted; `merge_active_suffix_inventory` |
| `HandleResponse` | `accept_response`, with the members applied in order up to the first refusal |
| `HandleRequestFailed`, `HandleBusy`, `DiscardEvent` | `request_failed`, `defer_request`, `reject_response_provider`, `request_busy`, an unknown token |
| `HandleConnected`, `HandleDisconnected`, `Heartbeat`, `Retire` | the other handlers of `main.rs` |
| `Unpark`, `EndGrace` | time |
| `Answer`, `Refuse`, `CloseConnection`, `OpenConnection`, `SendInventory` | the network layer and the peers |

`try_start_exact_suffix_apply` follows an inventory and a response. It may refuse a
complete plan because another apply is in flight, the header DAG is faulted or the target
is off its best tip; that is the state of other components, so `TryStartApply` leaves it
to choice, up to `MaxRefusals` times. The bodies asked of one peer are one request:
they are not split at `MAX_OBJECTS_PER_REQUEST` or at the payload limit. The
handler of a failed request also knows `request_unavailable`, but the network layer raises
that kind for snapshots and history terminals only, so it is left out.

`Stable` and `Correct` name the peers that stay connected and that serve what they
list; the other peers may do anything the network layer lets through.

The **MC** modules instantiate these for TLC (`Miner` needs none); the **Proofs**
modules hold the theorems. The definitions marked *Mutant* in a comment are plausible
mistakes in the definition that follows them. Each is known to break the property that
`PROJECT.json` pairs it with, which shows that the property depends on the code.

## Runs

| Run | Result |
|---|---|
| `chain_store` | passes: type invariant, six safety invariants, refinement of `CanonicalChain` |
| `header_dag` | passes: five safety invariants and `FaultClears`, under fairness |
| `mempool` | passes: seven safety invariants |
| `miner` | passes: four safety invariants and two liveness properties |
| `readiness` | passes: two safety invariants and three liveness properties |
| `suffix_fetch` | passes: two safety invariants, an action property and `FetchCompletes`, under fairness |
| `suffix_completes` | passes: a safety invariant, an action property, `FetchCompletes` and `CompleteIsApplied`, under fairness |
| `doc_rollback_depth`, `doc_undo_coverage`, `doc_dag_reconcile`, `doc_search_authority`, `doc_encoding_released` | violated: the five findings below |

The properties of `chain_store`:

- `HotMirrorsDurable`: rejected bodies, aborted reorgs, failed pruning and restarts
  leave RAM and MDBX in step.
- `DurableImageRestorable`: a crash anywhere leaves an image that `restore_from_mdbx`
  accepts; the alternative is that `open_or_create` clears the database.
- `HeaderReadsFollowTip`: while a reorg is staged MDBX still holds the old branch, and
  no header read may fall through to it. This rests on
  `MAX_REORG_REPLACEMENT_BLOCKS <= recent_header_lookback() + 1` (36 and 35), which no
  assertion in the code states.
- `NonfinalSuffixCovered`: every non-final block can be reverted and served.
- `MarkersNeverBlockCommit`: the marker rebinding of `commit_reorg` is enough for every
  later commit.
- `RetirementNeverStalls`: pruning never meets a missing row, an error the code
  would drop and meet again at every block.
- `ImplementsCanonicalChain`: the refinement.

The properties of `header_dag`:

- `DagConnected`, `BestIsBest`: eviction, pruning and rebuilds never cut a branch from
  the finalized point and never lose the winner.
- `DagBounded`: the bounds on headers and on providers per header, and no provider set
  outlives its header.
- `CheckpointsAgree`: however far the DAG lags, its finalized point is an ancestor of
  the durable checkpoint, so the "conflicts with HeaderDAG authority" error is
  unreachable.
- `SelectionCoversCommitted`: the selection never falls behind the durable tip it was
  last reconciled with. That tip itself may have been evicted.
- `FaultClears`: the retry of the heartbeat clears every fault, except while the
  selected branch leaves the durable chain below its checkpoint (the third finding)
  or the selected path and the durable chain together exceed the capacity.

The properties of `mempool`:

- `ViewFollowsChain`: whenever the operation gate is free the pool judges intents by the
  durable tip.
- `PoolMinable`: every entry is valid and authorized for the next block on the view,
  whatever was committed or reorganized while its proof was verified.
- `SlotSetsExact`, `ChecksCoverIndex`: the sets behind the constant-time conflict checks
  are exact, so the pool never reports a conflict that `submit_inner` would have to call
  an internal error.
- `LimitsHold`: entry, byte and worker limits, with submissions that verify at once and
  workers that outlive their submission.
- `FloorFollowsPool`: the pressure latch agrees with the fill after every change.
- `TemplateValid`: what the miner selected is valid together on its parent, although the
  gate is released before the selection and the view may have moved. The build repeats
  the checks of context and slots; proofs are not verified again. They verify at the
  height of the candidate from v2 on, where the heights of view and parent agree. Before
  v2 the view may be any block with the same anchor, and they verify unless v2.1 begins
  within the epoch (`OneProfile`). On mainnet v2 begins at 210537 and v2.1 at 279370, with
  epochs of 144 blocks, so that premise always holds before v2; the isolated test profile
  (10 and 24) has both in one epoch.

The properties of `miner`:

- `WorkersConfined`: no blocking worker escapes its select.
- `StaleWorkIsWatched`: work on a replaced parent or payout always has a change unread or
  still to be announced.
- `AdmissionsReachEmptyTemplate`: a coinbase-only template never overlooks an admission.
- `ShutdownHonoured`: a block committed after the shutdown flag was set had passed the
  loop's last look at it.
- `StopLeadsToExit`, `AuthorityLeadsToBlocks`: the shutdown ends the task, and lasting
  authority produces blocks.

The properties of `readiness`:

- `LeasesFollowTip`, `NonceNeedsQuorum`: no lease is left behind by a tip change, a
  disconnect or a bad report, and nonce search is published as ready only on a quorum of
  failure domains.
- `AuthorityLapses`, `TipIsLearned`, `WorkEventuallyCloses`: silence of the peers ends
  mining, the loop's tip catches up, and canonical work closes readiness in the end.

The properties of `suffix_fetch` and `suffix_completes`:

- `HeldIsSelected`, `Kept`: the bytes held are of the encoding selected, and are neither
  taken back nor replaced.
- `ExcludedIsOut`, `ActiveIsSource`: an excluded source never returns, and who holds a
  lease still advertises the object.
- `HonestSourceKept`: a stable and correct peer is never dropped as a source.
- `FetchCompletes`: one stable and correct source of everything missing is enough, unless
  a claim stays `Stalled`. A stalled claim has no request, and either is held to an
  encoding that none of its sources serves (finding 5), or holds leases without a
  request and has no source that may hedge them: the later members of a coalesced
  response that was refused, when the other sources share the failure domain or serve
  another encoding (`ActiveIsBacked` below). These are the only ways not to complete.
- `CompleteIsApplied`: a complete plan that was refused the apply is taken when the
  refusals end. Only inventories bring the next try.

### Bounds

*`chain_store`.* The tree has a trunk of 7 blocks, a heavier branch of 4 leaving it at
height 1 and a branch of 3 leaving it at height 3. Finality depth 2, undo retention
4, serving depth 5, RAM window 3, replacement bound 4 and two heights per pruning
pass keep the order relations of the real 18, 36, 42, 35, 36 and 16. They are large
enough for reorgs of the full depth in both directions, a replacement as long as the
bound, several pruning passes, and snapshots that extend the tip or rebase it.
No symmetry is used: blocks differ in work.

*`header_dag`.* Two branches of two blocks, the second heavier. Finality depth 1,
capacity 3, a finality advance of 1, two peers and one provider per header make
evictions, refused inserts, rebuilds and in-place advances all happen; the real values
are 18, 1024 and 64. `doc_dag_reconcile` uses a longer tree, finality depth 2 and capacity
6, and restricts the chain to ordinary appends.

*`mempool`.* Five intents on five slots (two spends of one coin; a contract call, a trade
and a spend of another), two submitters and two committers, symmetric. Capacity 2, 4
bytes, one worker and a floor window of 2 make the pool full by count and by bytes, and
the latch close and open. The tree crosses the activation heights (2, 2 and 3), an epoch
boundary (3) and a payout height (3), and has reorgs in both directions.

*`miner`.* One block to find (`MaxTip` = 1). The loop keeps no history but the template's
parent, so a second block repeats the first, and a commit elsewhere may use the one up.

*`readiness`.* A tree of five blocks with two competing children, two peers in two
domains, a quorum of 1, leases of two ticks and three reports.

*`suffix_fetch`.* A terminal, a stable peer and two that may fail, in three failure
domains, so that hedges are started and rotated; one encoding, one fault, a failure limit
of 2, one refused apply and one unhandled answer at a time. A disconnect is one fault, and
the requests that are refused until the node hears of it are further failures, so that a
source also uses up its failure budget.

*`suffix_completes`.* Two bodies, which are asked for together, and a terminal; a stable
peer and one that may fail, in one failure domain, with an encoding each; the other bounds
are the same. Both kinds of stall are reached. Two encodings and three sources of one
encoding together are out of TLC's reach; for them the safety properties are proved and
`FetchCompletes` is not checked.

### Fairness

`ChainStore` and `Mempool` need none.

`FaultClears` assumes weak fairness of the steps of a started handler, which run to
their end, and strong fairness of a heartbeat whose retry interval has elapsed:
`tokio::select!` picks at random among ready branches, so a heartbeat that is ready
again and again is taken. Nothing is assumed of the network, of the peers or of
commits.

The miner's task, its timers and its workers keep running, the search finds a nonce in
the end, and a shutdown that has stored one flag stores the other (`Progress`).
`AuthorityLeadsToBlocks` has its further premises in the formula: the event loop
delivers what is queued (`Delivered`), authority lasts, and interruptions (payout
switches, admissions, heartbeats, failures) are finitely many.

In `MiningReadiness` the clock, the heartbeat timer and the loop's queues keep moving.
Peers owe nothing.

In `SuffixSync` the lanes, the wire and the back-offs empty again and again, what is due
is served, and stable correct peers answer the periodic probes. The other peers owe
nothing, but their faults are bounded. So are the refusals of a complete plan: a DAG fault
can last (finding 3), and then it is never applied.

### Unreached

The `PersistGenesis` branch of `Restart` is never taken. That is what
`DurableImageRestorable` says.

## Findings

1. The documentation limits a reorganization to 17 blocks ("less than 18",
   `docs/architecture/synchronization.md:105-106`, `docs/protocol/invariants.md:99`).
   All the guards in the code reject depths greater than 18, so 18 is accepted
   (`mdbx_context.rs:1950`, `:2589`, `mdbx_store.rs:4384`). Finality is not at risk:
   the checkpoint trails the tip by at most 18.
2. `docs/architecture/synchronization.md:108` says undo data covers the non-final
   suffix. A snapshot install clears the undo logs, and a reorg asks for the row of
   the common ancestor itself (`mdbx_context.rs:2018`) although it never replays it.
   A reorg down to the snapshot boundary is therefore refused until finality has
   passed the boundary.
3. The comment above `reconcile_canonical_header_dag` (`main.rs:4780-4781`) says that
   "every ordinary child and non-final reorganization advances/prunes it in place".
   If the DAG has selected a heavier header branch whose objects have not arrived,
   and the durable chain finalizes a block off that branch by ordinary appends,
   `advance_finalized` returns `FinalizedOffBestChain` on every attempt. The DAG
   stays faulted until the durable chain overtakes the branch or the node restarts.
4. The miner marks both readiness watches seen to "consume that already-observed
   version" (`miner.rs:700-703`), but does not look at the value it consumes. A loss of
   readiness published after the last check leaves no edge, and the search runs without
   authority until a nonce is found and discarded (`miner.rs:740`).
5. `object_fetcher.rs:792-794` promises "a clean restart from another encoding" when
   every provider of the pinned one has disappeared. If the failure of a request is
   handled before the disconnect of its peer, the job is wanted, pinned and without a
   late response; nothing releases the encoding (`release_unavailable_encoding` has no
   caller), and a source of another encoding cannot be asked unless one of the pinned
   encoding returns.

These further statements of comments are definitions of the modules too. No run
includes them; TLC refutes each when it is added to a configuration, and the reason is:

- `ShutdownCancelsSearch` (`Miner`; `miner.rs:715-716`): the relaxed store of
  `cancel = false` is not ordered with the load of `stopped`, and may overwrite the cancel
  of a shutdown. The search then ends with a nonce or another event.
- `AuthorityFollowsAncestry` (`MiningReadiness`; `mining_readiness.rs:39-40`): the
  completion of a live suffix may set the committed tip back to the parent of a block
  the miner has committed since, with its lease; a branch replacement then inherits it.
- `CanonicalWorkClosesReadiness` (`MiningReadiness`; `main.rs:11314`): a local commit
  handled after a plan was admitted resets `unresolved_better_header` until the next
  heartbeat.
- `FailuresAreCharged` (`SuffixSync`; `network.rs:9109-9112`): failures and the disconnect
  travel on different lanes; when the disconnect is handled first nothing is charged.
- `ActiveIsBacked` (`SuffixSync`; `suffix_sync.rs:532-535`): a coalesced response that is
  refused at one member leaves the later members leased with no request behind them.
  `FetchCompletes` names this stall in its premise.
- `LateIsBacked` (`SuffixSync`; `object_fetcher.rs:771-772`): a busy answer handled after
  the disconnect keeps a late correlation whose request is gone.
- `HedgeApart` (`SuffixSync`; `object_fetcher.rs:224-225`): an inventory handled after its
  peer disconnected records an unknown failure domain, which differs from every real
  one.

## Proofs

Every invariant and action property of the passing runs, and the refinement, has a
theorem. The proofs assume what the `ASSUME`s of the modules state, and TLC evaluates
these on every run. Liveness is only model-checked.

### Chain store

`ChainStoreProofs` proves every property of `chain_store`, the refinement included,
for every block tree and every choice of depths that satisfy these assumptions:

- `BlockAssumption`: the tree is closed under ancestors, work grows along a chain, and
  different blocks have different hashes;
- `MarkerAssumption`: the name of a complete terminal is not a block;
- `DepthAssumption`: the finality depth is positive and below the undo retention, and
  the replacement bound is at most the RAM window plus one.

None of the properties is inductive. `IndInv` adds what they rest on:

- `ChainInv`: the header table is exactly the chain of the durable tip and the
  checkpoint lies on it within the finality depth;
- `RetentionInv`: the watermark is below the checkpoint, and every terminal above it
  exists;
- `HotInv`: the RAM window holds headers of the branch being applied only;
- `SuffixInv`, `StagingInv`: what an unfinished suffix or reorg has established. In
  particular every replaced height is still in the RAM window, and the staged undo
  logs restore the replacement's own parents.

There is one lemma per action. `HeaderRead` and `FinalizedAdvances` carry the two
central arguments: a header read answers from the branch being applied, so the
checkpoint computed from it advances along that branch. `StepImplements` then maps
each step to an abstract step or a stutter. Ancestors are handled through
`AncestorBlock`, `AncestorAncestor` and `ExtendsFacts` of `BlockTreeProofs`, so that no
other proof looks into sequences.

### Header DAG

`HeaderDagProofs` proves every safety invariant of `HeaderDag` from `BlockAssumption`
and `DagAssumption` (the finality depth is positive and at most the capacity, the set
of peers is finite). The argument has two layers.

- `DagInv` is what the DAG's own operations preserve: `InsertPreserves`,
  `AdvancePreserves`, `RebuildPreserves` and `AdvertisedPreserves`. Capacity needs
  `LoserExists`: fork choice is a strict total order (`WinsOrder`), so among finitely
  many unprotected leaves one loses against all others and eviction makes room.
- `IInv` adds the chain (`ChainInv`) and, during a reconciliation, `RowsCovered`: the
  selection covers every row that has been passed. `SelectionCoversCommitted` is not
  inductive without it, because the durable tip becomes the committed one in the last
  step although an earlier row may have been evicted meanwhile.

### Mempool

`MempoolProofs` proves the seven invariants of `mempool` from `BlockAssumption` and
`MempoolAssumption` (positive limits, natural sizes; an intent spends at least one coin
and a trade has no outputs, as the structural checks before the pool demand), for any
intents, tree, submitters and committers. There are two layers.

- `Inv`: who works on the chain holds the gate and knows how far the view is behind
  (`GateInv`); a verified submission has a proof for the height it was queued at
  (`SubInv`); and `AuthInv`, the authorization of an entry in the terms its eviction is
  decided by. `PoolMinable` needs the last: it speaks of the height of the view, the
  eviction compares authorization versions and the authority at the admission.
  `TemplateValid` is carried from the view to the parent by `SelectedIsMinable`: equal
  heights mean equal rules from v2 on, and before v2 a common anchor means a common epoch
  (`EpochFacts`), within which `OneProfile` leaves one authorization version.
- `ResourceInv`, on top of it: the pool is finite and within its limits, the permits of
  verifying submissions and of the workers that outlived one are within `Workers`, and
  the floor is what `refresh_fee_floor` leaves for the present pool (`FloorFits`). The
  bytes of a set of intents are the number of pairs of an intent and a byte position,
  so that what the pool retains shrinks with it (`RetentionMonotone`) and an admission
  adds the size of its intent (`RetentionAdds`).

### Miner

`MinerProofs` proves the four invariants for any number of tips (`MinerAssumption`). `Inv` adds to them the
type invariant, that a missed admission stays unread from the read of the pool to the
end of the search (`MissedIsUnread`), and that a loop past its last look at the stop flag
got there before the flag was set (`PastTheLastLook`): `ShutdownHonoured` says where a
commit came from, and is not inductive without it. The steps of the loop are grouped
into phases, one lemma each; everything other tasks may do is one more
(`EnvironmentSteps`).

### Mining readiness

`MiningReadinessProofs` proves `LeasesFollowTip` and `NonceNeedsQuorum` for every set of
peers, assignment of domains, positive quorum and positive lease length
(`ReadinessAssumption`, `BlockAssumption`). `Inv` adds that a lapsed health
lease blocks nothing (`LapsedIsSilent`): expiry and publication are different steps, and a
peer that lapsed in between must not count against the quorum.

### Suffix fetch

`SuffixSyncProofs` and `SuffixSyncHonestProofs` prove the five safety properties of
`suffix_fetch` and `suffix_completes` for every plan, every finite set of peers, every
assignment of domains and encodings and any number of faults (`SuffixAssumption`; peers are ordered as their ids
are). There are two layers.

- `Inv`: every job is `Sound` (its leases belong to sources, its exclusions are neither
  sources nor awaited), and bytes are held exactly for the verified claims. There is a lemma
  per operation on a job, and the dispatch is a composition of them (`DispatchKeeps`).
- `HonestInv`, on top of it in the second module, for `HonestSourceKept`: tokens name the
  peer that was asked, in the node's table and on the wire; no event on its way for a stable and correct
  peer is one that costs it the source; no disconnect is announced of a stable peer. It
  is needed because the node decides on the event when it handles it, several
  steps after the network decided what to raise.

### Only model-checked

Liveness is out of the prover's reach and stays with TLC: `FaultClears`,
`StopLeadsToExit`, `AuthorityLeadsToBlocks`, `AuthorityLapses`, `TipIsLearned`,
`WorkEventuallyCloses`, `FetchCompletes` and `CompleteIsApplied`. So do the violated properties, which are
false. What the fold in `Pages` (`Mempool`) and the median of `FeeFloor` compute is not
needed by any proof.

## Not modelled

| Part | Why |
|---|---|
| Provers, verifiers, circuits (`noid_core`, `noid_fri`, `noid_gkr`, `noid_ivc_*`, `noid_recursive`, ...) | algebra; a terminal is verified or it is not |
| Snapshot transfer and staging files | the install is an action of `ChainStore`; the transfer resembles `SuffixSync` without encodings and hedges |
| Admission of a competing suffix plan, plan extension | one plan is followed from start to end |
| Chain committer (`networking/chain_committer.rs`) | only its own tests construct it |
| Slot state, segments, allocator, slot expansion, difficulty and emission arithmetic | a state is represented by the block that produced it |
| Native assets and contracts | payload semantics; in `Mempool` a call has a deadline, a signer and the authorities it permits |
| Transaction delivery, retained-object cache, peer diversity (`noid_p2p`) | no shared state with the modelled parts beyond the requests of `SuffixSync` |
| RPC, wallet, GUI, external miner, tools, encodings | request and presentation layers |
