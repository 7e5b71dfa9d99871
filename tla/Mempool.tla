------------------------------- MODULE Mempool --------------------------------
(***************************************************************************)
(* The mempool of a node, the tasks that submit intents to it, the tasks   *)
(* that commit blocks, and the miner that selects from it.                 *)
(*                                                                         *)
(* The pool lives behind one mutex, so each critical section is one        *)
(* action.  It judges intents against its view, the chain point it was     *)
(* last told of.  The durable tip moves first; the committer then delivers *)
(* the new view, holding the operation gate from before the commit until   *)
(* after the delivery.  An authorization proof is verified outside the     *)
(* mutex, between a pre-filter and the final admission.                    *)
(*                                                                         *)
(* A block carries its intents and the slot values after it; an intent     *)
(* spends the named coin of each input slot and fills its output slots.    *)
(***************************************************************************)
EXTENDS BlockTree, FiniteSetsExt, FeeFloor

CONSTANTS
    Tx, Intent,               \* intents; what each one spends, fills, pays and carries
    Slot, Empty,              \* state slots and the value of a free one
    BlockTxs, State,          \* per block: the intents it confirms, the slots after it
    Submitter, Committer, NoCommitter, NoTx,
    Capacity, MaxBytes,       \* limits of the pool
    Workers,                  \* auth_verify_workers
    PageBudget, PayoutHeight, \* block budget; heights that reserve a system page
    EpochBlocks,              \* TX_EPOCH_BLOCKS
    V11Height, V2Height, V21Height,          \* activation heights
    Finance,                  \* the runtime of v2.1 is installed (finance_config)
    FeePerInput, FeePerOutput,
    GrowthFee                 \* state-growth fee by number of occupied slots

VARIABLES
    tip,       \* durable canonical tip
    gate,      \* holder of the operation gate
    job,       \* per committer: step, view to deliver, confirmed and reclaimed intents
    view,      \* the pool's chain view
    pool,      \* admitted intents
    admitted,  \* tip height at the admission of each entry
    inputs,    \* admitted_input_slots
    outputs,   \* admitted_output_slots
    floor,     \* the fee floor
    sub,       \* per submitter: step, intent and height the proof is verified for
    orphans,   \* verification workers whose submitter was cancelled
    template   \* the miner's template: parent and selected intents

chainVars == <<tip, gate, job>>
poolVars == <<view, pool, admitted, inputs, outputs, floor>>
vars == <<tip, gate, job, view, pool, admitted, inputs, outputs, floor, sub, orphans, template>>

ASSUME MempoolAssumption ==
    /\ BlockTxs \in [Block -> SUBSET Tx]
    /\ DOMAIN State = Block
    /\ NoCommitter \notin Committer
    /\ NoTx \notin Tx
    /\ Capacity \in Nat \ {0} /\ MaxBytes \in Nat \ {0} /\ Workers \in Nat
    /\ V11Height \in Nat /\ V2Height \in Nat /\ V21Height \in Nat /\ EpochBlocks \in Nat \ {0}
    /\ Finance \in BOOLEAN
    /\ \A t \in Tx : Intent[t].size \in Nat
    /\ \A t \in Tx : DOMAIN Intent[t].inputs # {}
    /\ \A t \in Tx : \A s \in DOMAIN Intent[t].inputs : Intent[t].inputs[s] # Empty
    /\ \A t \in Tx : Intent[t].kind = "trade" => Intent[t].outputs = {}

Inputs(t) == DOMAIN Intent[t].inputs
Outputs(t) == Intent[t].outputs
Slots(t) == Inputs(t) \cup Outputs(t)

\* The bytes retained for a set of intents, and their number.
Retention(S) == UNION {{t} \X (1 .. Intent[t].size) : t \in S}
Bytes(S) == Cardinality(Retention(S))

\* Consensus rules that depend on the height of the candidate block.
AuthVersion(h) == IF h >= V21Height THEN 4 ELSE 3
AuthorityAt(t, h) == IF h < Intent[t].deadline THEN "claim" ELSE "recovery"
CheckCandidateCall(t, h) == h >= V2Height /\ AuthorityAt(t, h) \in Intent[t].permits
EpochStart(b) == (Height(b) \div EpochBlocks) * EpochBlocks
UserAnchor(b) == Ancestor(b, EpochStart(b))
UserPages(h) == PageBudget - (IF h \in PayoutHeight THEN 1 ELSE 0)
CheckResources(t, h) == h >= V2Height => Intent[t].pages <= UserPages(h)
RequiredFee(t, b) ==
    LET occupied == Cardinality({s \in Slot : State[b][s] # Empty})
        trade == Intent[t].kind = "trade"
        nIn == Cardinality(Inputs(t)) + (IF trade THEN 1 ELSE 0)
        nOut == IF trade THEN 2 ELSE Cardinality(Outputs(t))
    IN  MinFeeBase + FeePerInput * nIn + FeePerOutput * nOut
          + GrowthFee[occupied] * Higher(nOut - nIn, 0)

\* A proof verifies under the authorization version and the authority it was made for.
ProofVerifies(t, h) ==
    /\ AuthVersion(h) \in Intent[t].proofs
    /\ Intent[t].kind = "call" => AuthorityAt(t, h) = Intent[t].signer

InputsLive(t, b) == \A s \in Inputs(t) : State[b][s] = Intent[t].inputs[s]
OutputsFree(t, b) == \A s \in Outputs(t) : State[b][s] = Empty

\* What the next block on top of b requires of an intent, slots aside.
ContextOK(t, b) ==
    /\ Intent[t].anchor = UserAnchor(b)
    /\ CheckResources(t, Height(b) + 1)
    /\ Intent[t].fee >= RequiredFee(t, b)
    /\ Intent[t].kind = "call" => CheckCandidateCall(t, Height(b) + 1)
    /\ Intent[t].kind = "trade" => Height(b) + 1 \in V21Height .. Intent[t].validUntil

--------------------------------------------------------------------------------
(* The pool under its mutex. *)

\* Mutant: output slots are not compared with the outputs of the entries.
SlotConflictInputs(t) ==
    \/ Inputs(t) \cap inputs # {}
    \/ Intent[t].kind = "trade" /\ Inputs(t) \cap outputs # {}

SlotConflict(t) ==
    \/ Inputs(t) \cap inputs # {}
    \/ Outputs(t) \cap outputs # {}
    \/ Intent[t].kind = "trade" /\ Inputs(t) \cap outputs # {}

\* run_admission_checks, with the entry and byte limits of its callers.
AdmissionChecks(t) ==
    /\ t \notin pool
    /\ Intent[t].kind = "trade" => Cardinality(pool) < Capacity
    /\ Bytes(pool) + Intent[t].size <= MaxBytes
    /\ ContextOK(t, view)
    /\ Intent[t].fee >= Current(floor)
    /\ ~SlotConflict(t)
    /\ InputsLive(t, view)
    /\ OutputsFree(t, view)

\* The conflict index of the pool: no slot of t is claimed by an entry.
IndexAdmits(t) == \A u \in pool : Slots(t) \cap Slots(u) = {}

Refresh(f, b, entries) ==
    UpdatePressure(f, Height(b) + 1 >= V11Height, Cardinality(entries), Capacity,
                   Bytes(entries), MaxBytes)

\* The bookkeeping of the entries that remain.
Remaining(entries) == admitted' = [t \in Tx |-> IF t \in entries THEN admitted[t] ELSE 0]

RebuildSlotSets(entries) ==
    /\ inputs' = UNION {Inputs(t) : t \in entries}
    /\ outputs' = UNION {Outputs(t) : t \in entries}

\* What on_new_block keeps of the unconfirmed entries under the new view b, whose slots
\* are read from the store and cannot be read once the store has moved on.
Retained(t, b) ==
    /\ ContextOK(t, b)
    /\ Intent[t].kind = "call" =>
           AuthorityAt(t, Height(b) + 1) = AuthorityAt(t, admitted[t] + 1)
    /\ b = tip
    /\ OutputsFree(t, b)
    /\ InputsLive(t, b)

\* Mutant: entries survive a change of the authorization profile.
OnNewBlockKeepsProofs(confirmed, b) ==
    LET kept == {t \in pool \ confirmed : Retained(t, b)}
    IN  /\ view' = b
        /\ pool' = kept
        /\ RebuildSlotSets(kept)
        /\ floor' = Refresh(floor, b, kept)
        /\ Remaining(kept)
\* Mutant: the floor is not refreshed after the evictions.
OnNewBlockKeepsFloor(confirmed, b) ==
    LET changed == AuthVersion(Height(view) + 1) # AuthVersion(Height(b) + 1)
        kept == {t \in pool \ confirmed : ~changed /\ Retained(t, b)}
    IN  /\ view' = b
        /\ pool' = kept
        /\ RebuildSlotSets(kept)
        /\ Remaining(kept)
        /\ UNCHANGED floor

OnNewBlock(confirmed, b) ==
    LET changed == AuthVersion(Height(view) + 1) # AuthVersion(Height(b) + 1)
        kept == {t \in pool \ confirmed : ~changed /\ Retained(t, b)}
    IN  /\ view' = b
        /\ pool' = kept
        /\ RebuildSlotSets(kept)
        /\ floor' = Refresh(floor, b, kept)
        /\ Remaining(kept)

--------------------------------------------------------------------------------
(* Submissions. *)

Idle == [pc |-> "idle", tx |-> NoTx, height |-> 0]

\* Pre-filter under the lock; a refused intent leaves no trace.
PreFilter(p, t) ==
    /\ sub[p].pc = "idle"
    /\ AdmissionChecks(t)
    /\ sub' = [sub EXCEPT ![p] = [pc |-> "queued", tx |-> t, height |-> Height(view) + 1]]
    /\ UNCHANGED <<chainVars, poolVars, orphans, template>>

Running == Cardinality({p \in Submitter : sub[p].pc = "verifying"}) + orphans

\* Mutant: a cancelled submission gives its permit back while its worker runs.
StartVerifyOverOrphans(p) ==
    /\ sub[p].pc = "queued"
    /\ Running - orphans < Workers
    /\ sub' = [sub EXCEPT ![p].pc = "verifying"]
    /\ UNCHANGED <<chainVars, poolVars, orphans, template>>

\* acquire_owned; the permit moves into the blocking worker.
StartVerify(p) ==
    /\ sub[p].pc = "queued"
    /\ Running < Workers
    /\ sub' = [sub EXCEPT ![p].pc = "verifying"]
    /\ UNCHANGED <<chainVars, poolVars, orphans, template>>

FinishVerify(p) ==
    /\ sub[p].pc = "verifying"
    /\ sub' = [sub EXCEPT ![p] =
                  IF ProofVerifies(sub[p].tx, sub[p].height) THEN [@ EXCEPT !.pc = "verified"]
                  ELSE Idle]
    /\ UNCHANGED <<chainVars, poolVars, orphans, template>>

\* The caller's future is dropped; a running worker keeps its permit until it exits.
Cancel(p) ==
    /\ sub[p].pc # "idle"
    /\ orphans' = IF sub[p].pc = "verifying" THEN orphans + 1 ELSE orphans
    /\ sub' = [sub EXCEPT ![p] = Idle]
    /\ UNCHANGED <<chainVars, poolVars, template>>

OrphanExits ==
    /\ orphans > 0
    /\ orphans' = orphans - 1
    /\ UNCHANGED <<chainVars, poolVars, sub, template>>

\* Mutant: the checks of the pre-filter are trusted after the verification.
AdmissibleUnchecked(p) ==
    /\ sub[p].tx \notin pool
    /\ Cardinality(pool) < Capacity
    /\ IndexAdmits(sub[p].tx)
\* Mutant: the byte limit is only checked by the pre-filter.
AdmissibleAnyBytes(p) ==
    LET t == sub[p].tx
    IN  /\ t \notin pool
        /\ ContextOK(t, view)
        /\ ~SlotConflict(t)
        /\ InputsLive(t, view)
        /\ OutputsFree(t, view)
        /\ AuthVersion(Height(view) + 1) = AuthVersion(sub[p].height)
        /\ Cardinality(pool) < Capacity
        /\ IndexAdmits(t)

\* The final admission repeats every check against the current view and requires the
\* authority and the authorization version the proof was verified for.
Admissible(p) ==
    LET t == sub[p].tx
        h == Height(view) + 1
    IN  /\ AdmissionChecks(t)
        /\ Intent[t].kind = "call" => AuthorityAt(t, h) = AuthorityAt(t, sub[p].height)
        /\ AuthVersion(h) = AuthVersion(sub[p].height)
        /\ Cardinality(pool) < Capacity
        /\ IndexAdmits(t)

Admit(p) ==
    LET t == sub[p].tx
        recorded == IF Intent[t].kind = "trade" THEN floor ELSE Record(floor, Intent[t].fee)
    IN  /\ sub[p].pc = "verified"
        /\ Admissible(p)
        /\ pool' = pool \cup {t}
        /\ admitted' = [admitted EXCEPT ![t] = Height(view)]
        /\ inputs' = inputs \cup Inputs(t)
        /\ outputs' = outputs \cup Outputs(t)
        /\ floor' = Refresh(recorded, view, pool \cup {t})
        /\ sub' = [sub EXCEPT ![p] = Idle]
        /\ UNCHANGED <<chainVars, view, orphans, template>>

\* Refused: a check fails, or a slot cannot be read because the store has moved on.
Refuse(p) ==
    /\ sub[p].pc = "verified"
    /\ ~Admissible(p) \/ view # tip
    /\ sub' = [sub EXCEPT ![p] = Idle]
    /\ UNCHANGED <<chainVars, poolVars, orphans, template>>

--------------------------------------------------------------------------------
(* Committers: exact suffixes, reorgs, snapshot installs and mined blocks. *)

NoJob == [pc |-> "idle", view |-> Genesis, confirmed |-> {}, reclaimed |-> {}]

\* Mutant: a committer does not wait for the gate.
TakeGateUnguarded(c) ==
    /\ job[c].pc = "idle"
    /\ gate' = c
    /\ job' = [job EXCEPT ![c].pc = "gated"]
    /\ UNCHANGED <<tip, poolVars, sub, orphans, template>>

TakeGate(c) ==
    /\ job[c].pc = "idle"
    /\ gate = NoCommitter
    /\ gate' = c
    /\ job' = [job EXCEPT ![c].pc = "gated"]
    /\ UNCHANGED <<tip, poolVars, sub, orphans, template>>

Committed(c, b, pc, confirmed, reclaimed) ==
    /\ tip' = b
    /\ job' = [job EXCEPT ![c] = [pc |-> pc, view |-> b, confirmed |-> confirmed,
                                  reclaimed |-> reclaimed]]
    /\ UNCHANGED <<gate, poolVars, sub, orphans>>

\* The next block of a live suffix; an error after the first block keeps what was applied.
AppendBlock(c) ==
    /\ job[c].pc \in {"gated", "committed"}
    /\ \E b \in Block \ {Genesis} :
           /\ Parent(b) = tip
           /\ Committed(c, b, "committed", job[c].confirmed \cup BlockTxs[b], {})
    /\ UNCHANGED template

\* The blocks of b's chain that are not on a's.
Above(b, a) == {x \in Block : Extends(b, x) /\ ~Extends(a, x)}

ReorgTo(c) ==
    /\ job[c].pc = "gated"
    /\ \E b \in Block :
           /\ Wins(b, tip)
           /\ ~Extends(b, tip)
           /\ Committed(c, b, "reorged", UNION {BlockTxs[x] : x \in Above(b, tip)},
                        UNION {BlockTxs[x] : x \in Above(tip, b)})
    /\ UNCHANGED template

\* A snapshot boundary replaces the state; its blocks are never reported as confirmed.
InstallSnapshot(c) ==
    /\ job[c].pc = "gated"
    /\ \E b \in Block :
           /\ Wins(b, tip)
           /\ Height(b) > Height(tip) + 1
           /\ Committed(c, b, "committed", {}, {})
    /\ UNCHANGED template

DeliverView(c) ==
    /\ job[c].pc \in {"committed", "reorged"}
    /\ OnNewBlock(job[c].confirmed, job[c].view)
    /\ job' = [job EXCEPT ![c].pc = IF @ = "reorged" THEN "readmit" ELSE "delivered"]
    /\ UNCHANGED <<tip, gate, sub, orphans, template>>

\* Mutant: the reservations of an evicted duplicate stay.
ReadmitAfterReorgKeepsSlots(c) ==
    /\ job[c].pc = "readmit"
    /\ pool' = pool \ job[c].reclaimed
    /\ Remaining(pool')
    /\ UNCHANGED <<inputs, outputs, floor>>
    /\ job' = [job EXCEPT ![c].pc = "delivered"]
    /\ UNCHANGED <<tip, gate, view, sub, orphans, template>>

\* Entries resubmitted since the view was delivered are evicted; nothing is readmitted.
ReadmitAfterReorg(c) ==
    LET kept == pool \ job[c].reclaimed
    IN  /\ job[c].pc = "readmit"
        /\ pool' = kept
        /\ Remaining(kept)
        /\ IF kept # pool THEN RebuildSlotSets(kept) /\ floor' = Refresh(floor, view, kept)
           ELSE /\ UNCHANGED <<inputs, outputs>>
                /\ floor' = IF kept = {} /\ job[c].reclaimed # {}
                            THEN Refresh(floor, view, {}) ELSE floor
        /\ job' = [job EXCEPT ![c].pc = "delivered"]
        /\ UNCHANGED <<tip, gate, view, sub, orphans, template>>

\* Done, or failed before anything was committed.
ReleaseGate(c) ==
    /\ job[c].pc \in {"gated", "delivered"}
    /\ gate' = NoCommitter
    /\ job' = [job EXCEPT ![c] = NoJob]
    /\ UNCHANGED <<tip, poolVars, sub, orphans, template>>

--------------------------------------------------------------------------------
(* The miner. *)

NoTemplate == [pc |-> "none", parent |-> Genesis, txs |-> {}]

\* The parent is captured under the gate, which is released before the selection.
CaptureParent ==
    /\ template.pc = "none"
    /\ gate = NoCommitter
    /\ template' = [pc |-> "captured", parent |-> tip, txs |-> {}]
    /\ UNCHANGED <<chainVars, poolVars, sub, orphans>>

FeeRate(t) ==
    LET nIn == Cardinality(Inputs(t))
        nOut == Cardinality(Outputs(t))
    IN  Intent[t].fee \div (nIn + nOut + 4 * Higher(nOut - nIn, 0))
Pages(S) == MapThenSumSet(LAMBDA t : Intent[t].pages, S)

\* Spends and calls of the parent's epoch by falling fee rate, skipping what no longer
\* fits the block.
SelectForBlock(S, b) ==
    LET spends == {t \in pool : Intent[t].kind # "trade" /\ Intent[t].anchor = UserAnchor(b)}
        budget == UserPages(Height(b) + 1)
    IN  /\ S \subseteq spends
        /\ Pages(S) <= budget
        /\ \A t \in spends \ S :
               Pages({u \in S : FeeRate(u) >= FeeRate(t)}) + Intent[t].pages > budget

\* Mutant: the view is not compared with the parent.
RequireNothing(b) == TRUE

\* select_for_v2_mining compares heights, require_parent compares the tip itself.
RequireHeight(b) == Height(view) = Height(b)
RequireParent(b) == view = b

\* What the selection for a child of b requires of the pool's view: with the finance
\* runtime of v2.1 the parent itself, else from v2 on its height, and before v2 nothing.
ViewFits(b) ==
    LET h == Height(b) + 1
    IN  IF h >= V21Height /\ Finance THEN RequireParent(b) ELSE h >= V2Height => RequireHeight(b)

\* Mutant: a call is kept before v2 has begun.
RecheckPolicy(t, b) ==
    Intent[t].kind = "call" => AuthorityAt(t, Height(b) + 1) \in Intent[t].permits

\* The checks repeated at the height of the candidate, on the entries selected.
Recheck(t, b) == Intent[t].kind = "call" => CheckCandidateCall(t, Height(b) + 1)

\* The build leaves out what pays less than the parent's fee and fails as a whole when an
\* intent does not apply to the state after the parent.
SelectTemplate ==
    /\ template.pc = "captured"
    /\ ViewFits(template.parent)
    /\ \E S \in SUBSET pool :
           LET b == template.parent
               txs == {t \in S : Recheck(t, b) /\ Intent[t].fee >= RequiredFee(t, b)}
           IN  /\ SelectForBlock(S, b)
               /\ \A t \in txs : InputsLive(t, b) /\ OutputsFree(t, b)
               /\ template' = [template EXCEPT !.pc = "built", !.txs = txs]
    /\ UNCHANGED <<chainVars, poolVars, sub, orphans>>

\* A failed selection, a heartbeat, a shutdown or a changed tip discards the template.
DropTemplate ==
    /\ template.pc # "none"
    /\ template' = NoTemplate
    /\ UNCHANGED <<chainVars, poolVars, sub, orphans>>

\* apply_found_block: the commit requires the exact parent of the template.
CommitMined(c) ==
    /\ job[c].pc = "gated"
    /\ template.pc = "built"
    /\ template.parent = tip
    /\ \E b \in Block \ {Genesis} :
           /\ Parent(b) = tip
           /\ BlockTxs[b] = template.txs
           /\ Committed(c, b, "committed", BlockTxs[b], {})
    /\ template' = NoTemplate

--------------------------------------------------------------------------------
Init ==
    /\ tip = Genesis
    /\ gate = NoCommitter
    /\ job = [c \in Committer |-> NoJob]
    /\ view = Genesis
    /\ pool = {}
    /\ admitted = [t \in Tx |-> 0]
    /\ inputs = {}
    /\ outputs = {}
    /\ floor = Refresh(NewFloor, Genesis, {})
    /\ sub = [p \in Submitter |-> Idle]
    /\ orphans = 0
    /\ template = NoTemplate

Submit(p) ==
    \/ \E t \in Tx : PreFilter(p, t)
    \/ StartVerify(p) \/ FinishVerify(p) \/ Cancel(p) \/ Admit(p) \/ Refuse(p)

Commit(c) ==
    \/ TakeGate(c) \/ AppendBlock(c) \/ ReorgTo(c) \/ InstallSnapshot(c) \/ CommitMined(c)
    \/ DeliverView(c) \/ ReadmitAfterReorg(c) \/ ReleaseGate(c)

Next ==
    \/ \E p \in Submitter : Submit(p)
    \/ OrphanExits
    \/ \E c \in Committer : Commit(c)
    \/ CaptureParent \/ SelectTemplate \/ DropTemplate

Spec == Init /\ [][Next]_vars

--------------------------------------------------------------------------------
(* Properties. *)

TypeOK ==
    /\ tip \in Block /\ view \in Block
    /\ gate \in Committer \cup {NoCommitter}
    /\ \A c \in Committer :
           /\ job[c].pc \in {"idle", "gated", "committed", "reorged", "readmit", "delivered"}
           /\ job[c].view \in Block
           /\ job[c].confirmed \subseteq Tx /\ job[c].reclaimed \subseteq Tx
    /\ pool \subseteq Tx
    /\ admitted \in [Tx -> Nat]
    /\ inputs \subseteq Slot /\ outputs \subseteq Slot
    /\ floor.latch \in Latch /\ floor.current >= MinFeeBase /\ Len(floor.recent) <= FloorWindow
    /\ \A p \in Submitter : sub[p].pc \in {"idle", "queued", "verifying", "verified"}
    /\ orphans \in Nat
    /\ template.parent \in Block /\ template.txs \subseteq Tx

\* Whenever the gate is free the pool judges intents by the durable tip: commits and the
\* delivery of their views (on_new_block) never leave the pool on an older or another point.
ViewFollowsChain == gate = NoCommitter => view = tip

\* Every entry is valid for the next block on the pool's view, whatever was committed,
\* reorganized or installed while it was verified or waited: slots, anchor, fee, resources,
\* contract rules and expiry (run_admission_checks and the scans of on_new_block agree).
PoolValid == \A t \in pool : ContextOK(t, view) /\ InputsLive(t, view) /\ OutputsFree(t, view)

\* The proof of every entry verifies for the block it would be mined in, although it was
\* verified outside the lock and for an earlier height.
PoolAuthorized == \A t \in pool : ProofVerifies(t, Height(view) + 1)

\* Every entry could be mined in the next block: on_new_block, readmit_after_reorg and the
\* admission of submit_inner together keep the pool valid and authorized.
PoolMinable == PoolValid /\ PoolAuthorized

\* No two entries claim the same slot, and the sets used for the constant-time conflict
\* check are exactly the slots of the entries after every admission, eviction and reorg.
SlotSetsExact ==
    /\ \A t, u \in pool : t # u => Slots(t) \cap Slots(u) = {}
    /\ inputs = UNION {Inputs(t) : t \in pool}
    /\ outputs = UNION {Outputs(t) : t \in pool}

\* An intent that passes the cheap checks can only be refused by the pool for lack of
\* room: admit never reports a slot conflict, which submit would call an internal error.
ChecksCoverIndex == \A t \in Tx : AdmissionChecks(t) => IndexAdmits(t)

\* The pool stays within its entry and byte limits although both are tested before the
\* verification starts and several submissions verify at once, and at most Workers proofs
\* are verified at a time, those of cancelled submissions included (submit_inner).
LimitsHold ==
    /\ Cardinality(pool) <= Capacity /\ Bytes(pool) <= MaxBytes
    /\ Running <= Workers

\* From v1.1 on the latch is set when the pool is at 80% of a limit and open when it is
\* below 50% of both; before v1.1 there is no latch (update_pressure after every change).
\* An empty pool quotes the base fee, whatever fees it has seen.
FloorFollowsPool ==
    LET count == Cardinality(pool)
        bytes == Bytes(pool)
    IN  /\ pool = {} => Current(floor) = MinFeeBase
        /\ IF Height(view) + 1 < V11Height THEN floor.latch = "legacy"
           ELSE /\ AtPressure(count, Capacity, bytes, MaxBytes) => floor.latch = "set"
                /\ BelowHalf(count, Capacity, bytes, MaxBytes) => floor.latch = "open"
                /\ floor.latch # "legacy"

\* Every view that shares the anchor of b has the authorization profile of b's epoch.
OneProfile(b) == EpochStart(b) + EpochBlocks < V21Height

\* The intents of a template can be mined together on its parent, although the gate is
\* released before the selection and the view may since have moved on, back or aside:
\* the build repeats the checks of the context and of the slots, but nobody verifies a
\* proof again or compares the intents with each other, which rests on the pool and on
\* what the selection requires of its view.  Before v2 that is the anchor alone, and the
\* proofs are only good if v2.1 does not begin within the same epoch.
TemplateValid ==
    /\ \A t \in template.txs :
           LET b == template.parent
           IN  /\ ContextOK(t, b) /\ InputsLive(t, b) /\ OutputsFree(t, b)
               /\ Height(b) + 1 >= V2Height \/ OneProfile(b) => ProofVerifies(t, Height(b) + 1)
    /\ \A t, u \in template.txs : t # u => Slots(t) \cap Slots(u) = {}
===============================================================================
