-------------------------- MODULE MiningReadiness ---------------------------
(***************************************************************************)
(* When the node lets itself mine: MiningReadiness                         *)
(* (networking/mining_readiness.rs) behind MiningPeerQuorum (main.rs), both *)
(* owned by the P2P event loop.                                            *)
(*                                                                         *)
(* Peers hold two kinds of leases, health and frontier authority, that the *)
(* loop grants on what they report and that lapse with time.  The durable  *)
(* tip is moved by others: by the one apply job in flight, whose completion*)
(* the loop handles later, and by local commits (the miner, the RPC), which *)
(* only set a watch.  Every handler ends by publishing two flags, which    *)
(* the miner obeys.                                                        *)
(*                                                                         *)
(* A lease is kept as the time it has left: all of them are granted for    *)
(* the same TTL, and one with nothing left counts for no reader, so the    *)
(* map entry that expire() removes is the absent one.  The template parent *)
(* always equals the committed tip (they are assigned together).           *)
(* A node isolated by --genesis, which is always ready, is left out.      *)
(***************************************************************************)
EXTENDS BlockTree, FiniteSets

CONSTANTS
    Peer,
    DomainOf,    \* failure domain of each peer
    Required,    \* MINING_PEER_QUORUM
    TTL,         \* MINING_PEER_CONFIRMATION_TTL, in clock ticks
    MaxReports   \* bound: reports and connections of peers

ASSUME ReadinessAssumption ==
    /\ Required \in Nat \ {0} /\ TTL \in Nat \ {0} /\ MaxReports \in Nat
    /\ DOMAIN DomainOf = Peer

VARIABLES
    tip,         \* the durable canonical tip
    plan,        \* the kind of data plan admitted and not yet applied
    job,         \* the apply job that committed and is not yet handled
    watch,       \* canonical_tip_changes holds an unread version
    synced,      \* initial_sync_ready
    connected,   \* connected peers
    committed,   \* committed_tip, and template_parent
    initial,     \* initial_sync_complete
    unresolved,  \* unresolved_better_header
    health,      \* health leases
    frontier,    \* frontier leases
    confirmed,   \* frontier_confirmed: time left to each entry
    vouched,     \* history: the point each frontier lease was granted for
    proofReady, nonceReady,  \* the published flags
    fresh,       \* history: published since the clock last moved
    reports

world == <<tip, plan, job, watch, synced, reports>>
leases == <<health, frontier, confirmed, vouched>>
published == <<proofReady, nonceReady, fresh>>
vars == <<world, connected, committed, initial, unresolved, leases, published>>

NoPoint == << "none" >>
NoPlan == "none"
NoJob == [kind |-> "none"]
NoHealth == [left |-> 0, compatible |-> FALSE, blocks |-> FALSE]
NoFrontier == [left |-> 0, parent |-> NoPoint]

JobType ==
    [kind : {"suffix", "reorg", "snapshot"}, at : Block, selected : BOOLEAN, sources : SUBSET Peer]

TypeOK ==
    /\ tip \in Block /\ committed \in Block
    /\ plan \in {NoPlan, "suffix", "snapshot"} /\ watch \in BOOLEAN /\ synced \in BOOLEAN
    /\ initial \in BOOLEAN /\ unresolved \in BOOLEAN
    /\ job \in JobType \cup {NoJob}
    /\ connected \subseteq Peer
    /\ health \in [Peer -> [left : 0..TTL, compatible : BOOLEAN, blocks : BOOLEAN]]
    /\ frontier \in [Peer -> [left : 0..TTL, parent : Block \cup {NoPoint}]]
    /\ confirmed \in [Peer -> 0..TTL]
    /\ vouched \in [Peer -> Block \cup {NoPoint}]
    /\ proofReady \in BOOLEAN /\ nonceReady \in BOOLEAN /\ fresh \in BOOLEAN
    /\ reports \in 0..MaxReports

-----------------------------------------------------------------------------
(* MiningReadiness::snapshot                                               *)

Healthy == {p \in Peer : health[p].left > 0 /\ health[p].compatible /\ ~health[p].blocks}

Authorizing == {p \in Healthy : frontier[p].left > 0 /\ frontier[p].parent = committed}

Domains(S) == {DomainOf[p] : p \in S}

ProofBuildReady ==
    initial /\ ~unresolved /\ ~\E p \in Peer : health[p].left > 0 /\ health[p].blocks

NonceSearchReady ==
    /\ ProofBuildReady
    /\ Cardinality(Domains(Healthy)) >= Required
    /\ Cardinality(Domains(Authorizing)) >= Required

\* publish_at: the flags follow the snapshot.
PublishAt ==
    /\ proofReady' = ProofBuildReady'
    /\ nonceReady' = NonceSearchReady'
    /\ fresh' = TRUE

\* MiningPeerQuorum::new, then the first lines of handle_p2p_events.
Init ==
    /\ tip = Genesis /\ committed = Genesis
    /\ plan = NoPlan /\ job = NoJob /\ watch = FALSE /\ synced = FALSE
    /\ connected = {} /\ initial = FALSE /\ unresolved = FALSE
    /\ health = [p \in Peer |-> NoHealth] /\ frontier = [p \in Peer |-> NoFrontier]
    /\ confirmed = [p \in Peer |-> 0] /\ vouched = [p \in Peer |-> NoPoint]
    /\ proofReady = FALSE /\ nonceReady = FALSE /\ fresh = TRUE
    /\ reports = 0

-----------------------------------------------------------------------------
(* The durable chain, moved by other tasks, and the clock.                 *)

loop == <<connected, committed, initial, unresolved, leases, published>>

\* The miner or the RPC commits a child of the tip and sets the watch.
CommitLocal(b) ==
    /\ b # Genesis /\ Parent(b) = tip
    /\ tip' = b /\ watch' = TRUE
    /\ UNCHANGED <<plan, job, synced, reports, loop>>

\* The apply job commits: a live suffix (or a prefix of it), a heavier branch
\* or a snapshot.  selected: the target is complete and still the best header.
CommitJob(kind, b, selected, sources) ==
    /\ plan # NoPlan /\ job = NoJob /\ (kind = "snapshot" <=> plan = "snapshot")
    /\ b # tip /\ Wins(b, tip) /\ (kind = "suffix" => Extends(b, tip))
    /\ kind = "reorg" => ~Extends(b, tip)
    /\ kind = "snapshot" => selected /\ Cardinality(sources) <= 1
    /\ tip' = b /\ plan' = NoPlan
    /\ job' = [kind |-> kind, at |-> b, selected |-> selected, sources |-> sources]
    /\ UNCHANGED <<watch, synced, reports, loop>>

\* One unit of time; what lapses is dropped by its readers, not published.
Left(n) == IF n > 0 THEN n - 1 ELSE 0

Tick ==
    /\ \E p \in Peer : health[p].left > 0
    /\ health' = [p \in Peer |-> IF health[p].left > 1
                                 THEN [health[p] EXCEPT !.left = @ - 1] ELSE NoHealth]
    /\ frontier' = [p \in Peer |-> IF frontier[p].left > 1
                                   THEN [frontier[p] EXCEPT !.left = @ - 1] ELSE NoFrontier]
    /\ confirmed' = [p \in Peer |-> Left(confirmed[p])]
    /\ vouched' = [p \in Peer |-> IF frontier[p].left > 1 THEN vouched[p] ELSE NoPoint]
    /\ fresh' = FALSE
    /\ UNCHANGED <<world, connected, committed, initial, unresolved, proofReady, nonceReady>>

-----------------------------------------------------------------------------
(* The handlers of the event loop.                                         *)

\* set_committed_tip on a new tip: a child keeps the leases of its parent, a
\* branch replacement revokes them all.
CarriedTo(b, extends) ==
    [p \in Peer |->
        IF b = committed THEN frontier[p]
        ELSE IF extends /\ frontier[p].left > 0 /\ frontier[p].parent = committed
             THEN [frontier[p] EXCEPT !.parent = b]
             ELSE NoFrontier]

\* set_canonical_tip_state, without its publication.
SetCanonicalTip(b, extends, better) ==
    /\ committed' = b
    /\ frontier' = CarriedTo(b, extends)
    /\ confirmed' = IF b = committed THEN confirmed ELSE [p \in Peer |-> 0]
    /\ vouched' = [p \in Peer |-> IF CarriedTo(b, extends)[p].left > 0
                                  THEN vouched[p] ELSE NoPoint]
    /\ unresolved' = better

\* reconcile_canonical_tip: only a direct child extends the previous tip.
IsChild(b) == Height(b) = Height(committed) + 1 /\ Parent(b) = committed

\* resolve_committed_view
Resolved == [p \in Peer |-> [health[p] EXCEPT !.blocks = @ /\ ~health[p].compatible]]

\* The completion of the apply job: set_canonical_tip (or _unresolved),
\* resolve_committed_view, then confirm_tip for every source of the tip.
CompleteJob ==
    /\ job # NoJob
    /\ LET exact == job.kind # "snapshot" /\ job.selected
           S == IF job.selected THEN job.sources \cap connected ELSE {}
           carried == CarriedTo(job.at, job.kind = "suffix")
       IN  /\ committed' = job.at
           /\ unresolved' = ~job.selected
           /\ frontier' = [p \in Peer |-> IF p \in S THEN [left |-> TTL, parent |-> job.at]
                                          ELSE carried[p]]
           /\ confirmed' = [p \in Peer |-> IF p \in S THEN TTL
                                           ELSE IF job.at = committed THEN confirmed[p] ELSE 0]
           /\ vouched' = [p \in Peer |-> IF p \in S THEN job.at
                                         ELSE IF carried[p].left > 0 THEN vouched[p] ELSE NoPoint]
           /\ health' = [p \in Peer |->
                            IF p \in S THEN [left |-> TTL, compatible |-> TRUE, blocks |-> FALSE]
                            ELSE IF exact THEN Resolved[p] ELSE health[p]]
           /\ synced' = (synced \/ (exact /\ job.sources # {}))
    /\ job' = NoJob
    /\ UNCHANGED <<tip, plan, watch, reports, connected, initial>>
    /\ PublishAt

\* A local commit reached the loop through the watch.
HandleTipWatch ==
    /\ watch
    /\ watch' = FALSE
    /\ UNCHANGED <<tip, plan, job, synced, reports, connected, initial, health>>
    /\ IF tip = committed
          THEN UNCHANGED <<committed, unresolved, frontier, confirmed, vouched, published>>
          ELSE SetCanonicalTip(tip, IsChild(tip), FALSE) /\ PublishAt

\* unresolved_canonical_work
CanonicalWork == plan # NoPlan \/ job # NoJob

\* Mutants: a heartbeat that does not reconcile the tip, does not hand over
\* the sync state, or publishes only when one of these changed something.
HeartbeatNoReconcile ==
    /\ unresolved' = (CanonicalWork)
    /\ initial' = synced
    /\ UNCHANGED <<world, connected, committed, leases>>
    /\ PublishAt

HeartbeatNoSync ==
    /\ SetCanonicalTip(tip, IsChild(tip), unresolved)
    /\ initial' = synced
    /\ UNCHANGED <<world, connected, health>>
    /\ PublishAt

HeartbeatWithoutExpiry ==
    /\ SetCanonicalTip(tip, IsChild(tip), CanonicalWork)
    /\ initial' = synced
    /\ UNCHANGED <<world, connected, health>>
    /\ IF tip # committed \/ initial # synced \/ unresolved # (CanonicalWork)
          THEN PublishAt ELSE UNCHANGED published

\* The heartbeat: reconcile_canonical_tip, set_sync_state, expire_stale.
Heartbeat ==
    /\ SetCanonicalTip(tip, IsChild(tip), CanonicalWork)
    /\ initial' = synced
    /\ UNCHANGED <<world, connected, health>>
    /\ PublishAt

\* An exact suffix plan is admitted and set_sync_state closes readiness; it
\* publishes only what it changes.
AdmitSuffix ==
    /\ plan = NoPlan /\ job = NoJob
    /\ plan' = "suffix"
    /\ initial' = synced /\ unresolved' = TRUE
    /\ UNCHANGED <<tip, job, watch, synced, reports, connected, committed, leases>>
    /\ IF initial = synced /\ unresolved THEN UNCHANGED published ELSE PublishAt

\* A snapshot plan is left to the next heartbeat.
AdmitSnapshot ==
    /\ plan = NoPlan /\ job = NoJob
    /\ plan' = "snapshot"
    /\ UNCHANGED <<tip, job, watch, synced, reports, loop>>

\* The plan fails before anything is committed.
FailPlan ==
    /\ plan # NoPlan
    /\ plan' = NoPlan
    /\ UNCHANGED <<tip, job, watch, synced, reports, loop>>

\* The sources of a suffix are exhausted: the committed view counts as resolved.
ExtinguishPlan ==
    /\ plan = "suffix"
    /\ plan' = NoPlan
    /\ health' = Resolved
    /\ UNCHANGED <<tip, job, watch, synced, reports, connected, committed, initial,
                   unresolved, frontier, confirmed, vouched>>
    /\ PublishAt

Report == reports < MaxReports /\ reports' = reports + 1

Connect(p) ==
    /\ Report /\ p \notin connected
    /\ connected' = connected \cup {p}
    /\ UNCHANGED <<tip, plan, job, watch, synced, committed, initial, unresolved, leases,
                   published>>

\* An inventory confirms the durable tip: confirm_tip grants both leases when
\* the loop knows that tip, and the initial sync may end (which depends on the
\* announced heights, not modelled) even when it does not.
ConfirmTip(p) ==
    /\ Report /\ p \in connected
    /\ synced' \in {synced, TRUE}
    /\ UNCHANGED <<tip, plan, job, watch, connected, committed, initial, unresolved>>
    /\ IF committed = tip
          THEN /\ health' = [health EXCEPT ![p] = [left |-> TTL, compatible |-> TRUE,
                                                   blocks |-> FALSE]]
               /\ frontier' = [frontier EXCEPT ![p] = [left |-> TTL, parent |-> committed]]
               /\ confirmed' = [confirmed EXCEPT ![p] = TTL]
               /\ vouched' = [vouched EXCEPT ![p] = committed]
               /\ PublishAt
          ELSE UNCHANGED <<leases, published>>

ObserveCompatible(p) ==
    /\ Report /\ p \in connected
    /\ health' = [health EXCEPT ![p] = [left |-> TTL, compatible |-> TRUE, blocks |-> FALSE]]
    /\ UNCHANGED <<tip, plan, job, watch, synced, connected, committed, initial, unresolved,
                   frontier, confirmed, vouched>>
    /\ PublishAt

\* Mutant: renew_health leaves the frontier lease of an incompatible peer.
RejectIncompatibleKeepsFrontier(p) ==
    /\ Report /\ p \in connected
    /\ health' = [health EXCEPT ![p] = [left |-> TTL, compatible |-> FALSE, blocks |-> TRUE]]
    /\ UNCHANGED <<tip, plan, job, watch, synced, connected, committed, initial, unresolved,
                   frontier, confirmed, vouched>>
    /\ PublishAt

RejectIncompatible(p) ==
    /\ Report /\ p \in connected
    /\ health' = [health EXCEPT ![p] = [left |-> TTL, compatible |-> FALSE, blocks |-> TRUE]]
    /\ frontier' = [frontier EXCEPT ![p] = NoFrontier]
    /\ confirmed' = [confirmed EXCEPT ![p] = 0]
    /\ vouched' = [vouched EXCEPT ![p] = NoPoint]
    /\ UNCHANGED <<tip, plan, job, watch, synced, connected, committed, initial, unresolved>>
    /\ PublishAt

\* Mutant: a disconnection is not published.
DisconnectSilently(p) ==
    /\ p \in connected
    /\ connected' = connected \ {p}
    /\ health' = [health EXCEPT ![p] = NoHealth]
    /\ frontier' = [frontier EXCEPT ![p] = NoFrontier]
    /\ confirmed' = [confirmed EXCEPT ![p] = 0]
    /\ vouched' = [vouched EXCEPT ![p] = NoPoint]
    /\ UNCHANGED <<world, committed, initial, unresolved, published>>

Disconnect(p) ==
    /\ p \in connected
    /\ connected' = connected \ {p}
    /\ health' = [health EXCEPT ![p] = NoHealth]
    /\ frontier' = [frontier EXCEPT ![p] = NoFrontier]
    /\ confirmed' = [confirmed EXCEPT ![p] = 0]
    /\ vouched' = [vouched EXCEPT ![p] = NoPoint]
    /\ UNCHANGED <<world, committed, initial, unresolved>>
    /\ PublishAt

Next ==
    \/ \E b \in Block : CommitLocal(b)
    \/ \E k \in {"suffix", "reorg", "snapshot"}, b \in Block, f \in BOOLEAN, S \in SUBSET Peer :
          CommitJob(k, b, f, S)
    \/ Tick \/ CompleteJob \/ HandleTipWatch \/ Heartbeat
    \/ AdmitSuffix \/ AdmitSnapshot \/ FailPlan \/ ExtinguishPlan
    \/ \E p \in Peer : \/ Connect(p) \/ ConfirmTip(p) \/ ObserveCompatible(p)
                       \/ RejectIncompatible(p) \/ Disconnect(p)

Spec == Init /\ [][Next]_vars

\* The clock runs, the heartbeat is a timer of the loop, and the loop handles
\* what is queued for it.  Peers owe nothing: they may stop reporting.
Fairness == WF_vars(Tick) /\ WF_vars(Heartbeat) /\ WF_vars(CompleteJob) /\ WF_vars(HandleTipWatch)

FairSpec == Spec /\ Fairness

-----------------------------------------------------------------------------
(* Properties.                                                             *)

Comparable(a, b) == Extends(a, b) \/ Extends(b, a)

\* A frontier lease is never left behind: it stands for the committed tip, its
\* peer is connected and healthy, and an entry of frontier_confirmed, which
\* takes a peer out of the probes' first choice, always has its lease.
LeasesFollowTip ==
    \A p \in Peer :
        /\ frontier[p].left > 0 => /\ frontier[p].parent = committed
                                   /\ p \in connected /\ health[p].compatible
                                   /\ frontier[p].left <= health[p].left
        /\ confirmed[p] > 0 => frontier[p].left >= confirmed[p]
        /\ health[p].left > 0 => p \in connected

\* Nonce search is published as ready only on the authority of the required
\* number of distinct failure domains, with no incompatible view in force and
\* no canonical work left; a lapsed lease counts until the next publication.
NonceNeedsQuorum ==
    nonceReady /\ fresh =>
        /\ initial /\ ~unresolved
        /\ \A p \in connected : ~health[p].blocks
        /\ Cardinality({DomainOf[p] : p \in {q \in connected : frontier[q].left > 0}}) >= Required

\* "frontier authorization follows a validated canonical ancestry and is
\* revoked on branch replacement" (mining_readiness.rs:39): the point a peer
\* vouched for lies on the chain of the tip its lease now authorizes.
AuthorityFollowsAncestry ==
    \A p \in Peer : frontier[p].left > 0 => Comparable(vouched[p], committed)

\* "Actual canonical work independently closes readiness" (main.rs:11314):
\* while an exact suffix is fetched or applied, mining is not ready.
CanonicalWorkClosesReadiness == plan = "suffix" => ~proofReady

\* Authority lapses: when peers stop reporting, nonce search is not ready for
\* good, whatever the node commits by itself ("If authenticated tip traffic
\* stops, mining must stop", main.rs:553).
AuthorityLapses == <>[](~nonceReady)

\* The loop's tip catches up with the durable one, in whatever order
\* completions, watch and heartbeat are handled.
TipIsLearned == <>[](committed = tip)

\* Canonical work that stays closes readiness in the end.
WorkEventuallyCloses == plan # NoPlan ~> (plan = NoPlan \/ ~proofReady)

=============================================================================
