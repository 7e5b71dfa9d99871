------------------------ MODULE MiningReadinessProofs -------------------------
(***************************************************************************)
(* The lease discipline of mining readiness, for every set of peers, every *)
(* assignment of failure domains, every quorum and every lease length.     *)
(***************************************************************************)
EXTENDS MiningReadiness, TLAPS

\* A lapsed health lease blocks nothing: expire() has removed it.
LapsedIsSilent == \A p \in Peer : health[p].left = 0 => ~health[p].blocks

\* What NonceNeedsQuorum demands while nonce search is ready.
Quorum ==
    /\ initial /\ ~unresolved
    /\ \A p \in connected : ~health[p].blocks
    /\ Cardinality({DomainOf[p] : p \in {q \in connected : frontier[q].left > 0}}) >= Required

Inv == TypeOK /\ LeasesFollowTip /\ LapsedIsSilent /\ NonceNeedsQuorum

\* The leases survive a step that leaves the peers and the committed tip alone.
LEMMA LeasesUnchanged ==
    LeasesFollowTip /\ LapsedIsSilent /\ UNCHANGED <<connected, committed, leases>>
        => LeasesFollowTip' /\ LapsedIsSilent'
BY DEF LeasesFollowTip, LapsedIsSilent, leases

\* The snapshot counts exactly the connected peers with a frontier lease.
LEMMA ReadyMeansQuorum ==
    TypeOK /\ LeasesFollowTip /\ LapsedIsSilent /\ NonceSearchReady => Quorum
<1> SUFFICES ASSUME TypeOK, LeasesFollowTip, LapsedIsSilent, NonceSearchReady
             PROVE  Quorum
    OBVIOUS
<1>1. \A p \in Peer : ~health[p].blocks
  <2> SUFFICES ASSUME NEW p \in Peer PROVE ~health[p].blocks
      OBVIOUS
  <2>1. health[p].left \in 0..TTL
      BY DEF TypeOK
  <2>2. CASE health[p].left = 0
      BY <2>2 DEF LapsedIsSilent
  <2>3. CASE health[p].left > 0
      BY <2>3 DEF NonceSearchReady, ProofBuildReady
  <2> QED BY <2>1, <2>2, <2>3, ReadinessAssumption
<1>2. Authorizing = {q \in connected : frontier[q].left > 0}
  <2>1. \A q \in connected : q \in Peer
      BY DEF TypeOK
  <2>2. \A q \in Peer : frontier[q].left \in 0..TTL /\ health[q].left \in 0..TTL
      BY DEF TypeOK
  <2>3. \A q \in Peer : frontier[q].left > 0 =>
            q \in connected /\ health[q].left > 0 /\ health[q].compatible
                /\ frontier[q].parent = committed
      BY <2>2, ReadinessAssumption DEF LeasesFollowTip
  <2> QED BY <1>1, <2>1, <2>3 DEF Authorizing, Healthy
<1> QED BY <1>1, <1>2 DEF Quorum, NonceSearchReady, ProofBuildReady, Domains, TypeOK

\* Whatever a handler did, a publication over sound leases is sound.
LEMMA PublicationSound ==
    TypeOK' /\ LeasesFollowTip' /\ LapsedIsSilent' /\ PublishAt => NonceNeedsQuorum'
<1>1. (TypeOK /\ LeasesFollowTip /\ LapsedIsSilent /\ NonceSearchReady => Quorum)'
    BY ReadyMeansQuorum, PTL
<1>2. (Quorum => NonceNeedsQuorum)'
    BY DEF Quorum, NonceNeedsQuorum
<1>3. ~nonceReady' => NonceNeedsQuorum'
    BY DEF NonceNeedsQuorum
<1>4. PublishAt => nonceReady' = NonceSearchReady'
    BY DEF PublishAt
<1> QED BY <1>1, <1>2, <1>3, <1>4

--------------------------------------------------------------------------------
\* set_committed_tip keeps or drops leases, and every one it keeps is for the new tip.
LEMMA CarriedLeases ==
    ASSUME TypeOK, LeasesFollowTip, NEW b \in Block, NEW e \in BOOLEAN, NEW p \in Peer
    PROVE  /\ CarriedTo(b, e)[p] \in [left : 0..TTL, parent : Block \cup {NoPoint}]
           /\ CarriedTo(b, e)[p].left > 0 =>
                  /\ CarriedTo(b, e)[p].parent = b
                  /\ CarriedTo(b, e)[p].left = frontier[p].left
           /\ b = committed => CarriedTo(b, e)[p] = frontier[p]
<1>1. frontier[p] \in [left : 0..TTL, parent : Block \cup {NoPoint}]
    BY DEF TypeOK
<1>2. NoFrontier \in [left : 0..TTL, parent : Block \cup {NoPoint}] /\ NoFrontier.left = 0
    BY ReadinessAssumption DEF NoFrontier
<1>3. CASE b = committed
    BY <1>1, <1>3, ReadinessAssumption DEF CarriedTo, LeasesFollowTip
<1>4. CASE b # committed /\ e /\ frontier[p].left > 0 /\ frontier[p].parent = committed
  <2>1. CarriedTo(b, e)[p] = [frontier[p] EXCEPT !.parent = b]
      BY <1>4 DEF CarriedTo
  <2> QED BY <1>1, <1>4, <2>1
<1>5. CASE b # committed /\ ~(e /\ frontier[p].left > 0 /\ frontier[p].parent = committed)
  <2>1. CarriedTo(b, e)[p] = NoFrontier
      BY <1>5 DEF CarriedTo
  <2> QED BY <1>2, <1>5, <2>1
<1> QED BY <1>3, <1>4, <1>5

\* set_canonical_tip_state preserves the lease discipline.
LEMMA TipMoveSound ==
    ASSUME Inv, NEW b \in Block, NEW e \in BOOLEAN, NEW u \in BOOLEAN,
           SetCanonicalTip(b, e, u), UNCHANGED <<connected, health>>
    PROVE  /\ committed' \in Block /\ unresolved' \in BOOLEAN
           /\ frontier' \in [Peer -> [left : 0..TTL, parent : Block \cup {NoPoint}]]
           /\ confirmed' \in [Peer -> 0..TTL]
           /\ vouched' \in [Peer -> Block \cup {NoPoint}]
           /\ LeasesFollowTip' /\ LapsedIsSilent'
<1> USE DEF Inv
<1>1. \A p \in Peer :
         /\ CarriedTo(b, e)[p] \in [left : 0..TTL, parent : Block \cup {NoPoint}]
         /\ CarriedTo(b, e)[p].left > 0 =>
                CarriedTo(b, e)[p].parent = b /\ CarriedTo(b, e)[p].left = frontier[p].left
         /\ b = committed => CarriedTo(b, e)[p] = frontier[p]
    BY CarriedLeases
<1>2. committed' = b /\ unresolved' = u /\ frontier' = CarriedTo(b, e)
    BY DEF SetCanonicalTip
<1>3. frontier' \in [Peer -> [left : 0..TTL, parent : Block \cup {NoPoint}]]
  <2>1. DOMAIN CarriedTo(b, e) = Peer /\ CarriedTo(b, e) = [p \in Peer |-> CarriedTo(b, e)[p]]
      BY DEF CarriedTo
  <2> QED BY <1>1, <1>2, <2>1
<1>4. confirmed' \in [Peer -> 0..TTL]
    BY ReadinessAssumption DEF SetCanonicalTip, TypeOK
<1>5. vouched' \in [Peer -> Block \cup {NoPoint}]
    BY DEF SetCanonicalTip, TypeOK
<1>6. \A p \in Peer : confirmed'[p] > 0 => b = committed /\ confirmed'[p] = confirmed[p]
    BY DEF SetCanonicalTip, TypeOK
<1>7. LeasesFollowTip'
  <2> SUFFICES ASSUME NEW p \in Peer
               PROVE  /\ frontier'[p].left > 0 =>
                             /\ frontier'[p].parent = committed'
                             /\ p \in connected' /\ health'[p].compatible
                             /\ frontier'[p].left <= health'[p].left
                      /\ confirmed'[p] > 0 => frontier'[p].left >= confirmed'[p]
                      /\ health'[p].left > 0 => p \in connected'
      BY DEF LeasesFollowTip
  <2>1. frontier'[p].left > 0 => frontier'[p].parent = b /\ frontier'[p].left = frontier[p].left
      BY <1>1, <1>2
  <2>2. confirmed'[p] > 0 => frontier'[p] = frontier[p] /\ confirmed'[p] = confirmed[p]
      BY <1>1, <1>2, <1>6
  <2> QED BY <1>2, <2>1, <2>2 DEF LeasesFollowTip
<1>8. LapsedIsSilent'
    BY DEF LapsedIsSilent
<1> QED BY <1>2, <1>3, <1>4, <1>5, <1>7, <1>8

\* resolve_committed_view only takes blocks away.
LEMMA ResolvedHealth ==
    ASSUME TypeOK, NEW p \in Peer
    PROVE  /\ Resolved[p] \in [left : 0..TTL, compatible : BOOLEAN, blocks : BOOLEAN]
           /\ Resolved[p].left = health[p].left /\ Resolved[p].compatible = health[p].compatible
           /\ Resolved[p].blocks => health[p].blocks
<1>1. health[p] \in [left : 0..TTL, compatible : BOOLEAN, blocks : BOOLEAN]
    BY DEF TypeOK
<1>2. Resolved[p] = [health[p] EXCEPT !.blocks = health[p].blocks /\ ~health[p].compatible]
    BY DEF Resolved
<1> QED BY <1>1, <1>2

\* The published flags are Booleans.
LEMMA FlagTypes ==
    PublishAt => proofReady' \in BOOLEAN /\ nonceReady' \in BOOLEAN /\ fresh' \in BOOLEAN
BY DEF PublishAt, ProofBuildReady, NonceSearchReady

--------------------------------------------------------------------------------
(* One lemma per action.                                                   *)

\* Steps that leave the event loop alone: the chain moves, plans come and go.
LEMMA WorldStep ==
    ASSUME Inv, UNCHANGED loop,
           tip' \in Block, plan' \in {NoPlan, "suffix", "snapshot"}, job' \in JobType \cup {NoJob},
           watch' \in BOOLEAN, synced' \in BOOLEAN, reports' \in 0..MaxReports
    PROVE  Inv'
<1> USE DEF Inv
<1>1. UNCHANGED <<connected, committed, initial, unresolved, leases, published>>
    BY DEF loop
<1>2. TypeOK'
    BY <1>1 DEF TypeOK, leases, published
<1>3. LeasesFollowTip' /\ LapsedIsSilent'
    BY <1>1, LeasesUnchanged
<1>4. NonceNeedsQuorum'
    BY <1>1 DEF NonceNeedsQuorum, leases, published
<1> QED BY <1>2, <1>3, <1>4

\* Time passes: every lease loses the same amount.
LEMMA TickStep == Inv /\ Tick => Inv'
<1> SUFFICES ASSUME Inv, Tick PROVE Inv'
    OBVIOUS
<1> USE DEF Inv
<1>1. \A p \in Peer :
         /\ health'[p] \in [left : 0..TTL, compatible : BOOLEAN, blocks : BOOLEAN]
         /\ health[p].left > 1 => /\ health'[p].left = health[p].left - 1
                                  /\ health'[p].compatible = health[p].compatible
         /\ health[p].left <= 1 => health'[p].left = 0
         /\ health'[p].left = 0 => ~health'[p].blocks
  <2> SUFFICES ASSUME NEW p \in Peer
               PROVE  /\ health'[p] \in [left : 0..TTL, compatible : BOOLEAN, blocks : BOOLEAN]
                      /\ health[p].left > 1 => /\ health'[p].left = health[p].left - 1
                                               /\ health'[p].compatible = health[p].compatible
                      /\ health[p].left <= 1 => health'[p].left = 0
                      /\ health'[p].left = 0 => ~health'[p].blocks
      OBVIOUS
  <2>1. health[p] \in [left : 0..TTL, compatible : BOOLEAN, blocks : BOOLEAN]
      BY DEF TypeOK
  <2>2. health[p].left \in 0..TTL
      BY <2>1
  <2>3. CASE health[p].left > 1
    <3>1. health'[p] = [health[p] EXCEPT !.left = health[p].left - 1]
        BY <2>3 DEF Tick
    <3>2. health[p].left - 1 \in 0..TTL /\ health[p].left - 1 # 0
        BY <2>2, <2>3, ReadinessAssumption
    <3> QED BY <2>1, <2>2, <2>3, <3>1, <3>2
  <2>4. CASE ~(health[p].left > 1)
    <3>1. health'[p] = NoHealth
        BY <2>4 DEF Tick
    <3>2. 0 \in 0..TTL
        BY ReadinessAssumption
    <3>3. /\ NoHealth \in [left : 0..TTL, compatible : BOOLEAN, blocks : BOOLEAN]
          /\ NoHealth.left = 0 /\ ~NoHealth.blocks
        BY <3>2, Zenon DEF NoHealth
    <3> QED BY <2>4, <3>1, <3>3
  <2> QED BY <2>3, <2>4
<1>2. \A p \in Peer :
         /\ frontier'[p] \in [left : 0..TTL, parent : Block \cup {NoPoint}]
         /\ frontier[p].left > 1 => /\ frontier'[p].left = frontier[p].left - 1
                                    /\ frontier'[p].parent = frontier[p].parent
         /\ frontier[p].left <= 1 => frontier'[p].left = 0
  <2> SUFFICES ASSUME NEW p \in Peer
               PROVE  /\ frontier'[p] \in [left : 0..TTL, parent : Block \cup {NoPoint}]
                      /\ frontier[p].left > 1 => /\ frontier'[p].left = frontier[p].left - 1
                                                 /\ frontier'[p].parent = frontier[p].parent
                      /\ frontier[p].left <= 1 => frontier'[p].left = 0
      OBVIOUS
  <2>1. frontier[p] \in [left : 0..TTL, parent : Block \cup {NoPoint}]
      BY DEF TypeOK
  <2>2. frontier[p].left \in 0..TTL
      BY <2>1
  <2>3. CASE frontier[p].left > 1
    <3>1. frontier'[p] = [frontier[p] EXCEPT !.left = frontier[p].left - 1]
        BY <2>3 DEF Tick
    <3>2. frontier[p].left - 1 \in 0..TTL
        BY <2>2, <2>3, ReadinessAssumption
    <3> QED BY <2>1, <2>2, <2>3, <3>1, <3>2
  <2>4. CASE ~(frontier[p].left > 1)
    <3>1. frontier'[p] = NoFrontier
        BY <2>4 DEF Tick
    <3> QED BY <2>2, <2>4, <3>1, ReadinessAssumption DEF NoFrontier
  <2> QED BY <2>3, <2>4
<1>3. \A p \in Peer : /\ confirmed'[p] \in 0..TTL
                      /\ confirmed'[p] > 0 => confirmed'[p] = confirmed[p] - 1
    BY ReadinessAssumption DEF Tick, Left, TypeOK
<1>4. TypeOK'
  <2>1. health' \in [Peer -> [left : 0..TTL, compatible : BOOLEAN, blocks : BOOLEAN]]
    <3>1. health' = [p \in Peer |-> health'[p]]
        BY DEF Tick
    <3> QED BY <1>1, <3>1
  <2>2. frontier' \in [Peer -> [left : 0..TTL, parent : Block \cup {NoPoint}]]
    <3>1. frontier' = [p \in Peer |-> frontier'[p]]
        BY DEF Tick
    <3> QED BY <1>2, <3>1
  <2>3. confirmed' \in [Peer -> 0..TTL]
    <3>1. confirmed' = [p \in Peer |-> confirmed'[p]]
        BY DEF Tick
    <3> QED BY <1>3, <3>1
  <2>4. vouched' \in [Peer -> Block \cup {NoPoint}]
      BY DEF Tick, TypeOK
  <2> QED BY <2>1, <2>2, <2>3, <2>4 DEF Tick, TypeOK, world
<1>5. LeasesFollowTip'
  <2> SUFFICES ASSUME NEW p \in Peer
               PROVE  /\ frontier'[p].left > 0 =>
                             /\ frontier'[p].parent = committed'
                             /\ p \in connected' /\ health'[p].compatible
                             /\ frontier'[p].left <= health'[p].left
                      /\ confirmed'[p] > 0 => frontier'[p].left >= confirmed'[p]
                      /\ health'[p].left > 0 => p \in connected'
      BY DEF LeasesFollowTip
  <2>1. health[p].left \in 0..TTL /\ frontier[p].left \in 0..TTL /\ confirmed[p] \in 0..TTL
      BY DEF TypeOK
  <2>2. connected' = connected /\ committed' = committed
      BY DEF Tick
  <2> QED BY <1>1, <1>2, <1>3, <2>1, <2>2, ReadinessAssumption DEF LeasesFollowTip
<1>6. LapsedIsSilent'
    BY <1>1 DEF LapsedIsSilent
<1>7. NonceNeedsQuorum'
    BY DEF Tick, NonceNeedsQuorum
<1> QED BY <1>4, <1>5, <1>6, <1>7

\* A step that gives peer p the leases h and f and publishes.
LeaseStep(p, h, f, c, v) ==
    /\ health' = [health EXCEPT ![p] = h] /\ frontier' = [frontier EXCEPT ![p] = f]
    /\ confirmed' = [confirmed EXCEPT ![p] = c] /\ vouched' = [vouched EXCEPT ![p] = v]
    /\ connected' \subseteq Peer /\ connected' \ {p} = connected \ {p}
    /\ UNCHANGED <<tip, plan, job, watch, committed, initial, unresolved>>
    /\ synced' \in BOOLEAN /\ reports' \in 0..MaxReports
    /\ PublishAt

\* The leases h and f are in order for peer p.
SoundLease(p, h, f, c, v) ==
    /\ h \in [left : 0..TTL, compatible : BOOLEAN, blocks : BOOLEAN]
    /\ f \in [left : 0..TTL, parent : Block \cup {NoPoint}]
    /\ c \in 0..TTL /\ v \in Block \cup {NoPoint}
    /\ f.left > 0 => f.parent = committed /\ p \in connected' /\ h.compatible /\ f.left <= h.left
    /\ c > 0 => f.left >= c
    /\ h.left > 0 => p \in connected'
    /\ h.left = 0 => ~h.blocks

\* Such a step keeps the discipline when the leases it gives are in order.
LEMMA PeerStep ==
    ASSUME Inv, NEW p \in Peer, NEW h, NEW f, NEW c, NEW v,
           LeaseStep(p, h, f, c, v), SoundLease(p, h, f, c, v)
    PROVE  Inv'
<1> USE DEF LeaseStep, SoundLease
<1> USE DEF Inv
<1>1. TypeOK'
  <2>1. health' \in [Peer -> [left : 0..TTL, compatible : BOOLEAN, blocks : BOOLEAN]]
      BY DEF TypeOK
  <2>2. /\ frontier' \in [Peer -> [left : 0..TTL, parent : Block \cup {NoPoint}]]
        /\ confirmed' \in [Peer -> 0..TTL]
        /\ vouched' \in [Peer -> Block \cup {NoPoint}]
      BY DEF TypeOK
  <2> QED BY <2>1, <2>2, FlagTypes DEF TypeOK
<1>2. LeasesFollowTip'
  <2> SUFFICES ASSUME NEW q \in Peer
               PROVE  /\ frontier'[q].left > 0 =>
                             /\ frontier'[q].parent = committed'
                             /\ q \in connected' /\ health'[q].compatible
                             /\ frontier'[q].left <= health'[q].left
                      /\ confirmed'[q] > 0 => frontier'[q].left >= confirmed'[q]
                      /\ health'[q].left > 0 => q \in connected'
      BY DEF LeasesFollowTip
  <2>1. CASE q = p
    <3>1. health'[q] = h /\ frontier'[q] = f /\ confirmed'[q] = c
        BY <2>1 DEF TypeOK
    <3> QED BY <2>1, <3>1
  <2>2. CASE q # p
    <3>1. /\ health'[q] = health[q] /\ frontier'[q] = frontier[q] /\ confirmed'[q] = confirmed[q]
          /\ q \in connected' <=> q \in connected
        BY <2>2 DEF TypeOK
    <3> QED BY <3>1 DEF LeasesFollowTip
  <2> QED BY <2>1, <2>2
<1>3. LapsedIsSilent'
    BY DEF LapsedIsSilent, TypeOK
<1> QED BY <1>1, <1>2, <1>3, PublicationSound

\* The reports of a peer, its connection and its departure.
LEMMA PeerActions ==
    ASSUME Inv, NEW p \in Peer,
           ConfirmTip(p) \/ ObserveCompatible(p) \/ RejectIncompatible(p) \/ Disconnect(p)
    PROVE  Inv'
<1> DEFINE H == [left : 0..TTL, compatible : BOOLEAN, blocks : BOOLEAN]
           F == [left : 0..TTL, parent : Block \cup {NoPoint}]
           good == [left |-> TTL, compatible |-> TRUE, blocks |-> FALSE]
           bad == [left |-> TTL, compatible |-> FALSE, blocks |-> TRUE]
           granted == [left |-> TTL, parent |-> committed]
<1>1. 0 \in 0..TTL /\ TTL \in 0..TTL /\ TTL > 0
    BY ReadinessAssumption
<1>2. good \in H /\ bad \in H /\ NoHealth \in H
    BY <1>1, Zenon DEF NoHealth
<1>3. granted \in F /\ NoFrontier \in F /\ NoFrontier.left = 0
    BY <1>1 DEF Inv, TypeOK, NoFrontier
<1>4. Report => reports' \in 0..MaxReports
    BY ReadinessAssumption DEF Report, Inv, TypeOK
<1>5. /\ p \in connected => p \in connected /\ connected \subseteq Peer
      /\ frontier[p] \in F /\ confirmed[p] \in 0..TTL /\ vouched[p] \in Block \cup {NoPoint}
      /\ frontier[p].left \in 0..TTL
      /\ committed \in Block /\ connected \subseteq Peer
      /\ frontier[p].left > 0 => frontier[p].parent = committed /\ p \in connected
      /\ confirmed[p] > 0 => frontier[p].left >= confirmed[p]
    BY DEF Inv, TypeOK, LeasesFollowTip
<1>6. /\ frontier = [frontier EXCEPT ![p] = frontier[p]]
      /\ confirmed = [confirmed EXCEPT ![p] = confirmed[p]]
      /\ vouched = [vouched EXCEPT ![p] = vouched[p]]
    BY DEF Inv, TypeOK
<1>7. CASE ConfirmTip(p) /\ committed = tip
  <2>1. /\ health' = [health EXCEPT ![p] = good] /\ frontier' = [frontier EXCEPT ![p] = granted]
        /\ confirmed' = [confirmed EXCEPT ![p] = TTL] /\ vouched' = [vouched EXCEPT ![p] = committed]
        /\ UNCHANGED <<tip, plan, job, watch, connected, committed, initial, unresolved>>
        /\ synced' \in BOOLEAN /\ reports' \in 0..MaxReports /\ p \in connected
        /\ PublishAt
      BY <1>4, <1>7 DEF ConfirmTip, Inv, TypeOK
  <2>a. LeaseStep(p, good, granted, TTL, committed)
      BY <1>1, <1>2, <1>3, <1>5, <2>1 DEF LeaseStep
  <2>b. SoundLease(p, good, granted, TTL, committed)
      BY <1>1, <1>2, <1>3, <1>5, <2>1 DEF SoundLease
  <2> QED BY <2>a, <2>b, PeerStep
<1>8. CASE ConfirmTip(p) /\ committed # tip
  <2>1. UNCHANGED loop /\ UNCHANGED <<tip, plan, job, watch>> /\ synced' \in BOOLEAN
        /\ reports' \in 0..MaxReports
      BY <1>4, <1>8 DEF ConfirmTip, Inv, TypeOK, loop
  <2> QED BY <2>1, WorldStep DEF Inv, TypeOK
<1>9. CASE ObserveCompatible(p)
  <2>1. /\ health' = [health EXCEPT ![p] = good] /\ frontier' = frontier
        /\ confirmed' = confirmed /\ vouched' = vouched
        /\ UNCHANGED <<tip, plan, job, watch, connected, committed, initial, unresolved>>
        /\ synced' \in BOOLEAN /\ reports' \in 0..MaxReports /\ p \in connected
        /\ PublishAt
      BY <1>4, <1>9 DEF ObserveCompatible, Inv, TypeOK
  <2>a. LeaseStep(p, good, frontier[p], confirmed[p], vouched[p])
      BY <1>1, <1>2, <1>5, <1>6, <2>1 DEF LeaseStep
  <2>b. SoundLease(p, good, frontier[p], confirmed[p], vouched[p])
      BY <1>1, <1>2, <1>5, <1>6, <2>1 DEF SoundLease
  <2> QED BY <2>a, <2>b, PeerStep
<1>10. CASE RejectIncompatible(p)
  <2>1. /\ health' = [health EXCEPT ![p] = bad] /\ frontier' = [frontier EXCEPT ![p] = NoFrontier]
        /\ confirmed' = [confirmed EXCEPT ![p] = 0] /\ vouched' = [vouched EXCEPT ![p] = NoPoint]
        /\ UNCHANGED <<tip, plan, job, watch, connected, committed, initial, unresolved>>
        /\ synced' \in BOOLEAN /\ reports' \in 0..MaxReports /\ p \in connected
        /\ PublishAt
      BY <1>4, <1>10 DEF RejectIncompatible, Inv, TypeOK
  <2>a. LeaseStep(p, bad, NoFrontier, 0, NoPoint)
      BY <1>1, <1>2, <1>3, <1>5, <2>1 DEF LeaseStep
  <2>b. SoundLease(p, bad, NoFrontier, 0, NoPoint)
      BY <1>1, <1>2, <1>3, <1>5, <2>1 DEF SoundLease
  <2> QED BY <2>a, <2>b, PeerStep
<1>11. CASE Disconnect(p)
  <2>1. /\ health' = [health EXCEPT ![p] = NoHealth] /\ frontier' = [frontier EXCEPT ![p] = NoFrontier]
        /\ confirmed' = [confirmed EXCEPT ![p] = 0] /\ vouched' = [vouched EXCEPT ![p] = NoPoint]
        /\ UNCHANGED <<tip, plan, job, watch, committed, initial, unresolved>>
        /\ synced' \in BOOLEAN /\ reports' \in 0..MaxReports
        /\ connected' \subseteq Peer /\ connected' \ {p} = connected \ {p}
        /\ PublishAt
      BY <1>11 DEF Disconnect, Inv, TypeOK, world
  <2>2. NoHealth.left = 0 /\ ~NoHealth.blocks
      BY Zenon DEF NoHealth
  <2>a. LeaseStep(p, NoHealth, NoFrontier, 0, NoPoint)
      BY <1>1, <1>2, <1>3, <1>5, <2>1, <2>2 DEF LeaseStep
  <2>b. SoundLease(p, NoHealth, NoFrontier, 0, NoPoint)
      BY <1>1, <1>2, <1>3, <1>5, <2>1, <2>2 DEF SoundLease
  <2> QED BY <2>a, <2>b, PeerStep
<1> QED BY <1>7, <1>8, <1>9, <1>10, <1>11

\* A peer that connects holds no lease yet.
LEMMA ConnectStep == ASSUME Inv, NEW p \in Peer, Connect(p) PROVE Inv'
<1> USE DEF Inv
<1>1. p \notin connected /\ connected' = connected \cup {p} /\ UNCHANGED <<committed, leases>>
      /\ UNCHANGED <<tip, plan, job, watch, synced, initial, unresolved, published>>
    BY DEF Connect
<1>2. reports' \in 0..MaxReports
    BY ReadinessAssumption DEF Connect, Report, TypeOK
<1>3. TypeOK'
    BY <1>1, <1>2 DEF TypeOK, leases, published
<1>4. LeasesFollowTip' /\ LapsedIsSilent'
    BY <1>1 DEF LeasesFollowTip, LapsedIsSilent, leases
<1>5. NonceNeedsQuorum'
  <2>1. ~(frontier[p].left > 0) /\ ~health[p].blocks
    <3>1. health[p].left \in 0..TTL /\ ~(health[p].left > 0)
        BY <1>1 DEF TypeOK, LeasesFollowTip
    <3>2. health[p].left = 0
        BY <3>1, ReadinessAssumption
    <3> QED BY <1>1, <3>2 DEF LapsedIsSilent, LeasesFollowTip
  <2>2. {q \in connected' : frontier'[q].left > 0} = {q \in connected : frontier[q].left > 0}
      BY <1>1, <2>1 DEF leases
  <2>3. \A q \in connected' : q \in connected \/ q = p
      BY <1>1
  <2> QED BY <1>1, <2>1, <2>2, <2>3 DEF NonceNeedsQuorum, leases, published
<1> QED BY <1>3, <1>4, <1>5

\* The watch and the heartbeat move the tip by set_canonical_tip.
LEMMA TipActions == ASSUME Inv, HandleTipWatch \/ Heartbeat PROVE Inv'
<1> USE DEF Inv
<1>1. tip \in Block /\ IsChild(tip) \in BOOLEAN /\ CanonicalWork \in BOOLEAN
    BY DEF TypeOK, IsChild, CanonicalWork
<1>2. CASE HandleTipWatch /\ tip = committed
  <2>1. UNCHANGED loop /\ UNCHANGED <<tip, plan, job, synced, reports>> /\ watch' = FALSE
      BY <1>2 DEF HandleTipWatch, loop, leases
  <2> QED BY <2>1, WorldStep DEF TypeOK
<1>3. CASE HandleTipWatch /\ tip # committed
  <2>1. /\ SetCanonicalTip(tip, IsChild(tip), FALSE) /\ PublishAt
        /\ UNCHANGED <<tip, plan, job, synced, reports, connected, initial, health>>
        /\ watch' = FALSE
      BY <1>3 DEF HandleTipWatch
  <2>2. /\ committed' \in Block /\ unresolved' \in BOOLEAN
        /\ frontier' \in [Peer -> [left : 0..TTL, parent : Block \cup {NoPoint}]]
        /\ confirmed' \in [Peer -> 0..TTL]
        /\ vouched' \in [Peer -> Block \cup {NoPoint}]
        /\ LeasesFollowTip' /\ LapsedIsSilent'
      BY <1>1, <2>1, TipMoveSound
  <2>3. TypeOK'
      BY <2>1, <2>2, FlagTypes DEF TypeOK
  <2> QED BY <2>1, <2>2, <2>3, PublicationSound
<1>4. CASE Heartbeat
  <2>1. /\ SetCanonicalTip(tip, IsChild(tip), CanonicalWork) /\ PublishAt
        /\ UNCHANGED <<tip, plan, job, watch, synced, reports, connected, health>>
        /\ initial' = synced
      BY <1>4 DEF Heartbeat, world
  <2>2. /\ committed' \in Block /\ unresolved' \in BOOLEAN
        /\ frontier' \in [Peer -> [left : 0..TTL, parent : Block \cup {NoPoint}]]
        /\ confirmed' \in [Peer -> 0..TTL]
        /\ vouched' \in [Peer -> Block \cup {NoPoint}]
        /\ LeasesFollowTip' /\ LapsedIsSilent'
      BY <1>1, <2>1, TipMoveSound
  <2>3. TypeOK'
      BY <2>1, <2>2, FlagTypes DEF TypeOK
  <2> QED BY <2>1, <2>2, <2>3, PublicationSound
<1> QED BY <1>2, <1>3, <1>4

\* A suffix is admitted, or given up when its sources are exhausted.
LEMMA PlanActions == ASSUME Inv, AdmitSuffix \/ ExtinguishPlan PROVE Inv'
<1> USE DEF Inv
<1>1. CASE AdmitSuffix
  <2>1. LeasesFollowTip' /\ LapsedIsSilent'
      BY <1>1, LeasesUnchanged DEF AdmitSuffix
  <2>2. initial' \in BOOLEAN /\ unresolved' \in BOOLEAN /\ plan' \in {NoPlan, "suffix", "snapshot"}
      BY <1>1 DEF AdmitSuffix, TypeOK
  <2>3. UNCHANGED <<tip, job, watch, synced, reports, connected, committed, leases>>
      BY <1>1 DEF AdmitSuffix
  <2>4. CASE initial = synced /\ unresolved
    <3>1. UNCHANGED published /\ unresolved' = unresolved /\ initial' = initial
        BY <1>1, <2>4, Zenon DEF AdmitSuffix, TypeOK
    <3>2. TypeOK'
        BY <2>2, <2>3, <3>1 DEF TypeOK, leases, published
    <3>3. NonceNeedsQuorum'
        BY <2>3, <3>1 DEF NonceNeedsQuorum, leases, published
    <3> QED BY <2>1, <3>2, <3>3
  <2>5. CASE ~(initial = synced /\ unresolved)
    <3>1. PublishAt
        BY <1>1, <2>5, Zenon DEF AdmitSuffix
    <3>2. TypeOK'
        BY <2>2, <2>3, <3>1, FlagTypes DEF TypeOK, leases
    <3> QED BY <2>1, <3>1, <3>2, PublicationSound
  <2> QED BY <2>4, <2>5
<1>2. CASE ExtinguishPlan
  <2>1. /\ health' = Resolved /\ plan' = NoPlan /\ PublishAt
        /\ UNCHANGED <<tip, job, watch, synced, reports, connected, committed, initial,
                       unresolved, frontier, confirmed, vouched>>
      BY <1>2 DEF ExtinguishPlan
  <2>2. \A p \in Peer :
           /\ health'[p] \in [left : 0..TTL, compatible : BOOLEAN, blocks : BOOLEAN]
           /\ health'[p].left = health[p].left /\ health'[p].compatible = health[p].compatible
           /\ health'[p].blocks => health[p].blocks
      BY <2>1, ResolvedHealth
  <2>3. health' \in [Peer -> [left : 0..TTL, compatible : BOOLEAN, blocks : BOOLEAN]]
    <3>1. health' = [p \in Peer |-> health'[p]]
        BY <2>1 DEF Resolved
    <3> QED BY <2>2, <3>1
  <2>4. TypeOK'
      BY <2>1, <2>3, FlagTypes DEF TypeOK
  <2>5. LeasesFollowTip' /\ LapsedIsSilent'
      BY <2>1, <2>2 DEF LeasesFollowTip, LapsedIsSilent
  <2> QED BY <2>1, <2>4, <2>5, PublicationSound
<1> QED BY <1>1, <1>2

\* A handled completion: carried leases for most peers, new ones for the sources.
LEMMA CompleteJobStep == ASSUME Inv, CompleteJob PROVE Inv'
<1> USE DEF Inv
<1> DEFINE H == [left : 0..TTL, compatible : BOOLEAN, blocks : BOOLEAN]
           F == [left : 0..TTL, parent : Block \cup {NoPoint}]
           exact == job.kind # "snapshot" /\ job.selected
           S == IF job.selected THEN job.sources \cap connected ELSE {}
           e == job.kind = "suffix"
           carried == CarriedTo(job.at, e)
           good == [left |-> TTL, compatible |-> TRUE, blocks |-> FALSE]
           granted == [left |-> TTL, parent |-> job.at]
<1>1. job \in JobType
    BY DEF CompleteJob, TypeOK
<1>2. job.at \in Block /\ e \in BOOLEAN /\ S \subseteq connected /\ job.selected \in BOOLEAN
    BY <1>1 DEF JobType
<1>3. /\ committed' = job.at /\ unresolved' = ~job.selected
      /\ frontier' = [p \in Peer |-> IF p \in S THEN granted ELSE carried[p]]
      /\ confirmed' = [p \in Peer |-> IF p \in S THEN TTL
                                      ELSE IF job.at = committed THEN confirmed[p] ELSE 0]
      /\ vouched' = [p \in Peer |-> IF p \in S THEN job.at
                                    ELSE IF carried[p].left > 0 THEN vouched[p] ELSE NoPoint]
      /\ health' = [p \in Peer |-> IF p \in S THEN good
                                   ELSE IF exact THEN Resolved[p] ELSE health[p]]
    BY DEF CompleteJob
<1>4. /\ synced' \in BOOLEAN /\ job' = NoJob /\ PublishAt
      /\ UNCHANGED <<tip, plan, watch, reports, connected, initial>>
    BY DEF CompleteJob, TypeOK
<1>5. 0 \in 0..TTL /\ TTL \in 0..TTL /\ TTL > 0
    BY ReadinessAssumption
<1>6. good \in H /\ good.left = TTL /\ good.compatible /\ ~good.blocks
    BY <1>5, Zenon
<1>7. granted \in F /\ granted.left = TTL /\ granted.parent = job.at
    BY <1>2, <1>5
<1>8. \A p \in Peer :
         /\ carried[p] \in F
         /\ carried[p].left > 0 => carried[p].parent = job.at /\ carried[p].left = frontier[p].left
         /\ job.at = committed => carried[p] = frontier[p]
    BY <1>2, CarriedLeases
<1>9. \A p \in Peer :
         /\ Resolved[p] \in H
         /\ Resolved[p].left = health[p].left /\ Resolved[p].compatible = health[p].compatible
         /\ Resolved[p].blocks => health[p].blocks
    BY ResolvedHealth
<1>10. \A p \in Peer : health[p] \in H
    BY DEF TypeOK
<1> HIDE DEF exact, S, e, carried, good, granted
<1>11. \A p \in Peer \ S :
          /\ health'[p] \in H
          /\ health'[p].left = health[p].left /\ health'[p].compatible = health[p].compatible
          /\ health'[p].blocks => health[p].blocks
  <2> SUFFICES ASSUME NEW p \in Peer \ S
               PROVE  /\ health'[p] \in H
                      /\ health'[p].left = health[p].left
                      /\ health'[p].compatible = health[p].compatible
                      /\ health'[p].blocks => health[p].blocks
      OBVIOUS
  <2>1. health'[p] = Resolved[p] \/ health'[p] = health[p]
      BY <1>3
  <2> QED BY <1>9, <1>10, <2>1
<1>12. \A p \in S : p \in Peer => health'[p] = good /\ frontier'[p] = granted /\ confirmed'[p] = TTL
    BY <1>3
<1>13. \A p \in Peer \ S : /\ frontier'[p] = carried[p]
                           /\ confirmed'[p] = IF job.at = committed THEN confirmed[p] ELSE 0
    BY <1>3
<1>14. TypeOK'
  <2>1. health' \in [Peer -> H]
    <3>1. health' = [p \in Peer |-> health'[p]] /\ \A p \in Peer : health'[p] \in H
        BY <1>3, <1>6, <1>11, <1>12
    <3> QED BY <3>1
  <2>2. frontier' \in [Peer -> F]
    <3>1. frontier' = [p \in Peer |-> frontier'[p]] /\ \A p \in Peer : frontier'[p] \in F
        BY <1>3, <1>7, <1>8, <1>12, <1>13
    <3> QED BY <3>1
  <2>3. confirmed' \in [Peer -> 0..TTL] /\ vouched' \in [Peer -> Block \cup {NoPoint}]
      BY <1>2, <1>3, <1>5 DEF TypeOK
  <2>4. committed' \in Block /\ unresolved' \in BOOLEAN
      BY <1>2, <1>3
  <2> QED BY <1>4, <2>1, <2>2, <2>3, <2>4, FlagTypes DEF TypeOK
<1>15. LeasesFollowTip'
  <2> SUFFICES ASSUME NEW p \in Peer
               PROVE  /\ frontier'[p].left > 0 =>
                             /\ frontier'[p].parent = committed'
                             /\ p \in connected' /\ health'[p].compatible
                             /\ frontier'[p].left <= health'[p].left
                      /\ confirmed'[p] > 0 => frontier'[p].left >= confirmed'[p]
                      /\ health'[p].left > 0 => p \in connected'
      BY DEF LeasesFollowTip
  <2>1. CASE p \in S
    <3>1. p \in connected' /\ committed' = job.at
        BY <1>2, <1>3, <1>4, <2>1
    <3> QED BY <1>5, <1>6, <1>7, <1>12, <2>1, <3>1
  <2>2. CASE p \notin S
    <3>1. frontier'[p].left > 0 => frontier'[p].parent = committed' /\ frontier'[p].left = frontier[p].left
        BY <1>3, <1>8, <1>13, <2>2
    <3>2. confirmed'[p] > 0 => frontier'[p] = frontier[p] /\ confirmed'[p] = confirmed[p]
        BY <1>8, <1>13, <2>2
    <3>3. health'[p].left = health[p].left /\ health'[p].compatible = health[p].compatible
        BY <1>11, <2>2
    <3> QED BY <1>4, <3>1, <3>2, <3>3 DEF LeasesFollowTip
  <2> QED BY <2>1, <2>2
<1>16. LapsedIsSilent'
    BY <1>6, <1>11, <1>12 DEF LapsedIsSilent
<1> QED BY <1>4, <1>14, <1>15, <1>16, PublicationSound

--------------------------------------------------------------------------------
\* Initially there is no lease and nothing is ready.
LEMMA InitInv == Init => Inv
<1> SUFFICES ASSUME Init PROVE Inv
    OBVIOUS
<1>1. 0 \in 0..TTL /\ 0 \in 0..MaxReports /\ Genesis \in Block
    BY ReadinessAssumption, BlockAssumption
<1>2. NoHealth \in [left : 0..TTL, compatible : BOOLEAN, blocks : BOOLEAN]
      /\ NoHealth.left = 0 /\ ~NoHealth.blocks
    BY <1>1, Zenon DEF NoHealth
<1>3. NoFrontier \in [left : 0..TTL, parent : Block \cup {NoPoint}] /\ NoFrontier.left = 0
    BY <1>1 DEF NoFrontier
<1>4. TypeOK
    BY <1>1, <1>2, <1>3 DEF Init, TypeOK
<1>5. LeasesFollowTip /\ LapsedIsSilent
    BY <1>2, <1>3 DEF Init, LeasesFollowTip, LapsedIsSilent
<1>6. NonceNeedsQuorum
    BY DEF Init, NonceNeedsQuorum
<1> QED BY <1>4, <1>5, <1>6 DEF Inv

\* Every step keeps the invariant.
LEMMA NextInv == Inv /\ [Next]_vars => Inv'
<1> SUFFICES ASSUME Inv, [Next]_vars PROVE Inv'
    OBVIOUS
<1>1. ASSUME NEW b \in Block, CommitLocal(b) PROVE Inv'
    BY <1>1, WorldStep DEF CommitLocal, Inv, TypeOK
<1>2. ASSUME NEW k \in {"suffix", "reorg", "snapshot"}, NEW b \in Block, NEW f \in BOOLEAN,
             NEW S \in SUBSET Peer, CommitJob(k, b, f, S)
      PROVE  Inv'
  <2>1. job' \in JobType
      BY <1>2 DEF CommitJob, JobType
  <2> QED BY <1>2, <2>1, WorldStep DEF CommitJob, Inv, TypeOK
<1>3. CASE AdmitSnapshot \/ FailPlan
    BY <1>3, WorldStep DEF AdmitSnapshot, FailPlan, Inv, TypeOK
<1>4. ASSUME NEW p \in Peer,
             Connect(p) \/ ConfirmTip(p) \/ ObserveCompatible(p) \/ RejectIncompatible(p)
                 \/ Disconnect(p)
      PROVE  Inv'
    BY <1>4, ConnectStep, PeerActions
<1>5. CASE UNCHANGED vars
    BY <1>5, WorldStep DEF vars, world, loop, Inv, TypeOK
<1> QED BY <1>1, <1>2, <1>3, <1>4, <1>5, TickStep, CompleteJobStep, TipActions, PlanActions DEF Next

\* The inductive invariant.
THEOREM ReadinessInvariant == Spec => []Inv
BY InitInv, NextInv, PTL DEF Spec

\* Every frontier lease belongs to a connected, compatible peer and to the committed
\* tip, whatever the order of commits, completions, reports and departures.
THEOREM LeasesNeverLeftBehind == Spec => []LeasesFollowTip
<1>1. Inv => LeasesFollowTip
    BY DEF Inv
<1> QED BY <1>1, ReadinessInvariant, PTL

\* Nonce search is only ever published on the authority of a quorum of failure domains.
THEOREM NonceOnlyOnQuorum == Spec => []NonceNeedsQuorum
<1>1. Inv => NonceNeedsQuorum
    BY DEF Inv
<1> QED BY <1>1, ReadinessInvariant, PTL

===============================================================================
