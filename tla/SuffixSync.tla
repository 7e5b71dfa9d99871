----------------------------- MODULE SuffixSync -------------------------------
(***************************************************************************)
(* Fetching the exact objects of one suffix plan: the jobs of ObjectFetcher *)
(* (object_fetcher.rs), the requests of SuffixSync (suffix_sync.rs), the    *)
(* handlers of main.rs that drive them, and the network side: requests on  *)
(* the wire, connections that come and go, and the event lanes between the *)
(* swarm and the node (event_dispatch.rs), each in order by itself, with   *)
(* no order between them.                                                  *)
(*                                                                         *)
(* Data: a claim may have several encodings, a peer serves one of them     *)
(* (that a peer changes the encoding it advertises is not modelled).  Time *)
(* is nondeterministic: a parked source may become eligible, a request may *)
(* turn slow, the grace of a disconnected request may end.  The network    *)
(* layer correlates peer and objects with the token before it raises an    *)
(* event, so the CorrelationMismatch branches are never taken.  A token is *)
(* named by its peer and the first number not in use; the code counts up,  *)
(* and neither repeats one that is still referred to.                      *)
(*                                                                         *)
(* One plan is followed, from its creation until it is taken for the apply *)
(* or retired; that a stronger plan replaces it (admit_exact_suffix_offer) *)
(* is left out.  The bodies asked of one peer are one request, not split   *)
(* at MAX_OBJECTS_PER_REQUEST or the payload limit.                        *)
(***************************************************************************)
EXTENDS Naturals, Sequences, FiniteSets

CONSTANTS
    Peer,
    Required,        \* the claims of the plan in order, the terminal last
    Listings,        \* the inventories each peer may send: sets of claims
    DomainOf,        \* failure domain of each peer
    EncodingOf,      \* the encoding each peer serves
    Rank,            \* order of the peer ids, which breaks ties
    Stable,          \* peers that stay connected and answer in time
    Correct,         \* peers that serve what they list
    FailureLimit,    \* SOURCE_TRANSPORT_FAILURE_LIMIT
    MaxFaults,       \* bound: faults of the network and of the other peers
    MaxRefusals,     \* bound: times a complete plan is refused the apply
    MaxWaiting       \* bound: answers are raised while fewer events wait

None == "none"
Unknown == "unknown"
Claim == {Required[i] : i \in DOMAIN Required}
Terminal == Required[Len(Required)]
Body == Claim \ {Terminal}
Position(c) == CHOOSE i \in DOMAIN Required : Required[i] = c

ASSUME SuffixAssumption ==
    /\ Required \in Seq(Claim) /\ Required # << >>
    /\ DOMAIN DomainOf = Peer /\ DOMAIN EncodingOf = Peer
    /\ Listings \in [Peer -> SUBSET SUBSET Claim]
    /\ \A p \in Peer : DomainOf[p] \notin {None, Unknown} /\ EncodingOf[p] # None
    /\ IsFiniteSet(Peer) /\ None \notin Peer
    /\ Rank \in [Peer -> Nat] /\ \A p, q \in Peer : Rank[p] = Rank[q] => p = q
    /\ Stable \subseteq Peer /\ Correct \subseteq Peer
    /\ FailureLimit \in Nat \ {0} /\ MaxFaults \in Nat /\ MaxRefusals \in Nat
    /\ MaxWaiting \in Nat \ {0}
    /\ \A i, j \in DOMAIN Required : Required[i] = Required[j] => i = j

VARIABLES
    job,         \* ObjectFetcher::jobs
    received,    \* claim -> the peer whose bytes are held
    pending,     \* token -> request, in SuffixSync
    rotated,     \* terminal_hedge_rotation_used
    known,       \* peers connected, as the node has heard (peer_failure_domains)
    phase,       \* "offer", "fetch", then the plan is taken: "apply" or "retired"
    refusals,    \* times a complete plan could not be taken for the apply
    wire,        \* token -> request, in the network layer
    link,        \* peers connected, in the network layer
    control, live, header,   \* event lanes; header: peers with an inventory queued
    faults

node == <<job, received, pending, rotated, known, phase, refusals>>
net == <<wire, link, control, live, header>>
vars == <<node, net, faults>>

NewJob ==
    [st |-> "wanted", primary |-> None, hedge |-> None, sources |-> [p \in Peer |-> None],
     failures |-> [p \in Peer |-> 0], parked |-> {}, late |-> {}, unavailable |-> {},
     selected |-> None]

Sources(j) == {p \in Peer : j.sources[p] # None}
Active(j, p) == j.st = "flight" /\ p \in {j.primary, j.hedge}
Pinned(j) == {p \in Sources(j) : EncodingOf[p] = j.selected}

-----------------------------------------------------------------------------
(* One job: what the loss of a source lease does.                          *)

\* The leases of P end; a hedge that is left takes over.
Drop(j, P) ==
    IF j.st # "flight" THEN j
    ELSE IF j.primary \notin P THEN [j EXCEPT !.hedge = IF @ \in P THEN None ELSE @]
    ELSE IF j.hedge \notin P \cup {None} THEN [j EXCEPT !.primary = j.hedge, !.hedge = None]
    ELSE [j EXCEPT !.st = "wanted", !.primary = None, !.hedge = None]

\* A wanted job whose encoding no source serves may start over with another.
Release(j) ==
    IF j.st = "wanted" /\ Pinned(j) = {} THEN [j EXCEPT !.selected = None] ELSE j

\* The source is out for the rest of the plan.
Exclude(j, p) ==
    Release([j EXCEPT !.late = @ \ {p}, !.sources[p] = None, !.unavailable = @ \cup {p}])

FailSource(j, p) ==
    LET k == Drop(j, {p})
        charged == [k EXCEPT !.failures[p] = @ + 1, !.parked = @ \cup {p}]
    IN  IF p \notin Sources(j) THEN k
        ELSE IF charged.failures[p] >= FailureLimit THEN Exclude(charged, p) ELSE charged

\* Mutant: a busy answer is taken for a refusal.
BusyIsRefusal(j, p) == Exclude(Drop(j, {p}), p)

BusySource(j, p) == [Drop(j, {p}) EXCEPT !.parked = @ \cup {p}]

MarkUnavailable(j, p) == Exclude(FailSource(j, p), p)

QuarantineSource(j, p) == Exclude(Drop(j, {p}), p)

\* Mutant: the disconnect only forgets the advertisement.
DisconnectKeepsLease(j, p) == [j EXCEPT !.sources[p] = None]

\* Mutant: the disconnect sends every job that is not in flight back to the network.
DisconnectLosesBytes(j, p) ==
    IF j.st = "flight" THEN Drop(j, {p}) ELSE [j EXCEPT !.st = "wanted", !.sources[p] = None]

DisconnectSource(j, p) ==
    [Drop(j, {p}) EXCEPT !.sources[p] = None, !.late = IF Active(j, p) THEN @ \cup {p} ELSE @]

\* No response of P remains to come.
ForgetLate(j, P) ==
    LET k == [j EXCEPT !.late = @ \ P] IN IF P # {} /\ k.late = {} THEN Release(k) ELSE k

\* Mutant: the token of the request is taken as authority enough.
ReceiveByToken(j, p) == j.st # "verified"

\* An active lease, or a correlation kept as late, on the encoding selected.
CanReceive(j, p) ==
    /\ Active(j, p) \/ (p \in j.late /\ j.st # "verified")
    /\ j.selected = EncodingOf[p]

\* finish_receive and mark_verified
Receive(j, p) ==
    [j EXCEPT !.st = "verified", !.primary = None, !.hedge = None, !.late = {},
              !.failures[p] = 0, !.parked = @ \ {p}]

\* Mutant: an inventory brings an excluded source back.
AdvertiseAgain(j, p) ==
    [j EXCEPT !.sources[p] = IF p \in known THEN DomainOf[p] ELSE Unknown]

AdvertiseNew(j, p) ==
    IF p \in j.unavailable THEN j
    ELSE [j EXCEPT !.sources[p] = IF p \in known THEN DomainOf[p] ELSE Unknown]

-----------------------------------------------------------------------------
(* SuffixSync::schedule                                                    *)

\* The sources not parked, of the encoding selected, away from the peers tried
\* and from their failure domains.
Eligible(j, tried) ==
    {p \in Sources(j) \ j.parked :
        /\ j.selected \in {None, EncodingOf[p]}
        /\ \A q \in tried : p # q /\ j.sources[p] # j.sources[q]}

ChooseSource(j, tried) ==
    CHOOSE p \in Eligible(j, tried) : \A q \in Eligible(j, tried) \ {p} :
        \/ j.failures[p] < j.failures[q]
        \/ j.failures[p] = j.failures[q] /\ Rank[p] < Rank[q]

\* Mutant: a job that has selected an encoding is not started again.
StartFresh(j) ==
    IF j.st = "wanted" /\ j.selected = None /\ Eligible(j, {}) # {}
    THEN LET p == ChooseSource(j, {})
         IN  [j EXCEPT !.st = "flight", !.primary = p, !.selected = EncodingOf[p]]
    ELSE j

StartPrimary(j) ==
    IF j.st = "wanted" /\ Eligible(j, {}) # {}
    THEN LET p == ChooseSource(j, {})
         IN  [j EXCEPT !.st = "flight", !.primary = p, !.selected = EncodingOf[p]]
    ELSE j

\* For a job in flight without progress.
StartHedge(j) ==
    IF /\ j.st = "flight" /\ j.hedge = None
       /\ j.primary \in Sources(j) /\ Eligible(j, {j.primary}) # {}
    THEN [j EXCEPT !.hedge = ChooseSource(j, {j.primary})]
    ELSE j

\* Once per plan, for a hedge of the terminal that has a request out.
MayRotate(j, reqs) ==
    /\ ~rotated /\ j.st = "flight" /\ j.hedge # None
    /\ \E t \in DOMAIN reqs : reqs[t].peer = j.hedge /\ reqs[t].claims = {Terminal}
    /\ {j.primary, j.hedge} \subseteq Sources(j)
    /\ Eligible(j, {j.primary, j.hedge}) # {}

RotateHedge(j) ==
    [j EXCEPT !.hedge = ChooseSource(j, {j.primary, j.hedge}),
              !.parked = @ \cup {j.hedge}, !.late = @ \cup {j.hedge}]

\* expire_disconnected_requests: the peers whose requests for c outlived their grace.
Expired(reqs) == {t \in DOMAIN reqs : reqs[t].conn = "expired"}
Outlived(reqs, c) == {reqs[t].peer : t \in {u \in Expired(reqs) : c \in reqs[u].claims}}

\* allocate_request: a token for the bodies of a peer, or for a terminal.
Used == DOMAIN pending \cup DOMAIN wire \cup {live[i].token : i \in DOMAIN live}
NewToken(p, part) ==
    <<p, part, CHOOSE n \in 0 .. Cardinality(Used) : /\ <<p, part, n>> \notin Used
                                                     /\ \A m \in 0 .. n - 1 : <<p, part, m>> \in Used>>

\* The assignments for one claim: a primary, else a hedge for a flight without
\* progress; then, for the terminal, a hedge asked long ago is replaced.
Assign(c, j, reqs, slow, oldHedge) ==
    LET k == IF j.st = "wanted" THEN StartPrimary(j) ELSE IF slow THEN StartHedge(j) ELSE j
        turns == c = Terminal /\ oldHedge /\ MayRotate(k, reqs)
        l == IF turns THEN RotateHedge(k) ELSE k
    IN  [claim |-> c, job |-> l, turns |-> turns,
         asks |-> {p \in Peer : \/ Active(k, p) /\ ~Active(j, p)
                                \/ Active(l, p) /\ ~Active(k, p)}]

Merge(f, g) == [t \in DOMAIN f \cup DOMAIN g |-> IF t \in DOMAIN f THEN f[t] ELSE g[t]]

\* The assignments of all claims, and the requests they make: the bodies asked of a
\* peer are one request, the terminal is one of its own.
Plan(js, reqs, kept, slow, oldHedge) ==
    {Assign(c, ForgetLate(js[c], Outlived(reqs, c)), kept, c \in slow, oldHedge) : c \in Claim}

Issue(plan) ==
    LET asked(p) == {a.claim : a \in {b \in plan : p \in b.asks}}
    IN  {[token |-> NewToken(x[1], x[2]),
          body |-> [peer |-> x[1], claims |-> asked(x[1]) \cap x[2], conn |-> "up"]] :
            x \in {y \in Peer \X {Body, {Terminal}} : asked(y[1]) \cap y[2] # {}}}

\* The requests go to the network, but for those in full, which find the command lane
\* full and are undone.
Send(plan, issued, full, kept) ==
    LET sent == [t \in {r.token : r \in issued \ full} |->
                    (CHOOSE r \in issued : r.token = t).body]
        undone(c) == {r.body.peer : r \in {f \in full : c \in f.body.claims}}
    IN  /\ faults' = IF full = {} THEN faults ELSE faults + 1
        /\ job' = [c \in Claim |->
                      ForgetLate(Drop((CHOOSE a \in plan : a.claim = c).job, undone(c)),
                                 undone(c))]
        /\ pending' = Merge(sent, kept)
        /\ rotated' = (rotated \/ \E a \in plan : a.turns)
        /\ wire' = Merge(sent, wire)

\* dispatch_exact_suffix_requests, on the jobs and requests a handler leaves:
\* expire, assign, send.  The claims in slow have made no progress for
\* EXACT_OBJECT_HEDGE_NO_PROGRESS_MS, and oldHedge says that the hedge of the
\* terminal was asked TERMINAL_HEDGE_ROTATE_AFTER_MS ago.  (The plan and the
\* requests are quantified variables so that TLC evaluates them once.)
DispatchAt(js, reqs, slow, oldHedge) ==
    LET kept == [t \in DOMAIN reqs \ Expired(reqs) |-> reqs[t]]
    IN  \E plan \in {Plan(js, reqs, kept, slow, oldHedge)} :
        \E issued \in {Issue(plan)} :
        \E full \in IF faults < MaxFaults THEN SUBSET issued ELSE {{}} :
            Send(plan, issued, full, kept)

Dispatch(js, reqs) ==
    \E slow \in SUBSET {c \in Claim : js[c].st = "flight" /\ js[c].hedge = None},
       oldHedge \in IF rotated \/ Cardinality(Sources(js[Terminal])) < 3 THEN {FALSE} ELSE BOOLEAN :
        DispatchAt(js, reqs, slow, oldHedge)

-----------------------------------------------------------------------------
(* The handlers of main.rs.  Each ends with the dispatch.                   *)

Init ==
    /\ job = [c \in Claim |-> NewJob]
    /\ received = [c \in Claim |-> None]
    /\ pending = << >> /\ wire = << >>
    /\ rotated = FALSE /\ phase = "offer" /\ refusals = 0
    /\ known = Peer /\ link = Peer
    /\ control = << >> /\ live = << >>
    /\ header \in SUBSET Peer
    /\ faults = 0

Verified(js) == \A c \in Claim : js[c].st = "verified"
Without(f, t) == [u \in DOMAIN f \ {t} |-> f[u]]

\* try_start_exact_suffix_apply.  That another apply is in flight, the header DAG faulted
\* or the target off its best tip is the state of other components: a complete plan may
\* be refused for any of them.
TryStartApply(js) ==
    \/ /\ phase' = IF Verified(js) THEN "apply" ELSE "fetch"
       /\ UNCHANGED refusals
    \/ /\ Verified(js) /\ refusals < MaxRefusals
       /\ phase' = "fetch" /\ refusals' = refusals + 1

\* The plan is created from the inventories of some peers, that cover every claim.
StartPlan ==
    /\ phase = "offer" /\ phase' = "fetch" /\ header' = {}
    /\ \E listing \in [header -> SUBSET Claim] :
           /\ \A p \in header : listing[p] \in Listings[p]
           /\ UNION {listing[p] : p \in header} = Claim
           /\ Dispatch([c \in Claim |->
                           [NewJob EXCEPT !.sources = [p \in Peer |->
                               IF p \in header /\ c \in listing[p] THEN DomainOf[p] ELSE None]]],
                       pending)
    /\ UNCHANGED <<received, known, refusals, link, control, live>>

\* Mutant: an inventory adds sources and nothing more.
InventoryOnly(p) ==
    /\ phase = "fetch" /\ p \in header
    /\ header' = header \ {p}
    /\ \E listing \in Listings[p] :
           Dispatch([c \in Claim |-> IF c \in listing THEN AdvertiseNew(job[c], p) ELSE job[c]], pending)
    /\ UNCHANGED <<received, known, phase, refusals, link, control, live>>

\* merge_active_suffix_inventory
HandleInventory(p) ==
    /\ phase = "fetch" /\ p \in header
    /\ header' = header \ {p}
    /\ \E listing \in Listings[p] :
           LET js == [c \in Claim |-> IF c \in listing THEN AdvertiseNew(job[c], p) ELSE job[c]]
           IN  Dispatch(js, pending) /\ TryStartApply(js)
    /\ UNCHANGED <<received, known, link, control, live>>

\* accept_response: the members in order, up to the first that is refused.
HandleResponse ==
    /\ phase = "fetch" /\ live # << >> /\ Head(live).kind \in {"bytes", "bad"}
    /\ Head(live).token \in DOMAIN pending
    /\ live' = Tail(live)
    /\ LET ev == Head(live)
           r == pending[ev.token]
           held(c) == job[c].st = "verified" /\ job[c].selected = EncodingOf[r.peer]
           fits(c) == held(c) \/ c \in ev.missing \/ CanReceive(job[c], r.peer)
           done == {c \in r.claims :
                       \A d \in r.claims : Position(d) <= Position(c) => fits(d)}
           taken == {c \in done : ~held(c) /\ c \notin ev.missing}
           js == [c \in Claim |->
                     IF ev.kind = "bad" THEN QuarantineSource(job[c], r.peer)
                     ELSE IF c \in taken THEN Receive(job[c], r.peer)
                     ELSE IF c \in done /\ ~held(c) THEN MarkUnavailable(job[c], r.peer)
                     ELSE job[c]]
       IN  /\ Dispatch(js, Without(pending, ev.token))
           /\ received' = IF ev.kind = "bad" THEN received
                          ELSE [c \in Claim |-> IF c \in taken THEN r.peer ELSE received[c]]
           /\ IF ev.kind = "bytes" /\ done = r.claims THEN TryStartApply(js)
              ELSE UNCHANGED <<phase, refusals>>
    /\ UNCHANGED <<known, link, control, header>>

\* defer_request, reject_response_provider, request_failed
HandleRequestFailed ==
    /\ phase = "fetch" /\ live # << >>
    /\ Head(live).kind \in {"local", "invalid", "failed"}
    /\ Head(live).token \in DOMAIN pending
    /\ live' = Tail(live)
    /\ LET ev == Head(live)
           r == pending[ev.token]
           p == r.peer
           js == [c \in Claim |->
                     IF ev.kind = "invalid" THEN QuarantineSource(job[c], p)
                     ELSE IF c \notin r.claims THEN job[c]
                     ELSE IF ev.kind = "local" THEN ForgetLate(Drop(job[c], {p}), {p})
                     ELSE ForgetLate(FailSource(job[c], p), {p})]
       IN  Dispatch(js, Without(pending, ev.token))
    /\ UNCHANGED <<received, known, phase, refusals, link, control, header>>

\* request_busy gives up at the first member the peer is no longer a source of.
HandleBusy ==
    /\ phase = "fetch" /\ live # << >> /\ Head(live).kind = "busy"
    /\ live' = Tail(live)
    /\ LET t == Head(live).token
           r == pending[t]
           done == {c \in r.claims : \A d \in r.claims :
                       Position(d) <= Position(c) => r.peer \in Sources(job[d])}
           js == [c \in Claim |-> IF c \in done
                                  THEN ForgetLate(BusySource(job[c], r.peer), {r.peer})
                                  ELSE job[c]]
       IN  IF t \in DOMAIN pending THEN Dispatch(js, Without(pending, t))
           ELSE Dispatch(job, pending)
    /\ UNCHANGED <<received, known, phase, refusals, link, control, header>>

\* UnknownToken: the request was forgotten before its event came.
DiscardEvent ==
    /\ phase = "fetch" /\ live # << >> /\ Head(live).kind # "busy"
    /\ Head(live).token \notin DOMAIN pending
    /\ live' = Tail(live)
    /\ UNCHANGED <<node, wire, link, control, header, faults>>

HandleConnected ==
    /\ phase = "fetch" /\ control # << >> /\ Head(control).kind = "up"
    /\ control' = Tail(control)
    /\ known' = known \cup {Head(control).peer}
    /\ UNCHANGED <<job, received, pending, rotated, phase, refusals, wire, link, live, header, faults>>

HandleDisconnected ==
    /\ phase = "fetch" /\ control # << >> /\ Head(control).kind = "down"
    /\ control' = Tail(control)
    /\ LET p == Head(control).peer
       IN  /\ known' = known \ {p}
           /\ Dispatch([c \in Claim |-> DisconnectSource(job[c], p)],
                       [t \in DOMAIN pending |->
                           IF pending[t].peer = p /\ pending[t].conn = "up"
                           THEN [pending[t] EXCEPT !.conn = "gone"] ELSE pending[t]])
    /\ UNCHANGED <<received, phase, refusals, link, live, header>>

Heartbeat ==
    /\ phase = "fetch"
    /\ Dispatch(job, pending)
    /\ UNCHANGED <<received, known, phase, refusals, link, control, live, header>>

\* unfinished_transport_is_extinct
Extinct ==
    /\ ~Verified(job)
    /\ \A c \in Claim : job[c].st # "verified" =>
           job[c].st = "wanted" /\ Sources(job[c]) = {} /\ job[c].late = {}

\* The heartbeat retires an extinct plan; its discovery rounds and its wait are
\* left to choice.
Retire ==
    /\ phase = "fetch" /\ Extinct
    /\ phase' = "retired"
    /\ UNCHANGED <<job, received, pending, rotated, known, refusals, net, faults>>

-----------------------------------------------------------------------------
(* Time                                                                    *)

\* The back-off of a source ends.
Unpark(c, p) ==
    /\ phase = "fetch" /\ p \in job[c].parked /\ job[c].st # "verified"
    /\ job' = [job EXCEPT ![c].parked = @ \ {p}]
    /\ UNCHANGED <<received, pending, rotated, known, phase, refusals, net, faults>>

\* DISCONNECTED_RESPONSE_GRACE since the disconnect.
EndGrace(t) ==
    /\ phase = "fetch" /\ t \in DOMAIN pending /\ pending[t].conn = "gone"
    /\ pending' = [pending EXCEPT ![t].conn = "expired"]
    /\ UNCHANGED <<job, received, rotated, known, phase, refusals, net, faults>>

-----------------------------------------------------------------------------
(* The network layer and the peers                                         *)

Event(t, kind, missing) == [token |-> t, kind |-> kind, missing |-> missing]

\* What may become of a request, and whether it is a fault.  Busy and a full
\* request table befall every peer.
Outcome(t) ==
    LET p == wire[t].peer
    IN  {[event |-> Event(t, "bytes", {}), fault |-> 0]}
        \cup {[event |-> Event(t, k, {}), fault |-> 1] : k \in {"busy", "local"}}
        \cup {[event |-> Event(t, "failed", {}), fault |-> 1] : q \in {p} \ Stable}
        \cup {[event |-> Event(t, k, {}), fault |-> 1] : q \in {p} \ Correct, k \in {"bad", "invalid"}}
        \cup {[event |-> Event(t, "bytes", M), fault |-> 1] :
                 q \in {p} \ Correct, M \in SUBSET wire[t].claims \ {{}}}

\* A response, a failure, or the complete local deadline of the request.
Answer(t) ==
    /\ phase = "fetch" /\ t \in DOMAIN wire /\ wire[t].peer \in link /\ Len(live) < MaxWaiting
    /\ \E o \in Outcome(t) :
           /\ faults + o.fault <= MaxFaults
           /\ faults' = faults + o.fault
           /\ live' = Append(live, o.event)
    /\ wire' = Without(wire, t)
    /\ UNCHANGED <<node, link, control, header>>

\* A command for a peer that is not dispatchable any more.
Refuse(t) ==
    /\ phase = "fetch" /\ t \in DOMAIN wire /\ wire[t].peer \notin link
    /\ live' = Append(live, Event(t, "failed", {}))
    /\ wire' = Without(wire, t)
    /\ UNCHANGED <<node, link, control, header, faults>>

\* ConnectionClosed: the requests sent fail (those still in the command lane,
\* in queued, do not), then the disconnect is announced on the other lane.  An
\* inventory may have come just before.
CloseConnection(p) ==
    /\ phase = "fetch" /\ p \in link \ Stable /\ faults < MaxFaults
    /\ faults' = faults + 1
    /\ link' = link \ {p}
    /\ control' = Append(control, [kind |-> "down", peer |-> p])
    /\ LET asked == {t \in DOMAIN wire : wire[t].peer = p}
       IN  \E queued \in SUBSET asked :
               \E order \in {f \in [1 .. Cardinality(asked \ queued) -> asked \ queued] :
                                \A i, k \in DOMAIN f : f[i] = f[k] => i = k} :
                   /\ live' = live \o [i \in DOMAIN order |-> Event(order[i], "failed", {})]
                   /\ wire' = [t \in DOMAIN wire \ (asked \ queued) |-> wire[t]]
    /\ header' \in {header, header \cup {p}}
    /\ UNCHANGED node

OpenConnection(p) ==
    /\ phase = "fetch" /\ p \notin link
    /\ link' = link \cup {p}
    /\ control' = Append(control, [kind |-> "up", peer |-> p])
    /\ UNCHANGED <<node, wire, live, header, faults>>

\* A peer answers one of the periodic inventory probes.  Bound: an answer with
\* nothing new is left out; handling it would be a Heartbeat.
SendInventory(p) ==
    /\ phase = "fetch" /\ p \in link \ header
    /\ Verified(job) \/ \E c \in UNION Listings[p] : p \notin job[c].unavailable /\ job[c].sources[p] # DomainOf[p]
    /\ header' = header \cup {p}
    /\ UNCHANGED <<node, wire, link, control, live, faults>>

Next ==
    \/ \E p \in Peer : \/ HandleInventory(p) \/ CloseConnection(p) \/ OpenConnection(p)
                       \/ SendInventory(p)
                       \/ \E c \in Claim : Unpark(c, p)
    \/ StartPlan \/ HandleResponse \/ HandleRequestFailed \/ HandleBusy \/ DiscardEvent
    \/ HandleConnected \/ HandleDisconnected \/ Heartbeat \/ Retire
    \/ \E t \in DOMAIN pending : EndGrace(t)
    \/ \E t \in DOMAIN wire : Answer(t) \/ Refuse(t)

Spec == Init /\ [][Next]_vars

\* A heartbeat whose timers have run out would start a request for the claim.
Due(c) ==
    /\ phase = "fetch"
    /\ StartPrimary(job[c]) # job[c] \/ StartHedge(job[c]) # job[c]

\* The event loop empties its lanes, back-offs and timers run out and the
\* heartbeat acts on them, every request ends (at its deadline at the latest),
\* and a peer that is stable and correct answers the periodic probes.
Fairness ==
    /\ []<>(phase # "fetch" \/ live = << >>)
    /\ []<>(phase # "fetch" \/ control = << >>)
    /\ []<>(phase # "fetch" \/ wire = << >>)
    /\ \A c \in Claim : []<>~Due(c)
    /\ \A p \in Peer :
           /\ []<>(phase # "fetch" \/ p \notin header)
           /\ \A c \in Claim : []<>(phase # "fetch" \/ job[c].st = "verified" \/ p \notin job[c].parked)
    /\ \A p \in Stable \cap Correct : []<>(phase # "fetch" \/ ~Verified(job) \/ p \in header)

FairSpec == Spec /\ Fairness

-----------------------------------------------------------------------------
(* Properties                                                              *)

Request == [peer : Peer, claims : SUBSET Claim, conn : {"up", "gone", "expired"}]
Job ==
    [st : {"wanted", "flight", "verified"}, primary : Peer \cup {None}, hedge : Peer \cup {None},
     sources : [Peer -> {DomainOf[p] : p \in Peer} \cup {None, Unknown}],
     failures : [Peer -> 0 .. FailureLimit],
     parked : SUBSET Peer, late : SUBSET Peer, unavailable : SUBSET Peer,
     selected : {EncodingOf[p] : p \in Peer} \cup {None}]

\* Shapes of the state; a flight has a primary and an encoding, and nothing else has.
TypeOK ==
    /\ job \in [Claim -> Job]
    /\ \A c \in Claim : /\ (job[c].st = "flight") <=> (job[c].primary # None)
                        /\ job[c].st = "flight" => job[c].selected # None
                        /\ job[c].hedge # None => job[c].st = "flight" /\ job[c].hedge # job[c].primary
    /\ received \in [Claim -> Peer \cup {None}]
    /\ \A t \in DOMAIN pending : pending[t] \in Request
    /\ rotated \in BOOLEAN /\ refusals \in 0 .. MaxRefusals
    /\ phase \in {"offer", "fetch", "apply", "retired"}
    /\ known \subseteq Peer /\ link \subseteq Peer /\ header \subseteq Peer
    /\ faults \in 0 .. MaxFaults

\* The bytes held for a claim are of the encoding its job has selected:
\* into_fetched pairs the two, and a source of another encoding, released
\* meanwhile, may still answer.
HeldIsSelected ==
    \A c \in Claim : received[c] # None => EncodingOf[received[c]] = job[c].selected

\* A source excluded from a claim (bad bytes, a missing object, its failures used
\* up) is never asked for it again in this plan, and no answer of it is awaited,
\* whatever inventories, reconnects and late events follow.
ExcludedIsOut ==
    \A c \in Claim : \A p \in job[c].unavailable :
        ~Active(job[c], p) /\ p \notin Sources(job[c]) /\ p \notin job[c].late

\* Who holds a lease still advertises the object: start_hedge and rotate_hedge look
\* the primary up among the sources and give up without it, so a lease whose
\* source has gone could be neither hedged nor replaced.
ActiveIsSource ==
    \A c \in Claim : \A p \in Peer : Active(job[c], p) => p \in Sources(job[c])

\* "The hedge must advertise the exact same object and come from a distinct
\* failure domain" (object_fetcher.rs:224), for peers whose domain the node knows.
HedgeApart ==
    \A c \in Claim : {job[c].hedge, job[c].primary} \subseteq known =>
        DomainOf[job[c].hedge] # DomainOf[job[c].primary]

\* Verified bytes survive everything the transport does later: neither a failure
\* nor a disconnect nor a second answer takes them back or replaces them.
Kept ==
    [][\A c \in Claim : received[c] # None =>
           received'[c] = received[c] /\ job'[c].st = "verified"]_vars

\* A peer that stays connected and serves what it lists is never dropped as a
\* source, although it may be busy, be parked, be rotated away as a hedge, or
\* lose requests to full local queues.
HonestSourceKept ==
    [][\A c \in Claim : Stable \cap Correct \cap Sources(job[c]) \subseteq Sources(job'[c])]_vars

\* "One bad member of a coalesced body response must rotate the whole source lease,
\* not leave the remaining claims stuck" (suffix_sync.rs:532): a lease has a
\* request from which its answer can come.
ActiveIsBacked ==
    \A c \in Claim : \A p \in Peer : Active(job[c], p) =>
        \E t \in DOMAIN pending : pending[t].peer = p /\ c \in pending[t].claims

\* A late correlation is forgotten "after transport has proved that no response
\* remains, or after its bounded disconnect/event grace" (object_fetcher.rs:771):
\* while it is kept, so is the request it belongs to.
LateIsBacked ==
    \A c \in Claim : \A p \in job[c].late :
        \E t \in DOMAIN pending : pending[t].peer = p /\ c \in pending[t].claims

\* A failed request counts against the failure budget of its source, also across a
\* reconnect, or "a flapping connection can ... avoid the bounded failure budget
\* forever" (object_fetcher.rs:68); failures are delivered before the disconnect
\* for this (network.rs:9109).
FailuresAreCharged ==
    [][\A t \in DOMAIN pending :
           live # << >> /\ live' = Tail(live) /\ Head(live) = Event(t, "failed", {}) =>
               \A c \in pending[t].claims : LET p == pending[t].peer IN
                   \/ job[c].st = "verified" \/ p \in job'[c].unavailable
                   \/ job'[c].failures[p] > job[c].failures[p]]_vars

\* "When every provider for a pinned byte digest has disappeared, allow a clean
\* restart from another encoding" (object_fetcher.rs:792): a job that is wanted, has
\* sources and awaits no late response is not held to an encoding none of them serves.
EncodingReleased ==
    \A c \in Claim : job[c].st = "wanted" /\ job[c].late = {} /\ Sources(job[c]) # {} =>
        job[c].selected = None \/ Pinned(job[c]) # {}

\* One stable and correct peer is a source of everything still missing.
Provided ==
    /\ phase = "fetch"
    /\ \E p \in Stable \cap Correct : \A c \in Claim :
           job[c].st = "verified" \/ p \in Sources(job[c])

\* Two ways in which a claim waits for nothing, both found in the code (EncodingReleased,
\* ActiveIsBacked): no request for it remains, and it is wanted but held to an encoding
\* that none of its sources serves, or in flight but with no source that may hedge it.
Stalled(c) ==
    LET j == job[c]
        awaited == \E t \in DOMAIN pending :
            c \in pending[t].claims /\ (pending[t].peer \in j.late \/ Active(j, pending[t].peer))
    IN  /\ ~awaited
        /\ \/ j.st = "wanted" /\ j.selected # None /\ Pinned(j) = {}
           \/ /\ j.st = "flight"
              /\ j.hedge # None \/ {j.sources[p] : p \in Pinned(j)} = {j.sources[j.primary]}

\* Then every object is fetched and verified, whatever the other peers do, unless a claim
\* stays stalled: failures, disconnects, back-offs and hedges leave no other way to wait
\* for ever (schedule and the handlers of the events together).
FetchCompletes ==
    []<>(\A c \in Claim : ~Stalled(c)) => (Provided ~> Verified(job))

\* A complete plan that was refused the apply (another one in flight, a faulted DAG, a
\* target that is not selected) is taken once the refusals end: the heartbeat does not
\* try again, but each inventory does, and peers are still probed for them.
CompleteIsApplied == Verified(job) ~> phase = "apply"

===============================================================================
