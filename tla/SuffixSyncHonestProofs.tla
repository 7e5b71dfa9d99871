----------------------- MODULE SuffixSyncHonestProofs -------------------------
(***************************************************************************)
(* No peer which stays connected and serves what it lists is dropped as a  *)
(* source.  The tokens name their peers, so what is known of a peer on the *)
(* wire is known of its events when they are handled.                      *)
(***************************************************************************)
EXTENDS SuffixSyncProofs

Honest == Stable \cap Correct
Named(reqs) == \A t \in DOMAIN reqs : t[1] = reqs[t].peer

\* What may be raised for a token.
Harmless(e) == e.token[1] \in Honest => e.kind \in {"bytes", "busy", "local"} /\ e.missing = {}
Announcement == {e \in [kind : {"up", "down"}, peer : Peer] : e.kind = "down" => e.peer \notin Stable}

LanesHonest ==
    /\ Stable \subseteq link
    /\ control \in Seq(Announcement)
    /\ live \in Seq({live[i] : i \in DOMAIN live})
    /\ \A i \in DOMAIN live : Harmless(live[i])

HonestInv ==
    /\ LanesHonest
    /\ Named(pending) /\ Named(wire) /\ IsFiniteSet(DOMAIN wire)
    /\ phase = "offer" => \A c \in Claim : Sources(job[c]) = {}

\* k keeps the honest sources of j.
Spares(j, k) == \A p \in Honest : j.sources[p] # None => k.sources[p] # None

HonestKept == \A c \in Claim : Spares(job[c], job'[c])

\* The operations that do not touch the sources.
LEMMA SourcesUntouched ==
    ASSUME NEW j, Sound(j)
    PROVE  /\ \A P : Drop(j, P).sources = j.sources /\ ForgetLate(j, P).sources = j.sources
           /\ Release(j).sources = j.sources
           /\ \A p : BusySource(j, p).sources = j.sources
           /\ \A p : Receive(j, p).sources = j.sources
           /\ StartPrimary(j).sources = j.sources /\ StartHedge(j).sources = j.sources
           /\ RotateHedge(j).sources = j.sources
<1>1. ASSUME NEW k, k \in Shape PROVE Release(k).sources = k.sources
      BY <1>1 DEF Release, Shape
<1>2. \A P : Drop(j, P).sources = j.sources BY DropKeeps
<1>3. ASSUME NEW P PROVE ForgetLate(j, P).sources = j.sources
  <2> DEFINE k == [j EXCEPT !.late = @ \ P]
  <2>1. k \in Shape /\ k.sources = j.sources BY DEF Sound, Shape
  <2>2. ForgetLate(j, P) \in {k, Release(k)} BY DEF ForgetLate
  <2> QED BY <1>1, <2>1, <2>2
<1>4. ASSUME NEW p PROVE BusySource(j, p).sources = j.sources
  <2>1. Drop(j, {p}) \in Shape BY DropKeeps DEF Keeps, Sound
  <2> QED BY <1>2, <2>1 DEF BusySource, Shape
<1>5. \A p : Receive(j, p).sources = j.sources BY DEF Receive, Sound, Shape
<1>6. StartPrimary(j).sources = j.sources /\ StartHedge(j).sources = j.sources
      BY DEF StartPrimary, StartHedge, Sound, Shape
<1>7. RotateHedge(j).sources = j.sources BY DEF RotateHedge, Sound, Shape
<1> QED BY <1>1, <1>2, <1>3, <1>4, <1>5, <1>6, <1>7 DEF Sound

\* The exclusion of a source leaves the others.
LEMMA ExcludeSpares ==
    ASSUME NEW j, Sound(j), NEW p \in Peer, NEW q \in Peer, q # p
    PROVE  Exclude(j, p).sources[q] = j.sources[q]
<1> DEFINE k == [j EXCEPT !.late = @ \ {p}, !.sources[p] = None, !.unavailable = @ \cup {p}]
<1>1. k \in Shape BY DEF Sound, Shape, Domain
<1>2. k.sources = [j.sources EXCEPT ![p] = None] BY DEF Sound, Shape
<1>3. k.sources[q] = j.sources[q] BY <1>2 DEF Sound, Shape
<1>4. Exclude(j, p) = Release(k) BY DEF Exclude
<1> HIDE DEF k
<1>5. Release(k).sources = k.sources BY <1>1 DEF Release, Shape
<1> QED BY <1>3, <1>4, <1>5

\* The operations that drop a source drop no other.
LEMMA OthersSpared ==
    ASSUME NEW j, Sound(j), NEW p \in Peer, p \notin Honest
    PROVE  /\ Spares(j, QuarantineSource(j, p))
           /\ Spares(j, FailSource(j, p))
           /\ Spares(j, MarkUnavailable(j, p))
           /\ Spares(j, DisconnectSource(j, p))
<1> SUFFICES ASSUME NEW q \in Honest
             PROVE  /\ QuarantineSource(j, p).sources[q] = j.sources[q]
                    /\ FailSource(j, p).sources[q] = j.sources[q]
                    /\ MarkUnavailable(j, p).sources[q] = j.sources[q]
                    /\ DisconnectSource(j, p).sources[q] = j.sources[q]
    BY DEF Spares
<1>1. q \in Peer /\ q # p BY SuffixAssumption DEF Honest
<1> DEFINE k == Drop(j, {p})
           l == [k EXCEPT !.failures[p] = @ + 1, !.parked = @ \cup {p}]
<1>2. Sound(k) /\ k.sources = j.sources /\ ~Active(k, p) BY DropKeeps DEF Keeps
<1>3. QuarantineSource(j, p).sources[q] = j.sources[q]
      BY <1>1, <1>2, ExcludeSpares DEF QuarantineSource
<1>4. FailSource(j, p) \in {k, l, Exclude(l, p)} BY DEF FailSource
<1>5. DisconnectSource(j, p).sources[q] = j.sources[q]
  <2>1. DisconnectSource(j, p).sources = [k.sources EXCEPT ![p] = None]
        BY <1>2 DEF DisconnectSource, Sound, Shape
  <2> QED BY <1>1, <1>2, <2>1 DEF Sound, Shape
<1> HIDE DEF k
<1>6. Sound(l) /\ l.sources = k.sources
  <2> DEFINE f == [k.failures EXCEPT ![p] = k.failures[p] + 1]
             n == k.parked \cup {p}
  <2>1. k \in Shape /\ f \in [Peer -> Nat] /\ n \in SUBSET Peer BY <1>2 DEF Sound, Shape
  <2>2. l = [k EXCEPT !.failures = f, !.parked = n] BY <2>1 DEF Shape
  <2> HIDE DEF f, n, l
  <2>3. l \in Shape BY <2>1, <2>2 DEF Shape
  <2>4. l.st = k.st /\ l.hedge = k.hedge /\ l.primary = k.primary /\ l.selected = k.selected
        /\ l.late = k.late /\ l.unavailable = k.unavailable /\ l.sources = k.sources
        BY <2>1, <2>2 DEF Shape
  <2> QED BY <1>2, <2>3, <2>4 DEF Sound, Sources, Active
<1>7. Exclude(l, p).sources[q] = l.sources[q] BY <1>1, <1>6, ExcludeSpares
<1> HIDE DEF l
<1>8. FailSource(j, p).sources[q] = j.sources[q] BY <1>2, <1>4, <1>6, <1>7
<1>9. Sound(FailSource(j, p)) BY FailKeeps DEF Keeps
<1>10. MarkUnavailable(j, p).sources[q] = j.sources[q]
      BY <1>1, <1>8, <1>9, ExcludeSpares DEF MarkUnavailable
<1> QED BY <1>3, <1>5, <1>8, <1>10

\* An inventory drops nobody.
LEMMA AdvertiseSpares ==
    ASSUME NEW j, Sound(j), NEW p \in Peer
    PROVE  Spares(j, AdvertiseNew(j, p))
<1> DEFINE d == IF p \in known THEN DomainOf[p] ELSE Unknown
           k == [j EXCEPT !.sources[p] = d]
<1>1. d # None BY SuffixAssumption DEF None, Unknown
<1>2. AdvertiseNew(j, p) \in {j, k} BY DEF AdvertiseNew
<1> HIDE DEF d
<1>3. k.sources = [j.sources EXCEPT ![p] = d] BY DEF Sound, Shape
<1>4. \A q \in Peer : k.sources[q] = IF q = p THEN d ELSE j.sources[q]
      BY <1>3 DEF Sound, Shape
<1> HIDE DEF k
<1> QED BY <1>1, <1>2, <1>4, SuffixAssumption DEF Spares, Honest

\* The values of a function on a finite set.
LEMMA FiniteImage ==
    ASSUME NEW S, IsFiniteSet(S), NEW f
    PROVE  IsFiniteSet({f[x] : x \in S})
<1> DEFINE T == {f[x] : x \in S}
           g == [x \in S |-> f[x]]
<1>1. g \in Surjection(S, T) BY DEF Surjection
<1> HIDE DEF g, T
<1>2. IsFiniteSet(T) BY <1>1, FS_Surjection
<1> QED BY <1>2 DEF T

\* The dispatch touches no sources, and asks each peer by tokens that name it.
LEMMA DispatchSpares ==
    ASSUME NEW js, NEW reqs, Dispatch(js, reqs),
           \A c \in Claim : Sound(js[c]),
           Named(reqs), Named(wire), IsFiniteSet(DOMAIN wire)
    PROVE  /\ \A c \in Claim : job'[c].sources = js[c].sources
           /\ Named(pending') /\ Named(wire') /\ IsFiniteSet(DOMAIN wire')
<1>1. PICK slow, oldHedge : DispatchAt(js, reqs, slow, oldHedge) BY DEF Dispatch
<1> DEFINE kept == [t \in DOMAIN reqs \ Expired(reqs) |-> reqs[t]]
           first(c) == ForgetLate(js[c], Outlived(reqs, c))
           assigned(c) == Assign(c, first(c), kept, c \in slow, oldHedge)
           plan == {assigned(c) : c \in Claim}
           asked(p) == {a.claim : a \in {b \in plan : p \in b.asks}}
           askable == {y \in Peer \X {Body, {Terminal}} : asked(y[1]) \cap y[2] # {}}
           request(x) == [token |-> NewToken(x[1], x[2]),
                          body |-> [peer |-> x[1], claims |-> asked(x[1]) \cap x[2], conn |-> "up"]]
           issued == {request(x) : x \in askable}
           sent(full) == [t \in {r.token : r \in issued \ full} |->
                             (CHOOSE r \in issued : r.token = t).body]
           undone(full, c) == {r.body.peer : r \in {f \in full : c \in f.body.claims}}
<1> HIDE DEF kept
<1>0. PICK full : Send(plan, issued, full, kept)
  <2>1. plan = Plan(js, reqs, kept, slow, oldHedge) BY DEF Plan
  <2>2. issued = Issue(plan) BY DEF Issue
  <2> HIDE DEF plan, issued
  <2>3. \E full : Send(Plan(js, reqs, kept, slow, oldHedge),
                       Issue(Plan(js, reqs, kept, slow, oldHedge)), full, kept)
        BY <1>1 DEF DispatchAt, kept
  <2> QED BY <2>1, <2>2, <2>3
<1>2. /\ job' = [c \in Claim |->
                    ForgetLate(Drop((CHOOSE a \in plan : a.claim = c).job, undone(full, c)),
                               undone(full, c))]
      /\ pending' = Merge(sent(full), kept)
      /\ wire' = Merge(sent(full), wire)
      BY <1>0 DEF Send
<1> USE DEF kept
<1>3. \A c \in Claim : /\ Sound(assigned(c).job) /\ assigned(c).claim = c
                       /\ assigned(c).job.sources = js[c].sources
  <2> SUFFICES ASSUME NEW c \in Claim
               PROVE  /\ Sound(assigned(c).job) /\ assigned(c).claim = c
                      /\ assigned(c).job.sources = js[c].sources
      OBVIOUS
  <2>1. Sound(first(c)) /\ first(c).sources = js[c].sources
        BY ForgetKeeps, SourcesUntouched DEF Keeps
  <2> HIDE DEF first, kept
  <2>2. Sound(assigned(c).job) /\ assigned(c).claim = c
        BY <2>1, AssignKeeps DEF Keeps
  <2> DEFINE j == first(c)
             k == IF j.st = "wanted" THEN StartPrimary(j)
                  ELSE IF c \in slow THEN StartHedge(j) ELSE j
             turns == c = Terminal /\ oldHedge /\ MayRotate(k, kept)
  <2>3. Sound(k) /\ k.sources = j.sources
        BY <2>1, PrimaryKeeps, HedgeKeeps, SourcesUntouched DEF Keeps
  <2>4. assigned(c).job = IF turns THEN RotateHedge(k) ELSE k BY DEF Assign
  <2> HIDE DEF k, turns
  <2>5. RotateHedge(k).sources = k.sources BY <2>3, SourcesUntouched
  <2> QED BY <2>1, <2>2, <2>3, <2>4, <2>5
<1> HIDE DEF assigned
<1>4. \A c \in Claim : (CHOOSE a \in plan : a.claim = c) = assigned(c) BY <1>3
<1>5. \A c \in Claim : job'[c].sources = js[c].sources
  <2> SUFFICES ASSUME NEW c \in Claim PROVE job'[c].sources = js[c].sources OBVIOUS
  <2> DEFINE U == undone(full, c)
             k == Drop(assigned(c).job, U)
  <2>1. job'[c] = ForgetLate(k, U) BY <1>2, <1>4
  <2> HIDE DEF U
  <2>2. Sound(k) /\ k.sources = js[c].sources BY <1>3, DropKeeps DEF Keeps
  <2> HIDE DEF k
  <2>3. ForgetLate(k, U).sources = k.sources BY <2>2, SourcesUntouched
  <2> QED BY <2>1, <2>2, <2>3
<1> HIDE DEF asked, plan
<1>6. \A r \in issued : r.token[1] = r.body.peer
  <2> SUFFICES ASSUME NEW x \in askable PROVE request(x).token[1] = request(x).body.peer OBVIOUS
  <2>1. request(x).token = NewToken(x[1], x[2]) /\ request(x).body.peer = x[1] OBVIOUS
  <2>2. NewToken(x[1], x[2])[1] = x[1] BY DEF NewToken
  <2> QED BY <2>1, <2>2
<1>7. IsFiniteSet({r.token : r \in issued \ full})
  <2>1. IsFiniteSet(Peer \X {Body, {Terminal}})
    <3>1. IsFiniteSet({} \cup {Body}) BY FS_EmptySet, FS_AddElement
    <3>2. IsFiniteSet(({} \cup {Body}) \cup {{Terminal}}) BY <3>1, FS_AddElement
    <3>3. ({} \cup {Body}) \cup {{Terminal}} = {Body, {Terminal}} OBVIOUS
    <3>4. IsFiniteSet({Body, {Terminal}}) BY <3>2, <3>3
    <3> QED BY <3>4, FS_Product, SuffixAssumption
  <2>2. IsFiniteSet(askable) BY <2>1, FS_Subset
  <2> HIDE DEF askable, request
  <2> DEFINE f == [x \in askable |-> request(x)]
             tokenOf == [r \in issued \ full |-> r.token]
  <2>3. IsFiniteSet({f[x] : x \in askable})
    <3> HIDE DEF f
    <3> QED BY <2>2, FiniteImage
  <2>4. issued = {f[x] : x \in askable} OBVIOUS
  <2>5. IsFiniteSet(issued \ full) BY <2>3, <2>4, FS_Subset
  <2> HIDE DEF issued
  <2>6. IsFiniteSet({tokenOf[r] : r \in issued \ full})
    <3> HIDE DEF tokenOf
    <3> QED BY <2>5, FiniteImage
  <2>7. {tokenOf[r] : r \in issued \ full} = {r.token : r \in issued \ full} OBVIOUS
  <2> QED BY <2>6, <2>7
<1> HIDE DEF issued
<1>8. \A t \in DOMAIN sent(full) : t[1] = sent(full)[t].peer
  <2> SUFFICES ASSUME NEW t \in DOMAIN sent(full) PROVE t[1] = sent(full)[t].peer OBVIOUS
  <2>1. \E r \in issued : r.token = t OBVIOUS
  <2> DEFINE q == CHOOSE r \in issued : r.token = t
  <2>2. q \in issued /\ q.token = t BY <2>1
  <2>3. sent(full)[t] = q.body OBVIOUS
  <2> HIDE DEF q, sent
  <2> QED BY <1>6, <2>2, <2>3
<1>9. IsFiniteSet(DOMAIN sent(full)) BY <1>7
<1>10. Named(kept) BY DEF Named
<1> HIDE DEF sent, kept
<1>11. Named(pending') /\ Named(wire') BY <1>2, <1>8, <1>10 DEF Named, Merge
<1>12. DOMAIN wire' = DOMAIN sent(full) \cup DOMAIN wire BY <1>2 DEF Merge
<1>13. IsFiniteSet(DOMAIN wire') BY <1>9, <1>12, FS_Union
<1> QED BY <1>5, <1>11, <1>13

-------------------------------------------------------------------------------
\* A sequence over a set is one over every larger set.
LEMMA SeqWiden ==
    ASSUME NEW A, NEW B, A \subseteq B, NEW s \in Seq(A)
    PROVE  s \in Seq(B)
<1>1. Len(s) \in Nat /\ s \in [1 .. Len(s) -> B] OBVIOUS
<1> QED BY <1>1

\* A lane of harmless events, whatever set they are taken from.
LEMMA LiveIsHarmless ==
    ASSUME NEW S, \A e \in S : Harmless(e), NEW s \in Seq(S)
    PROVE  s \in Seq({s[i] : i \in DOMAIN s}) /\ \A i \in DOMAIN s : Harmless(s[i])
<1>1. Len(s) \in Nat /\ DOMAIN s = 1 .. Len(s) /\ \A i \in DOMAIN s : s[i] \in S OBVIOUS
<1>2. s \in [1 .. Len(s) -> {s[i] : i \in DOMAIN s}] BY <1>1
<1> QED BY <1>1, <1>2

\* Taking an event from the live lane.
LEMMA LiveTaken ==
    ASSUME LanesHonest, live # << >>, live' = Tail(live), link' = link, control' = control
    PROVE  LanesHonest' /\ Harmless(Head(live))
<1> DEFINE S == {live[i] : i \in DOMAIN live}
<1>1. live \in Seq(S) /\ \A e \in S : Harmless(e) BY DEF LanesHonest
<1>2. Tail(live) \in Seq(S) /\ Head(live) \in S
  <2> HIDE DEF S
  <2> QED BY <1>1
<1>3. Tail(live) \in Seq({Tail(live)[i] : i \in DOMAIN Tail(live)})
      /\ \A i \in DOMAIN Tail(live) : Harmless(Tail(live)[i])
  <2> HIDE DEF S
  <2> QED BY <1>1, <1>2, LiveIsHarmless
<1> QED BY <1>1, <1>2, <1>3 DEF LanesHonest

\* Raising harmless events.
LEMMA LiveRaised ==
    ASSUME LanesHonest, NEW T, \A e \in T : Harmless(e), NEW es \in Seq(T), live' = live \o es,
           Stable \subseteq link', control' \in Seq(Announcement)
    PROVE  LanesHonest'
<1> DEFINE old == {live[i] : i \in DOMAIN live}
           S == old \cup T
<1>1. \A e \in S : Harmless(e) BY DEF LanesHonest
<1>2. live \in Seq(S)
  <2>1. live \in Seq(old) BY DEF LanesHonest
  <2> HIDE DEF old
  <2> QED BY <2>1, SeqWiden
<1>3. es \in Seq(S)
  <2> HIDE DEF old
  <2> QED BY SeqWiden
<1> HIDE DEF S
<1> DEFINE s == live \o es
<1>4. s \in Seq(S) BY <1>2, <1>3
<1>5. live' = s OBVIOUS
<1> HIDE DEF s
<1>6. s \in Seq({s[i] : i \in DOMAIN s}) /\ \A i \in DOMAIN s : Harmless(s[i])
      BY <1>1, <1>4, LiveIsHarmless
<1> QED BY <1>5, <1>6 DEF LanesHonest

\* A handler that spares the honest sources, then dispatches.
LEMMA HonestHandler ==
    ASSUME HonestInv, NEW js, NEW reqs, Dispatch(js, reqs),
           \A c \in Claim : Sound(js[c]) /\ Spares(job[c], js[c]),
           Named(reqs), phase' # "offer", LanesHonest'
    PROVE  HonestInv' /\ HonestKept
<1>1. /\ \A c \in Claim : job'[c].sources = js[c].sources
      /\ Named(pending') /\ Named(wire') /\ IsFiniteSet(DOMAIN wire')
      BY DispatchSpares DEF HonestInv
<1>2. HonestKept BY <1>1 DEF HonestKept, Spares
<1>3. Named(pending)' /\ Named(wire)' /\ IsFiniteSet(DOMAIN wire)' BY <1>1 DEF Named
<1> QED BY <1>2, <1>3 DEF HonestInv

\* A step that leaves the jobs alone.
LEMMA HonestQuiet ==
    ASSUME HonestInv, job' = job, Named(pending'), Named(wire'), IsFiniteSet(DOMAIN wire'),
           phase' = phase \/ phase' # "offer", LanesHonest'
    PROVE  HonestInv' /\ HonestKept
<1>1. HonestKept BY DEF HonestKept, Spares
<1>2. Named(pending)' /\ Named(wire)' /\ IsFiniteSet(DOMAIN wire)' BY DEF Named
<1>3. (phase = "offer" => \A c \in Claim : Sources(job[c]) = {})'
      BY DEF HonestInv, Sources
<1> QED BY <1>1, <1>2, <1>3 DEF HonestInv

\* The first plan drops nobody: there are no sources before it.
LEMMA StartPlanHonest == Inv /\ HonestInv /\ StartPlan => HonestInv' /\ HonestKept
<1> SUFFICES ASSUME Inv, HonestInv, StartPlan PROVE HonestInv' /\ HonestKept OBVIOUS
<1>1. PICK listing \in [header -> SUBSET Claim] :
         Dispatch([c \in Claim |->
                      [NewJob EXCEPT !.sources = [p \in Peer |->
                          IF p \in header /\ c \in listing[p] THEN DomainOf[p] ELSE None]]],
                  pending)
      BY DEF StartPlan
<1> DEFINE s(c) == [p \in Peer |-> IF p \in header /\ c \in listing[p] THEN DomainOf[p] ELSE None]
           k(c) == [NewJob EXCEPT !.sources = s(c)]
           js == [c \in Claim |-> k(c)]
<1>2. \A c \in Claim : Sound(js[c])
  <2> SUFFICES ASSUME NEW c \in Claim PROVE Sound(k(c)) OBVIOUS
  <2>1. s(c) \in [Peer -> Domain] BY DEF Domain
  <2> HIDE DEF s
  <2>2. k(c) \in Shape BY <2>1 DEF NewJob, Shape, Encoding
  <2>3. k(c).st = "wanted" /\ k(c).hedge = None /\ k(c).unavailable = {}
        BY DEF NewJob
  <2> QED BY <2>2, <2>3 DEF Sound, Active
<1>3. Dispatch(js, pending) BY <1>1
<1> HIDE DEF js
<1>4. phase = "offer" /\ phase' # "offer" /\ UNCHANGED <<link, control, live>> BY DEF StartPlan
<1>5. \A c \in Claim : Spares(job[c], js[c])
      BY <1>4, SuffixAssumption DEF HonestInv, Spares, Sources, Honest
<1>6. LanesHonest' BY <1>4 DEF HonestInv, LanesHonest
<1> QED BY <1>2, <1>3, <1>4, <1>5, <1>6, HonestHandler DEF HonestInv

\* An inventory.
LEMMA InventoryHonest ==
    Inv /\ HonestInv /\ (\E p \in Peer : HandleInventory(p)) => HonestInv' /\ HonestKept
<1> SUFFICES ASSUME Inv, HonestInv, NEW p \in Peer, HandleInventory(p)
             PROVE  HonestInv' /\ HonestKept
    OBVIOUS
<1>1. PICK listing \in Listings[p] :
         Dispatch([c \in Claim |-> IF c \in listing THEN AdvertiseNew(job[c], p) ELSE job[c]],
                  pending)
      BY DEF HandleInventory
<1> DEFINE js == [c \in Claim |-> IF c \in listing THEN AdvertiseNew(job[c], p) ELSE job[c]]
<1>2. \A c \in Claim : Sound(js[c]) /\ Spares(job[c], js[c])
      BY AdvertiseKeeps, AdvertiseSpares DEF Inv, JobsSound, Keeps, Spares
<1>3. Dispatch(js, pending) BY <1>1
<1> HIDE DEF js
<1>4. phase' # "offer" /\ UNCHANGED <<link, control, live>> BY DEF HandleInventory, TryStartApply
<1>5. LanesHonest' BY <1>4 DEF HonestInv, LanesHonest
<1> QED BY <1>2, <1>3, <1>4, <1>5, HonestHandler DEF HonestInv

\* The heartbeat.
LEMMA HeartbeatHonest == Inv /\ HonestInv /\ Heartbeat => HonestInv' /\ HonestKept
<1> SUFFICES ASSUME Inv, HonestInv, Heartbeat PROVE HonestInv' /\ HonestKept OBVIOUS
<1>1. \A c \in Claim : Sound(job[c]) /\ Spares(job[c], job[c]) BY DEF Inv, JobsSound, Spares
<1>2. Dispatch(job, pending) /\ phase' # "offer" /\ UNCHANGED <<link, control, live>>
      BY DEF Heartbeat
<1>3. LanesHonest' BY <1>2 DEF HonestInv, LanesHonest
<1> QED BY <1>1, <1>2, <1>3, HonestHandler DEF HonestInv

\* A response: an honest peer has sent bytes, and all of them.
LEMMA ResponseHonest == Inv /\ HonestInv /\ HandleResponse => HonestInv' /\ HonestKept
<1> SUFFICES ASSUME Inv, HonestInv, HandleResponse PROVE HonestInv' /\ HonestKept OBVIOUS
<1> DEFINE ev == Head(live)
           r == pending[ev.token]
           held(c) == job[c].st = "verified" /\ job[c].selected = EncodingOf[r.peer]
           fits(c) == held(c) \/ c \in ev.missing \/ CanReceive(job[c], r.peer)
           done == {c \in r.claims :
                       \A d \in r.claims : Position(d) <= Position(c) => fits(d)}
           taken == {c \in done : ~held(c) /\ c \notin ev.missing}
           js == [c \in Claim |->
                     IF ev.kind = "bad" THEN QuarantineSource(job[c], r.peer)
                     ELSE IF c \in taken THEN Receive(job[c], r.peer)
                     ELSE IF c \in done /\ ~held(c) THEN MarkUnavailable(job[c], r.peer)
                     ELSE job[c]]
           rest == Without(pending, ev.token)
<1>1. /\ ev.token \in DOMAIN pending /\ Dispatch(js, rest) /\ phase' # "offer"
      /\ live # << >> /\ live' = Tail(live) /\ link' = link /\ control' = control
      BY DEF HandleResponse, TryStartApply
<1>2. LanesHonest' /\ Harmless(ev) BY <1>1, LiveTaken DEF HonestInv
<1>3. r.peer \in Peer /\ r.peer = ev.token[1]
      BY <1>1 DEF Inv, RequestsTyped, Request, HonestInv, Named
<1>4. r.peer \in Honest => ev.kind # "bad" /\ ev.missing = {}
      BY <1>2, <1>3 DEF Harmless
<1>5. \A c \in Claim : Sound(js[c]) /\ Spares(job[c], js[c])
  <2> SUFFICES ASSUME NEW c \in Claim PROVE Sound(js[c]) /\ Spares(job[c], js[c]) OBVIOUS
  <2>1. Sound(job[c]) BY DEF Inv, JobsSound
  <2> DEFINE q == QuarantineSource(job[c], r.peer)
             m == MarkUnavailable(job[c], r.peer)
             b == Receive(job[c], r.peer)
  <2>2. Sound(q) /\ Sound(m) BY <1>3, <2>1, QuarantineKeeps, UnavailableKeeps DEF Keeps
  <2>3. Sound(b)
    <3>1. b \in Shape BY <1>3, <2>1 DEF Receive, Sound, Shape
    <3>2. b.st = "verified" /\ b.hedge = None /\ b.sources = job[c].sources
          /\ b.late = {} /\ b.unavailable = job[c].unavailable
          BY <2>1 DEF Receive, Sound, Shape
    <3> QED BY <2>1, <3>1, <3>2 DEF Sound, Active, Sources
  <2>4. Spares(job[c], b) /\ Spares(job[c], job[c])
        BY <2>1, SourcesUntouched DEF Spares
  <2>5. r.peer \notin Honest => Spares(job[c], q) /\ Spares(job[c], m)
        BY <1>3, <2>1, OthersSpared
  <2>6. /\ js[c] \in {q, b, m, job[c]}
        /\ r.peer \in Honest => js[c] \in {b, job[c]}
        BY <1>4
  <2> HIDE DEF q, m, b, js, r, ev
  <2> QED BY <2>1, <2>2, <2>3, <2>4, <2>5, <2>6
<1>6. Named(rest) BY DEF HonestInv, Named, Without
<1> HIDE DEF js, rest
<1> QED BY <1>1, <1>2, <1>5, <1>6, HonestHandler

\* A failure: for an honest peer only a local one, which costs no source.
LEMMA FailureHonest == Inv /\ HonestInv /\ HandleRequestFailed => HonestInv' /\ HonestKept
<1> SUFFICES ASSUME Inv, HonestInv, HandleRequestFailed PROVE HonestInv' /\ HonestKept OBVIOUS
<1> DEFINE ev == Head(live)
           r == pending[ev.token]
           p == r.peer
           js == [c \in Claim |->
                     IF ev.kind = "invalid" THEN QuarantineSource(job[c], p)
                     ELSE IF c \notin r.claims THEN job[c]
                     ELSE IF ev.kind = "local" THEN ForgetLate(Drop(job[c], {p}), {p})
                     ELSE ForgetLate(FailSource(job[c], p), {p})]
           rest == Without(pending, ev.token)
<1>1. /\ ev.token \in DOMAIN pending /\ Dispatch(js, rest) /\ phase' # "offer"
      /\ ev.kind \in {"local", "invalid", "failed"}
      /\ live # << >> /\ live' = Tail(live) /\ link' = link /\ control' = control
      BY DEF HandleRequestFailed
<1>2. LanesHonest' /\ Harmless(ev) BY <1>1, LiveTaken DEF HonestInv
<1>3. p \in Peer /\ p = ev.token[1]
      BY <1>1 DEF Inv, RequestsTyped, Request, HonestInv, Named
<1>4. p \in Honest => ev.kind = "local" BY <1>1, <1>2, <1>3 DEF Harmless
<1>5. \A c \in Claim : Sound(js[c]) /\ Spares(job[c], js[c])
  <2> SUFFICES ASSUME NEW c \in Claim PROVE Sound(js[c]) /\ Spares(job[c], js[c]) OBVIOUS
  <2> HIDE DEF p
  <2>1. Sound(job[c]) BY DEF Inv, JobsSound
  <2> DEFINE q == QuarantineSource(job[c], p)
             d == Drop(job[c], {p})
             l == ForgetLate(d, {p})
             f == FailSource(job[c], p)
             g == ForgetLate(f, {p})
  <2>2. Sound(q) /\ Sound(d) /\ Sound(f)
        BY <1>3, <2>1, QuarantineKeeps, DropKeeps, FailKeeps DEF Keeps
  <2>3. d.sources = job[c].sources BY <2>1, SourcesUntouched
  <2>4. p \notin Honest => Spares(job[c], q) /\ Spares(job[c], f) BY <1>3, <2>1, OthersSpared
  <2>5. js[c] \in {q, job[c], l, g} /\ (p \in Honest => js[c] \in {job[c], l}) BY <1>4
  <2> HIDE DEF q, d, f
  <2>6. Sound(l) /\ l.sources = d.sources /\ Sound(g) /\ g.sources = f.sources
        BY <2>2, ForgetKeeps, SourcesUntouched DEF Keeps
  <2>7. Spares(job[c], l) /\ Spares(job[c], job[c]) /\ (p \notin Honest => Spares(job[c], g))
        BY <2>3, <2>4, <2>6 DEF Spares
  <2> HIDE DEF l, g, js
  <2> QED BY <2>1, <2>2, <2>4, <2>5, <2>6, <2>7
<1>6. Named(rest) BY DEF HonestInv, Named, Without
<1> HIDE DEF js, rest
<1> QED BY <1>1, <1>2, <1>5, <1>6, HonestHandler

\* A busy answer parks the source and keeps it.
LEMMA BusyHonest == Inv /\ HonestInv /\ HandleBusy => HonestInv' /\ HonestKept
<1> SUFFICES ASSUME Inv, HonestInv, HandleBusy PROVE HonestInv' /\ HonestKept OBVIOUS
<1> DEFINE t == Head(live).token
           r == pending[t]
           done == {c \in r.claims : \A d \in r.claims :
                       Position(d) <= Position(c) => r.peer \in Sources(job[d])}
           js == [c \in Claim |-> IF c \in done
                                  THEN ForgetLate(BusySource(job[c], r.peer), {r.peer})
                                  ELSE job[c]]
           rest == Without(pending, t)
<1>1. /\ phase' # "offer"
      /\ live # << >> /\ live' = Tail(live) /\ link' = link /\ control' = control
      BY DEF HandleBusy
<1>2. LanesHonest' BY <1>1, LiveTaken DEF HonestInv
<1>3. \A c \in Claim : Sound(job[c]) /\ Spares(job[c], job[c]) BY DEF Inv, JobsSound, Spares
<1>4. CASE t \in DOMAIN pending
  <2>1. Dispatch(js, rest) BY <1>4 DEF HandleBusy
  <2>2. r.peer \in Peer BY <1>4 DEF Inv, RequestsTyped, Request
  <2>3. \A c \in Claim : Sound(js[c]) /\ Spares(job[c], js[c])
    <3> SUFFICES ASSUME NEW c \in Claim PROVE Sound(js[c]) /\ Spares(job[c], js[c]) OBVIOUS
    <3> DEFINE k == BusySource(job[c], r.peer)
               l == ForgetLate(k, {r.peer})
    <3>1. Sound(k) /\ k.sources = job[c].sources
          BY <1>3, <2>2, BusyKeeps, SourcesUntouched DEF Keeps
    <3>2. Sound(l) /\ l.sources = k.sources
      <4> HIDE DEF k
      <4> QED BY <3>1, ForgetKeeps, SourcesUntouched DEF Keeps
    <3>3. js[c] \in {l, job[c]} OBVIOUS
    <3> HIDE DEF k, l, js
    <3> QED BY <1>3, <3>1, <3>2, <3>3 DEF Spares
  <2>4. Named(rest) BY DEF HonestInv, Named, Without
  <2> HIDE DEF js, rest
  <2> QED BY <1>1, <1>2, <2>1, <2>3, <2>4, HonestHandler
<1>5. CASE t \notin DOMAIN pending
  <2>1. Dispatch(job, pending) BY <1>5 DEF HandleBusy
  <2> QED BY <1>1, <1>2, <1>3, <2>1, HonestHandler DEF HonestInv
<1> QED BY <1>4, <1>5

\* A disconnect is never announced of an honest peer.
LEMMA DisconnectHonest == Inv /\ HonestInv /\ HandleDisconnected => HonestInv' /\ HonestKept
<1> SUFFICES ASSUME Inv, HonestInv, HandleDisconnected PROVE HonestInv' /\ HonestKept OBVIOUS
<1> DEFINE p == Head(control).peer
           js == [c \in Claim |-> DisconnectSource(job[c], p)]
           reqs == [t \in DOMAIN pending |->
                       IF pending[t].peer = p /\ pending[t].conn = "up"
                       THEN [pending[t] EXCEPT !.conn = "gone"] ELSE pending[t]]
<1>1. /\ Dispatch(js, reqs) /\ phase' # "offer" /\ link' = link /\ live' = live
      /\ control # << >> /\ Head(control).kind = "down" /\ control' = Tail(control)
      BY DEF HandleDisconnected
<1>2. control \in Seq(Announcement) BY DEF HonestInv, LanesHonest
<1>3. Head(control) \in Announcement /\ Tail(control) \in Seq(Announcement) BY <1>1, <1>2
<1>4. p \in Peer /\ p \notin Honest BY <1>1, <1>3 DEF Announcement, Honest
<1>5. LanesHonest' BY <1>1, <1>3 DEF HonestInv, LanesHonest
<1> HIDE DEF p
<1>6. \A c \in Claim : Sound(js[c]) /\ Spares(job[c], js[c])
      BY <1>4, DisconnectKeeps, OthersSpared DEF Inv, JobsSound, Keeps
<1>7. Named(reqs)
  <2> SUFFICES ASSUME NEW t \in DOMAIN pending PROVE t[1] = reqs[t].peer BY DEF Named
  <2>1. t[1] = pending[t].peer /\ pending[t] \in Request
        BY DEF HonestInv, Named, Inv, RequestsTyped
  <2> QED BY <2>1 DEF Request
<1> HIDE DEF js, reqs
<1> QED BY <1>1, <1>5, <1>6, <1>7, HonestHandler

\* What the network raises for a request is harmless if its peer is honest.
LEMMA AnswerHonest ==
    ASSUME Inv, HonestInv, NEW t \in DOMAIN wire, Answer(t) \/ Refuse(t)
    PROVE  HonestInv' /\ HonestKept
<1>1. t[1] = wire[t].peer BY DEF HonestInv, Named
<1>2. PICK e : live' = Append(live, e) /\ Harmless(e)
  <2>1. CASE Answer(t)
    <3>1. PICK o \in Outcome(t) : live' = Append(live, o.event) BY <2>1 DEF Answer
    <3>2. o.event.token = t /\ (wire[t].peer \in Honest =>
                                   o.event.kind \in {"bytes", "busy", "local"} /\ o.event.missing = {})
      <4> DEFINE q == wire[t].peer
                 C == wire[t].claims
      <4> HIDE DEF q, C
      <4>1. \/ o.event \in {Event(t, k, {}) : k \in {"bytes", "busy", "local"}}
            \/ q \notin Honest /\ \E k \in {"bytes", "failed", "bad", "invalid"}, M \in SUBSET C :
                   o.event = Event(t, k, M)
            BY <3>1 DEF Outcome, Honest, q, C
      <4>2. \A k, M : /\ Event(t, k, M).token = t
                      /\ Event(t, k, M).kind = k /\ Event(t, k, M).missing = M
            BY DEF Event
      <4> QED BY <4>1, <4>2 DEF q
    <3> QED BY <1>1, <3>1, <3>2 DEF Harmless
  <2>2. CASE Refuse(t)
    <3>1. wire[t].peer \notin Honest BY <2>2 DEF Refuse, HonestInv, LanesHonest, Honest
    <3>2. Event(t, "failed", {}).token[1] \notin Honest BY <1>1, <3>1 DEF Event
    <3> QED BY <2>2, <3>2 DEF Refuse, Harmless
  <2> QED BY <2>1, <2>2
<1>3. /\ wire' = Without(wire, t) /\ link' = link /\ control' = control
      /\ UNCHANGED <<job, pending, phase>>
      BY DEF Answer, Refuse, node
<1>4. LanesHonest'
  <2>1. live' = live \o <<e>> /\ <<e>> \in Seq({e})
        BY <1>2 DEF HonestInv, LanesHonest
  <2>2. \A x \in {e} : Harmless(x) BY <1>2
  <2>3. Stable \subseteq link' /\ control' \in Seq(Announcement)
        BY <1>3 DEF HonestInv, LanesHonest
  <2> QED BY <2>1, <2>2, <2>3, LiveRaised DEF HonestInv
<1>5. Named(wire') BY <1>3 DEF HonestInv, Named, Without
<1>6. IsFiniteSet(DOMAIN wire')
  <2>1. DOMAIN wire' = DOMAIN wire \ {t} BY <1>3 DEF Without
  <2> QED BY <2>1, FS_Subset DEF HonestInv
<1>7. Named(pending') BY <1>3 DEF HonestInv, Named
<1> QED BY <1>3, <1>4, <1>5, <1>6, <1>7, HonestQuiet

\* Only the connection of a peer that is not stable closes, and fails its own requests.
LEMMA CloseHonest ==
    ASSUME Inv, HonestInv, NEW p \in Peer, CloseConnection(p)
    PROVE  HonestInv' /\ HonestKept
<1> DEFINE asked == {t \in DOMAIN wire : wire[t].peer = p}
<1>1. PICK queued \in SUBSET asked :
         \E order \in [1 .. Cardinality(asked \ queued) -> asked \ queued] :
             /\ live' = live \o [i \in DOMAIN order |-> Event(order[i], "failed", {})]
             /\ wire' = [t \in DOMAIN wire \ (asked \ queued) |-> wire[t]]
      BY DEF CloseConnection
<1> DEFINE n == Cardinality(asked \ queued)
<1>2. PICK order \in [1 .. n -> asked \ queued] :
             /\ live' = live \o [i \in DOMAIN order |-> Event(order[i], "failed", {})]
             /\ wire' = [t \in DOMAIN wire \ (asked \ queued) |-> wire[t]]
      BY <1>1
<1>3. n \in Nat
  <2>1. IsFiniteSet(asked \ queued) BY FS_Subset DEF HonestInv
  <2> QED BY <2>1, FS_CardinalityType
<1>4. /\ p \notin Stable /\ link' = link \ {p}
      /\ control' = Append(control, [kind |-> "down", peer |-> p])
      /\ UNCHANGED <<job, pending, phase>>
      BY DEF CloseConnection, node
<1> DEFINE T == {Event(t, "failed", {}) : t \in asked}
           es == [i \in DOMAIN order |-> Event(order[i], "failed", {})]
<1>5. \A e \in T : Harmless(e)
  <2> SUFFICES ASSUME NEW t \in asked PROVE Harmless(Event(t, "failed", {})) OBVIOUS
  <2>1. t[1] = p BY DEF HonestInv, Named
  <2> QED BY <1>4, <2>1 DEF Harmless, Event, Honest
<1>6. es \in Seq(T)
  <2> HIDE DEF n
  <2>1. es \in [1 .. n -> T] BY <1>2
  <2> HIDE DEF es, T
  <2> QED BY <1>3, <2>1
<1>7. control' \in Seq(Announcement)
  <2>1. [kind |-> "down", peer |-> p] \in Announcement BY <1>4 DEF Announcement
  <2>2. control \in Seq(Announcement) BY DEF HonestInv, LanesHonest
  <2> QED BY <1>4, <2>1, <2>2
<1>8. Stable \subseteq link' BY <1>4 DEF HonestInv, LanesHonest
<1>9. live' = live \o es BY <1>2
<1> HIDE DEF T, es
<1>10. LanesHonest' BY <1>5, <1>6, <1>7, <1>8, <1>9, LiveRaised DEF HonestInv
<1> HIDE DEF asked
<1>11. Named(wire') BY <1>2 DEF HonestInv, Named
<1>12. IsFiniteSet(DOMAIN wire')
  <2>1. DOMAIN wire' \subseteq DOMAIN wire BY <1>2
  <2> QED BY <2>1, FS_Subset DEF HonestInv
<1>13. Named(pending') BY <1>4 DEF HonestInv, Named
<1> QED BY <1>4, <1>10, <1>11, <1>12, <1>13, HonestQuiet

\* The end of a back-off.
LEMMA UnparkHonest ==
    ASSUME Inv, HonestInv, NEW p \in Peer, NEW c \in Claim, Unpark(c, p)
    PROVE  HonestInv' /\ HonestKept
<1>1. /\ job' = [job EXCEPT ![c].parked = @ \ {p}]
      /\ UNCHANGED <<pending, phase, wire, link, control, live>> /\ phase = "fetch"
      BY DEF Unpark, net
<1>2. \A d \in Claim : job'[d].sources = job[d].sources
  <2> SUFFICES ASSUME NEW d \in Claim PROVE job'[d].sources = job[d].sources OBVIOUS
  <2>1. Sound(job[d]) BY DEF Inv, JobsSound
  <2>2. CASE job'[d] = job[d] BY <2>2
  <2>3. CASE job'[d] = [job[d] EXCEPT !.parked = @ \ {p}] BY <2>1, <2>3 DEF Sound, Shape
  <2> QED BY <1>1, <2>2, <2>3
<1>3. HonestKept BY <1>2 DEF HonestKept, Spares
<1> QED BY <1>1, <1>3 DEF HonestInv, LanesHonest, Named

\* The other steps of the network and of time.
LEMMA OtherHonest ==
    ASSUME Inv, HonestInv,
           \/ \E p \in Peer : OpenConnection(p) \/ SendInventory(p)
           \/ DiscardEvent \/ HandleConnected \/ Retire
           \/ \E t \in DOMAIN pending : EndGrace(t)
           \/ UNCHANGED vars
    PROVE  HonestInv' /\ HonestKept
<1>1. Named(pending) /\ Named(wire) /\ IsFiniteSet(DOMAIN wire) /\ LanesHonest
      /\ control \in Seq(Announcement)
      BY DEF HonestInv, LanesHonest
<1>2. ASSUME UNCHANGED <<job, pending, wire>>, phase' = phase \/ phase' # "offer", LanesHonest'
      PROVE  HonestInv' /\ HonestKept
      BY <1>1, <1>2, HonestQuiet
<1>3. ASSUME NEW p \in Peer, OpenConnection(p) PROVE HonestInv' /\ HonestKept
  <2>1. /\ link' = link \cup {p} /\ control' = Append(control, [kind |-> "up", peer |-> p])
        /\ UNCHANGED <<job, pending, wire, phase, live>>
        BY <1>3 DEF OpenConnection, node
  <2>2. [kind |-> "up", peer |-> p] \in Announcement BY DEF Announcement
  <2>3. control' \in Seq(Announcement) BY <1>1, <2>1, <2>2
  <2>4. LanesHonest' BY <1>1, <2>1, <2>3 DEF LanesHonest
  <2> QED BY <1>2, <2>1, <2>4
<1>4. ASSUME NEW p \in Peer, SendInventory(p) PROVE HonestInv' /\ HonestKept
  <2>1. UNCHANGED <<job, pending, wire, phase, link, control, live>> BY <1>4 DEF SendInventory, node
  <2>2. LanesHonest' BY <1>1, <2>1 DEF LanesHonest
  <2> QED BY <1>2, <2>1, <2>2
<1>5. CASE DiscardEvent
  <2>1. /\ live # << >> /\ live' = Tail(live)
        /\ UNCHANGED <<job, pending, wire, phase, link, control>>
        BY <1>5 DEF DiscardEvent, node
  <2>2. LanesHonest' BY <1>1, <2>1, LiveTaken
  <2> QED BY <1>2, <2>1, <2>2
<1>6. CASE HandleConnected
  <2>1. /\ control # << >> /\ control' = Tail(control)
        /\ UNCHANGED <<job, pending, wire, phase, link, live>>
        BY <1>6 DEF HandleConnected
  <2>2. control' \in Seq(Announcement) BY <1>1, <2>1
  <2>3. LanesHonest' BY <1>1, <2>1, <2>2 DEF LanesHonest
  <2> QED BY <1>2, <2>1, <2>3
<1>7. CASE Retire
  <2>1. phase' # "offer" /\ UNCHANGED <<job, pending, wire, link, control, live>>
        BY <1>7 DEF Retire, net
  <2>2. LanesHonest' BY <1>1, <2>1 DEF LanesHonest
  <2> QED BY <1>2, <2>1, <2>2
<1>8. ASSUME NEW t \in DOMAIN pending, EndGrace(t) PROVE HonestInv' /\ HonestKept
  <2>1. /\ pending' = [pending EXCEPT ![t].conn = "expired"]
        /\ UNCHANGED <<job, wire, phase, link, control, live>>
        BY <1>8 DEF EndGrace, net
  <2>2. Named(pending')
    <3> SUFFICES ASSUME NEW u \in DOMAIN pending PROVE u[1] = pending'[u].peer
        BY <2>1 DEF Named
    <3>1. u[1] = pending[u].peer /\ pending[u] \in Request
          BY <1>1 DEF Named, Inv, RequestsTyped
    <3> QED BY <2>1, <3>1 DEF Request
  <2>3. LanesHonest' BY <1>1, <2>1 DEF LanesHonest
  <2>4. Named(wire') /\ IsFiniteSet(DOMAIN wire') BY <1>1, <2>1
  <2> QED BY <2>1, <2>2, <2>3, <2>4, HonestQuiet
<1>9. CASE UNCHANGED vars
  <2>1. UNCHANGED <<job, pending, wire, phase, link, control, live>> BY <1>9 DEF vars, node, net
  <2>2. LanesHonest' BY <1>1, <2>1 DEF LanesHonest
  <2> QED BY <1>2, <2>1, <2>2
<1> QED BY <1>3, <1>4, <1>5, <1>6, <1>7, <1>8, <1>9

\* Every step keeps the second invariant, and the honest sources.
LEMMA HonestStep == Inv /\ HonestInv /\ [Next]_vars => HonestInv' /\ HonestKept
<1> SUFFICES ASSUME Inv, HonestInv, [Next]_vars PROVE HonestInv' /\ HonestKept OBVIOUS
<1>1. CASE StartPlan BY <1>1, StartPlanHonest
<1>2. CASE \E p \in Peer : HandleInventory(p) BY <1>2, InventoryHonest
<1>3. CASE HandleResponse BY <1>3, ResponseHonest
<1>4. CASE HandleRequestFailed BY <1>4, FailureHonest
<1>5. CASE HandleBusy BY <1>5, BusyHonest
<1>6. CASE HandleDisconnected BY <1>6, DisconnectHonest
<1>7. CASE Heartbeat BY <1>7, HeartbeatHonest
<1>8. CASE \E p \in Peer : CloseConnection(p) BY <1>8, CloseHonest
<1>9. CASE \E p \in Peer : \E c \in Claim : Unpark(c, p) BY <1>9, UnparkHonest
<1>10. CASE \E t \in DOMAIN wire : Answer(t) \/ Refuse(t) BY <1>10, AnswerHonest
<1>11. CASE \/ \E p \in Peer : OpenConnection(p) \/ SendInventory(p)
            \/ DiscardEvent \/ HandleConnected \/ Retire
            \/ \E t \in DOMAIN pending : EndGrace(t)
            \/ UNCHANGED vars
      BY <1>11, OtherHonest
<1> QED BY <1>1, <1>2, <1>3, <1>4, <1>5, <1>6, <1>7, <1>8, <1>9, <1>10, <1>11 DEF Next

\* At first everybody is connected and nothing is on its way.
LEMMA InitHonest == Init => HonestInv
<1> SUFFICES ASSUME Init PROVE HonestInv OBVIOUS
<1>1. LanesHonest BY SuffixAssumption DEF Init, LanesHonest
<1>2. Named(pending) /\ Named(wire) BY DEF Init, Named
<1>3. IsFiniteSet(DOMAIN wire)
  <2>1. DOMAIN wire = {} BY DEF Init
  <2> QED BY <2>1, FS_EmptySet
<1>4. \A c \in Claim : Sources(job[c]) = {} BY DEF Init, NewJob, Sources
<1> QED BY <1>1, <1>2, <1>3, <1>4 DEF HonestInv

\* A peer that stays connected and serves what it lists stays a source of every
\* claim it was a source of, in every step: busy answers, local refusals, hedge
\* rotations and the failures of other peers never cost it a claim.
THEOREM HonestSourcesStay == Spec => HonestSourceKept
<1>1. Inv /\ HonestInv /\ [Next]_vars =>
         [\A c \in Claim : Stable \cap Correct \cap Sources(job[c]) \subseteq Sources(job'[c])]_vars
  <2> SUFFICES ASSUME HonestKept, NEW c \in Claim,
                      NEW p \in Stable \cap Correct \cap Sources(job[c])
               PROVE  p \in Sources(job'[c])
      BY HonestStep
  <2> QED BY DEF HonestKept, Spares, Honest, Sources
<1>2. Spec => []HonestInv
  <2>1. Inv /\ HonestInv /\ [Next]_vars => HonestInv' BY HonestStep
  <2> QED BY <2>1, InitHonest, Invariance, PTL DEF Spec
<1> QED BY <1>1, <1>2, Invariance, PTL DEF Spec, HonestSourceKept
===============================================================================
