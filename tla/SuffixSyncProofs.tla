-------------------------- MODULE SuffixSyncProofs ----------------------------
(***************************************************************************)
(* The leases, the exclusions and the bytes of a suffix plan are sound for *)
(* every plan, every set of peers, every assignment of failure domains and *)
(* encodings and any number of faults.  Each operation on a job keeps it   *)
(* sound and keeps what is verified; the dispatch at the end of each       *)
(* handler is a composition of such operations.                            *)
(***************************************************************************)
EXTENDS SuffixSync, FiniteSetTheorems, TLAPS, WellFoundedInduction

Domain == {DomainOf[p] : p \in Peer} \cup {None, Unknown}
Encoding == {EncodingOf[p] : p \in Peer} \cup {None}

Shape ==
    [st : {"wanted", "flight", "verified"}, primary : Peer \cup {None}, hedge : Peer \cup {None},
     sources : [Peer -> Domain], failures : [Peer -> Nat],
     parked : SUBSET Peer, late : SUBSET Peer, unavailable : SUBSET Peer, selected : Encoding]

\* What holds of every job between two steps.
Sound(j) ==
    /\ j \in Shape
    /\ j.st # "flight" => j.hedge = None
    /\ \A p \in Peer : Active(j, p) => p \in Sources(j)
    /\ \A p \in j.unavailable : p \notin Sources(j) /\ p \notin j.late

\* k follows j by operations other than a receipt.
Keeps(j, k) ==
    /\ Sound(k)
    /\ j.st = "verified" <=> k.st = "verified"
    /\ j.st = "verified" => k.selected = j.selected

-------------------------------------------------------------------------------
\* The end of leases keeps a job sound, and ends the leases.
LEMMA DropKeeps ==
    ASSUME NEW j, Sound(j), NEW P
    PROVE  /\ Keeps(j, Drop(j, P))
           /\ \A p \in P \cap Peer : ~Active(Drop(j, P), p)
           /\ Drop(j, P).late = j.late /\ Drop(j, P).sources = j.sources
<1>1. Drop(j, P) \in Shape BY DEF Drop, Sound, Shape
<1>2. Drop(j, P).late = j.late /\ Drop(j, P).sources = j.sources
      /\ Drop(j, P).unavailable = j.unavailable /\ Drop(j, P).selected = j.selected
      /\ (j.st = "verified" <=> Drop(j, P).st = "verified")
      BY DEF Drop, Sound, Shape
<1>3. Drop(j, P).st # "flight" => Drop(j, P).hedge = None
      BY DEF Drop, Sound, Shape
<1>4. \A p \in Peer : Active(Drop(j, P), p) => Active(j, p)
      BY SuffixAssumption DEF Drop, Active, Sound, Shape
<1>5. \A p \in P \cap Peer : ~Active(Drop(j, P), p)
      BY SuffixAssumption DEF Drop, Active, Sound, Shape
<1>6. Sound(Drop(j, P)) BY <1>1, <1>2, <1>3, <1>4 DEF Sound, Sources
<1> QED BY <1>2, <1>5, <1>6 DEF Keeps

\* The release of an encoding concerns a wanted job only.
LEMMA ReleaseKeeps ==
    ASSUME NEW j, Sound(j)
    PROVE  Keeps(j, Release(j))
<1>1. Release(j) \in Shape BY DEF Release, Sound, Shape, Encoding
<1>2. Release(j).late = j.late /\ Release(j).sources = j.sources
      /\ Release(j).unavailable = j.unavailable /\ Release(j).st = j.st
      /\ Release(j).primary = j.primary /\ Release(j).hedge = j.hedge
      /\ (j.st = "verified" => Release(j).selected = j.selected)
      BY DEF Release, Sound, Shape
<1> QED BY <1>1, <1>2 DEF Keeps, Sound, Sources, Active

\* A source without a lease can be excluded.
LEMMA ExcludeKeeps ==
    ASSUME NEW j, Sound(j), NEW p \in Peer, ~Active(j, p)
    PROVE  Keeps(j, Exclude(j, p))
<1> DEFINE k == [j EXCEPT !.late = @ \ {p}, !.sources[p] = None, !.unavailable = @ \cup {p}]
<1>1. k \in Shape BY DEF Sound, Shape, Domain
<1>2. k.st = j.st /\ k.hedge = j.hedge /\ k.primary = j.primary /\ k.selected = j.selected
      /\ k.late = j.late \ {p} /\ k.unavailable = j.unavailable \cup {p}
      /\ k.sources = [j.sources EXCEPT ![p] = None]
      BY DEF Sound, Shape
<1>3. \A q \in Peer : k.sources[q] = IF q = p THEN None ELSE j.sources[q]
      BY <1>2 DEF Sound, Shape
<1>4. Sound(k)
  <2>1. \A q \in Peer : Active(k, q) => q \in Sources(k)
        BY <1>2, <1>3 DEF Sound, Active, Sources
  <2>2. \A q \in k.unavailable : q \notin Sources(k) /\ q \notin k.late
        BY <1>2, <1>3 DEF Sound, Sources
  <2> QED BY <1>1, <1>2, <2>1, <2>2 DEF Sound
<1>5. Keeps(k, Release(k)) BY <1>4, ReleaseKeeps
<1> QED BY <1>2, <1>5 DEF Keeps, Exclude

\* A failure is charged, and excludes the source at the limit.
LEMMA FailKeeps ==
    ASSUME NEW j, Sound(j), NEW p \in Peer
    PROVE  /\ Keeps(j, FailSource(j, p))
           /\ ~Active(FailSource(j, p), p)
<1> DEFINE k == Drop(j, {p})
           l == [k EXCEPT !.failures[p] = @ + 1, !.parked = @ \cup {p}]
<1>1. Keeps(j, k) /\ ~Active(k, p) BY DropKeeps
<1>2. FailSource(j, p) \in {k, l, Exclude(l, p)} BY DEF FailSource
<1> HIDE DEF k
<1> DEFINE f == [k.failures EXCEPT ![p] = k.failures[p] + 1]
           n == k.parked \cup {p}
<1>3. k \in Shape /\ f \in [Peer -> Nat] /\ n \in SUBSET Peer
      BY <1>1 DEF Keeps, Sound, Shape
<1>4. l = [k EXCEPT !.failures = f, !.parked = n] BY <1>3 DEF Shape
<1>5. l \in Shape
  <2> HIDE DEF f, n, l
  <2> QED BY <1>3, <1>4 DEF Shape
<1>6. l.st = k.st /\ l.hedge = k.hedge /\ l.primary = k.primary /\ l.selected = k.selected
      /\ l.late = k.late /\ l.unavailable = k.unavailable /\ l.sources = k.sources
      BY <1>1 DEF Keeps, Sound, Shape
<1>7. Keeps(j, l) /\ ~Active(l, p)
      BY <1>1, <1>5, <1>6 DEF Keeps, Sound, Sources, Active
<1>8. Keeps(l, Exclude(l, p)) BY <1>7, ExcludeKeeps DEF Keeps
<1>9. Exclude(l, p).st = l.st /\ Exclude(l, p).primary = l.primary /\ Exclude(l, p).hedge = l.hedge
      BY <1>5 DEF Exclude, Release, Shape
<1> QED BY <1>1, <1>7, <1>8, <1>9, <1>2 DEF Keeps, Active

\* A source that lacks the object is failed and excluded.
LEMMA UnavailableKeeps ==
    ASSUME NEW j, Sound(j), NEW p \in Peer
    PROVE  Keeps(j, MarkUnavailable(j, p))
<1>1. Keeps(j, FailSource(j, p)) /\ ~Active(FailSource(j, p), p) BY FailKeeps
<1>2. Keeps(FailSource(j, p), MarkUnavailable(j, p))
      BY <1>1, ExcludeKeeps DEF Keeps, MarkUnavailable
<1> QED BY <1>1, <1>2 DEF Keeps

\* Bad bytes end the lease and exclude the source.
LEMMA QuarantineKeeps ==
    ASSUME NEW j, Sound(j), NEW p \in Peer
    PROVE  Keeps(j, QuarantineSource(j, p))
<1>1. Keeps(j, Drop(j, {p})) /\ ~Active(Drop(j, {p}), p) BY DropKeeps
<1>2. Keeps(Drop(j, {p}), QuarantineSource(j, p))
      BY <1>1, ExcludeKeeps DEF Keeps, QuarantineSource
<1> QED BY <1>1, <1>2 DEF Keeps

\* A busy source is parked.
LEMMA BusyKeeps ==
    ASSUME NEW j, Sound(j), NEW p \in Peer
    PROVE  Keeps(j, BusySource(j, p))
<1> DEFINE k == Drop(j, {p})
           l == [k EXCEPT !.parked = @ \cup {p}]
<1>1. Keeps(j, k) BY DropKeeps
<1>2. BusySource(j, p) = l BY DEF BusySource
<1> HIDE DEF k
<1>3. l \in Shape BY <1>1 DEF Keeps, Sound, Shape
<1>4. l.st = k.st /\ l.hedge = k.hedge /\ l.primary = k.primary /\ l.selected = k.selected
      /\ l.late = k.late /\ l.unavailable = k.unavailable /\ l.sources = k.sources
      BY <1>1 DEF Keeps, Sound, Shape
<1> QED BY <1>1, <1>2, <1>3, <1>4 DEF Keeps, Sound, Sources, Active

\* A disconnect turns the lease into a late correlation.
LEMMA DisconnectKeeps ==
    ASSUME NEW j, Sound(j), NEW p \in Peer
    PROVE  Keeps(j, DisconnectSource(j, p))
<1> DEFINE k == Drop(j, {p})
           l == [k EXCEPT !.sources[p] = None, !.late = IF Active(j, p) THEN @ \cup {p} ELSE @]
<1>1. Keeps(j, k) /\ ~Active(k, p) /\ k.late = j.late /\ k.sources = j.sources
      BY DropKeeps
<1>2. k.unavailable = j.unavailable BY DEF Drop, Sound, Shape
<1>3. DisconnectSource(j, p) = l BY DEF DisconnectSource
<1> HIDE DEF k
<1>4. l \in Shape BY <1>1 DEF Keeps, Sound, Shape, Domain
<1>5. l.st = k.st /\ l.hedge = k.hedge /\ l.primary = k.primary /\ l.selected = k.selected
      /\ l.late \subseteq k.late \cup {p} /\ (p \in l.late => Active(j, p) \/ p \in k.late)
      /\ l.unavailable = k.unavailable
      /\ l.sources = [k.sources EXCEPT ![p] = None]
      BY <1>1 DEF Keeps, Sound, Shape
<1>6. \A q \in Peer : l.sources[q] = IF q = p THEN None ELSE k.sources[q]
      BY <1>1, <1>5 DEF Keeps, Sound, Shape
<1>7. \A q \in Peer : Active(l, q) => q \in Sources(l)
      BY <1>1, <1>5, <1>6 DEF Keeps, Sound, Active, Sources
<1>8. \A q \in l.unavailable : q \notin Sources(l) /\ q \notin l.late
      BY <1>1, <1>2, <1>5, <1>6 DEF Keeps, Sound, Sources
<1> QED BY <1>1, <1>3, <1>4, <1>5, <1>7, <1>8 DEF Keeps, Sound

\* Late correlations end, and with the last one perhaps the choice of the encoding.
LEMMA ForgetKeeps ==
    ASSUME NEW j, Sound(j), NEW P
    PROVE  Keeps(j, ForgetLate(j, P))
<1> DEFINE k == [j EXCEPT !.late = @ \ P]
<1>1. k \in Shape BY DEF Sound, Shape
<1>2. k.st = j.st /\ k.hedge = j.hedge /\ k.primary = j.primary /\ k.selected = j.selected
      /\ k.late \subseteq j.late /\ k.unavailable = j.unavailable /\ k.sources = j.sources
      BY DEF Sound, Shape
<1>3. Keeps(j, k) BY <1>1, <1>2 DEF Keeps, Sound, Sources, Active
<1>4. Keeps(k, Release(k)) BY <1>3, ReleaseKeeps DEF Keeps
<1>5. ForgetLate(j, P) \in {k, Release(k)} BY DEF ForgetLate
<1> QED BY <1>3, <1>4, <1>5 DEF Keeps

\* An inventory adds a source that is not excluded.
LEMMA AdvertiseKeeps ==
    ASSUME NEW j, Sound(j), NEW p \in Peer
    PROVE  Keeps(j, AdvertiseNew(j, p))
<1>1. CASE p \in j.unavailable BY <1>1 DEF AdvertiseNew, Keeps
<1>2. CASE p \notin j.unavailable
  <2> DEFINE d == IF p \in known THEN DomainOf[p] ELSE Unknown
             k == [j EXCEPT !.sources[p] = d]
  <2>1. AdvertiseNew(j, p) = k BY <1>2 DEF AdvertiseNew
  <2>2. d \in Domain /\ d # None BY SuffixAssumption DEF Domain, None, Unknown
  <2> HIDE DEF d
  <2>3. k \in Shape BY <2>2 DEF Sound, Shape
  <2>4. k.st = j.st /\ k.hedge = j.hedge /\ k.primary = j.primary /\ k.selected = j.selected
        /\ k.late = j.late /\ k.unavailable = j.unavailable
        /\ k.sources = [j.sources EXCEPT ![p] = d]
        BY DEF Sound, Shape
  <2>5. \A q \in Peer : k.sources[q] = IF q = p THEN d ELSE j.sources[q]
        BY <2>4 DEF Sound, Shape
  <2>6. \A q \in Peer : Active(k, q) => q \in Sources(k)
        BY <2>2, <2>4, <2>5 DEF Sound, Active, Sources
  <2>7. \A q \in k.unavailable : q \notin Sources(k) /\ q \notin k.late
        BY <1>2, <2>4, <2>5 DEF Sound, Sources
  <2> QED BY <2>1, <2>3, <2>4, <2>6, <2>7 DEF Keeps, Sound
<1> QED BY <1>1, <1>2

-------------------------------------------------------------------------------
\* The least of a set of natural numbers.
LEMMA LeastNatural ==
    ASSUME NEW T, T \subseteq Nat, T # {}
    PROVE  \E x \in T : \A y \in T : x <= y
<1>1. PICK x \in T : \A y \in T : ~ (<<y, x>> \in OpToRel(<, Nat))
      BY NatLessThanWellFounded, WFMin
<1>2. \A y \in T : ~ (y < x) BY <1>1 DEF OpToRel
<1> QED BY <1>2

\* There is a first source, by failures and then by rank, when any is eligible.
LEMMA ChoiceIsEligible ==
    ASSUME NEW j, Sound(j), NEW tried, Eligible(j, tried) # {}
    PROVE  ChooseSource(j, tried) \in Eligible(j, tried)
<1> DEFINE E == Eligible(j, tried)
           F == {j.failures[p] : p \in E}
<1>1. E \subseteq Peer BY DEF Eligible, Sources
<1>2. F \subseteq Nat /\ F # {} BY <1>1 DEF Sound, Shape
<1> HIDE DEF E
<1>3. PICK f \in F : \A y \in F : f <= y BY <1>2, LeastNatural
<1> DEFINE R == {Rank[p] : p \in {q \in E : j.failures[q] = f}}
<1>4. R \subseteq Nat /\ R # {} BY <1>1, <1>3, SuffixAssumption
<1>5. PICK r \in R : \A y \in R : r <= y BY <1>4, LeastNatural
<1>6. PICK p \in E : j.failures[p] = f /\ Rank[p] = r BY <1>5
<1>7. \A q \in E \ {p} : \/ j.failures[p] < j.failures[q]
                         \/ j.failures[p] = j.failures[q] /\ Rank[p] < Rank[q]
  <2> SUFFICES ASSUME NEW q \in E \ {p}
               PROVE  \/ j.failures[p] < j.failures[q]
                      \/ j.failures[p] = j.failures[q] /\ Rank[p] < Rank[q]
      OBVIOUS
  <2>1. j.failures[q] \in Nat /\ f <= j.failures[q] BY <1>2, <1>3
  <2>2. CASE j.failures[q] = f
    <3>1. r <= Rank[q] BY <1>5, <2>2
    <3>2. Rank[q] \in Nat /\ Rank[p] \in Nat /\ Rank[p] # Rank[q] BY <1>1, SuffixAssumption
    <3> QED BY <1>6, <2>2, <3>1, <3>2
  <2> QED BY <1>2, <1>6, <2>1, <2>2
<1> QED BY <1>6, <1>7 DEF ChooseSource, E

\* The primary lease goes to a source.
LEMMA PrimaryKeeps ==
    ASSUME NEW j, Sound(j)
    PROVE  Keeps(j, StartPrimary(j))
<1>1. CASE j.st = "wanted" /\ Eligible(j, {}) # {}
  <2> DEFINE p == ChooseSource(j, {})
             k == [j EXCEPT !.st = "flight", !.primary = p, !.selected = EncodingOf[p]]
  <2>1. p \in Eligible(j, {}) BY <1>1, ChoiceIsEligible
  <2>2. StartPrimary(j) = k BY <1>1 DEF StartPrimary
  <2> HIDE DEF p
  <2>3. p \in Peer /\ p \in Sources(j) BY <2>1 DEF Eligible, Sources
  <2>4. k \in Shape BY <2>3 DEF Sound, Shape, Encoding
  <2>5. k.st = "flight" /\ k.primary = p /\ k.hedge = None /\ k.sources = j.sources
        /\ k.late = j.late /\ k.unavailable = j.unavailable
        BY <1>1 DEF Sound, Shape
  <2>6. \A q \in Peer : Active(k, q) => q \in Sources(k)
        BY <2>3, <2>5, SuffixAssumption DEF Active, Sources
  <2> QED BY <1>1, <2>2, <2>4, <2>5, <2>6 DEF Keeps, Sound, Sources
<1>2. CASE ~(j.st = "wanted" /\ Eligible(j, {}) # {}) BY <1>2 DEF StartPrimary, Keeps
<1> QED BY <1>1, <1>2

\* So does the hedge.
LEMMA HedgeKeeps ==
    ASSUME NEW j, Sound(j)
    PROVE  Keeps(j, StartHedge(j))
<1> DEFINE may == /\ j.st = "flight" /\ j.hedge = None
                  /\ j.primary \in Sources(j) /\ Eligible(j, {j.primary}) # {}
<1>1. CASE may
  <2> DEFINE p == ChooseSource(j, {j.primary})
             k == [j EXCEPT !.hedge = p]
  <2>1. p \in Eligible(j, {j.primary}) BY <1>1, ChoiceIsEligible
  <2>2. StartHedge(j) = k BY <1>1 DEF StartHedge
  <2> HIDE DEF p
  <2>3. p \in Peer /\ p \in Sources(j) BY <2>1 DEF Eligible, Sources
  <2>4. k \in Shape BY <2>3 DEF Sound, Shape
  <2>5. k.st = "flight" /\ k.primary = j.primary /\ k.hedge = p /\ k.sources = j.sources
        /\ k.late = j.late /\ k.unavailable = j.unavailable
        BY <1>1 DEF Sound, Shape
  <2>6. \A q \in Peer : Active(k, q) => q \in Sources(k)
        BY <1>1, <2>3, <2>5 DEF Active, Sources
  <2> QED BY <1>1, <2>2, <2>4, <2>5, <2>6 DEF Keeps, Sound, Sources
<1>2. CASE ~may BY <1>2 DEF StartHedge, Keeps
<1> QED BY <1>1, <1>2

\* The rotation parks the hedge, a source, as a late correlation and leases another source.
LEMMA RotateKeeps ==
    ASSUME NEW j, Sound(j), NEW reqs, MayRotate(j, reqs)
    PROVE  Keeps(j, RotateHedge(j))
<1> DEFINE p == ChooseSource(j, {j.primary, j.hedge})
           k == [j EXCEPT !.hedge = p, !.parked = @ \cup {j.hedge}, !.late = @ \cup {j.hedge}]
<1>1. p \in Eligible(j, {j.primary, j.hedge}) BY ChoiceIsEligible DEF MayRotate
<1>2. RotateHedge(j) = k BY DEF RotateHedge
<1> HIDE DEF p
<1>3. p \in Peer /\ p \in Sources(j) BY <1>1 DEF Eligible, Sources
<1>4. j.hedge \in Peer /\ j.hedge \in Sources(j) /\ j.primary \in Sources(j) /\ j.st = "flight"
      BY DEF MayRotate, Sources
<1>5. k \in Shape BY <1>3, <1>4 DEF Sound, Shape
<1>6. k.st = "flight" /\ k.primary = j.primary /\ k.hedge = p /\ k.sources = j.sources
      /\ k.late = j.late \cup {j.hedge} /\ k.unavailable = j.unavailable
      BY <1>4 DEF Sound, Shape
<1>7. \A q \in Peer : Active(k, q) => q \in Sources(k)
      BY <1>3, <1>4, <1>6 DEF Active, Sources
<1>8. \A q \in k.unavailable : q \notin Sources(k) /\ q \notin k.late
      BY <1>4, <1>6 DEF Sound, Sources
<1> QED BY <1>2, <1>4, <1>5, <1>6, <1>7, <1>8 DEF Keeps, Sound

\* The assignments of one claim, in their order.
LEMMA AssignKeeps ==
    ASSUME NEW c, NEW j, Sound(j), NEW reqs, NEW slow, NEW oldHedge
    PROVE  /\ Keeps(j, Assign(c, j, reqs, slow, oldHedge).job)
           /\ Assign(c, j, reqs, slow, oldHedge).claim = c
<1> DEFINE k == IF j.st = "wanted" THEN StartPrimary(j) ELSE IF slow THEN StartHedge(j) ELSE j
           turns == c = Terminal /\ oldHedge /\ MayRotate(k, reqs)
           l == IF turns THEN RotateHedge(k) ELSE k
<1>1. Keeps(j, k) BY PrimaryKeeps, HedgeKeeps DEF Keeps
<1>2. Assign(c, j, reqs, slow, oldHedge).job = l /\ Assign(c, j, reqs, slow, oldHedge).claim = c
      BY DEF Assign
<1> HIDE DEF k
<1>3. Keeps(k, l) BY <1>1, RotateKeeps DEF Keeps
<1> QED BY <1>1, <1>2, <1>3 DEF Keeps

-------------------------------------------------------------------------------
\* The dispatch keeps every job, and what it leaves pending are requests to peers.
LEMMA DispatchKeeps ==
    ASSUME NEW js, NEW reqs, Dispatch(js, reqs),
           \A c \in Claim : Sound(js[c]),
           \A t \in DOMAIN reqs : reqs[t] \in Request
    PROVE  /\ \A c \in Claim : Keeps(js[c], job'[c])
           /\ \A t \in DOMAIN pending' : pending'[t] \in Request
<1>1. PICK slow, oldHedge : DispatchAt(js, reqs, slow, oldHedge) BY DEF Dispatch
<1> DEFINE kept == [t \in DOMAIN reqs \ Expired(reqs) |-> reqs[t]]
           first(c) == ForgetLate(js[c], Outlived(reqs, c))
           assigned(c) == Assign(c, first(c), kept, c \in slow, oldHedge)
           plan == {assigned(c) : c \in Claim}
           asked(p) == {a.claim : a \in {b \in plan : p \in b.asks}}
           issued == {[token |-> NewToken(x[1], x[2]),
                       body |-> [peer |-> x[1], claims |-> asked(x[1]) \cap x[2], conn |-> "up"]] :
                         x \in {y \in Peer \X {Body, {Terminal}} : asked(y[1]) \cap y[2] # {}}}
           sent(full) == [t \in {r.token : r \in issued \ full} |->
                             (CHOOSE r \in issued : r.token = t).body]
           undone(full, c) == {r.body.peer : r \in {f \in full : c \in f.body.claims}}
<1> HIDE DEF kept
<1>0. PICK full : Send(plan, issued, full, kept)
  <2>1. plan = Plan(js, reqs, kept, slow, oldHedge) BY DEF Plan
  <2>2. issued = Issue(plan) BY DEF Issue
  <2> HIDE DEF plan, issued
  <2>3. \E full : Send(Plan(js, reqs, kept, slow, oldHedge),
                       Issue(Plan(js, reqs, kept, slow, oldHedge)), full, kept)
        BY <1>1 DEF DispatchAt, kept
  <2> QED BY <2>1, <2>2, <2>3
<1>2. /\ job' = [c \in Claim |->
                    ForgetLate(Drop((CHOOSE a \in plan : a.claim = c).job, undone(full, c)),
                               undone(full, c))]
      /\ pending' = Merge(sent(full), kept)
      BY <1>0 DEF Send
<1> USE DEF kept
<1>3. \A c \in Claim : Keeps(js[c], assigned(c).job) /\ assigned(c).claim = c
  <2> SUFFICES ASSUME NEW c \in Claim PROVE Keeps(js[c], assigned(c).job) /\ assigned(c).claim = c
      OBVIOUS
  <2>1. Keeps(js[c], first(c)) BY ForgetKeeps
  <2>2. Keeps(first(c), assigned(c).job) /\ assigned(c).claim = c
        BY <2>1, AssignKeeps DEF Keeps
  <2> QED BY <2>1, <2>2 DEF Keeps
<1> HIDE DEF assigned, kept
<1>4. \A c \in Claim : (CHOOSE a \in plan : a.claim = c) = assigned(c)
      BY <1>3
<1>5. \A c \in Claim : Keeps(js[c], job'[c])
  <2> SUFFICES ASSUME NEW c \in Claim PROVE Keeps(js[c], job'[c])
      OBVIOUS
  <2> DEFINE U == undone(full, c)
             k == Drop(assigned(c).job, U)
  <2>1. job'[c] = ForgetLate(k, U) BY <1>2, <1>4
  <2> HIDE DEF U
  <2>2. Keeps(assigned(c).job, k) BY <1>3, DropKeeps DEF Keeps
  <2>3. Keeps(k, ForgetLate(k, U)) BY <2>2, ForgetKeeps DEF Keeps
  <2> QED BY <1>3, <2>1, <2>2, <2>3 DEF Keeps
<1>6. \A p : asked(p) \subseteq Claim BY <1>3
<1> HIDE DEF asked
<1>7. \A r \in issued : r.body \in Request BY <1>6 DEF Request
<1> HIDE DEF issued
<1>8. \A t \in DOMAIN sent(full) : sent(full)[t] \in Request BY <1>7
<1>9. \A t \in DOMAIN kept : kept[t] \in Request BY DEF kept
<1> HIDE DEF sent
<1> QED BY <1>2, <1>5, <1>8, <1>9 DEF Merge

\* A receipt verifies a job that was not, on the encoding of its peer.
LEMMA ReceiveSound ==
    ASSUME NEW j, Sound(j), NEW p \in Peer, CanReceive(j, p)
    PROVE  /\ Sound(Receive(j, p)) /\ Receive(j, p).st = "verified" /\ j.st # "verified"
           /\ Receive(j, p).selected = EncodingOf[p]
<1> DEFINE k == Receive(j, p)
<1>1. j.st # "verified" /\ j.selected = EncodingOf[p] BY DEF CanReceive, Active
<1>2. k \in Shape BY DEF Receive, Sound, Shape
<1>3. k.st = "verified" /\ k.hedge = None /\ k.selected = j.selected /\ k.sources = j.sources
      /\ k.late = {} /\ k.unavailable = j.unavailable
      BY DEF Receive, Sound, Shape
<1> QED BY <1>1, <1>2, <1>3 DEF Sound, Active, Sources

-------------------------------------------------------------------------------
JobsSound == \A c \in Claim : Sound(job[c])
RequestsTyped == \A t \in DOMAIN pending : pending[t] \in Request
EventsTyped ==
    /\ control \in Seq([kind : {"up", "down"}, peer : Peer])
    /\ header \subseteq Peer
\* A claim is verified exactly when bytes are held, in the encoding selected.
HeldIsVerified ==
    \A c \in Claim :
        /\ job[c].st = "verified" <=> received[c] # None
        /\ received[c] # None => EncodingOf[received[c]] = job[c].selected
BytesHeld ==
    /\ received \in [Claim -> Peer \cup {None}]
    /\ HeldIsVerified
    /\ phase = "offer" => \A c \in Claim : received[c] = None

\* The inductive invariant.
Inv == JobsSound /\ RequestsTyped /\ EventsTyped /\ BytesHeld

KeptStep ==
    \A c \in Claim : received[c] # None =>
        received'[c] = received[c] /\ job'[c].st = "verified"

\* A step that moves each job by such operations and receives nothing.
LEMMA QuietStep ==
    ASSUME BytesHeld, \A c \in Claim : Keeps(job[c], job'[c]),
           received' = received, phase' # "offer"
    PROVE  JobsSound' /\ BytesHeld' /\ KeptStep
BY DEF BytesHeld, HeldIsVerified, Keeps, JobsSound, KeptStep

\* A handler that moves the jobs to js and then dispatches.
LEMMA HandlerStep ==
    ASSUME BytesHeld, NEW js, NEW reqs, Dispatch(js, reqs),
           \A c \in Claim : Keeps(job[c], js[c]),
           \A t \in DOMAIN reqs : reqs[t] \in Request,
           received' = received, phase' # "offer"
    PROVE  JobsSound' /\ BytesHeld' /\ KeptStep /\ RequestsTyped'
<1>1. /\ \A c \in Claim : Keeps(js[c], job'[c])
      /\ \A t \in DOMAIN pending' : pending'[t] \in Request
      BY DispatchKeeps DEF Keeps
<1>2. \A c \in Claim : Keeps(job[c], job'[c]) BY <1>1 DEF Keeps
<1> QED BY <1>1, <1>2, QuietStep DEF RequestsTyped

\* The first plan finds no bytes.
LEMMA StartPlanStep == Inv /\ StartPlan => Inv' /\ KeptStep
<1> SUFFICES ASSUME Inv, StartPlan PROVE Inv' /\ KeptStep OBVIOUS
<1> USE DEF Inv
<1>1. PICK listing \in [header -> SUBSET Claim] :
         Dispatch([c \in Claim |->
                      [NewJob EXCEPT !.sources = [p \in Peer |->
                          IF p \in header /\ c \in listing[p] THEN DomainOf[p] ELSE None]]],
                  pending)
      BY DEF StartPlan
<1> DEFINE s(c) == [p \in Peer |-> IF p \in header /\ c \in listing[p] THEN DomainOf[p] ELSE None]
           k(c) == [NewJob EXCEPT !.sources = s(c)]
           js == [c \in Claim |-> k(c)]
<1>2. \A c \in Claim : Sound(js[c]) /\ js[c].st = "wanted"
  <2> SUFFICES ASSUME NEW c \in Claim PROVE Sound(k(c)) /\ k(c).st = "wanted" OBVIOUS
  <2>1. s(c) \in [Peer -> Domain] BY DEF Domain
  <2> HIDE DEF s
  <2>2. k(c) \in Shape BY <2>1 DEF NewJob, Shape, Encoding
  <2>3. k(c).st = "wanted" /\ k(c).hedge = None /\ k(c).unavailable = {}
        BY DEF NewJob
  <2> QED BY <2>2, <2>3 DEF Sound, Active
<1>3. Dispatch(js, pending) BY <1>1
<1> HIDE DEF js
<1>4. /\ \A c \in Claim : Keeps(js[c], job'[c])
      /\ RequestsTyped'
      BY <1>2, <1>3, DispatchKeeps DEF RequestsTyped
<1>5. received' = received /\ phase = "offer" /\ phase' = "fetch" BY DEF StartPlan
<1>6. \A c \in Claim : received[c] = None BY <1>5 DEF BytesHeld
<1>7. BytesHeld' /\ KeptStep /\ JobsSound'
      BY <1>2, <1>4, <1>5, <1>6 DEF BytesHeld, HeldIsVerified, KeptStep, Keeps, JobsSound
<1>8. EventsTyped' BY DEF StartPlan, EventsTyped
<1> QED BY <1>4, <1>7, <1>8

\* An inventory.
LEMMA InventoryStep == Inv /\ (\E p \in Peer : HandleInventory(p)) => Inv' /\ KeptStep
<1> SUFFICES ASSUME Inv, NEW p \in Peer, HandleInventory(p) PROVE Inv' /\ KeptStep OBVIOUS
<1> USE DEF Inv
<1>1. PICK listing \in Listings[p] :
         Dispatch([c \in Claim |-> IF c \in listing THEN AdvertiseNew(job[c], p) ELSE job[c]],
                  pending)
      BY DEF HandleInventory
<1> DEFINE js == [c \in Claim |-> IF c \in listing THEN AdvertiseNew(job[c], p) ELSE job[c]]
<1>2. \A c \in Claim : Keeps(job[c], js[c]) BY AdvertiseKeeps DEF JobsSound, Keeps
<1>3. Dispatch(js, pending) BY <1>1
<1> HIDE DEF js
<1>4. received' = received /\ phase' # "offer" BY DEF HandleInventory, TryStartApply
<1>5. EventsTyped' BY DEF HandleInventory, EventsTyped
<1> QED BY <1>2, <1>3, <1>4, <1>5, HandlerStep DEF RequestsTyped

\* A response: some members are received, some found missing, or the peer is quarantined.
LEMMA ResponseStep == Inv /\ HandleResponse => Inv' /\ KeptStep
<1> SUFFICES ASSUME Inv, HandleResponse PROVE Inv' /\ KeptStep OBVIOUS
<1> USE DEF Inv
<1> DEFINE ev == Head(live)
           r == pending[ev.token]
           held(c) == job[c].st = "verified" /\ job[c].selected = EncodingOf[r.peer]
           fits(c) == held(c) \/ c \in ev.missing \/ CanReceive(job[c], r.peer)
           done == {c \in r.claims :
                       \A d \in r.claims : Position(d) <= Position(c) => fits(d)}
           taken == {c \in done : ~held(c) /\ c \notin ev.missing}
           js == [c \in Claim |->
                     IF ev.kind = "bad" THEN QuarantineSource(job[c], r.peer)
                     ELSE IF c \in taken THEN Receive(job[c], r.peer)
                     ELSE IF c \in done /\ ~held(c) THEN MarkUnavailable(job[c], r.peer)
                     ELSE job[c]]
           rest == Without(pending, ev.token)
           got == {c \in taken : ev.kind # "bad"}
<1>1. ev.token \in DOMAIN pending /\ Dispatch(js, rest) /\ phase' # "offer"
      BY DEF HandleResponse, TryStartApply
<1>2. received' = [c \in Claim |-> IF c \in got THEN r.peer ELSE received[c]]
      BY DEF HandleResponse, BytesHeld
<1>3. r.peer \in Peer /\ r.claims \subseteq Claim BY <1>1 DEF RequestsTyped, Request
<1>4. \A c \in taken : CanReceive(job[c], r.peer)
  <2> SUFFICES ASSUME NEW c \in taken PROVE CanReceive(job[c], r.peer) OBVIOUS
  <2>1. c \in r.claims /\ (Position(c) <= Position(c) => fits(c)) /\ ~held(c) /\ c \notin ev.missing
        OBVIOUS
  <2>2. Position(c) \in DOMAIN Required BY <1>3, <2>1 DEF Position, Claim
  <2>3. Position(c) \in Nat BY <2>2, SuffixAssumption
  <2> HIDE DEF fits, held
  <2> QED BY <2>1, <2>3 DEF fits
<1> HIDE DEF taken
<1>5. \A c \in Claim \ got : Keeps(job[c], js[c])
  <2> SUFFICES ASSUME NEW c \in Claim \ got PROVE Keeps(job[c], js[c]) OBVIOUS
  <2>1. Sound(job[c]) BY DEF JobsSound
  <2>2. Keeps(job[c], QuarantineSource(job[c], r.peer)) BY <1>3, <2>1, QuarantineKeeps
  <2>3. Keeps(job[c], MarkUnavailable(job[c], r.peer)) BY <1>3, <2>1, UnavailableKeeps
  <2>4. Keeps(job[c], job[c]) BY <2>1 DEF Keeps
  <2> HIDE DEF r, ev, done, held
  <2> QED BY <2>2, <2>3, <2>4
<1>6. \A c \in Claim \cap got :
         /\ Sound(js[c]) /\ js[c].st = "verified" /\ job[c].st # "verified"
         /\ js[c].selected = EncodingOf[r.peer]
  <2> SUFFICES ASSUME NEW c \in Claim \cap got
               PROVE  /\ Sound(js[c]) /\ js[c].st = "verified" /\ job[c].st # "verified"
                      /\ js[c].selected = EncodingOf[r.peer]
      OBVIOUS
  <2>1. js[c] = Receive(job[c], r.peer) OBVIOUS
  <2>2. Sound(job[c]) /\ CanReceive(job[c], r.peer) BY <1>4 DEF JobsSound
  <2> QED BY <1>3, <2>1, <2>2, ReceiveSound
<1>7. \A t \in DOMAIN rest : rest[t] \in Request BY DEF RequestsTyped, Without
<1> HIDE DEF js, rest, got, r, ev
<1>8. /\ \A c \in Claim : Keeps(js[c], job'[c])
      /\ RequestsTyped'
      BY <1>1, <1>5, <1>6, <1>7, DispatchKeeps DEF Keeps, RequestsTyped
<1>9. received' \in [Claim -> Peer \cup {None}] BY <1>2, <1>3 DEF BytesHeld
<1>10. HeldIsVerified' /\ KeptStep
  <2>1. \A c \in Claim \ got : received'[c] = received[c] /\ Keeps(job[c], job'[c])
        BY <1>2, <1>5, <1>8 DEF Keeps
  <2>2. \A c \in Claim \cap got :
           /\ received'[c] = r.peer /\ job'[c].st = "verified" /\ job'[c].selected = EncodingOf[r.peer]
           /\ received[c] = None
        BY <1>2, <1>6, <1>8 DEF Keeps, BytesHeld, HeldIsVerified
  <2>3. HeldIsVerified'
        BY <1>3, <2>1, <2>2, SuffixAssumption DEF BytesHeld, HeldIsVerified, Keeps
  <2>4. KeptStep BY <2>1, <2>2 DEF KeptStep, BytesHeld, HeldIsVerified, Keeps
  <2> QED BY <2>3, <2>4
<1>11. JobsSound' BY <1>8 DEF JobsSound, Keeps
<1>12. EventsTyped' BY DEF HandleResponse, EventsTyped
<1> QED BY <1>1, <1>8, <1>9, <1>10, <1>11, <1>12 DEF BytesHeld

\* A failure of any kind.
LEMMA FailureStep == Inv /\ HandleRequestFailed => Inv' /\ KeptStep
<1> SUFFICES ASSUME Inv, HandleRequestFailed PROVE Inv' /\ KeptStep OBVIOUS
<1> USE DEF Inv
<1> DEFINE ev == Head(live)
           r == pending[ev.token]
           p == r.peer
           js == [c \in Claim |->
                     IF ev.kind = "invalid" THEN QuarantineSource(job[c], p)
                     ELSE IF c \notin r.claims THEN job[c]
                     ELSE IF ev.kind = "local" THEN ForgetLate(Drop(job[c], {p}), {p})
                     ELSE ForgetLate(FailSource(job[c], p), {p})]
           rest == Without(pending, ev.token)
<1>1. ev.token \in DOMAIN pending /\ Dispatch(js, rest) /\ phase' # "offer" /\ received' = received
      BY DEF HandleRequestFailed
<1>2. p \in Peer BY <1>1 DEF RequestsTyped, Request
<1>3. \A c \in Claim : Keeps(job[c], js[c])
  <2> SUFFICES ASSUME NEW c \in Claim PROVE Keeps(job[c], js[c]) OBVIOUS
  <2> HIDE DEF p
  <2>1. Sound(job[c]) /\ Keeps(job[c], job[c]) BY DEF JobsSound, Keeps
  <2>2. Keeps(job[c], QuarantineSource(job[c], p)) BY <1>2, <2>1, QuarantineKeeps
  <2>3. Keeps(job[c], ForgetLate(Drop(job[c], {p}), {p}))
    <3>1. Keeps(job[c], Drop(job[c], {p})) BY <2>1, DropKeeps
    <3>2. Keeps(Drop(job[c], {p}), ForgetLate(Drop(job[c], {p}), {p})) BY <3>1, ForgetKeeps DEF Keeps
    <3> QED BY <3>1, <3>2 DEF Keeps
  <2>4. Keeps(job[c], ForgetLate(FailSource(job[c], p), {p}))
    <3>1. Keeps(job[c], FailSource(job[c], p)) BY <1>2, <2>1, FailKeeps
    <3>2. Keeps(FailSource(job[c], p), ForgetLate(FailSource(job[c], p), {p}))
          BY <3>1, ForgetKeeps DEF Keeps
    <3> QED BY <3>1, <3>2 DEF Keeps
  <2> HIDE DEF r, ev
  <2> QED BY <2>1, <2>2, <2>3, <2>4
<1>4. \A t \in DOMAIN rest : rest[t] \in Request BY DEF RequestsTyped, Without
<1>5. EventsTyped' BY DEF HandleRequestFailed, EventsTyped
<1> HIDE DEF js, rest
<1> QED BY <1>1, <1>3, <1>4, <1>5, HandlerStep

\* A busy answer, known or not.
LEMMA BusyStep == Inv /\ HandleBusy => Inv' /\ KeptStep
<1> SUFFICES ASSUME Inv, HandleBusy PROVE Inv' /\ KeptStep OBVIOUS
<1> USE DEF Inv
<1> DEFINE t == Head(live).token
           r == pending[t]
           done == {c \in r.claims : \A d \in r.claims :
                       Position(d) <= Position(c) => r.peer \in Sources(job[d])}
           js == [c \in Claim |-> IF c \in done
                                  THEN ForgetLate(BusySource(job[c], r.peer), {r.peer})
                                  ELSE job[c]]
           rest == Without(pending, t)
<1>1. phase' # "offer" /\ received' = received /\ EventsTyped'
      BY DEF HandleBusy, EventsTyped
<1>2. CASE t \in DOMAIN pending
  <2>1. Dispatch(js, rest) BY <1>2 DEF HandleBusy
  <2>2. r.peer \in Peer BY <1>2 DEF RequestsTyped, Request
  <2>3. \A c \in Claim : Keeps(job[c], js[c])
    <3> SUFFICES ASSUME NEW c \in Claim PROVE Keeps(job[c], js[c]) OBVIOUS
    <3> DEFINE k == BusySource(job[c], r.peer)
    <3>1. Sound(job[c]) /\ Keeps(job[c], job[c]) BY DEF JobsSound, Keeps
    <3>2. Keeps(job[c], k) BY <2>2, <3>1, BusyKeeps
    <3>3. Keeps(k, ForgetLate(k, {r.peer})) BY <3>2, ForgetKeeps DEF Keeps
    <3>4. Keeps(job[c], ForgetLate(k, {r.peer})) BY <3>2, <3>3 DEF Keeps
    <3> HIDE DEF done, r
    <3> QED BY <3>1, <3>4
  <2>4. \A u \in DOMAIN rest : rest[u] \in Request BY DEF RequestsTyped, Without
  <2> HIDE DEF js, rest
  <2> QED BY <1>1, <2>1, <2>3, <2>4, HandlerStep
<1>3. CASE t \notin DOMAIN pending
  <2>1. Dispatch(job, pending) BY <1>3 DEF HandleBusy
  <2>2. \A c \in Claim : Keeps(job[c], job[c]) BY DEF JobsSound, Keeps
  <2> QED BY <1>1, <2>1, <2>2, HandlerStep DEF RequestsTyped
<1> QED BY <1>2, <1>3

\* A disconnect.
LEMMA DisconnectStep == Inv /\ HandleDisconnected => Inv' /\ KeptStep
<1> SUFFICES ASSUME Inv, HandleDisconnected PROVE Inv' /\ KeptStep OBVIOUS
<1> USE DEF Inv
<1> DEFINE p == Head(control).peer
           js == [c \in Claim |-> DisconnectSource(job[c], p)]
           reqs == [t \in DOMAIN pending |->
                       IF pending[t].peer = p /\ pending[t].conn = "up"
                       THEN [pending[t] EXCEPT !.conn = "gone"] ELSE pending[t]]
<1>1. Dispatch(js, reqs) /\ phase' # "offer" /\ received' = received
      BY DEF HandleDisconnected
<1>2. p \in Peer /\ EventsTyped'
  <2> DEFINE S == [kind : {"up", "down"}, peer : Peer]
  <2>1. control # << >> /\ control' = Tail(control) /\ header' = header BY DEF HandleDisconnected
  <2>2. control \in Seq(S) BY DEF EventsTyped
  <2>3. Head(control) \in S /\ Tail(control) \in Seq(S)
    <3> HIDE DEF S
    <3> QED BY <2>1, <2>2
  <2> QED BY <2>1, <2>3 DEF EventsTyped
<1>3. \A c \in Claim : Keeps(job[c], js[c])
  <2> HIDE DEF p
  <2> QED BY <1>2, DisconnectKeeps DEF JobsSound
<1>4. \A t \in DOMAIN reqs : reqs[t] \in Request
  <2> HIDE DEF p
  <2> QED BY DEF RequestsTyped, Request
<1> HIDE DEF js, reqs
<1> QED BY <1>1, <1>2, <1>3, <1>4, HandlerStep

\* The heartbeat.
LEMMA HeartbeatStep == Inv /\ Heartbeat => Inv' /\ KeptStep
<1> SUFFICES ASSUME Inv, Heartbeat PROVE Inv' /\ KeptStep OBVIOUS
<1>1. \A c \in Claim : Keeps(job[c], job[c]) BY DEF Inv, JobsSound, Keeps
<1>2. Dispatch(job, pending) /\ phase' # "offer" /\ received' = received BY DEF Heartbeat
<1>3. EventsTyped' BY DEF Inv, Heartbeat, EventsTyped
<1> QED BY <1>1, <1>2, <1>3, HandlerStep DEF Inv, RequestsTyped

\* The steps of the network, of time and of the events without effect on the jobs.
LEMMA OtherSteps ==
    ASSUME Inv,
           \/ \E p \in Peer : \/ CloseConnection(p) \/ OpenConnection(p) \/ SendInventory(p)
                              \/ \E c \in Claim : Unpark(c, p)
           \/ DiscardEvent \/ HandleConnected \/ Retire
           \/ \E t \in DOMAIN pending : EndGrace(t)
           \/ \E t \in DOMAIN wire : Answer(t) \/ Refuse(t)
           \/ UNCHANGED vars
    PROVE  Inv' /\ KeptStep
<1> USE DEF Inv
<1>1. ASSUME UNCHANGED <<job, received, pending>>, phase' = phase \/ phase' # "offer", EventsTyped'
      PROVE  Inv' /\ KeptStep
      BY <1>1 DEF JobsSound, RequestsTyped, BytesHeld, HeldIsVerified, KeptStep
<1> DEFINE S == [kind : {"up", "down"}, peer : Peer]
<1>2. control \in Seq(S) /\ header \subseteq Peer BY DEF EventsTyped
<1>3. ASSUME NEW p \in Peer, NEW k \in {"up", "down"}, control' = Append(control, [kind |-> k, peer |-> p]),
             header' \subseteq Peer
      PROVE  EventsTyped'
  <2>1. [kind |-> k, peer |-> p] \in S OBVIOUS
  <2>2. control' \in Seq(S)
    <3> HIDE DEF S
    <3> QED BY <1>2, <1>3, <2>1
  <2> QED BY <1>3, <2>2 DEF EventsTyped
<1>4. ASSUME NEW p \in Peer, CloseConnection(p) PROVE Inv' /\ KeptStep
  <2>1. EventsTyped' BY <1>2, <1>3, <1>4 DEF CloseConnection
  <2> QED BY <1>1, <1>4, <2>1 DEF CloseConnection, node
<1>5. ASSUME NEW p \in Peer, OpenConnection(p) PROVE Inv' /\ KeptStep
  <2>1. EventsTyped' BY <1>2, <1>3, <1>5 DEF OpenConnection
  <2> QED BY <1>1, <1>5, <2>1 DEF OpenConnection, node
<1>6. ASSUME NEW p \in Peer, SendInventory(p) PROVE Inv' /\ KeptStep
      BY <1>1, <1>6 DEF SendInventory, node, EventsTyped
<1>7. ASSUME NEW p \in Peer, NEW c \in Claim, Unpark(c, p) PROVE Inv' /\ KeptStep
  <2>1. /\ job' = [job EXCEPT ![c].parked = @ \ {p}]
        /\ received' = received /\ pending' = pending /\ phase' = phase /\ phase = "fetch"
        /\ EventsTyped'
        BY <1>7 DEF Unpark, net, EventsTyped
  <2>2. \A d \in Claim : Keeps(job[d], job'[d])
    <3> SUFFICES ASSUME NEW d \in Claim PROVE Keeps(job[d], job'[d]) OBVIOUS
    <3>1. Sound(job[d]) BY DEF JobsSound
    <3>2. CASE job'[d] = job[d] BY <3>1, <3>2 DEF Keeps
    <3>3. CASE job'[d] = [job[d] EXCEPT !.parked = @ \ {p}]
      <4>1. job'[d] \in Shape BY <3>1, <3>3 DEF Sound, Shape
      <4> QED BY <3>1, <3>3, <4>1 DEF Keeps, Sound, Shape, Active, Sources
    <3> QED BY <2>1, <3>2, <3>3
  <2> QED BY <2>1, <2>2, QuietStep DEF RequestsTyped
<1>8. CASE DiscardEvent BY <1>1, <1>8 DEF DiscardEvent, node, EventsTyped
<1>9. CASE HandleConnected
  <2>1. control # << >> /\ control' = Tail(control) /\ header' = header
        /\ UNCHANGED <<job, received, pending, phase>>
        BY <1>9 DEF HandleConnected
  <2>2. control' \in Seq(S)
    <3> HIDE DEF S
    <3> QED BY <1>2, <2>1
  <2>3. EventsTyped' BY <2>1, <2>2 DEF EventsTyped
  <2> QED BY <1>1, <2>1, <2>3
<1>10. CASE Retire BY <1>1, <1>10 DEF Retire, net, EventsTyped
<1>11. ASSUME NEW t \in DOMAIN pending, EndGrace(t) PROVE Inv' /\ KeptStep
  <2>1. /\ pending' = [pending EXCEPT ![t].conn = "expired"]
        /\ UNCHANGED <<job, received, phase>> /\ EventsTyped'
        BY <1>11 DEF EndGrace, net, EventsTyped
  <2>2. RequestsTyped' BY <2>1 DEF RequestsTyped, Request
  <2> QED BY <2>1, <2>2 DEF JobsSound, BytesHeld, HeldIsVerified, KeptStep
<1>12. ASSUME NEW t \in DOMAIN wire, Answer(t) \/ Refuse(t) PROVE Inv' /\ KeptStep
      BY <1>1, <1>12 DEF Answer, Refuse, node, EventsTyped
<1>13. CASE UNCHANGED vars BY <1>1, <1>13 DEF vars, node, net, EventsTyped
<1> QED BY <1>4, <1>5, <1>6, <1>7, <1>8, <1>9, <1>10, <1>11, <1>12, <1>13

\* Every step keeps the invariant, and the bytes.
LEMMA InductiveStep == Inv /\ [Next]_vars => Inv' /\ KeptStep
<1> SUFFICES ASSUME Inv, [Next]_vars PROVE Inv' /\ KeptStep OBVIOUS
<1>1. CASE StartPlan BY <1>1, StartPlanStep
<1>2. CASE \E p \in Peer : HandleInventory(p) BY <1>2, InventoryStep
<1>3. CASE HandleResponse BY <1>3, ResponseStep
<1>4. CASE HandleRequestFailed BY <1>4, FailureStep
<1>5. CASE HandleBusy BY <1>5, BusyStep
<1>6. CASE HandleDisconnected BY <1>6, DisconnectStep
<1>7. CASE Heartbeat BY <1>7, HeartbeatStep
<1>8. CASE \/ \E p \in Peer : \/ CloseConnection(p) \/ OpenConnection(p) \/ SendInventory(p)
                              \/ \E c \in Claim : Unpark(c, p)
           \/ DiscardEvent \/ HandleConnected \/ Retire
           \/ \E t \in DOMAIN pending : EndGrace(t)
           \/ \E t \in DOMAIN wire : Answer(t) \/ Refuse(t)
           \/ UNCHANGED vars
      BY <1>8, OtherSteps
<1> QED BY <1>1, <1>2, <1>3, <1>4, <1>5, <1>6, <1>7, <1>8 DEF Next

\* A plan that is not there yet has no leases and no bytes.
LEMMA InitInv == Init => Inv
<1> SUFFICES ASSUME Init PROVE Inv OBVIOUS
<1>1. NewJob \in Shape BY DEF NewJob, Shape, Domain, Encoding
<1>2. Sound(NewJob) BY <1>1 DEF NewJob, Sound, Active
<1>3. JobsSound BY <1>2 DEF Init, JobsSound
<1>4. RequestsTyped /\ EventsTyped BY DEF Init, RequestsTyped, EventsTyped
<1>5. BytesHeld BY DEF Init, BytesHeld, HeldIsVerified, NewJob
<1> QED BY <1>3, <1>4, <1>5 DEF Inv

\* The invariant holds throughout.
LEMMA Invariance == Spec => []Inv
BY InitInv, InductiveStep, PTL DEF Spec

-------------------------------------------------------------------------------
\* Whatever the network delivers, loses or delays: who holds a lease still
\* advertises the object, so that it can be hedged and replaced.
THEOREM LeasesOfSources == Spec => []ActiveIsSource
<1>1. Inv => ActiveIsSource BY DEF Inv, JobsSound, Sound, ActiveIsSource
<1> QED BY <1>1, Invariance, PTL

\* An excluded source is never leased or awaited again in the plan.
THEOREM ExclusionsLast == Spec => []ExcludedIsOut
<1>1. Inv => ExcludedIsOut
  <2> SUFFICES ASSUME Inv, NEW c \in Claim, NEW p \in job[c].unavailable
               PROVE  ~Active(job[c], p) /\ p \notin Sources(job[c]) /\ p \notin job[c].late
      BY DEF ExcludedIsOut
  <2>1. Sound(job[c]) BY DEF Inv, JobsSound
  <2>2. p \in Peer BY <2>1 DEF Sound, Shape
  <2> QED BY <2>1, <2>2 DEF Sound
<1> QED BY <1>1, Invariance, PTL

\* The bytes of a verified claim are of the encoding its job has selected.
THEOREM BytesOfSelectedEncoding == Spec => []HeldIsSelected
<1>1. Inv => HeldIsSelected BY DEF Inv, BytesHeld, HeldIsVerified, HeldIsSelected
<1> QED BY <1>1, Invariance, PTL

\* Verified bytes are neither taken back nor replaced.
THEOREM VerifiedBytesKept == Spec => Kept
<1>1. Inv /\ [Next]_vars =>
         [\A c \in Claim : received[c] # None =>
             received'[c] = received[c] /\ job'[c].st = "verified"]_vars
      BY InductiveStep DEF KeptStep
<1> QED BY <1>1, Invariance, PTL DEF Spec, Kept
===============================================================================
