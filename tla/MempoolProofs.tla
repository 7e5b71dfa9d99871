---------------------------- MODULE MempoolProofs -----------------------------
(***************************************************************************)
(* The mempool keeps its promises for every set of intents, blocks,        *)
(* submitters and committers and every choice of limits and activation     *)
(* heights.  A first invariant keeps the entries valid for the next block; *)
(* a second one, on top of it, keeps the limits and the fee floor.         *)
(***************************************************************************)
EXTENDS Mempool, FiniteSetTheorems, TLAPS

JobType ==
    [pc : {"idle", "gated", "committed", "reorged", "readmit", "delivered"},
     view : Block, confirmed : SUBSET Tx, reclaimed : SUBSET Tx]
SubType ==
    [pc : {"idle", "queued", "verifying", "verified"}, tx : Tx \cup {NoTx}, height : Nat]

TypeInv ==
    /\ tip \in Block /\ view \in Block
    /\ gate \in Committer \cup {NoCommitter}
    /\ job \in [Committer -> JobType]
    /\ pool \in SUBSET Tx
    /\ admitted \in [Tx -> Nat]
    /\ sub \in [Submitter -> SubType]
    /\ template \in [pc : {"none", "captured", "built"}, parent : Block, txs : SUBSET Tx]

\* Who works on the chain holds the gate, and knows how far the pool is behind.
GateInv ==
    /\ \A c \in Committer : job[c].pc # "idle" => gate = c
    /\ \A c \in Committer : job[c].pc \in {"gated", "readmit", "delivered"} => view = tip
    /\ \A c \in Committer : job[c].pc \in {"committed", "reorged"} => job[c].view = tip
    /\ ViewFollowsChain

\* A submission past the verification carries a proof for the height it was queued at.
SubInv ==
    \A p \in Submitter :
        /\ sub[p].pc # "idle" => sub[p].tx \in Tx
        /\ sub[p].pc = "verified" => ProofVerifies(sub[p].tx, sub[p].height)

\* The authorization of an entry, in the terms its evictions are decided by.
AuthInv ==
    \A t \in pool :
        /\ AuthVersion(Height(view) + 1) \in Intent[t].proofs
        /\ Intent[t].kind = "call" =>
               /\ AuthorityAt(t, admitted[t] + 1) = Intent[t].signer
               /\ AuthorityAt(t, Height(view) + 1) = Intent[t].signer

PoolInv == AuthInv /\ PoolValid /\ SlotSetsExact

Inv == TypeInv /\ GateInv /\ SubInv /\ PoolInv /\ TemplateValid

--------------------------------------------------------------------------------
\* Heights are natural numbers.
LEMMA HeightType == \A b \in Block : Height(b) \in Nat
BY BlockAssumption DEF Height

\* A block lies in the epoch that begins at its anchor.
LEMMA EpochFacts ==
    ASSUME NEW b \in Block
    PROVE  /\ EpochStart(b) \in 0 .. Height(b)
           /\ Height(b) < EpochStart(b) + EpochBlocks
           /\ Height(UserAnchor(b)) = EpochStart(b)
<1>1. Height(b) \in Nat /\ EpochBlocks \in Nat \ {0}
    BY HeightType, MempoolAssumption
<1>2. \A h \in Nat, n \in Nat \ {0} :
          (h \div n) * n \in Nat /\ (h \div n) * n <= h /\ h < (h \div n) * n + n
  <2> SUFFICES ASSUME NEW h \in Nat, NEW n \in Nat \ {0}, NEW q \in Int, q = h \div n
               PROVE  q * n \in Nat /\ q * n <= h /\ h < q * n + n
      OBVIOUS
  <2>1. h \div n \in Nat
      OBVIOUS
  <2>2. n * q <= h /\ h < n * q + n
      OBVIOUS
  <2> QED
      BY <2>1, <2>2
<1>3. EpochStart(b) \in 0 .. Height(b) /\ Height(b) < EpochStart(b) + EpochBlocks
  <2> DEFINE s == (Height(b) \div EpochBlocks) * EpochBlocks
  <2>1. s \in Nat /\ s <= Height(b) /\ Height(b) < s + EpochBlocks
      BY <1>1, <1>2
  <2>2. EpochStart(b) = s
      BY DEF EpochStart
  <2> HIDE DEF s
  <2> QED
      BY <1>1, <2>1, <2>2
<1>4. b \in Seq(STRING) /\ EpochStart(b) \in 0 .. Len(b)
    BY <1>3, BlockAssumption DEF Height
<1> HIDE DEF EpochStart
<1>5. Len(SubSeq(b, 1, EpochStart(b))) = EpochStart(b)
    BY <1>4
<1> QED
    BY <1>3, <1>5 DEF UserAnchor, Ancestor, Height

\* Everything that is stated about the pool survives a step that leaves the pool alone.
LEMMA PoolUnchanged == PoolInv /\ UNCHANGED poolVars => PoolInv'
BY DEF PoolInv, AuthInv, PoolValid, SlotSetsExact, poolVars

\* A pool that keeps some of its entries under a new view, each of them still valid and
\* authorized there, and rebuilds its slot sets, is sound again.
LEMMA PoolKept ==
    ASSUME TypeInv, PoolInv,
           NEW kept \in SUBSET pool,
           pool' = kept, RebuildSlotSets(kept), Remaining(kept),
           \A t \in kept : /\ ContextOK(t, view')
                           /\ InputsLive(t, view')
                           /\ OutputsFree(t, view')
                           /\ AuthVersion(Height(view') + 1) = AuthVersion(Height(view) + 1)
                           /\ Intent[t].kind = "call" =>
                                  AuthorityAt(t, Height(view') + 1) = AuthorityAt(t, admitted[t] + 1)
    PROVE  PoolInv'
<1>1. AuthInv'
  <2> SUFFICES ASSUME NEW t \in kept
               PROVE  /\ AuthVersion(Height(view') + 1) \in Intent[t].proofs
                      /\ Intent[t].kind = "call" =>
                             /\ AuthorityAt(t, admitted'[t] + 1) = Intent[t].signer
                             /\ AuthorityAt(t, Height(view') + 1) = Intent[t].signer
      BY DEF AuthInv
  <2>1. t \in pool /\ t \in Tx
      BY DEF TypeInv
  <2>2. admitted'[t] = admitted[t]
      BY <2>1 DEF Remaining
  <2> QED
      BY <2>1, <2>2 DEF PoolInv, AuthInv
<1>2. PoolValid'
    BY DEF PoolValid
<1>3. SlotSetsExact'
    BY DEF PoolInv, SlotSetsExact, RebuildSlotSets
<1> QED
    BY <1>1, <1>2, <1>3 DEF PoolInv

\* on_new_block makes the pool sound for the delivered view, whatever it is.
LEMMA DeliveredPool ==
    ASSUME TypeInv, PoolInv, NEW confirmed, NEW b \in Block, OnNewBlock(confirmed, b)
    PROVE  PoolInv' /\ pool' \in SUBSET Tx /\ admitted' \in [Tx -> Nat] /\ view' = b
<1> DEFINE changed == AuthVersion(Height(view) + 1) # AuthVersion(Height(b) + 1)
           kept == {t \in pool \ confirmed : ~changed /\ Retained(t, b)}
<1>1. view' = b /\ pool' = kept /\ RebuildSlotSets(kept) /\ Remaining(kept)
    BY DEF OnNewBlock
<1>2. \A t \in kept : /\ ContextOK(t, b) /\ InputsLive(t, b) /\ OutputsFree(t, b)
                      /\ AuthVersion(Height(b) + 1) = AuthVersion(Height(view) + 1)
                      /\ Intent[t].kind = "call" =>
                             AuthorityAt(t, Height(b) + 1) = AuthorityAt(t, admitted[t] + 1)
    BY DEF Retained
<1>3. kept \in SUBSET pool
    OBVIOUS
<1> HIDE DEF kept
<1>4. PoolInv'
    BY <1>1, <1>2, <1>3, PoolKept
<1> QED
    BY <1>1, <1>3, <1>4 DEF TypeInv, Remaining

\* The cheap checks of an admission exclude every conflict with the pool's index.
LEMMA CheckedIntentFits ==
    ASSUME TypeInv, PoolInv, NEW t \in Tx, AdmissionChecks(t)
    PROVE  IndexAdmits(t)
<1> SUFFICES ASSUME NEW u \in pool, NEW s \in Slots(t) \cap Slots(u)
             PROVE  FALSE
    BY DEF IndexAdmits
<1>1. ~(s \in Inputs(t) /\ s \in Inputs(u))
    BY DEF AdmissionChecks, SlotConflict, PoolInv, SlotSetsExact
<1>2. ~(s \in Outputs(t) /\ s \in Outputs(u))
    BY DEF AdmissionChecks, SlotConflict, PoolInv, SlotSetsExact
<1>3. ~(s \in Inputs(t) /\ s \in Outputs(u))
    BY MempoolAssumption DEF AdmissionChecks, PoolInv, PoolValid, InputsLive, OutputsFree, Inputs
<1>4. ~(s \in Outputs(t) /\ s \in Inputs(u))
    BY MempoolAssumption DEF TypeInv, AdmissionChecks, PoolInv, PoolValid, InputsLive, OutputsFree, Inputs
<1> QED
    BY <1>1, <1>2, <1>3, <1>4 DEF Slots

--------------------------------------------------------------------------------
\* A fresh pool at genesis satisfies the invariant.
LEMMA InitInv == Init => Inv
<1> SUFFICES ASSUME Init PROVE Inv
    OBVIOUS
<1>1. TypeInv
    BY BlockAssumption DEF Init, TypeInv, JobType, SubType, NoJob, Idle, NoTemplate
<1>2. GateInv
    BY DEF Init, GateInv, ViewFollowsChain, NoJob
<1>3. SubInv /\ PoolInv
    BY DEF Init, SubInv, Idle, PoolInv, AuthInv, PoolValid, SlotSetsExact
<1>4. TemplateValid
    BY DEF Init, TemplateValid, NoTemplate
<1> QED
    BY <1>1, <1>2, <1>3, <1>4 DEF Inv

\* Steps of a submitter that leave the pool alone.
LEMMA QuietSubmit ==
    ASSUME Inv, NEW p \in Submitter, UNCHANGED <<chainVars, poolVars, template>>,
           \/ \E t \in Tx : PreFilter(p, t)
           \/ StartVerify(p) \/ FinishVerify(p) \/ Cancel(p) \/ Refuse(p)
    PROVE  Inv'
<1>1. TypeInv'
  <2>1. sub' \in [Submitter -> SubType]
    <3>1. CASE \E t \in Tx : PreFilter(p, t)
        BY <3>1, HeightType DEF Inv, TypeInv, SubType, PreFilter
    <3>2. CASE StartVerify(p)
        BY <3>2 DEF Inv, TypeInv, SubType, StartVerify
    <3>3. CASE FinishVerify(p)
        BY <3>3 DEF Inv, TypeInv, SubType, FinishVerify, Idle
    <3>4. CASE Cancel(p) \/ Refuse(p)
        BY <3>4 DEF Inv, TypeInv, SubType, Cancel, Refuse, Idle
    <3> QED
        BY <3>1, <3>2, <3>3, <3>4
  <2> QED
      BY <2>1 DEF Inv, TypeInv, chainVars, poolVars
<1>2. GateInv'
    BY DEF Inv, GateInv, ViewFollowsChain, chainVars, poolVars
<1>3. SubInv'
  <2>1. CASE \E t \in Tx : PreFilter(p, t)
      BY <2>1 DEF Inv, TypeInv, SubInv, PreFilter
  <2>2. CASE StartVerify(p)
      BY <2>2 DEF Inv, TypeInv, SubInv, SubType, StartVerify
  <2>3. CASE FinishVerify(p)
      BY <2>3 DEF Inv, TypeInv, SubInv, SubType, FinishVerify, Idle
  <2>4. CASE Cancel(p) \/ Refuse(p)
      BY <2>4 DEF Inv, TypeInv, SubInv, Cancel, Refuse, Idle
  <2> QED
      BY <2>1, <2>2, <2>3, <2>4
<1>4. PoolInv'
    BY PoolUnchanged DEF Inv
<1>5. TemplateValid'
    BY DEF Inv, TemplateValid
<1> QED
    BY <1>1, <1>2, <1>3, <1>4, <1>5 DEF Inv

\* The final admission keeps the pool sound: its checks are made against the view the
\* entry is added under, and its proof covers the height of that view.
LEMMA AdmitInv ==
    ASSUME Inv, NEW p \in Submitter, Admit(p)
    PROVE  Inv'
<1> DEFINE t == sub[p].tx
<1>1. t \in Tx /\ sub[p] \in SubType /\ ProofVerifies(t, sub[p].height)
    BY DEF Inv, TypeInv, SubInv, Admit
<1>2. AdmissionChecks(t) /\ IndexAdmits(t)
    BY DEF Admit, Admissible
<1>3. /\ pool' = pool \cup {t} /\ view' = view
      /\ admitted' = [admitted EXCEPT ![t] = Height(view)]
      /\ inputs' = inputs \cup Inputs(t) /\ outputs' = outputs \cup Outputs(t)
      /\ sub' = [sub EXCEPT ![p] = Idle]
      /\ tip' = tip /\ gate' = gate /\ job' = job /\ template' = template
    BY DEF Admit, chainVars
<1>4. /\ AuthVersion(Height(view) + 1) \in Intent[t].proofs
      /\ Intent[t].kind = "call" => AuthorityAt(t, Height(view) + 1) = Intent[t].signer
    BY <1>1 DEF Admit, Admissible, ProofVerifies
<1> HIDE DEF t
<1>5. TypeInv'
    BY <1>1, <1>3, HeightType DEF Inv, TypeInv, SubType, Idle
<1>6. GateInv'
    BY <1>3 DEF Inv, GateInv, ViewFollowsChain
<1>7. SubInv'
    BY <1>3 DEF Inv, TypeInv, SubInv, Idle
<1>8. AuthInv'
    BY <1>1, <1>3, <1>4 DEF Inv, TypeInv, PoolInv, AuthInv
<1>9. PoolValid'
    BY <1>2, <1>3 DEF Inv, PoolInv, PoolValid, AdmissionChecks
<1>10. SlotSetsExact'
    BY <1>2, <1>3 DEF Inv, PoolInv, SlotSetsExact, IndexAdmits
<1>11. TemplateValid'
    BY <1>3 DEF Inv, TemplateValid
<1> QED
    BY <1>5, <1>6, <1>7, <1>8, <1>9, <1>10, <1>11 DEF Inv, PoolInv

\* Taking and releasing the gate move nothing but the gate.
LEMMA GateSteps ==
    ASSUME Inv, NEW c \in Committer, TakeGate(c) \/ ReleaseGate(c)
    PROVE  Inv'
<1>1. /\ UNCHANGED poolVars /\ tip' = tip /\ view' = view /\ pool' = pool
      /\ admitted' = admitted /\ sub' = sub /\ template' = template
    BY DEF TakeGate, ReleaseGate, poolVars
<1>2. TypeInv'
  <2>1. CASE TakeGate(c)
      BY <1>1, <2>1 DEF Inv, TypeInv, JobType, TakeGate
  <2>2. CASE ReleaseGate(c)
    <3>1. NoJob \in JobType
        BY BlockAssumption DEF NoJob, JobType
    <3> QED
        BY <1>1, <2>2, <3>1 DEF Inv, TypeInv, ReleaseGate
  <2> QED
      BY <2>1, <2>2
<1>3. GateInv'
  <2>1. CASE TakeGate(c)
      BY <1>1, <2>1, MempoolAssumption
      DEF Inv, TypeInv, JobType, GateInv, ViewFollowsChain, TakeGate
  <2>2. CASE ReleaseGate(c)
      BY <1>1, <2>2, MempoolAssumption
      DEF Inv, TypeInv, JobType, GateInv, ViewFollowsChain, ReleaseGate, NoJob
  <2> QED
      BY <2>1, <2>2
<1>4. SubInv' /\ TemplateValid'
    BY <1>1 DEF Inv, SubInv, TemplateValid
<1> QED
    BY <1>1, <1>2, <1>3, <1>4, PoolUnchanged DEF Inv

\* A commit under the gate moves the tip ahead of the view and records the view to deliver.
LEMMA CommitSteps ==
    ASSUME Inv, NEW c \in Committer, NEW b \in Block, NEW pc \in {"committed", "reorged"},
           NEW confirmed \in SUBSET Tx, NEW reclaimed \in SUBSET Tx,
           job[c].pc \in {"gated", "committed"},
           Committed(c, b, pc, confirmed, reclaimed),
           template' = template \/ template' = NoTemplate
    PROVE  Inv'
<1>1. /\ tip' = b /\ UNCHANGED poolVars /\ gate' = gate /\ view' = view /\ pool' = pool
      /\ admitted' = admitted /\ sub' = sub
      /\ job' = [job EXCEPT ![c] = [pc |-> pc, view |-> b, confirmed |-> confirmed,
                                    reclaimed |-> reclaimed]]
    BY DEF Committed, poolVars
<1>2. TypeInv'
  <2>1. [pc |-> pc, view |-> b, confirmed |-> confirmed, reclaimed |-> reclaimed] \in JobType
      BY DEF JobType
  <2>2. NoTemplate \in [pc : {"none", "captured", "built"}, parent : Block, txs : SUBSET Tx]
      BY BlockAssumption DEF NoTemplate
  <2> QED
      BY <1>1, <2>1, <2>2 DEF Inv, TypeInv
<1>3. gate = c /\ \A d \in Committer \ {c} : job'[d].pc = "idle"
    BY <1>1 DEF Inv, TypeInv, GateInv
<1>4. GateInv'
    BY <1>1, <1>3, MempoolAssumption DEF Inv, TypeInv, GateInv, ViewFollowsChain
<1>5. SubInv'
    BY <1>1 DEF Inv, SubInv
<1>6. TemplateValid'
  <2>1. CASE template' = template
      BY <2>1 DEF Inv, TemplateValid
  <2>2. CASE template' = NoTemplate
    <3>1. template'.txs = {}
        BY <2>2 DEF NoTemplate
    <3> QED
        BY <3>1 DEF TemplateValid
  <2> QED
      BY <2>1, <2>2
<1> QED
    BY <1>1, <1>2, <1>4, <1>5, <1>6, PoolUnchanged DEF Inv

\* The delivery of the view brings the pool back to the durable tip.
LEMMA DeliverInv ==
    ASSUME Inv, NEW c \in Committer, DeliverView(c)
    PROVE  Inv'
<1>1. job[c] \in JobType /\ job[c].view = tip /\ gate = c
    BY DEF Inv, TypeInv, GateInv, DeliverView
<1>2. PoolInv' /\ pool' \in SUBSET Tx /\ admitted' \in [Tx -> Nat] /\ view' = tip
    BY <1>1, DeliveredPool DEF Inv, JobType, DeliverView
<1>3. tip' = tip /\ gate' = gate /\ sub' = sub /\ template' = template
    BY DEF DeliverView
<1>4. job' = [job EXCEPT ![c].pc = IF @ = "reorged" THEN "readmit" ELSE "delivered"]
    BY DEF DeliverView
<1>5. TypeInv'
    BY <1>1, <1>2, <1>3, <1>4 DEF Inv, TypeInv, JobType
<1>6. \A d \in Committer \ {c} : job'[d].pc = "idle"
    BY <1>1, <1>4 DEF Inv, TypeInv, GateInv
<1>7. job'[c].pc \in {"readmit", "delivered"}
    BY <1>1, <1>4 DEF Inv, TypeInv, JobType
<1>8. GateInv'
    BY <1>1, <1>2, <1>3, <1>6, <1>7, MempoolAssumption DEF GateInv, ViewFollowsChain
<1>9. SubInv' /\ TemplateValid'
    BY <1>3 DEF Inv, SubInv, TemplateValid
<1> QED
    BY <1>2, <1>5, <1>8, <1>9 DEF Inv

\* The eviction of reclaimed duplicates only removes entries.
LEMMA ReadmitInv ==
    ASSUME Inv, NEW c \in Committer, ReadmitAfterReorg(c)
    PROVE  Inv'
<1> DEFINE kept == pool \ job[c].reclaimed
<1>1. /\ pool' = kept /\ Remaining(kept) /\ view' = view /\ tip' = tip /\ gate' = gate
      /\ sub' = sub /\ template' = template /\ job' = [job EXCEPT ![c].pc = "delivered"]
    BY DEF ReadmitAfterReorg
<1>2. job[c] \in JobType /\ gate = c /\ view = tip /\ job[c].pc = "readmit"
    BY DEF Inv, TypeInv, GateInv, ReadmitAfterReorg
<1>3. RebuildSlotSets(kept)
    BY DEF ReadmitAfterReorg, RebuildSlotSets, Inv, PoolInv, SlotSetsExact
<1> HIDE DEF kept
<1>4. PoolInv'
  <2>1. kept \in SUBSET pool
      BY DEF kept
  <2>2. \A t \in pool : /\ ContextOK(t, view) /\ InputsLive(t, view) /\ OutputsFree(t, view)
                        /\ Intent[t].kind = "call" =>
                               AuthorityAt(t, Height(view) + 1) = AuthorityAt(t, admitted[t] + 1)
      BY DEF Inv, PoolInv, PoolValid, AuthInv
  <2> QED
      BY <1>1, <1>3, <2>1, <2>2, PoolKept DEF Inv
<1>5. TypeInv'
    BY <1>1, <1>2 DEF kept, Inv, TypeInv, JobType, Remaining
<1>6. GateInv'
    BY <1>1, <1>2, MempoolAssumption DEF Inv, TypeInv, JobType, GateInv, ViewFollowsChain
<1>7. SubInv' /\ TemplateValid'
    BY <1>1 DEF Inv, SubInv, TemplateValid
<1> QED
    BY <1>4, <1>5, <1>6, <1>7 DEF Inv

\* An entry that passes the selection for a child of b is authorized and fits there, by
\* what holds on the pool's view and what the selection requires of the view: the height
\* from v2 on, and before v2 an anchor, hence an epoch, in common.
LEMMA SelectedIsMinable ==
    ASSUME TypeInv, PoolInv, NEW b \in Block, ViewFits(b), NEW t \in pool,
           Intent[t].kind # "trade", Intent[t].anchor = UserAnchor(b), Recheck(t, b),
           Intent[t].fee >= RequiredFee(t, b)
    PROVE  /\ ContextOK(t, b)
           /\ Height(b) + 1 >= V2Height \/ OneProfile(b) => ProofVerifies(t, Height(b) + 1)
<1>1. view \in Block /\ Height(view) \in Nat /\ Height(b) \in Nat
    BY HeightType DEF TypeInv
<1>2. /\ ContextOK(t, view) /\ ProofVerifies(t, Height(view) + 1)
    BY DEF PoolInv, PoolValid, AuthInv, ProofVerifies
<1>3. CASE Height(b) + 1 >= V2Height
  <2>1. Height(view) = Height(b)
      BY <1>3 DEF ViewFits, RequireParent, RequireHeight
  <2> QED
      BY <1>2, <2>1 DEF ContextOK, Recheck
<1>4. CASE ~(Height(b) + 1 >= V2Height)
  <2>1. Intent[t].kind # "call"
      BY <1>4 DEF Recheck, CheckCandidateCall
  <2>2. ContextOK(t, b)
      BY <1>4, <2>1 DEF ContextOK, CheckResources
  <2>3. ASSUME OneProfile(b) PROVE ProofVerifies(t, Height(b) + 1)
    <3>1. EpochStart(view) = EpochStart(b)
        BY <1>1, <1>2, EpochFacts DEF ContextOK
    <3>2. Height(view) + 1 < V21Height /\ Height(b) + 1 < V21Height
        BY <1>1, <2>3, <3>1, EpochFacts, MempoolAssumption DEF OneProfile
    <3>3. AuthVersion(Height(view) + 1) = AuthVersion(Height(b) + 1)
        BY <1>1, <3>2, MempoolAssumption DEF AuthVersion
    <3> QED
        BY <1>2, <2>1, <3>3 DEF ProofVerifies
  <2> QED
      BY <1>4, <2>2, <2>3
<1> QED
    BY <1>3, <1>4

\* The miner reads the chain and the pool.
LEMMA MinerSteps ==
    ASSUME Inv, CaptureParent \/ SelectTemplate \/ DropTemplate
    PROVE  Inv'
<1>1. /\ UNCHANGED poolVars /\ tip' = tip /\ gate' = gate /\ job' = job /\ view' = view
      /\ pool' = pool /\ admitted' = admitted /\ sub' = sub
    BY DEF CaptureParent, SelectTemplate, DropTemplate, chainVars, poolVars
<1>2. TypeInv'
  <2>1. template' \in [pc : {"none", "captured", "built"}, parent : Block, txs : SUBSET Tx]
    <3>1. CASE CaptureParent
        BY <3>1 DEF Inv, TypeInv, CaptureParent
    <3>2. CASE SelectTemplate
        BY <3>2 DEF Inv, TypeInv, SelectTemplate
    <3>3. CASE DropTemplate
        BY <3>3, BlockAssumption DEF DropTemplate, NoTemplate
    <3> QED
        BY <3>1, <3>2, <3>3
  <2> QED
      BY <1>1, <2>1 DEF Inv, TypeInv
<1>3. GateInv' /\ SubInv'
    BY <1>1 DEF Inv, GateInv, ViewFollowsChain, SubInv
<1>4. TemplateValid'
  <2>1. CASE CaptureParent
      BY <2>1 DEF TemplateValid, CaptureParent
  <2>2. CASE SelectTemplate
    <3> DEFINE b == template.parent
    <3>1. PICK txs \in SUBSET pool :
              /\ template' = [template EXCEPT !.pc = "built", !.txs = txs]
              /\ \A t \in txs : /\ Intent[t].kind # "trade" /\ Intent[t].anchor = UserAnchor(b)
                                /\ Recheck(t, b) /\ Intent[t].fee >= RequiredFee(t, b)
                                /\ InputsLive(t, b) /\ OutputsFree(t, b)
        BY <2>2 DEF SelectTemplate, SelectForBlock
    <3>2. template'.txs = txs /\ template'.parent = b /\ b \in Block /\ txs \in SUBSET Tx
        BY <3>1 DEF Inv, TypeInv
    <3>3. ViewFits(b)
        BY <2>2 DEF SelectTemplate
    <3> HIDE DEF b
    <3>4. ASSUME NEW t \in txs
          PROVE  /\ ContextOK(t, b)
                 /\ Height(b) + 1 >= V2Height \/ OneProfile(b) => ProofVerifies(t, Height(b) + 1)
        BY <3>1, <3>2, <3>3, SelectedIsMinable DEF Inv
    <3>5. \A t, u \in txs : t # u => Slots(t) \cap Slots(u) = {}
        BY DEF Inv, PoolInv, SlotSetsExact
    <3> QED
        BY <3>1, <3>2, <3>4, <3>5 DEF TemplateValid
  <2>3. CASE DropTemplate
      BY <2>3 DEF TemplateValid, DropTemplate, NoTemplate
  <2> QED
      BY <2>1, <2>2, <2>3
<1> QED
    BY <1>1, <1>2, <1>3, <1>4, PoolUnchanged DEF Inv

\* Every step of the pool, its submitters, its committers and the miner keeps the invariant.
LEMMA NextInv == Inv /\ [Next]_vars => Inv'
<1> SUFFICES ASSUME Inv, [Next]_vars PROVE Inv'
    OBVIOUS
<1>1. ASSUME NEW p \in Submitter, Submit(p) PROVE Inv'
  <2>1. CASE Admit(p)
      BY <2>1, AdmitInv
  <2>2. CASE ~Admit(p)
    <3>1. \/ \E t \in Tx : PreFilter(p, t)
          \/ StartVerify(p) \/ FinishVerify(p) \/ Cancel(p) \/ Refuse(p)
        BY <1>1, <2>2 DEF Submit
    <3>2. UNCHANGED <<chainVars, poolVars, template>>
        BY <3>1 DEF PreFilter, StartVerify, FinishVerify, Cancel, Refuse
    <3> QED
        BY <3>1, <3>2, QuietSubmit
  <2> QED
      BY <2>1, <2>2
<1>2. CASE OrphanExits \/ UNCHANGED vars
  <2>1. UNCHANGED <<chainVars, poolVars, sub, template>>
      BY <1>2 DEF OrphanExits, vars, chainVars, poolVars
  <2>2. TypeInv' /\ GateInv' /\ SubInv' /\ TemplateValid'
      BY <2>1 DEF Inv, TypeInv, GateInv, ViewFollowsChain, SubInv, TemplateValid, chainVars,
                  poolVars
  <2> QED
      BY <2>1, <2>2, PoolUnchanged DEF Inv
<1>3. ASSUME NEW c \in Committer, Commit(c) PROVE Inv'
  <2>1. job[c] \in JobType
      BY DEF Inv, TypeInv
  <2>2. CASE TakeGate(c) \/ ReleaseGate(c)
      BY <2>2, GateSteps
  <2>3. CASE AppendBlock(c)
    <3>1. PICK b \in Block :
              Committed(c, b, "committed", job[c].confirmed \cup BlockTxs[b], {})
        BY <2>3 DEF AppendBlock
    <3>2. job[c].confirmed \cup BlockTxs[b] \in SUBSET Tx
        BY <2>1, MempoolAssumption DEF JobType
    <3>3. job[c].pc \in {"gated", "committed"} /\ template' = template
        BY <2>3 DEF AppendBlock
    <3> QED
        BY <3>1, <3>2, <3>3, CommitSteps
  <2>4. CASE ReorgTo(c)
    <3>1. PICK b \in Block :
              Committed(c, b, "reorged", UNION {BlockTxs[x] : x \in Above(b, tip)},
                        UNION {BlockTxs[x] : x \in Above(tip, b)})
        BY <2>4 DEF ReorgTo
    <3>2. \A x, y : UNION {BlockTxs[z] : z \in Above(x, y)} \in SUBSET Tx
        BY MempoolAssumption DEF Above
    <3>3. job[c].pc \in {"gated", "committed"} /\ template' = template
        BY <2>4 DEF ReorgTo
    <3> QED
        BY <3>1, <3>2, <3>3, CommitSteps
  <2>5. CASE InstallSnapshot(c)
      BY <2>5, CommitSteps DEF InstallSnapshot
  <2>6. CASE CommitMined(c)
    <3>1. PICK b \in Block : Committed(c, b, "committed", BlockTxs[b], {})
        BY <2>6 DEF CommitMined
    <3>2. BlockTxs[b] \in SUBSET Tx
        BY MempoolAssumption
    <3>3. job[c].pc \in {"gated", "committed"} /\ template' = NoTemplate
        BY <2>6 DEF CommitMined
    <3> QED
        BY <3>1, <3>2, <3>3, CommitSteps
  <2>7. CASE DeliverView(c)
      BY <2>7, DeliverInv
  <2>8. CASE ReadmitAfterReorg(c)
      BY <2>8, ReadmitInv
  <2> QED
      BY <1>3, <2>2, <2>3, <2>4, <2>5, <2>6, <2>7, <2>8 DEF Commit
<1>4. CASE CaptureParent \/ SelectTemplate \/ DropTemplate
    BY <1>4, MinerSteps
<1> QED
    BY <1>1, <1>2, <1>3, <1>4 DEF Next

\* The invariant holds in every reachable state of every instance.
THEOREM MempoolInvariant == Spec => []Inv
BY InitInv, NextInv, PTL DEF Spec

\* Whenever no committer holds the operation gate, the pool judges intents by the durable
\* tip: on_new_block is always delivered before the gate is released.
THEOREM ViewIsDurable == Spec => []ViewFollowsChain
<1>1. Inv => ViewFollowsChain
    BY DEF Inv, GateInv
<1> QED
    BY <1>1, MempoolInvariant, PTL

\* Every entry is valid for the next block on the pool's view, and its proof verifies at
\* that height, however many blocks, reorgs and snapshots passed since its verification.
THEOREM EntriesMinable == Spec => []PoolMinable
<1>1. Inv => PoolMinable
    BY DEF Inv, PoolInv, AuthInv, PoolMinable, PoolAuthorized, ProofVerifies
<1> QED
    BY <1>1, MempoolInvariant, PTL

\* Entries never compete for a slot, and the reservation sets are exactly their slots.
THEOREM ReservationsExact == Spec => []SlotSetsExact
<1>1. Inv => SlotSetsExact
    BY DEF Inv, PoolInv
<1> QED
    BY <1>1, MempoolInvariant, PTL

\* An intent that passes the constant-time checks of submit is never refused by the index.
THEOREM ConflictsSeenEarly == Spec => []ChecksCoverIndex
<1>1. Inv => ChecksCoverIndex
    BY CheckedIntentFits DEF Inv, ChecksCoverIndex
<1> QED
    BY <1>1, MempoolInvariant, PTL

\* A template only holds intents that are valid and exclusive on its parent, whichever way
\* its selection compared the view with it (by anchor, by height or exactly); and their
\* proofs verify, from v2 on, and before it unless v2.1 begins within the same epoch.
THEOREM TemplatesMinable == Spec => []TemplateValid
<1>1. Inv => TemplateValid
    BY DEF Inv
<1> QED
    BY <1>1, MempoolInvariant, PTL
--------------------------------------------------------------------------------
(* The limits of the pool, of its verification workers, and the fee floor. *)

Verifying == {p \in Submitter : sub[p].pc = "verifying"}

\* The entries are finitely many and so are their bytes; both stay within their limits.
SizeInv ==
    /\ IsFiniteSet(pool) /\ IsFiniteSet(Retention(pool))
    /\ Cardinality(pool) <= Capacity /\ Bytes(pool) <= MaxBytes

\* A permit is held by each verifying submission and by each worker that outlived one.
WorkerInv == IsFiniteSet(Verifying) /\ orphans \in Nat /\ Running <= Workers

FloorFields == {"recent", "current", "latch"}

\* The floor g is what refresh_fee_floor leaves behind for the entries E under the view b.
FloorFits(g, b, E) ==
    /\ E = {} => Current(g) = MinFeeBase
    /\ IF Height(b) + 1 < V11Height THEN g.latch = "legacy"
       ELSE /\ AtPressure(Cardinality(E), Capacity, Bytes(E), MaxBytes) => g.latch = "set"
            /\ BelowHalf(Cardinality(E), Capacity, Bytes(E), MaxBytes) => g.latch = "open"
            /\ g.latch # "legacy"

FloorInv == DOMAIN floor = FloorFields /\ FloorFits(floor, view, pool)

ResourceInv == SizeInv /\ WorkerInv /\ FloorInv

\* The bytes of a part of the pool are among the bytes of the pool.
LEMMA RetentionMonotone ==
    ASSUME NEW S, NEW T \in SUBSET S, IsFiniteSet(Retention(S))
    PROVE  /\ IsFiniteSet(Retention(T)) /\ Bytes(T) \in Nat
           /\ Bytes(S) \in Nat /\ Bytes(T) <= Bytes(S)
<1>1. Retention(T) \in SUBSET Retention(S)
    BY DEF Retention
<1> QED
    BY <1>1, FS_Subset, FS_CardinalityType DEF Bytes

\* An interval that starts at one has as many members as its end says.
LEMMA SizeOfInterval ==
    \A n \in Nat : IsFiniteSet(1 .. n) /\ Cardinality(1 .. n) = n
BY FS_Interval

\* An intent that is not in the pool adds exactly its size.
LEMMA RetentionAdds ==
    ASSUME NEW S \in SUBSET Tx, IsFiniteSet(Retention(S)), NEW t \in Tx \ S
    PROVE  /\ IsFiniteSet(Retention(S \cup {t}))
           /\ Bytes(S \cup {t}) = Bytes(S) + Intent[t].size
<1>1. PICK n \in Nat : n = Intent[t].size
    BY MempoolAssumption
<1> DEFINE own == {t} \X (1 .. n)
<1>2. IsFiniteSet(own) /\ Cardinality(own) = n
  <2>1. IsFiniteSet({t}) /\ Cardinality({t}) = 1
      BY FS_Singleton
  <2>2. IsFiniteSet(own) /\ Cardinality(own) = Cardinality({t}) * Cardinality(1 .. n)
      BY <2>1, SizeOfInterval, FS_Product
  <2> QED
      BY <2>1, <2>2, SizeOfInterval
<1>3. Retention(S \cup {t}) = Retention(S) \cup own
    BY <1>1 DEF Retention
<1>4. Retention(S) \cap own = {}
    BY DEF Retention
<1> HIDE DEF own
<1>5. /\ IsFiniteSet(Retention(S) \cup own)
      /\ Cardinality(Retention(S) \cup own)
           = Cardinality(Retention(S)) + Cardinality(own) - Cardinality(Retention(S) \cap own)
    BY <1>2, FS_Union
<1>6. Cardinality(Retention(S)) \in Nat /\ Cardinality(Retention(S) \cap own) = 0
    BY <1>4, FS_CardinalityType, FS_EmptySet
<1>7. Cardinality(Retention(S) \cup own) = Cardinality(Retention(S)) + n
    BY <1>2, <1>5, <1>6
<1> QED
    BY <1>1, <1>3, <1>5, <1>7 DEF Bytes

\* Whatever the floor was, refresh_fee_floor makes it fit the entries and the view.
LEMMA RefreshFits ==
    ASSUME NEW f, DOMAIN f = FloorFields, NEW b \in Block,
           NEW E, IsFiniteSet(E), IsFiniteSet(Retention(E))
    PROVE  DOMAIN Refresh(f, b, E) = FloorFields /\ FloorFits(Refresh(f, b, E), b, E)
<1> DEFINE count == Cardinality(E)
           bytes == Bytes(E)
           g == Refresh(f, b, E)
<1>1. /\ count \in Nat /\ bytes \in Nat /\ Height(b) \in Nat /\ V11Height \in Nat
      /\ Capacity \in Nat \ {0} /\ MaxBytes \in Nat \ {0}
    BY FS_CardinalityType, HeightType, MempoolAssumption DEF Bytes
<1>2. count = 0 <=> E = {}
    BY FS_EmptySet
<1>3. count = 0 => bytes = 0
  <2>1. E = {} => Retention(E) = {}
      BY DEF Retention
  <2> QED
      BY <1>2, <2>1, FS_EmptySet DEF Bytes
<1> HIDE DEF count, bytes
<1>4. ~(BelowHalf(count, Capacity, bytes, MaxBytes) /\ AtPressure(count, Capacity, bytes, MaxBytes))
    BY <1>1 DEF BelowHalf, AtPressure
<1>5. count = 0 => ~AtPressure(count, Capacity, bytes, MaxBytes)
    BY <1>1, <1>3 DEF AtPressure
<1>6. g = UpdatePressure(f, Height(b) + 1 >= V11Height, count, Capacity, bytes, MaxBytes)
    BY DEF Refresh, count, bytes
<1> HIDE DEF g
<1>7. DOMAIN g = FloorFields
    BY <1>6 DEF UpdatePressure, Reset, FloorFields
<1>8. CASE Height(b) + 1 < V11Height
  <2>1. ~(Height(b) + 1 >= V11Height)
      BY <1>1, <1>8
  <2>2. g.latch = "legacy" /\ (count = 0 => g.current = MinFeeBase)
      BY <1>6, <2>1 DEF UpdatePressure, Reset, FloorFields
  <2> QED
      BY <1>2, <1>7, <1>8, <2>2 DEF FloorFits, Current, g
<1>9. CASE ~(Height(b) + 1 < V11Height)
  <2>1. Height(b) + 1 >= V11Height
      BY <1>1, <1>9
  <2>2. CASE count = 0 \/ BelowHalf(count, Capacity, bytes, MaxBytes)
    <3>1. g.latch = "open" /\ g.current = MinFeeBase
        BY <1>6, <2>1, <2>2 DEF UpdatePressure, Reset, FloorFields
    <3>2. ~AtPressure(count, Capacity, bytes, MaxBytes)
        BY <1>4, <1>5, <2>2
    <3> QED
        BY <1>7, <1>9, <3>1, <3>2 DEF FloorFits, Current, g, count, bytes
  <2>3. CASE ~(count = 0 \/ BelowHalf(count, Capacity, bytes, MaxBytes))
    <3>1. g.latch = IF AtPressure(count, Capacity, bytes, MaxBytes) THEN "set"
                    ELSE IF f.latch = "legacy" THEN "open" ELSE f.latch
        BY <1>6, <2>1, <2>3 DEF UpdatePressure, FloorFields
    <3>2. E # {} /\ ~BelowHalf(count, Capacity, bytes, MaxBytes)
        BY <1>2, <2>3
    <3> QED
        BY <1>7, <1>9, <3>1, <3>2 DEF FloorFits, g, count, bytes
  <2> QED
      BY <2>2, <2>3
<1> QED
    BY <1>8, <1>9

\* A fresh pool is empty, verifies nothing and quotes the base fee.
LEMMA InitResources == Init => ResourceInv
<1> SUFFICES ASSUME Init PROVE ResourceInv
    OBVIOUS
<1>1. IsFiniteSet({}) /\ Cardinality({}) = 0 /\ Retention({}) = {} /\ Bytes({}) = 0
    BY FS_EmptySet DEF Retention, Bytes
<1> Capacity \in Nat /\ MaxBytes \in Nat /\ Workers \in Nat
    BY MempoolAssumption
<1>2. SizeInv
    BY <1>1 DEF Init, SizeInv
<1>3. WorkerInv
  <2>1. Verifying = {}
      BY DEF Init, Verifying, Idle
  <2> QED
      BY <1>1, <2>1 DEF Init, WorkerInv, Running, Verifying
<1>4. FloorInv
  <2>1. DOMAIN NewFloor = FloorFields
      BY DEF NewFloor, FloorFields
  <2> QED
      BY <1>1, <2>1, RefreshFits, BlockAssumption DEF Init, FloorInv
<1> QED
    BY <1>2, <1>3, <1>4 DEF ResourceInv

\* How a step may touch the pool: not at all, by an admission, or by dropping entries and
\* refreshing the floor for the rest.
LEMMA PoolStep ==
    ASSUME Inv, [Next]_vars
    PROVE  \/ UNCHANGED <<view, pool, floor>>
           \/ \E p \in Submitter : Admit(p)
           \/ pool' \in SUBSET pool /\ view' \in Block /\ floor' = Refresh(floor, view', pool')
<1>1. CASE \E c \in Committer : DeliverView(c)
  <2>1. PICK c \in Committer : DeliverView(c)
      BY <1>1
  <2>2. job[c].view \in Block
      BY DEF Inv, TypeInv, JobType
  <2> QED
      BY <2>1, <2>2 DEF DeliverView, OnNewBlock
<1>2. CASE \E c \in Committer : ReadmitAfterReorg(c)
    BY <1>2 DEF ReadmitAfterReorg, Inv, TypeInv
<1>3. CASE UNCHANGED vars
    BY <1>3 DEF vars
<1>4. CASE OrphanExits \/ CaptureParent \/ SelectTemplate \/ DropTemplate
    BY <1>4 DEF OrphanExits, CaptureParent, SelectTemplate, DropTemplate, poolVars
<1>5. ASSUME NEW p \in Submitter, Submit(p), ~Admit(p) PROVE UNCHANGED <<view, pool, floor>>
    BY <1>5 DEF Submit, PreFilter, StartVerify, FinishVerify, Cancel, Refuse, poolVars
<1>6. ASSUME NEW c \in Committer, Commit(c), ~DeliverView(c), ~ReadmitAfterReorg(c)
      PROVE  UNCHANGED <<view, pool, floor>>
    BY <1>6 DEF Commit, TakeGate, ReleaseGate, AppendBlock, ReorgTo, InstallSnapshot,
                CommitMined, Committed, poolVars
<1> QED
    BY <1>1, <1>2, <1>3, <1>4, <1>5, <1>6 DEF Next

\* The entry and byte limits survive every step, and the floor fits the pool after it.
LEMMA SizeAndFloorStep ==
    ASSUME Inv, ResourceInv, [Next]_vars
    PROVE  SizeInv' /\ FloorInv'
<1>1. CASE UNCHANGED <<view, pool, floor>>
    BY <1>1 DEF ResourceInv, SizeInv, FloorInv, FloorFits, Bytes, Retention
<1>2. CASE \E p \in Submitter : Admit(p)
  <2>1. PICK p \in Submitter : Admit(p)
      BY <1>2
  <2> DEFINE t == sub[p].tx
             recorded == IF Intent[t].kind = "trade" THEN floor ELSE Record(floor, Intent[t].fee)
  <2>2. /\ pool' = pool \cup {t} /\ view' = view /\ floor' = Refresh(recorded, view, pool \cup {t})
        /\ t \notin pool /\ Cardinality(pool) < Capacity
        /\ Bytes(pool) + Intent[t].size <= MaxBytes
      BY <2>1 DEF Admit, Admissible, AdmissionChecks
  <2>3. t \in Tx
      BY <2>1 DEF Inv, SubInv, Admit
  <2>4. DOMAIN recorded = FloorFields
      BY DEF ResourceInv, FloorInv, Record
  <2> HIDE DEF t, recorded
  <2>5. /\ IsFiniteSet(Retention(pool \cup {t}))
        /\ Bytes(pool \cup {t}) = Bytes(pool) + Intent[t].size
      BY <2>2, <2>3, RetentionAdds DEF Inv, TypeInv, ResourceInv, SizeInv
  <2>6. IsFiniteSet(pool \cup {t}) /\ Cardinality(pool \cup {t}) = Cardinality(pool) + 1
      BY <2>2, FS_AddElement DEF ResourceInv, SizeInv
  <2>7. Cardinality(pool) \in Nat /\ Capacity \in Nat
      BY FS_CardinalityType, MempoolAssumption DEF ResourceInv, SizeInv
  <2>8. Cardinality(pool \cup {t}) <= Capacity
      BY <2>2, <2>6, <2>7
  <2>9. SizeInv'
      BY <2>2, <2>5, <2>6, <2>8 DEF SizeInv, Bytes, Retention
  <2>10. DOMAIN floor' = FloorFields /\ FloorFits(floor', view, pool \cup {t})
      BY <2>2, <2>4, <2>5, <2>6, RefreshFits DEF Inv, TypeInv
  <2> QED
      BY <2>2, <2>9, <2>10 DEF FloorInv, FloorFits, Bytes, Retention
<1>3. CASE pool' \in SUBSET pool /\ view' \in Block /\ floor' = Refresh(floor, view', pool')
  <2>1. PICK kept \in SUBSET pool : kept = pool'
      BY <1>3
  <2>2. PICK b \in Block : b = view'
      BY <1>3
  <2>3. IsFiniteSet(kept) /\ Cardinality(kept) <= Cardinality(pool)
      BY FS_Subset DEF ResourceInv, SizeInv
  <2>4. /\ IsFiniteSet(Retention(kept)) /\ Bytes(kept) \in Nat
        /\ Bytes(pool) \in Nat /\ Bytes(kept) <= Bytes(pool)
      BY RetentionMonotone DEF ResourceInv, SizeInv
  <2>5. /\ Cardinality(pool) \in Nat /\ Cardinality(kept) \in Nat
        /\ Capacity \in Nat /\ MaxBytes \in Nat
      BY <2>3, FS_CardinalityType, MempoolAssumption DEF ResourceInv, SizeInv
  <2>6. Cardinality(kept) <= Capacity /\ Bytes(kept) <= MaxBytes
      BY <2>3, <2>4, <2>5 DEF ResourceInv, SizeInv
  <2>7. SizeInv'
      BY <2>1, <2>3, <2>4, <2>6 DEF SizeInv, Bytes, Retention
  <2>8. floor' = Refresh(floor, b, kept)
      BY <1>3, <2>1, <2>2 DEF Refresh, Bytes, Retention
  <2>9. DOMAIN floor' = FloorFields /\ FloorFits(floor', b, kept)
      BY <2>3, <2>4, <2>8, RefreshFits DEF ResourceInv, FloorInv
  <2> QED
      BY <2>1, <2>2, <2>7, <2>9 DEF FloorInv, FloorFits, Bytes, Retention
<1> QED
    BY <1>1, <1>2, <1>3, PoolStep

\* A permit is taken before a verification starts and passes to the worker of a cancelled
\* submission, so that the number of running verifications never exceeds the permits.
LEMMA WorkerStep ==
    ASSUME Inv, ResourceInv, [Next]_vars
    PROVE  WorkerInv'
<1>1. /\ IsFiniteSet(Verifying) /\ Cardinality(Verifying) \in Nat /\ orphans \in Nat
      /\ Workers \in Nat /\ Cardinality(Verifying) + orphans <= Workers
    BY FS_CardinalityType, MempoolAssumption DEF ResourceInv, WorkerInv, Running, Verifying
<1>2. Running' = Cardinality(Verifying') + orphans'
    BY DEF Running, Verifying
<1>3. CASE Verifying' = Verifying /\ orphans' = orphans
    BY <1>1, <1>2, <1>3 DEF WorkerInv
<1>4. CASE OrphanExits
  <2>1. Verifying' = Verifying /\ orphans' = orphans - 1 /\ orphans > 0
      BY <1>4 DEF OrphanExits, Verifying
  <2> QED
      BY <1>1, <1>2, <2>1 DEF WorkerInv
<1>5. ASSUME NEW p \in Submitter, Submit(p)
      PROVE  \/ Verifying' = Verifying /\ orphans' = orphans
             \/ p \notin Verifying /\ Verifying' = Verifying \cup {p} /\ orphans' = orphans
                  /\ Running < Workers
             \/ p \in Verifying /\ Verifying' = Verifying \ {p} /\ orphans' \in {orphans, orphans + 1}
  <2>1. CASE \E t \in Tx : PreFilter(p, t)
      BY <2>1 DEF PreFilter, Verifying, Inv, TypeInv
  <2>2. CASE StartVerify(p)
      BY <2>2 DEF StartVerify, Verifying, Inv, TypeInv, SubType
  <2>3. CASE FinishVerify(p)
      BY <2>3 DEF FinishVerify, Verifying, Inv, TypeInv, SubType, Idle
  <2>4. CASE Cancel(p)
      BY <2>4 DEF Cancel, Verifying, Inv, TypeInv, SubType, Idle
  <2>5. CASE Admit(p) \/ Refuse(p)
    <3>1. /\ sub' = [sub EXCEPT ![p] = Idle] /\ orphans' = orphans
          /\ sub[p].pc = "verified"
        BY <2>5 DEF Admit, Refuse
    <3>2. DOMAIN sub = Submitter /\ Idle.pc = "idle"
        BY DEF Inv, TypeInv, Idle
    <3>3. \A q \in Submitter : sub'[q].pc = "verifying" <=> sub[q].pc = "verifying"
      <4> HIDE DEF Idle
      <4> QED
          BY <3>1, <3>2
    <3> QED
        BY <3>1, <3>3 DEF Verifying
  <2> QED
      BY <1>5, <2>1, <2>2, <2>3, <2>4, <2>5 DEF Submit
<1>6. ASSUME NEW p \in Submitter, p \notin Verifying, Verifying' = Verifying \cup {p},
             orphans' = orphans, Running < Workers
      PROVE  WorkerInv'
  <2>1. IsFiniteSet(Verifying') /\ Cardinality(Verifying') = Cardinality(Verifying) + 1
      BY <1>1, <1>6, FS_AddElement
  <2>2. Running = Cardinality(Verifying) + orphans
      BY DEF Running, Verifying
  <2> QED
      BY <1>1, <1>2, <1>6, <2>1, <2>2 DEF WorkerInv
<1>7. ASSUME NEW p \in Submitter, p \in Verifying, Verifying' = Verifying \ {p},
             orphans' \in {orphans, orphans + 1}
      PROVE  WorkerInv'
  <2>1. IsFiniteSet(Verifying') /\ Cardinality(Verifying') = Cardinality(Verifying) - 1
      BY <1>1, <1>7, FS_RemoveElement
  <2>2. Cardinality(Verifying') \in Nat
      BY <2>1, FS_CardinalityType
  <2> QED
      BY <1>1, <1>2, <1>7, <2>1, <2>2 DEF WorkerInv
<1>8. CASE (\E c \in Committer : Commit(c)) \/ CaptureParent \/ SelectTemplate \/ DropTemplate
           \/ UNCHANGED vars
  <2>1. UNCHANGED <<sub, orphans>>
      BY <1>8 DEF Commit, TakeGate, ReleaseGate, AppendBlock, ReorgTo, InstallSnapshot,
                  CommitMined, Committed, DeliverView, ReadmitAfterReorg, CaptureParent,
                  SelectTemplate, DropTemplate, vars
  <2> QED
      BY <1>3, <2>1 DEF Verifying
<1> QED
    BY <1>3, <1>4, <1>5, <1>6, <1>7, <1>8 DEF Next

\* The limits and the floor hold in every reachable state of every instance.
THEOREM ResourceInvariant == Spec => []ResourceInv
<1>1. Inv /\ ResourceInv /\ [Next]_vars => ResourceInv'
    BY SizeAndFloorStep, WorkerStep DEF ResourceInv
<1> QED
    BY <1>1, InitResources, MempoolInvariant, PTL DEF Spec

\* The pool stays within its entry and byte limits and the verifications within their
\* permits, however many submissions verify at once and whichever are cancelled.
THEOREM PoolWithinLimits == Spec => []LimitsHold
<1>1. ResourceInv => LimitsHold
    BY DEF ResourceInv, SizeInv, WorkerInv, LimitsHold
<1> QED
    BY <1>1, ResourceInvariant, PTL

\* The pressure latch always reflects the occupancy of the pool under its view, and an
\* empty pool quotes the base fee, for every capacity, byte limit and activation height.
THEOREM FloorIsCurrent == Spec => []FloorFollowsPool
<1>1. ResourceInv => FloorFollowsPool
    BY DEF ResourceInv, FloorInv, FloorFits, FloorFollowsPool
<1> QED
    BY <1>1, ResourceInvariant, PTL
===============================================================================
