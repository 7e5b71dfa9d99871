------------------------------ MODULE MinerProofs ------------------------------
(***************************************************************************)
(* What the mining loop guarantees for every number of canonical tips,     *)
(* whatever the rest of the node does between two of its steps.  That the  *)
(* loop ends after a shutdown and that authority leads to blocks rest on   *)
(* fairness and stay with TLC.                                             *)
(***************************************************************************)
EXTENDS Miner, FiniteSetTheorems, TLAPS

\* From the read of the chain to the end of the search.
Working ==
    {"build", "prepare", "stopCheck", "syncCheck", "parentCheck", "changeCheck",
     "nonceCheck", "await", "awaitSelect", "recheck", "recheckSync",
     "markProof", "markNonce", "reset", "raceCheck", "spawn", "pow"}

\* Past the read of the pool, an admission that a coinbase-only template missed is unread
\* until the search takes it.
MissedIsUnread == pc \in Working \ {"build"} /\ ~attempt.pages /\ late => admitted

\* The loop passed its last look at `stopped` before the flag was set.
PastTheLastLook == pc \in {"sealedAuthority", "apply"} /\ stopped => stopAt = "past"

Inv ==
    /\ TypeOK /\ WorkersConfined /\ StaleWorkIsWatched /\ MissedIsUnread
    /\ PastTheLastLook /\ ShutdownHonoured

--------------------------------------------------------------------------------
\* The task starts at the top of its loop with nothing captured.
LEMMA InitInv == Init => Inv
<1> SUFFICES ASSUME Init PROVE Inv
    OBVIOUS
<1>1. TypeOK
  <2>1. 0 \in 0..MaxTip /\ Cardinality({}) <= 1
      BY FS_EmptySet, MinerAssumption
  <2>2. attempt \in [parent : 0..MaxTip, pages : BOOLEAN]
      BY <2>1 DEF Init, NoTemplate
  <2>3. proof \in Watch /\ nonce \in Watch
      BY DEF Init, Watch
  <2>4. pc \in Phase
      BY DEF Init, Phase
  <2>5. publishing \subseteq BOOLEAN /\ Cardinality(publishing) <= 1
      BY <2>1 DEF Init
  <2>6. /\ tip \in 0..MaxTip /\ switched \in BOOLEAN /\ due \subseteq {"suffix", "watch"}
        /\ changed \in BOOLEAN /\ admitted \in BOOLEAN /\ late \in BOOLEAN
      BY <2>1 DEF Init
  <2>7. stop \in 0..2
      BY DEF Init
  <2>8. /\ cancel \in BOOLEAN /\ buffered \in BOOLEAN
        /\ after \in {"top", "exited"} /\ prepare = "idle" /\ prepareCancel \in BOOLEAN
        /\ pow = "idle" /\ stopAt = "never" /\ minedAt = {}
      BY DEF Init
  <2> QED
      BY <2>2, <2>3, <2>4, <2>5, <2>6, <2>7, <2>8 DEF TypeOK
<1> QED
    BY <1>1 DEF Init, Inv, WorkersConfined, StaleWorkIsWatched, MissedIsUnread, Working,
                PastTheLastLook, ShutdownHonoured

\* The steps up to the capture hold no template and no worker.
LEMMA Waiting ==
    ASSUME Inv,
           Top \/ WaitFirst \/ WaitLoop \/ WaitChanged \/ WaitPoll \/ DrainNotifications
           \/ Capture \/ RetryLater
    PROVE  Inv'
<1> USE DEF Top, WaitFirst, WaitLoop, WaitChanged, WaitPoll, DrainNotifications,
            Capture, RetryLater, Jump, Seen, env, flags, workers, task
<1>1. TypeOK'
  <2>1. tip' \in 0..MaxTip /\ attempt' \in [parent : 0..MaxTip, pages : BOOLEAN]
    <3>1. NoTemplate \in [parent : 0..MaxTip, pages : BOOLEAN]
        BY MinerAssumption DEF NoTemplate
    <3> QED
        BY <3>1 DEF Inv, TypeOK
  <2>2. proof' \in Watch /\ nonce' \in Watch
      BY DEF Inv, TypeOK, Watch
  <2>3. /\ pc' \in Phase
        /\ after' \in {"top", "exited"}
        /\ prepare' \in {"idle", "running", "ready", "failed", "cancelled"}
        /\ prepareCancel' \in BOOLEAN /\ pow' \in {"idle", "running", "found", "none"}
    <3>1. pc' \in Phase
        BY DEF Phase
    <3> QED
        BY <3>1 DEF Inv, TypeOK
  <2>4. /\ switched' \in BOOLEAN /\ changed' \in BOOLEAN
        /\ admitted' \in BOOLEAN /\ late' \in BOOLEAN
      BY DEF Inv, TypeOK
  <2>5. stop' \in 0..2 /\ cancel' \in BOOLEAN /\ buffered' \in BOOLEAN
      BY DEF Inv, TypeOK
  <2>6. /\ due' \subseteq {"suffix", "watch"} /\ publishing' = publishing
        /\ stopAt' \in {"never", "before", "past"} /\ minedAt' \subseteq {"before", "past"}
      BY DEF Inv, TypeOK
  <2> QED
      BY <2>1, <2>2, <2>3, <2>4, <2>5, <2>6 DEF Inv, TypeOK
<1>2. WorkersConfined'
    BY DEF Inv, TypeOK, WorkersConfined
<1>3. StaleWorkIsWatched'
    BY DEF Inv, TypeOK, StaleWorkIsWatched
<1>4. MissedIsUnread'
    BY DEF Inv, TypeOK, MissedIsUnread, Working
<1>5. PastTheLastLook' /\ ShutdownHonoured'
    BY DEF Inv, TypeOK, PastTheLastLook, ShutdownHonoured, stopped
<1> QED
    BY <1>1, <1>2, <1>3, <1>4, <1>5 DEF Inv

\* A preparation is only left behind when its worker has ended.
LEMMA Preparing ==
    ASSUME Inv,
           Build \/ PrepareResult \/ PrepareChanged \/ PrepareSync \/ PreparePoll \/
           PrepareDrained
    PROVE  Inv'
<1> USE DEF Build, PrepareResult, PrepareChanged, PrepareSync, PreparePoll,
            PrepareDrained, CancelPrepare, Seen, env, flags, workers, task
<1>1. TypeOK'
  <2>1. tip' \in 0..MaxTip /\ attempt' \in [parent : 0..MaxTip, pages : BOOLEAN]
      BY MinerAssumption DEF Inv, TypeOK, NoTemplate
  <2>2. proof' \in Watch /\ nonce' \in Watch
      BY DEF Inv, TypeOK, Watch
  <2>3. /\ pc' \in Phase /\ after' \in {"top", "exited"}
        /\ prepare' \in {"idle", "running", "ready", "failed", "cancelled"}
        /\ prepareCancel' \in BOOLEAN /\ pow' \in {"idle", "running", "found", "none"}
      BY ZenonT(40) DEF Inv, TypeOK, Phase
  <2>4. /\ switched' \in BOOLEAN /\ changed' \in BOOLEAN
        /\ admitted' \in BOOLEAN /\ late' \in BOOLEAN
      BY DEF Inv, TypeOK
  <2>5. stop' \in 0..2 /\ cancel' \in BOOLEAN /\ buffered' \in BOOLEAN
      BY DEF Inv, TypeOK
  <2>6. /\ due' \subseteq {"suffix", "watch"} /\ publishing' = publishing
        /\ stopAt' \in {"never", "before", "past"} /\ minedAt' \subseteq {"before", "past"}
      BY DEF Inv, TypeOK
  <2> QED
      BY <2>1, <2>2, <2>3, <2>4, <2>5, <2>6 DEF Inv, TypeOK
<1>2. WorkersConfined'
    BY DEF Inv, TypeOK, WorkersConfined
<1>3. StaleWorkIsWatched'
    BY DEF Inv, TypeOK, StaleWorkIsWatched
<1>4. MissedIsUnread'
    BY DEF Inv, TypeOK, MissedIsUnread, Working
<1>5. PastTheLastLook' /\ ShutdownHonoured'
    BY DEF Inv, TypeOK, PastTheLastLook, ShutdownHonoured, stopped
<1> QED
    BY <1>1, <1>2, <1>3, <1>4, <1>5 DEF Inv

\* The checks between the proof and the search only look; a change they consume ends the
\* iteration.
LEMMA Checking ==
    ASSUME Inv,
           StopCheck \/ SyncCheck \/ ParentCheck \/ ChangeCheck \/ NonceCheck
    PROVE  Inv'
<1> USE DEF StopCheck, SyncCheck, ParentCheck, ChangeCheck, NonceCheck, Jump, env,
            flags, workers, task
<1>1. TypeOK'
  <2>1. tip' \in 0..MaxTip /\ attempt' \in [parent : 0..MaxTip, pages : BOOLEAN]
      BY MinerAssumption DEF Inv, TypeOK, NoTemplate
  <2>2. proof' \in Watch /\ nonce' \in Watch
      BY DEF Inv, TypeOK, Watch
  <2>3. /\ pc' \in Phase /\ after' \in {"top", "exited"}
        /\ prepare' \in {"idle", "running", "ready", "failed", "cancelled"}
        /\ prepareCancel' \in BOOLEAN /\ pow' \in {"idle", "running", "found", "none"}
      BY DEF Inv, TypeOK, Phase
  <2>4. /\ switched' \in BOOLEAN /\ changed' \in BOOLEAN
        /\ admitted' \in BOOLEAN /\ late' \in BOOLEAN
      BY DEF Inv, TypeOK
  <2>5. stop' \in 0..2 /\ cancel' \in BOOLEAN /\ buffered' \in BOOLEAN
      BY DEF Inv, TypeOK
  <2>6. /\ due' \subseteq {"suffix", "watch"} /\ publishing' = publishing
        /\ stopAt' \in {"never", "before", "past"} /\ minedAt' \subseteq {"before", "past"}
      BY DEF Inv, TypeOK
  <2> QED
      BY <2>1, <2>2, <2>3, <2>4, <2>5, <2>6 DEF Inv, TypeOK
<1>2. WorkersConfined'
    BY DEF Inv, TypeOK, WorkersConfined
<1>3. StaleWorkIsWatched'
    BY DEF Inv, TypeOK, StaleWorkIsWatched
<1>4. MissedIsUnread'
    BY DEF Inv, TypeOK, MissedIsUnread, Working
<1>5. PastTheLastLook' /\ ShutdownHonoured'
    BY DEF Inv, TypeOK, PastTheLastLook, ShutdownHonoured, stopped
<1> QED
    BY <1>1, <1>2, <1>3, <1>4, <1>5 DEF Inv

\* Waiting for the authority to search keeps the template and what is unread about it.
LEMMA Awaiting ==
    ASSUME Inv,
           Await \/ AwaitNonce \/ AwaitSync \/ AwaitChanged \/ AwaitPoll \/ Recheck \/
           RecheckSync
    PROVE  Inv'
<1> USE DEF Await, AwaitNonce, AwaitSync, AwaitChanged, AwaitPoll, Recheck, RecheckSync,
            Jump, Seen, env, flags, workers, task
<1>1. TypeOK'
  <2>1. tip' \in 0..MaxTip /\ attempt' \in [parent : 0..MaxTip, pages : BOOLEAN]
      BY MinerAssumption DEF Inv, TypeOK, NoTemplate
  <2>2. proof' \in Watch /\ nonce' \in Watch
      BY DEF Inv, TypeOK, Watch
  <2>3. /\ pc' \in Phase /\ after' \in {"top", "exited"}
        /\ prepare' \in {"idle", "running", "ready", "failed", "cancelled"}
        /\ prepareCancel' \in BOOLEAN /\ pow' \in {"idle", "running", "found", "none"}
      BY DEF Inv, TypeOK, Phase
  <2>4. /\ switched' \in BOOLEAN /\ changed' \in BOOLEAN
        /\ admitted' \in BOOLEAN /\ late' \in BOOLEAN
      BY DEF Inv, TypeOK
  <2>5. stop' \in 0..2 /\ cancel' \in BOOLEAN /\ buffered' \in BOOLEAN
      BY DEF Inv, TypeOK
  <2>6. /\ due' \subseteq {"suffix", "watch"} /\ publishing' = publishing
        /\ stopAt' \in {"never", "before", "past"} /\ minedAt' \subseteq {"before", "past"}
      BY DEF Inv, TypeOK
  <2> QED
      BY <2>1, <2>2, <2>3, <2>4, <2>5, <2>6 DEF Inv, TypeOK
<1>2. WorkersConfined'
    BY DEF Inv, TypeOK, WorkersConfined
<1>3. StaleWorkIsWatched'
    BY DEF Inv, TypeOK, StaleWorkIsWatched
<1>4. MissedIsUnread'
    BY DEF Inv, TypeOK, MissedIsUnread, Working
<1>5. PastTheLastLook' /\ ShutdownHonoured'
    BY DEF Inv, TypeOK, PastTheLastLook, ShutdownHonoured, stopped
<1> QED
    BY <1>1, <1>2, <1>3, <1>4, <1>5 DEF Inv

\* The search starts with nobody else at work.
LEMMA Starting ==
    ASSUME Inv,
           MarkProof \/ MarkNonce \/ ResetCancel \/ RaceCheck \/ SpawnPow
    PROVE  Inv'
<1> USE DEF MarkProof, MarkNonce, ResetCancel, RaceCheck, SpawnPow, Seen, env, flags,
            workers, task
<1>1. TypeOK'
  <2>1. tip' \in 0..MaxTip /\ attempt' \in [parent : 0..MaxTip, pages : BOOLEAN]
      BY MinerAssumption DEF Inv, TypeOK, NoTemplate
  <2>2. proof' \in Watch /\ nonce' \in Watch
      BY DEF Inv, TypeOK, Watch
  <2>3. /\ pc' \in Phase /\ after' \in {"top", "exited"}
        /\ prepare' \in {"idle", "running", "ready", "failed", "cancelled"}
        /\ prepareCancel' \in BOOLEAN /\ pow' \in {"idle", "running", "found", "none"}
      BY DEF Inv, TypeOK, Phase
  <2>4. /\ switched' \in BOOLEAN /\ changed' \in BOOLEAN
        /\ admitted' \in BOOLEAN /\ late' \in BOOLEAN
      BY DEF Inv, TypeOK
  <2>5. stop' \in 0..2 /\ cancel' \in BOOLEAN /\ buffered' \in BOOLEAN
      BY DEF Inv, TypeOK
  <2>6. /\ due' \subseteq {"suffix", "watch"} /\ publishing' = publishing
        /\ stopAt' \in {"never", "before", "past"} /\ minedAt' \subseteq {"before", "past"}
      BY DEF Inv, TypeOK
  <2> QED
      BY <2>1, <2>2, <2>3, <2>4, <2>5, <2>6 DEF Inv, TypeOK
<1>2. WorkersConfined'
    BY DEF Inv, TypeOK, WorkersConfined
<1>3. StaleWorkIsWatched'
    BY DEF Inv, TypeOK, StaleWorkIsWatched
<1>4. MissedIsUnread'
    BY DEF Inv, TypeOK, MissedIsUnread, Working
<1>5. PastTheLastLook' /\ ShutdownHonoured'
    BY DEF Inv, TypeOK, PastTheLastLook, ShutdownHonoured, stopped
<1> QED
    BY <1>1, <1>2, <1>3, <1>4, <1>5 DEF Inv

\* A search is only left behind when its worker has ended.
LEMMA Searching ==
    ASSUME Inv,
           PowResult \/ PowHeartbeat \/ PowAdmission \/ PowChanged \/ PowNonce \/
           PowSync \/ PowDrained
    PROVE  Inv'
<1> USE DEF PowResult, PowHeartbeat, PowAdmission, PowChanged, PowNonce, PowSync,
            PowDrained, CancelPow, Seen, env, flags, workers, task
<1>1. TypeOK'
  <2>1. tip' \in 0..MaxTip /\ attempt' \in [parent : 0..MaxTip, pages : BOOLEAN]
      BY MinerAssumption DEF Inv, TypeOK, NoTemplate
  <2>2. proof' \in Watch /\ nonce' \in Watch
      BY DEF Inv, TypeOK, Watch
  <2>3. /\ pc' \in Phase /\ after' \in {"top", "exited"}
        /\ prepare' \in {"idle", "running", "ready", "failed", "cancelled"}
        /\ prepareCancel' \in BOOLEAN /\ pow' \in {"idle", "running", "found", "none"}
      BY DEF Inv, TypeOK, Phase
  <2>4. /\ switched' \in BOOLEAN /\ changed' \in BOOLEAN
        /\ admitted' \in BOOLEAN /\ late' \in BOOLEAN
      BY DEF Inv, TypeOK
  <2>5. stop' \in 0..2 /\ cancel' \in BOOLEAN /\ buffered' \in BOOLEAN
      BY DEF Inv, TypeOK
  <2>6. /\ due' \subseteq {"suffix", "watch"} /\ publishing' = publishing
        /\ stopAt' \in {"never", "before", "past"} /\ minedAt' \subseteq {"before", "past"}
      BY DEF Inv, TypeOK
  <2> QED
      BY <2>1, <2>2, <2>3, <2>4, <2>5, <2>6 DEF Inv, TypeOK
<1>2. WorkersConfined'
    BY DEF Inv, TypeOK, WorkersConfined
<1>3. StaleWorkIsWatched'
    BY DEF Inv, TypeOK, StaleWorkIsWatched
<1>4. MissedIsUnread'
    BY DEF Inv, TypeOK, MissedIsUnread, Working
<1>5. PastTheLastLook' /\ ShutdownHonoured'
    BY DEF Inv, TypeOK, PastTheLastLook, ShutdownHonoured, stopped
<1> QED
    BY <1>1, <1>2, <1>3, <1>4, <1>5 DEF Inv

\* A found nonce is sealed and committed unless the shutdown flag was set before the last
\* look at it.
LEMMA Sealing ==
    ASSUME Inv,
           Found \/ FoundAuthority \/ Seal \/ SealFails \/ Sealed \/ SealedAuthority \/
           ApplyFoundBlock
    PROVE  Inv'
<1> USE DEF Found, FoundAuthority, Seal, SealFails, Sealed, SealedAuthority,
            ApplyFoundBlock, Jump, env, flags, workers, task
<1>1. TypeOK'
  <2>1. tip' \in 0..MaxTip /\ attempt' \in [parent : 0..MaxTip, pages : BOOLEAN]
      BY MinerAssumption DEF Inv, TypeOK, NoTemplate
  <2>2. proof' \in Watch /\ nonce' \in Watch
      BY DEF Inv, TypeOK, Watch
  <2>3. /\ pc' \in Phase /\ after' \in {"top", "exited"}
        /\ prepare' \in {"idle", "running", "ready", "failed", "cancelled"}
        /\ prepareCancel' \in BOOLEAN /\ pow' \in {"idle", "running", "found", "none"}
      BY DEF Inv, TypeOK, Phase
  <2>4. /\ switched' \in BOOLEAN /\ changed' \in BOOLEAN
        /\ admitted' \in BOOLEAN /\ late' \in BOOLEAN
      BY DEF Inv, TypeOK
  <2>5. stop' \in 0..2 /\ cancel' \in BOOLEAN /\ buffered' \in BOOLEAN
      BY DEF Inv, TypeOK
  <2>6. /\ due' \subseteq {"suffix", "watch"} /\ publishing' = publishing
        /\ stopAt' \in {"never", "before", "past"} /\ minedAt' \subseteq {"before", "past"}
      BY DEF Inv, TypeOK, PastTheLastLook
  <2> QED
      BY <2>1, <2>2, <2>3, <2>4, <2>5, <2>6 DEF Inv, TypeOK
<1>2. WorkersConfined'
    BY DEF Inv, TypeOK, WorkersConfined
<1>3. StaleWorkIsWatched'
    BY DEF Inv, TypeOK, StaleWorkIsWatched
<1>4. MissedIsUnread'
    BY DEF Inv, TypeOK, MissedIsUnread, Working
<1>5. PastTheLastLook' /\ ShutdownHonoured'
    BY DEF Inv, TypeOK, PastTheLastLook, ShutdownHonoured, stopped
<1> QED
    BY <1>1, <1>2, <1>3, <1>4, <1>5 DEF Inv

\* The workers end by themselves; the loop notices later.
LEMMA WorkerSteps ==
    ASSUME Inv, Worker
    PROVE  Inv'
<1> USE DEF Worker, PrepareEnds, PowFinds, PowCancelled, PowGivesUp, env, flags
<1>1. /\ UNCHANGED <<env, flags, prepareCancel, pc, after, attempt, late, minedAt>>
      /\ prepare' \in {"idle", "running", "ready", "failed", "cancelled"}
      /\ pow' \in {"idle", "running", "found", "none"}
      /\ prepare' # prepare => prepare = "running"
      /\ pow' # pow => pow = "running"
    BY DEF Inv, TypeOK
<1>2. TypeOK'
    BY <1>1 DEF Inv, TypeOK
<1>3. WorkersConfined'
    BY <1>1 DEF Inv, WorkersConfined
<1> QED
    BY <1>1, <1>2, <1>3 DEF Inv, StaleWorkIsWatched, MissedIsUnread, PastTheLastLook,
                            ShutdownHonoured, stopped

\* A set that a publication leaves to send holds one value at most.
LEMMA OneToSend ==
    ASSUME NEW n, NEW S \in SUBSET {n}
    PROVE  Cardinality(S) <= 1
<1>1. IsFiniteSet({n}) /\ Cardinality({n}) = 1
    BY FS_Singleton
<1>2. Cardinality(S) <= Cardinality({n})
    BY <1>1, FS_Subset
<1> QED
    BY <1>1, <1>2

\* The rest of the node announces what it changes, and the shutdown flag is only ever set.
LEMMA EnvironmentSteps ==
    ASSUME Inv, Environment
    PROVE  Inv'
<1> USE DEF env, flags, workers, loop
<1>1. CASE CommitElsewhere \/ \E k \in {"suffix", "watch"} : NotifyTip(k)
  <2>1. /\ UNCHANGED <<switched, proof, nonce, publishing, admitted, flags, loop, late>>
        /\ tip' \in 0..MaxTip /\ due' \subseteq {"suffix", "watch"} /\ changed' \in BOOLEAN
        /\ changed' \/ due' # {}
    <3>1. CASE CommitElsewhere
      <4>1. tip' \in 0..MaxTip
          BY <3>1, MinerAssumption DEF CommitElsewhere, Inv, TypeOK
      <4> QED
          BY <3>1, <4>1 DEF CommitElsewhere, Inv, TypeOK
    <3>2. ASSUME NEW k, NotifyTip(k) PROVE  /\ UNCHANGED <<switched, proof, nonce, publishing, admitted, flags, loop, late>>
                 /\ tip' \in 0..MaxTip /\ due' \subseteq {"suffix", "watch"} /\ changed' = TRUE
        BY <3>2 DEF NotifyTip, Inv, TypeOK
    <3> QED
        BY <1>1, <3>1, <3>2
  <2>2. TypeOK'
      BY <2>1 DEF Inv, TypeOK
  <2> QED
      BY <2>1, <2>2 DEF Inv, WorkersConfined, StaleWorkIsWatched, MissedIsUnread,
                        PastTheLastLook, ShutdownHonoured, stopped
<1>2. CASE SwitchPayout \/ Admit
  <2>1. /\ UNCHANGED <<tip, due, proof, nonce, publishing, flags, loop>>
        /\ switched' \in BOOLEAN /\ changed' \in BOOLEAN
        /\ admitted' \in BOOLEAN /\ late' \in BOOLEAN
      BY <1>2 DEF SwitchPayout, Admit, Inv, TypeOK
  <2>2. TypeOK'
      BY <2>1 DEF Inv, TypeOK
  <2>3. StaleWorkIsWatched' /\ MissedIsUnread'
      BY <1>2, <2>1 DEF SwitchPayout, Admit, Inv, StaleWorkIsWatched, MissedIsUnread
  <2> QED
      BY <2>1, <2>2, <2>3 DEF Inv, WorkersConfined, PastTheLastLook, ShutdownHonoured, stopped
<1>3. CASE (\E p, n \in BOOLEAN : PublishProof(p, n)) \/ PublishNonce
  <2>1. /\ UNCHANGED <<tip, switched, due, changed, admitted, flags, loop, late>>
        /\ publishing' = {} \/ \E n \in BOOLEAN : publishing' \in SUBSET {n}
      BY <1>3 DEF PublishProof, PublishNonce
  <2>2. \A v \in BOOLEAN : Sent(v) \in Watch
      BY DEF Sent, Watch
  <2>3. proof' \in Watch /\ nonce' \in Watch
      BY <1>3, <2>2 DEF PublishProof, PublishNonce, Inv, TypeOK
  <2>4. publishing' \subseteq BOOLEAN /\ Cardinality(publishing') <= 1
    <3>1. Cardinality({}) <= 1
        BY FS_EmptySet
    <3> QED
        BY <2>1, <3>1, OneToSend
  <2>5. TypeOK'
      BY <2>1, <2>3, <2>4 DEF Inv, TypeOK
  <2> QED
      BY <2>1, <2>5 DEF Inv, WorkersConfined, StaleWorkIsWatched, MissedIsUnread,
                        PastTheLastLook, ShutdownHonoured, stopped
<1>4. CASE StopLoop \/ StopSearch \/ StoreVisible
  <2>1. UNCHANGED <<env, loop, late>>
      BY <1>4 DEF StopLoop, StopSearch, StoreVisible
  <2>2. stop' \in 0..2 /\ (stop > 0 => stop' > 0 /\ stopAt' = stopAt)
      BY <1>4 DEF StopLoop, StopSearch, StoreVisible, Inv, TypeOK
  <2>3. stop = 0 /\ stop' > 0 /\ pc \in {"sealedAuthority", "apply"} => stopAt' = "past"
      BY <1>4 DEF StopLoop, StopSearch, StoreVisible
  <2>4. /\ cancel' \in BOOLEAN /\ buffered' \in BOOLEAN
        /\ stopAt' \in {"never", "before", "past"}
      BY <1>4 DEF StopLoop, StopSearch, StoreVisible, Inv, TypeOK
  <2>5. TypeOK'
      BY <2>1, <2>2, <2>4 DEF Inv, TypeOK
  <2>6. PastTheLastLook'
    <3>1. stop = 0 \/ stop > 0
        BY DEF Inv, TypeOK
    <3> QED
        BY <2>1, <2>2, <2>3, <3>1 DEF Inv, PastTheLastLook, stopped
  <2> QED
      BY <2>1, <2>5, <2>6 DEF Inv, WorkersConfined, StaleWorkIsWatched, MissedIsUnread,
                              ShutdownHonoured
<1> QED
    BY <1>1, <1>2, <1>3, <1>4 DEF Environment

\* Every step of the loop, its workers and the rest of the node keeps the invariant.
LEMMA NextInv == Inv /\ [Next]_vars => Inv'
<1> SUFFICES ASSUME Inv, [Next]_vars PROVE Inv'
    OBVIOUS
<1>1. CASE Loop
    BY <1>1, Waiting, Preparing, Checking, Awaiting, Starting, Searching, Sealing DEF Loop
<1>2. CASE UNCHANGED vars
    BY <1>2 DEF vars, env, flags, workers, Inv, TypeOK, WorkersConfined, StaleWorkIsWatched,
                MissedIsUnread, PastTheLastLook, ShutdownHonoured, stopped
<1> QED
    BY <1>1, <1>2, WorkerSteps, EnvironmentSteps DEF Next

\* The invariant holds in every reachable state, for every bound on the tips.
THEOREM MinerInvariant == Spec => []Inv
BY InitInv, NextInv, PTL DEF Spec

\* No preparation and no search outlives the select that waits for it: the two never
\* compete for the CPU pool, and no stale search survives its template.
THEOREM WorkersNeverEscape == Spec => []WorkersConfined
<1>1. Inv => WorkersConfined
    BY DEF Inv
<1> QED
    BY <1>1, MinerInvariant, PTL

\* A replaced parent or a switched payout always has a notification on its way while the
\* template is worked on, because run() drains old changes before it reads the chain.
THEOREM StaleWorkEnds == Spec => []StaleWorkIsWatched
<1>1. Inv => StaleWorkIsWatched
    BY DEF Inv
<1> QED
    BY <1>1, MinerInvariant, PTL

\* A coinbase-only template never overlooks an admission made after it read the pool.
THEOREM AdmissionsNotLost == Spec => []AdmissionsReachEmptyTemplate
<1>1. Inv => AdmissionsReachEmptyTemplate
    BY DEF Inv, MissedIsUnread, Working, AdmissionsReachEmptyTemplate
<1> QED
    BY <1>1, MinerInvariant, PTL

\* A block committed after the shutdown flag was set had passed the last look at the flag.
THEOREM ShutdownNotIgnored == Spec => []ShutdownHonoured
<1>1. Inv => ShutdownHonoured
    BY DEF Inv
<1> QED
    BY <1>1, MinerInvariant, PTL
===============================================================================
