------------------------------- MODULE Miner -------------------------------
(***************************************************************************)
(* The internal miner: BlockMiner::run in noid_miner/src/miner.rs, one     *)
(* asynchronous task that captures a template, proves it on a blocking     *)
(* worker, waits for the authority to search, searches a nonce on a second *)
(* blocking worker, seals and commits.                                     *)
(*                                                                         *)
(* Everything the task reads is written by somebody else while it runs:    *)
(* the canonical tip and the wallet's payout, the two readiness watches      *)
(* (published by the event loop, proof first and nonce second), the        *)
(* template-change broadcast, the mempool's admissions and the two         *)
(* shutdown flags.  Each read of the loop is a step of its own, so that    *)
(* all of these may happen between any two of them.                        *)
(*                                                                         *)
(* Tips are numbered in the order they become canonical: fork choice never *)
(* returns to a chain it left, so an old number is a replaced parent.      *)
(***************************************************************************)
EXTENDS Naturals, FiniteSets

CONSTANT MaxTip     \* bound: canonical tips

ASSUME MinerAssumption == MaxTip \in Nat

VARIABLES
    tip,        \* the canonical tip
    switched,   \* the wallet's active address is not the owner of the template
    due,        \* commits the event loop has not announced to the miner yet
    changed,    \* template_changes holds an unread message
    proof,      \* proof_network_ready: [val, unseen]
    nonce,      \* nonce_network_ready: [val, unseen]
    publishing, \* the nonce value publish_at has still to send, if any
    admitted,   \* an admission (or a lag) is unread on the mempool channel
    stop,       \* 0: running, 1: `stopped` set, 2: `cancel_pow` set as well
    cancel,     \* cancel_pow as other threads see it
    buffered,   \* the relaxed store cancel := false is not visible yet
    pc,         \* where the loop of run() is
    after,      \* where the loop goes when the worker it cancelled is gone
    attempt,    \* [parent, pages] of the template
    late,       \* history: an admission since the template read the pool
    prepare,    \* the preparation worker
    prepareCancel,
    pow,        \* the nonce search worker
    stopAt,     \* history: was `stopped` set past the loop's last look at it
    minedAt     \* history: the stopAt of the blocks committed after a stop

env == <<tip, switched, due, changed, proof, nonce, publishing, admitted>>
flags == <<stop, cancel, buffered, stopAt>>
workers == <<prepare, prepareCancel, pow>>
vars == <<env, flags, workers, pc, after, attempt, late, minedAt>>

stopped == stop > 0

Phase == {"top", "wait", "waitLoop", "waitSelect", "drain", "capture", "build",
          "prepare", "drainPrepare",
          "stopCheck", "syncCheck", "parentCheck", "changeCheck", "nonceCheck",
          "await", "awaitSelect", "recheck", "recheckSync", "markProof", "markNonce",
          "reset", "raceCheck", "spawn", "pow", "drainPow", "found", "foundAuthority", "seal",
          "sealed", "sealedAuthority", "apply", "exited"}

\* No template has an owner yet.
Unowned == {"top", "wait", "waitLoop", "waitSelect", "drain", "capture", "exited"}

Watch == [val : BOOLEAN, unseen : BOOLEAN]

\* watch::Sender::send_replace, and Receiver::borrow_and_update or the
\* return of changed().
Sent(v) == [val |-> v, unseen |-> TRUE]
Seen(w) == [w EXCEPT !.unseen = FALSE]

NoTemplate == [parent |-> 0, pages |-> FALSE]

TypeOK ==
    /\ tip \in 0..MaxTip /\ switched \in BOOLEAN /\ due \subseteq {"suffix", "watch"}
    /\ changed \in BOOLEAN /\ proof \in Watch /\ nonce \in Watch
    /\ publishing \subseteq BOOLEAN /\ Cardinality(publishing) <= 1
    /\ admitted \in BOOLEAN /\ late \in BOOLEAN
    /\ stop \in 0..2 /\ cancel \in BOOLEAN /\ buffered \in BOOLEAN
    /\ pc \in Phase /\ after \in {"top", "exited"}
    /\ attempt \in [parent : 0..MaxTip, pages : BOOLEAN]
    /\ prepare \in {"idle", "running", "ready", "failed", "cancelled"}
    /\ prepareCancel \in BOOLEAN
    /\ pow \in {"idle", "running", "found", "none"}
    /\ stopAt \in {"never", "before", "past"} /\ minedAt \subseteq {"before", "past"}

Init ==
    /\ tip = 0 /\ due = {} /\ changed = FALSE /\ publishing = {}
    /\ switched = FALSE
    /\ proof = [val |-> FALSE, unseen |-> FALSE] /\ nonce = proof
    /\ admitted = FALSE /\ late = FALSE
    /\ stop = 0 /\ cancel = FALSE /\ buffered = FALSE
    /\ pc = "top" /\ after = "top"
    /\ attempt = NoTemplate
    /\ prepare = "idle" /\ prepareCancel = FALSE /\ pow = "idle"
    /\ stopAt = "never" /\ minedAt = {}

-----------------------------------------------------------------------------
(* What the rest of the node does meanwhile.                               *)

loop == <<workers, pc, after, attempt, minedAt>>

\* An exact suffix, a reorganisation or a snapshot is committed by its own
\* job; one such job is in flight at a time, until its completion is handled.
CommitElsewhere ==
    /\ tip < MaxTip /\ "suffix" \notin due
    /\ tip' = tip + 1
    /\ due' = due \cup {"suffix"}
    /\ UNCHANGED <<switched, changed, proof, nonce, publishing, admitted,
                   flags, loop, late>>

\* The event loop handles the completion of a commit, or the canonical-tip
\* watch that the miner's own commits set, and sends a template change.
NotifyTip(k) ==
    /\ k \in due /\ publishing = {}
    /\ due' = due \ {k}
    /\ changed' = TRUE
    /\ UNCHANGED <<tip, switched, proof, nonce, publishing, admitted,
                   flags, loop, late>>

\* wallet_set_active_address, under the operation gate.  It may return to the
\* address that owns the template, if there is one.
SwitchPayout ==
    /\ switched' \in IF pc \in Unowned THEN {FALSE} ELSE {TRUE, ~switched}
    /\ changed' = TRUE
    /\ UNCHANGED <<tip, due, proof, nonce, publishing, admitted,
                   flags, loop, late>>

\* MiningPeerQuorum::publish_at: each watch is sent only when its value
\* changed, proof first.  A snapshot never grants nonce without proof.
PublishProof(p, n) ==
    /\ publishing = {} /\ (n => p) /\ <<p, n>> # <<proof.val, nonce.val>>
    /\ proof' = IF p = proof.val THEN proof ELSE Sent(p)
    /\ publishing' = {n} \ {nonce.val}
    /\ UNCHANGED <<tip, switched, due, changed, nonce, admitted,
                   flags, loop, late>>

PublishNonce ==
    /\ \E n \in publishing : nonce' = Sent(n)
    /\ publishing' = {}
    /\ UNCHANGED <<tip, switched, due, changed, proof, admitted,
                   flags, loop, late>>

\* The pool admits a transaction and emits TxAdmitted.
Admit ==
    /\ admitted' = TRUE /\ late' = TRUE
    /\ UNCHANGED <<tip, switched, due, changed, proof, nonce, publishing, flags, loop>>

\* main.rs at shutdown: stopped.store(true, Release), then
\* cancel_pow.store(true, SeqCst).
StopLoop ==
    /\ stop = 0
    /\ stop' = 1
    /\ stopAt' = IF pc \in {"sealedAuthority", "apply"} THEN "past" ELSE "before"
    /\ UNCHANGED <<env, cancel, buffered, loop, late>>

StopSearch ==
    /\ stop = 1
    /\ stop' = 2 /\ cancel' = TRUE
    /\ UNCHANGED <<env, buffered, stopAt, loop, late>>

\* The relaxed store of the loop becomes visible to the other threads.
StoreVisible ==
    /\ buffered
    /\ buffered' = FALSE /\ cancel' = FALSE
    /\ UNCHANGED <<env, stop, stopAt, loop, late>>

-----------------------------------------------------------------------------
(* The blocking workers.                                                   *)

PrepareEnds(r) ==
    /\ prepare = "running"
    /\ r = "cancelled" => prepareCancel
    /\ prepare' = r
    /\ UNCHANGED <<env, flags, prepareCancel, pow, pc, after, attempt, late, minedAt>>

PowFinds ==
    /\ pow = "running"
    /\ pow' = "found"
    /\ UNCHANGED <<env, flags, prepare, prepareCancel, pc, after, attempt, late, minedAt>>

\* The search saw the cancel flag at a batch boundary.
PowCancelled ==
    /\ pow = "running" /\ cancel
    /\ pow' = "none"
    /\ UNCHANGED <<env, flags, prepare, prepareCancel, pc, after, attempt, late, minedAt>>

\* It gave way to a wallet proof or an admission check, or it failed.
PowGivesUp ==
    /\ pow = "running"
    /\ pow' = "none"
    /\ UNCHANGED <<env, flags, prepare, prepareCancel, pc, after, attempt, late, minedAt>>

-----------------------------------------------------------------------------
(* The loop of run().                                                      *)

\* What a step that only moves on, or consumes a notification, leaves alone.
task == <<flags, workers, after, attempt, late, minedAt>>

Jump(p) == pc' = p /\ UNCHANGED <<env, task>>

\* What the last iteration held is dropped.
Top ==
    /\ pc = "top"
    /\ pc' = IF stopped THEN "exited" ELSE "wait"
    /\ attempt' = NoTemplate /\ switched' = FALSE /\ late' = FALSE
    /\ prepareCancel' = FALSE /\ after' = "top"
    /\ UNCHANGED <<tip, due, changed, proof, nonce, publishing, admitted,
                   flags, prepare, pow, minedAt>>

\* wait_for_proof_network: the value is read before the first changed().
WaitFirst == pc = "wait" /\ Jump(IF proof.val THEN "drain" ELSE "waitLoop")

WaitLoop == pc = "waitLoop" /\ Jump(IF stopped THEN "exited" ELSE "waitSelect")

WaitChanged ==
    /\ pc = "waitSelect" /\ proof.unseen
    /\ proof' = Seen(proof)
    /\ pc' = IF proof.val THEN "drain" ELSE "waitLoop"
    /\ UNCHANGED <<tip, switched, due, changed, nonce, publishing, admitted,
                   task>>

WaitPoll == pc = "waitSelect" /\ Jump("waitLoop")

\* Renew the mempool subscription, drain template changes, mark the
\* readiness values observed; only then is the chain read.
DrainNotifications ==
    /\ pc = "drain"
    /\ admitted' = FALSE /\ changed' = FALSE
    /\ proof' = Seen(proof) /\ nonce' = Seen(nonce)
    /\ pc' = "capture"
    /\ UNCHANGED <<tip, switched, due, publishing, task>>

\* Parent and switched, under the operation gate.
Capture ==
    /\ pc = "capture"
    /\ attempt' = [attempt EXCEPT !.parent = tip]
    /\ switched' = FALSE
    /\ pc' = "build"
    /\ UNCHANGED <<tip, due, changed, proof, nonce, publishing, admitted,
                   flags, workers, after, late, minedAt>>

\* A failed snapshot, a closed launch or a failed build: sleep and start over.
RetryLater == pc \in {"capture", "build"} /\ Jump("top")

\* Mutant: the template changes are drained after the chain was read.
BuildDrainsChanges ==
    /\ pc = "build"
    /\ \E p \in BOOLEAN : attempt' = [attempt EXCEPT !.pages = p]
    /\ late' = FALSE /\ changed' = FALSE
    /\ prepare' = "running" /\ prepareCancel' = FALSE
    /\ pc' = "prepare"
    /\ UNCHANGED <<tip, switched, due, proof, nonce, publishing, admitted,
                   flags, pow, after, minedAt>>

\* build_from_snapshot_with_limit reads the pool; the preparation is spawned.
Build ==
    /\ pc = "build"
    /\ \E p \in BOOLEAN : attempt' = [attempt EXCEPT !.pages = p]
    /\ late' = FALSE
    /\ prepare' = "running" /\ prepareCancel' = FALSE
    /\ pc' = "prepare"
    /\ UNCHANGED <<env, flags, pow, after, minedAt>>

\* Mutant: the mempool subscription is renewed after proving.
PrepareResultRenews ==
    /\ pc = "prepare" /\ prepare # "running"
    /\ pc' = IF prepare = "ready" THEN "stopCheck" ELSE "top"
    /\ prepare' = "idle" /\ admitted' = FALSE
    /\ UNCHANGED <<tip, switched, due, changed, proof, nonce, publishing,
                   flags, prepareCancel, pow, after, attempt, late, minedAt>>

PrepareResult ==
    /\ pc = "prepare" /\ prepare # "running"
    /\ pc' = IF prepare = "ready" THEN "stopCheck" ELSE "top"
    /\ prepare' = "idle"
    /\ UNCHANGED <<env, flags, prepareCancel, pow, after, attempt, late, minedAt>>

CancelPrepare(next) ==
    /\ prepareCancel' = TRUE /\ pc' = "drainPrepare" /\ after' = next
    /\ UNCHANGED <<flags, prepare, pow, attempt, late, minedAt>>

PrepareChanged ==
    /\ pc = "prepare" /\ changed
    /\ changed' = FALSE
    /\ CancelPrepare("top")
    /\ UNCHANGED <<tip, switched, due, proof, nonce, publishing, admitted>>

\* Only the loss of proof readiness ends the preparation.
PrepareSync ==
    /\ pc = "prepare" /\ proof.unseen
    /\ proof' = Seen(proof)
    /\ IF proof.val
          THEN UNCHANGED <<flags, workers, pc, after, attempt, late, minedAt>>
          ELSE CancelPrepare("top")
    /\ UNCHANGED <<tip, switched, due, changed, nonce, publishing, admitted>>

PreparePoll == pc = "prepare" /\ stopped /\ CancelPrepare("exited") /\ UNCHANGED env

\* `let _ = prepare_handle.await`
PrepareDrained ==
    /\ pc = "drainPrepare" /\ prepare # "running"
    /\ prepare' = "idle" /\ pc' = after
    /\ UNCHANGED <<env, flags, prepareCancel, pow, after, attempt, late, minedAt>>

StopCheck == pc = "stopCheck" /\ Jump(IF stopped THEN "exited" ELSE "syncCheck")

SyncCheck == pc = "syncCheck" /\ Jump(IF proof.val THEN "parentCheck" ELSE "top")

ParentCheck ==
    pc = "parentCheck" /\ Jump(IF attempt.parent = tip THEN "changeCheck" ELSE "top")

ChangeCheck ==
    /\ pc = "changeCheck"
    /\ changed' = FALSE
    /\ pc' = IF changed THEN "top" ELSE "nonceCheck"
    /\ UNCHANGED <<tip, switched, due, proof, nonce, publishing, admitted,
                   task>>

\* Mutant: wait for a readiness edge without reading the value first.
NonceCheckWaitsForEdge == pc = "nonceCheck" /\ Jump("await")

NonceCheck == pc = "nonceCheck" /\ Jump(IF nonce.val THEN "markProof" ELSE "await")

\* Mutant: the wait for authority does not look at the shutdown flag.
AwaitUnchecked == pc = "await" /\ Jump("awaitSelect")

\* The prepared proof is kept while the frontier authority is missing.
Await == pc = "await" /\ Jump(IF stopped THEN "exited" ELSE "awaitSelect")

AwaitNonce ==
    /\ pc = "awaitSelect" /\ nonce.unseen
    /\ nonce' = Seen(nonce)
    /\ pc' = IF nonce.val THEN "recheck" ELSE "await"
    /\ UNCHANGED <<tip, switched, due, changed, proof, publishing, admitted,
                   task>>

AwaitSync ==
    /\ pc = "awaitSelect" /\ proof.unseen
    /\ proof' = Seen(proof)
    /\ pc' = IF proof.val THEN "await" ELSE "top"
    /\ UNCHANGED <<tip, switched, due, changed, nonce, publishing, admitted,
                   task>>

AwaitChanged ==
    /\ pc = "awaitSelect" /\ changed
    /\ changed' = FALSE
    /\ pc' = "top"
    /\ UNCHANGED <<tip, switched, due, proof, nonce, publishing, admitted,
                   task>>

AwaitPoll == pc = "awaitSelect" /\ Jump("await")

Recheck == pc = "recheck" /\ Jump(IF attempt.parent = tip THEN "recheckSync" ELSE "top")

RecheckSync == pc = "recheckSync" /\ Jump(IF proof.val THEN "markProof" ELSE "top")

\* borrow_and_update on both watches; the values are not looked at.
MarkProof ==
    /\ pc = "markProof"
    /\ proof' = Seen(proof)
    /\ pc' = "markNonce"
    /\ UNCHANGED <<tip, switched, due, changed, nonce, publishing, admitted,
                   task>>

MarkNonce ==
    /\ pc = "markNonce"
    /\ nonce' = Seen(nonce)
    /\ pc' = "reset"
    /\ UNCHANGED <<tip, switched, due, changed, proof, publishing, admitted,
                   task>>

\* cancel.store(false, Relaxed): the loop goes on before the others see it.
ResetCancel ==
    /\ pc = "reset"
    /\ buffered' = TRUE
    /\ pc' = "raceCheck"
    /\ UNCHANGED <<env, stop, cancel, stopAt, workers, after, attempt, late, minedAt>>

\* The second look at `stopped`.
RaceCheck ==
    /\ pc = "raceCheck"
    /\ pc' = IF stopped THEN "exited" ELSE "spawn"
    /\ cancel' = (cancel \/ stopped)
    /\ buffered' = (buffered /\ ~stopped)
    /\ UNCHANGED <<env, stop, stopAt, workers, after, attempt, late, minedAt>>

\* Handing the search to a blocking thread makes the loop's earlier stores
\* visible to it.
SpawnPow ==
    /\ pc = "spawn"
    /\ pow' = "running" /\ pc' = "pow"
    /\ buffered' = FALSE /\ cancel' = (cancel /\ ~buffered)
    /\ UNCHANGED <<env, stop, stopAt, prepare, prepareCancel, after, attempt, late, minedAt>>

PowResult ==
    /\ pc = "pow" /\ pow # "running"
    /\ pc' = IF pow = "found" THEN "found" ELSE "top"
    /\ pow' = "idle"
    /\ UNCHANGED <<env, flags, prepare, prepareCancel, after, attempt, late, minedAt>>

\* Mutants: the branch returns without waiting for the search; it resumes the
\* select instead of rebuilding.
CancelPowEscapes ==
    /\ pc = "pow"
    /\ cancel' = TRUE /\ pc' = "top"
    /\ UNCHANGED <<stop, buffered, stopAt, workers, after, attempt, late, minedAt>>

\* Every other branch of the select stops the search and waits for it.
CancelPow ==
    /\ pc = "pow"
    /\ cancel' = TRUE /\ pc' = "drainPow" /\ after' = "top"
    /\ UNCHANGED <<stop, buffered, stopAt, workers, attempt, late, minedAt>>

PowHeartbeat == ~attempt.pages /\ CancelPow /\ UNCHANGED env

PowAdmission ==
    /\ ~attempt.pages /\ admitted
    /\ admitted' = FALSE
    /\ CancelPow
    /\ UNCHANGED <<tip, switched, due, changed, proof, nonce, publishing>>

PowChanged ==
    /\ changed
    /\ changed' = FALSE
    /\ CancelPow
    /\ UNCHANGED <<tip, switched, due, proof, nonce, publishing, admitted>>

PowNonce ==
    /\ nonce.unseen
    /\ nonce' = Seen(nonce)
    /\ CancelPow
    /\ UNCHANGED <<tip, switched, due, changed, proof, publishing, admitted>>

PowSync ==
    /\ proof.unseen
    /\ proof' = Seen(proof)
    /\ CancelPow
    /\ UNCHANGED <<tip, switched, due, changed, nonce, publishing, admitted>>

PowDrained ==
    /\ pc = "drainPow" /\ pow # "running"
    /\ pow' = "idle" /\ pc' = after
    /\ UNCHANGED <<env, flags, prepare, prepareCancel, after, attempt, late, minedAt>>

authorized == proof.val /\ nonce.val

Found == pc = "found" /\ Jump(IF stopped THEN "exited" ELSE "foundAuthority")

FoundAuthority == pc = "foundAuthority" /\ Jump(IF authorized THEN "seal" ELSE "top")

\* attempt.prove on a blocking thread; it cannot be cancelled.
Seal == pc = "seal" /\ Jump("sealed")

SealFails == pc = "seal" /\ Jump("top")

\* Mutant: a sealed block is committed whatever the shutdown flag says.
SealedUnchecked == pc = "sealed" /\ Jump("sealedAuthority")

Sealed == pc = "sealed" /\ Jump(IF stopped THEN "exited" ELSE "sealedAuthority")

SealedAuthority ==
    pc = "sealedAuthority" /\ Jump(IF authorized THEN "apply" ELSE "top")

\* apply_found_block, under the operation gate: the payout and the exact
\* parent are compared again, the commit sets the canonical-tip watch.  At
\* the bound the commit fails, as it may for any storage error.
ApplyFoundBlock ==
    /\ pc = "apply"
    /\ pc' = "top"
    /\ IF ~switched /\ attempt.parent = tip /\ tip < MaxTip
          THEN /\ tip' = tip + 1
               /\ due' = due \cup {"watch"}
               /\ minedAt' = minedAt \cup (IF stopped THEN {stopAt} ELSE {})
          ELSE UNCHANGED <<tip, due, minedAt>>
    /\ UNCHANGED <<switched, changed, proof, nonce, publishing, admitted,
                   flags, workers, after, attempt, late>>

Loop ==
    \/ Top \/ WaitFirst \/ WaitLoop \/ WaitChanged \/ WaitPoll
    \/ DrainNotifications \/ Capture \/ RetryLater \/ Build
    \/ PrepareResult \/ PrepareChanged \/ PrepareSync \/ PreparePoll \/ PrepareDrained
    \/ StopCheck \/ SyncCheck \/ ParentCheck \/ ChangeCheck \/ NonceCheck
    \/ Await \/ AwaitNonce \/ AwaitSync \/ AwaitChanged \/ AwaitPoll \/ Recheck \/ RecheckSync
    \/ MarkProof \/ MarkNonce \/ ResetCancel \/ RaceCheck \/ SpawnPow
    \/ PowResult \/ PowHeartbeat \/ PowAdmission \/ PowChanged \/ PowNonce \/ PowSync
    \/ PowDrained \/ Found \/ FoundAuthority \/ Seal \/ SealFails \/ Sealed
    \/ SealedAuthority \/ ApplyFoundBlock

Worker ==
    \/ \E r \in {"ready", "failed", "cancelled"} : PrepareEnds(r)
    \/ PowFinds \/ PowCancelled \/ PowGivesUp

Environment ==
    \/ CommitElsewhere
    \/ \E k \in {"suffix", "watch"} : NotifyTip(k)
    \/ SwitchPayout
    \/ \E p, n \in BOOLEAN : PublishProof(p, n)
    \/ PublishNonce
    \/ Admit
    \/ StopLoop \/ StopSearch \/ StoreVisible

Next == Loop \/ Worker \/ Environment

Spec == Init /\ [][Next]_vars

-----------------------------------------------------------------------------
(* Scheduling.  The task, its timers and its workers keep running; the     *)
(* shutdown that stored one flag stores the other; the event loop handles  *)
(* what is queued for it.                                                  *)

Progress ==
    /\ WF_pc(Loop) /\ WF_pc(PrepareResult) /\ WF_pc(PreparePoll) /\ WF_pc(PowResult)
    /\ WF_prepare(\E r \in {"ready", "failed", "cancelled"} : PrepareEnds(r))
    /\ WF_pow(PowFinds) /\ WF_pow(PowCancelled)
    /\ WF_stop(StopSearch)

StoppingSpec == Spec /\ Progress

\* The event loop handles what is queued for it, and a select takes a readiness
\* edge before a timer that has only just been created.
Delivered ==
    /\ []<>(publishing = {}) /\ []<>(due = {})
    /\ []<>~(proof.unseen /\ pc \in {"waitLoop", "waitSelect"})
    /\ []<>~(nonce.unseen /\ pc \in {"await", "awaitSelect"})

\* What may make the loop start over although it has the authority to mine.
Interruption ==
    \/ SwitchPayout \/ Admit \/ PowHeartbeat
    \/ RetryLater \/ PrepareEnds("failed") \/ PowGivesUp \/ SealFails

-----------------------------------------------------------------------------
(* Properties.                                                             *)

\* No blocking task escapes its select: whenever the loop is anywhere else,
\* the preparation worker and the search worker are gone ("No blocking PoW
\* task may escape this select branch", miner.rs:864), so that the two never
\* compete for the one CPU pool and no stale search outlives its template.
WorkersConfined ==
    /\ prepare # "idle" => pc \in {"prepare", "drainPrepare"}
    /\ pow # "idle" => pc \in {"pow", "drainPow"}

\* While a template is being built, proved or searched, a replaced parent or
\* a switched payout is never silent: a template change is unread, or the
\* event loop still has the commit to announce.  It holds because run() drains
\* old changes before it reads the chain, not after.
StaleWorkIsWatched ==
    /\ pc \in {"build", "prepare", "stopCheck", "syncCheck", "parentCheck", "changeCheck",
               "nonceCheck", "await", "awaitSelect", "recheck", "recheckSync",
               "markProof", "markNonce", "reset", "raceCheck", "spawn", "pow"}
    /\ attempt.parent # tip \/ switched
    => changed \/ due # {}

\* A coinbase-only template that is being searched never overlooks a
\* transaction admitted after the template read the pool: its notification is
\* still unread, however long the proof took (miner.rs:141).
AdmissionsReachEmptyTemplate ==
    pc \in {"prepare", "nonceCheck", "awaitSelect", "reset", "pow"}
        /\ ~attempt.pages /\ late
    => admitted

\* A block committed after the shutdown flag was set had already passed the
\* loop's last look at it: the flag is never ignored over a proof, a search
\* or a seal ("Never turn that completed work into a new block", miner.rs:590).
ShutdownHonoured == minedAt \subseteq {"past"}

\* Shutdown always ends the task, wherever it was: waiting for readiness,
\* proving, waiting for the frontier authority, searching or sealing.
StopLeadsToExit == stopped ~> pc = "exited"

\* With lasting authority and no shutdown, once interruptions and failures cease, the
\* chain grows: no edge consumed early, no late notification and no discarded proof
\* stops the production of blocks for good.
AuthorityLeadsToBlocks ==
    Delivered /\ <>[](authorized /\ ~stopped) /\ <>[][~Interruption]_vars => <>(tip = MaxTip)

\* "A later shutdown cannot be lost because it sets cancel after this point
\* and the PoW worker observes it" (miner.rs:715): a search that runs after
\* both shutdown stores sees the cancel flag.
ShutdownCancelsSearch == stop = 2 /\ pow = "running" => cancel

\* nonce_network_ready is the "exact authorization to search a nonce"
\* (miner.rs:208), whose loss ends the search: a search without authority has
\* an unread readiness edge that will end it.
SearchIsAuthorized ==
    pc = "pow" /\ ~authorized => proof.unseen \/ nonce.unseen

=============================================================================
