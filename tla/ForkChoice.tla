------------------------------ MODULE ForkChoice ------------------------------
(***************************************************************************)
(* The fork-choice rule of noid_chain/src/consensus/fork_choice.rs.        *)
(* Cumulative work is a natural number and a block hash is its rank in the *)
(* lexicographic order of hashes.                                          *)
(***************************************************************************)
EXTENDS Naturals

\* choose_chain_by_work: more cumulative work wins; on equal work the
\* lexicographically smaller tip hash wins; equal hashes are the same tip.
ChooseChainByWork(workA, hashA, workB, hashB) ==
    IF workA > workB \/ (workA = workB /\ hashA < hashB) THEN "A"
    ELSE IF workA = workB /\ hashA = hashB THEN "Equal"
    ELSE "B"
===============================================================================
