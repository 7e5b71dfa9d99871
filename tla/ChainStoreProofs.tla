--------------------------- MODULE ChainStoreProofs ---------------------------
(***************************************************************************)
(* Proofs about ChainStore for every block tree and every depth that       *)
(* satisfies BlockAssumption and DepthAssumption.                          *)
(***************************************************************************)
EXTENDS ChainStore, BlockTreeProofs
-------------------------------------------------------------------------------
\* The initial state satisfies the inductive invariant.
LEMMA InitInv == Init => IndInv
<1> SUFFICES ASSUME Init PROVE IndInv  OBVIOUS
<1>0. Genesis \in Block /\ Height(Genesis) = 0 /\ Ancestor(Genesis, 0) = Genesis
  BY GenesisHeight
<1>e. DOMAIN << >> = {}
  OBVIOUS
<1>1. TypeOK
  BY <1>0, <1>e DEF Init, TypeOK, IsTable
<1>2. ChainInv
  BY <1>0, DepthAssumption, ExtendsFacts DEF Init, ChainInv, TipTerminalValid
<1>3. RetentionInv
  BY <1>0 DEF Init, RetentionInv, NonfinalSuffixCovered
<1>4. HotInv /\ SuffixInv /\ StagingInv
  BY <1>0 DEF Init, HotInv, SuffixInv, StagingInv
<1> QED  BY <1>1, <1>2, <1>3, <1>4 DEF IndInv

\* Header reads follow the branch being applied, so a staged reorg never reads
\* the old branch.
LEMMA HeaderRead ==
    ASSUME IndInv, pc /= "down", NEW h \in 0 .. Height(tip)
    PROVE  HeaderAt(h) = Ancestor(tip, h)
<1>1. tip \in Block /\ durableTip \in Block /\ target \in Block
  BY DEF IndInv, TypeOK
<1>2. CASE h \in DOMAIN recent
  BY <1>2 DEF IndInv, HotInv, HeaderAt
<1>3. CASE h \notin DOMAIN recent /\ pc /= "staging"
  BY <1>3 DEF IndInv, HotInv, ChainInv, HeaderAt
<1>4. CASE h \notin DOMAIN recent /\ pc = "staging"
  <2>1. /\ ancestor \in Nat /\ h <= ancestor
        /\ ancestor < Height(durableTip) /\ ancestor < Height(target)
        /\ ancestor <= Height(tip) /\ Extends(target, tip)
        /\ Ancestor(target, ancestor) = Ancestor(durableTip, ancestor)
    BY <1>1, <1>4, HeightType, SMTT(30) DEF IndInv, TypeOK, StagingInv
  <2>2. headers[h] = Ancestor(durableTip, h)
    BY <1>1, <2>1, HeightType DEF IndInv, ChainInv
  <2>3. Ancestor(durableTip, h) = Ancestor(Ancestor(durableTip, ancestor), h)
    BY <1>1, <2>1, HeightType, AncestorAncestor
  <2>4. Ancestor(target, h) = Ancestor(Ancestor(target, ancestor), h)
    BY <1>1, <2>1, HeightType, AncestorAncestor
  <2>5. Ancestor(target, h) = Ancestor(tip, h)
    BY <1>1, <2>1, HeightType, AncestorAncestor DEF Extends
  <2> QED  BY <1>4, <2>1, <2>2, <2>3, <2>4, <2>5 DEF HeaderAt
<1> QED  BY <1>2, <1>3, <1>4

\* A header read below the tip always finds a row, in RAM or in T_HEADERS.
LEMMA HeaderFound ==
    ASSUME IndInv, pc /= "down", NEW h \in 0 .. Height(tip)
    PROVE  h \in DOMAIN recent \cup DOMAIN headers
<1>1. tip \in Block /\ durableTip \in Block
  BY DEF IndInv, TypeOK
<1>2. CASE pc /= "staging"
  BY <1>2 DEF IndInv, HotInv, ChainInv
<1>3. CASE pc = "staging" /\ h \notin DOMAIN recent
  <2>1. ancestor \in Nat /\ h <= ancestor /\ ancestor < Height(durableTip)
    BY <1>1, <1>3, HeightType, SMTT(30) DEF IndInv, TypeOK, StagingInv
  <2> QED  BY <1>1, <2>1, HeightType DEF IndInv, ChainInv
<1> QED  BY <1>2, <1>3

\* The finalized checkpoint lies on the branch being applied.
LEMMA TipKeepsFinalized ==
    ASSUME IndInv, pc /= "down"
    PROVE  Extends(tip, finalized)
<1>1. /\ tip \in Block /\ durableTip \in Block /\ target \in Block
      /\ finalized \in Block /\ ancestor \in Nat
      /\ finalized = durableFinalized /\ Extends(durableTip, finalized)
  BY DEF IndInv, TypeOK, HotInv, ChainInv
<1>2. CASE pc /= "staging"
  BY <1>1, <1>2 DEF IndInv, HotInv
<1>3. CASE pc = "staging"
  <2>1. /\ Height(finalized) <= ancestor
        /\ ancestor < Height(durableTip) /\ ancestor < Height(target)
        /\ ancestor <= Height(tip) /\ Extends(target, tip)
        /\ Ancestor(target, ancestor) = Ancestor(durableTip, ancestor)
    BY <1>1, <1>3 DEF IndInv, StagingInv
  <2>2. Height(finalized) \in 0 .. ancestor
    BY <1>1, <2>1, HeightType
  <2>3. Ancestor(durableTip, Height(finalized)) = finalized
    BY <1>1 DEF Extends
  <2>4. Ancestor(target, Height(finalized)) = finalized
    BY <1>1, <2>1, <2>2, <2>3, HeightType, AncestorAncestor
  <2>5. Extends(target, finalized)
    BY <1>1, <2>1, <2>2, <2>4, HeightType DEF Extends
  <2> QED  BY <1>1, <2>1, <2>2, <2>5, HeightType, ExtendsFacts
<1> QED  BY <1>2, <1>3

\* finalized_for_tip advances the checkpoint along the branch and keeps it within
\* the finality depth of the new tip t.
LEMMA FinalizedAdvances ==
    ASSUME IndInv, pc /= "down",
           NEW t \in Block, Extends(t, tip), Height(t) <= Height(tip) + 1
    PROVE  LET f == FinalizedForTip(Height(t)) IN
           /\ f \in Block
           /\ Extends(t, f)
           /\ Extends(f, finalized)
           /\ Height(t) - Height(f) <= FinalityDepth
<1> DEFINE m == Monus(Height(t), FinalityDepth)
<1>1. tip \in Block /\ finalized \in Block
  BY DEF IndInv, TypeOK
<1>2. Height(t) \in Nat /\ Height(tip) \in Nat /\ Height(finalized) \in Nat /\ FinalityDepth \in Nat \ {0}
  BY <1>1, HeightType, DepthAssumption
<1>3. Extends(tip, finalized)
  BY TipKeepsFinalized
<1>4. Extends(t, finalized)
  BY <1>1, <1>3, ExtendsFacts
<1>5. m \in Nat /\ Height(t) - m <= FinalityDepth /\ (m > 0 => m <= Height(tip))
  BY <1>2 DEF Monus
<1>6. CASE m <= Height(finalized)
  <2>1. FinalizedForTip(Height(t)) = finalized
    BY <1>6 DEF FinalizedForTip
  <2>2. Height(t) - Height(finalized) <= FinalityDepth
    BY <1>2, <1>5, <1>6
  <2> QED  BY <1>1, <1>4, <2>1, <2>2, ExtendsFacts
<1>7. CASE ~(m <= Height(finalized))
  <2>1. m \in 0 .. Height(tip) /\ Height(finalized) < m
    BY <1>2, <1>5, <1>7
  <2>2. FinalizedForTip(Height(t)) = Ancestor(tip, m)
    BY <1>7, <2>1, HeaderRead DEF FinalizedForTip
  <2>3. Ancestor(tip, m) \in Block /\ Height(Ancestor(tip, m)) = m /\ Extends(tip, Ancestor(tip, m))
    BY <1>1, <2>1, AncestorBlock, ExtendsFacts
  <2>4. Extends(t, Ancestor(tip, m)) /\ Extends(Ancestor(tip, m), finalized)
    BY <1>1, <1>2, <1>3, <2>1, <2>3, ExtendsFacts
  <2> QED  BY <1>5, <2>2, <2>3, <2>4
<1> QED  BY <1>6, <1>7
-------------------------------------------------------------------------------
\* A block committed on the durable tip, by local mining or as a body of a live
\* suffix whose target is remaining.
LEMMA CommitInv ==
    ASSUME IndInv, pc \in {"idle", "suffix"},
           NEW b \in Block, NEW term \in Block \cup {Complete}, NEW remaining \in Block,
           Height(b) = Height(tip) + 1, Parent(b) = tip,
           remaining /= Genesis => Extends(remaining, b) /\ Height(b) < Height(remaining),
           CommitAppliedNextBlock(b, term, remaining)
    PROVE  IndInv'
<1> DEFINE n == Height(b)
           fin == FinalizedForTip(n)
<1>1. /\ tip \in Block /\ tip = durableTip /\ state = tip /\ finalized = durableFinalized
      /\ pc /= "down" /\ pc /= "staging" /\ finalized \in Block
  BY DEF IndInv, TypeOK, HotInv
<1>2. n \in Nat /\ Height(tip) \in Nat /\ n = Height(tip) + 1 /\ Height(finalized) \in Nat
  BY <1>1, HeightType
<1>3. Extends(b, tip) /\ \A h \in 0 .. Height(tip) : Ancestor(b, h) = Ancestor(tip, h)
  BY <1>1, ChildFacts
<1>4. Ancestor(b, n) = b
  BY AncestorSelf
<1>5. fin \in Block /\ Extends(b, fin) /\ Extends(fin, finalized) /\ n - Height(fin) <= FinalityDepth
  BY <1>1, <1>2, <1>3, FinalizedAdvances
<1>6. Height(fin) \in Nat /\ Height(finalized) <= Height(fin) /\ Height(fin) <= n
  BY <1>1, <1>5, HeightType DEF Extends
<1>7. /\ headers' = Put(headers, n, b) /\ durableTip' = b /\ durableFinalized' = fin
      /\ segments' = b /\ undoLogs' = Put(undoLogs, n, state)
      /\ recentBlocks' = recentBlocks \cup {n} /\ terminals' = Put(terminals, n, term)
      /\ authority' = (IF term = Complete THEN NoAuthority ELSE authority)
      /\ watermark' = watermark
  BY DEF CommitAppliedNextBlock, CommitBlock
<1>8. /\ tip' = b /\ state' = b /\ finalized' = fin /\ pc' = "prune" /\ target' = remaining
      /\ recent' = Delete(Put(recent, n, b), {n - HeaderLookback - 1})
      /\ staging' = staging /\ ancestor' = ancestor
  BY DEF CommitAppliedNextBlock, PublishTip
<1>9. TypeOK'
  BY <1>1, <1>2, <1>5, <1>7, <1>8 DEF IndInv, TypeOK, IsTable, Put, Delete
<1>10. ChainInv'
  <2>1. DOMAIN headers = 0 .. Height(tip)
        /\ \A h \in 0 .. Height(tip) : headers[h] = Ancestor(tip, h)
    BY <1>1 DEF IndInv, ChainInv
  <2>2. DOMAIN headers' = 0 .. n
    BY <1>2, <1>7, <2>1 DEF Put
  <2>3. \A h \in 0 .. n : headers'[h] = Ancestor(b, h)
    BY <1>2, <1>3, <1>4, <1>7, <2>1 DEF Put
  <2>4. TipTerminalValid'
    <3>1. n \in DOMAIN terminals' /\ terminals'[n] = term
      BY <1>7 DEF Put
    <3>2. CASE term = Complete
      BY <1>7, <3>1, <3>2 DEF TipTerminalValid
    <3>3. CASE term /= Complete
      <4>1. /\ authority /= NoAuthority /\ authority.tip = term
            /\ Height(authority.boundary) < n /\ n < Height(authority.tip)
        BY <3>3 DEF CommitAppliedNextBlock, CommitBlock
      <4> QED  BY <1>7, <3>1, <3>3, <4>1 DEF TipTerminalValid
    <3> QED  BY <3>2, <3>3
  <2> QED  BY <1>5, <1>7, <2>2, <2>3, <2>4 DEF ChainInv
<1>11. RetentionInv'
  <2>1. watermark' = 0 \/ watermark' < Height(durableFinalized')
    BY <1>1, <1>2, <1>6, <1>7 DEF IndInv, TypeOK, RetentionInv
  <2>2. \A h \in watermark' + 1 .. n : h \in DOMAIN terminals'
    BY <1>1, <1>2, <1>7 DEF IndInv, TypeOK, RetentionInv, Put
  <2>3. ASSUME NEW h \in Height(fin) + 1 .. n
        PROVE  h \in DOMAIN undoLogs' /\ undoLogs'[h] = Ancestor(b, h - 1)
               /\ h \in recentBlocks' /\ h \in DOMAIN terminals'
    <3>1. CASE h = n
      BY <1>1, <1>2, <1>3, <1>7, <3>1, AncestorSelf DEF Put
    <3>2. CASE h /= n
      <4>1. h \in Height(finalized) + 1 .. Height(tip) /\ h - 1 \in 0 .. Height(tip)
        BY <1>2, <1>6, <3>2
      <4>2. /\ h \in DOMAIN undoLogs /\ undoLogs[h] = Ancestor(tip, h - 1)
            /\ h \in recentBlocks /\ h \in DOMAIN terminals
        BY <1>1, <4>1 DEF IndInv, RetentionInv, NonfinalSuffixCovered
      <4> QED  BY <1>3, <1>7, <3>2, <4>1, <4>2 DEF Put
    <3> QED  BY <3>1, <3>2
  <2> QED  BY <1>7, <2>1, <2>2, <2>3 DEF RetentionInv, NonfinalSuffixCovered
<1>12. HotInv'
  <2>1. \A h \in DOMAIN recent : h \in Nat /\ h <= Height(tip) /\ recent[h] = Ancestor(tip, h)
    BY <1>1 DEF IndInv, TypeOK, IsTable, HotInv
  <2>2. \A h \in DOMAIN recent' : h <= n /\ recent'[h] = Ancestor(b, h)
    BY <1>2, <1>3, <1>4, <1>8, <2>1 DEF Put, Delete
  <2> QED  BY <1>7, <1>8, <2>2 DEF HotInv
<1>13. SuffixInv' /\ StagingInv'
  BY <1>8 DEF SuffixInv, StagingInv
<1> QED  BY <1>9, <1>10, <1>11, <1>12, <1>13 DEF IndInv

\* A mined block, or a block that carries its own terminal.
LEMMA CommitCompleteBlockInv ==
    ASSUME IndInv, NEW b \in Block, CommitCompleteBlock(b)
    PROVE  IndInv'
  BY CommitInv, GenesisHeight DEF CommitCompleteBlock

\* The next body of a live suffix.
LEMMA ApplySuffixBlockInv ==
    ASSUME IndInv, ApplySuffixBlock
    PROVE  IndInv'
<1> DEFINE b == Ancestor(target, Height(tip) + 1)
<1>1. pc = "suffix" /\ tip \in Block /\ target \in Block /\ target /= Genesis
      /\ Extends(target, tip) /\ Height(tip) < Height(target)
  BY DEF ApplySuffixBlock, IndInv, TypeOK, SuffixInv
<1>2. b \in Block /\ Height(b) = Height(tip) + 1 /\ Parent(b) = tip /\ Extends(target, b)
      /\ (b = target <=> Height(target) = Height(tip) + 1)
  BY <1>1, NextOnPath
<1>3. CASE b = target
  <2>1. CommitAppliedNextBlock(b, Complete, Genesis)
    BY <1>3 DEF ApplySuffixBlock
  <2> QED  BY <1>1, <1>2, <2>1, CommitInv, GenesisHeight
<1>4. CASE b /= target
  <2>1. CommitAppliedNextBlock(b, target, target)
    BY <1>4 DEF ApplySuffixBlock
  <2>2. Height(b) < Height(target)
    BY <1>1, <1>2, <1>4, HeightType
  <2> QED  BY <1>1, <1>2, <2>1, <2>2, CommitInv
<1> QED  BY <1>3, <1>4

\* Binding the authority record of a live suffix.
LEMMA BeginRecursiveSuffixInv ==
    ASSUME IndInv, NEW t \in Block, BeginRecursiveSuffix(t)
    PROVE  IndInv'
<1>1. /\ pc = "idle" /\ pc' = "suffix" /\ target' = t /\ Height(tip) < Height(t) /\ Extends(t, tip)
      /\ headers' = headers /\ durableTip' = durableTip /\ durableFinalized' = durableFinalized
      /\ segments' = segments /\ undoLogs' = undoLogs /\ recentBlocks' = recentBlocks
      /\ terminals' = terminals /\ watermark' = watermark /\ ancestor' = ancestor
      /\ tip' = tip /\ finalized' = finalized /\ state' = state /\ recent' = recent
      /\ staging' = staging /\ durableTip = tip
  BY DEF BeginRecursiveSuffix, hot
<1>2. \/ authority' = authority
      \/ /\ authority' = [boundary |-> tip, tip |-> t]
         /\ ~(Height(tip) /= 0 /\ Height(tip) \in DOMAIN terminals /\ terminals[Height(tip)] /= Complete)
  BY DEF BeginRecursiveSuffix, SuffixAuthority, TipIsMarker
<1>3. TypeOK'
  BY <1>1, <1>2 DEF IndInv, TypeOK, IsTable
<1>4. TipTerminalValid'
  BY <1>1, <1>2 DEF IndInv, ChainInv, TipTerminalValid
<1>5. ChainInv'
  BY <1>1, <1>4 DEF IndInv, ChainInv
<1>6. RetentionInv' /\ HotInv'
  BY <1>1 DEF IndInv, RetentionInv, NonfinalSuffixCovered, HotInv
<1>7. tip \in Block /\ Height(tip) \in Nat
  BY HeightType DEF IndInv, TypeOK
<1>8. t /= Genesis
  BY <1>1, <1>7, GenesisHeight
<1>9. SuffixInv' /\ StagingInv'
  BY <1>1, <1>8 DEF SuffixInv, StagingInv
<1> QED  BY <1>3, <1>5, <1>6, <1>9 DEF IndInv

\* Steps that leave the tables and the hot view alone.
LEMMA WriterOnlyInv ==
    ASSUME IndInv, RejectSuffixBlock \/ PruneNothing \/ PruneFails
    PROVE  IndInv'
<1>1. /\ UNCHANGED <<headers, durableTip, durableFinalized, segments, undoLogs, recentBlocks>>
      /\ UNCHANGED <<terminals, watermark, authority, tip, finalized, state, recent, staging>>
      /\ UNCHANGED ancestor
      /\ pc \in {"suffix", "prune", "pruneUndo"}
      /\ \/ pc' = "idle" /\ target' = Genesis
         \/ pc' = "pruneUndo" /\ pc = "prune" /\ target' = target
         \/ pc' = "suffix" /\ target' = target /\ target /= Genesis
  BY DEF RejectSuffixBlock, PruneNothing, PruneFails, AfterPruning, durable, hot
<1>2. TypeOK' /\ ChainInv' /\ RetentionInv' /\ HotInv'
  BY <1>1, GenesisHeight, SMTT(30) DEF IndInv, TypeOK, IsTable, ChainInv, TipTerminalValid, RetentionInv,
          NonfinalSuffixCovered, HotInv
<1>3. SuffixInv' /\ StagingInv'
  BY <1>1 DEF IndInv, SuffixInv, StagingInv
<1> QED  BY <1>2, <1>3 DEF IndInv

\* A crash loses the hot view only.
LEMMA CrashInv ==
    ASSUME IndInv, Crash
    PROVE  IndInv'
<1>1. /\ UNCHANGED <<headers, durableTip, durableFinalized, segments, undoLogs, recentBlocks>>
      /\ UNCHANGED <<terminals, watermark, authority>>
      /\ pc' = "down" /\ tip' = Genesis /\ finalized' = Genesis /\ state' = Genesis
      /\ recent' = << >> /\ staging' = << >> /\ target' = Genesis /\ ancestor' = 0
  BY DEF Crash, durable
<1>2. DOMAIN << >> = {}
  OBVIOUS
<1>3. TypeOK'
  BY <1>1, <1>2, GenesisHeight DEF IndInv, TypeOK, IsTable
<1>4. ChainInv' /\ RetentionInv'
  BY <1>1 DEF IndInv, ChainInv, TipTerminalValid, RetentionInv, NonfinalSuffixCovered
<1>5. HotInv' /\ SuffixInv' /\ StagingInv'
  BY <1>1 DEF HotInv, SuffixInv, StagingInv
<1> QED  BY <1>3, <1>4, <1>5 DEF IndInv

\* restore_from_mdbx accepts every durable image the invariant allows.
LEMMA Restorable ==
    ASSUME IndInv
    PROVE  RestoreAccepts
<1>1. /\ durableTip \in Block /\ durableFinalized \in Block
      /\ Height(durableTip) \in Nat /\ Height(durableFinalized) \in Nat
  BY HeightType DEF IndInv, TypeOK
<1>2. Height(durableFinalized) <= Height(durableTip)
      /\ Ancestor(durableTip, Height(durableFinalized)) = durableFinalized
  BY DEF IndInv, ChainInv, Extends
<1> QED  BY <1>1, <1>2, AncestorSelf DEF IndInv, ChainInv, RestoreAccepts

\* The hot view is read back from the durable tables.
LEMMA ReloadInv ==
    ASSUME IndInv, AbortReorg \/ Restart
    PROVE  IndInv'
<1>1. /\ UNCHANGED <<headers, durableTip, durableFinalized, segments, undoLogs, recentBlocks>>
      /\ UNCHANGED <<terminals, watermark, authority>>
      /\ LoadHotState /\ pc' = "idle" /\ target' = Genesis /\ ancestor' \in Nat
  BY Restorable DEF AbortReorg, Restart, durable, IndInv, TypeOK, SuffixInv
<1>2. /\ tip' = durableTip /\ finalized' = durableFinalized /\ state' = segments
      /\ staging' = << >>
      /\ recent' = Keep(headers, Monus(Height(durableTip), HeaderLookback) .. Height(durableTip))
  BY <1>1 DEF LoadHotState
<1>3. DOMAIN << >> = {}
  OBVIOUS
<1>4. TypeOK'
  BY <1>1, <1>2, <1>3, GenesisHeight DEF IndInv, TypeOK, IsTable, Keep
<1>5. ChainInv' /\ RetentionInv'
  BY <1>1, SMTT(30) DEF IndInv, ChainInv, TipTerminalValid, RetentionInv, NonfinalSuffixCovered
<1>6. \A h \in DOMAIN recent' : h <= Height(durableTip) /\ recent'[h] = Ancestor(durableTip, h)
  BY <1>2, HeightType DEF IndInv, TypeOK, ChainInv, Keep
<1>7. HotInv'
  BY <1>1, <1>2, <1>6 DEF IndInv, ChainInv, HotInv
<1>8. SuffixInv' /\ StagingInv'
  BY <1>1 DEF SuffixInv, StagingInv
<1> QED  BY <1>4, <1>5, <1>7, <1>8 DEF IndInv
-------------------------------------------------------------------------------
\* The RAM view is reverted to the ancestor.
LEMMA BeginReorgInv ==
    ASSUME IndInv, NEW t \in Block, NEW a \in 0 .. Height(tip), BeginReorg(a, t)
    PROVE  IndInv'
<1>1. /\ pc = "idle" /\ tip \in Block /\ tip = durableTip /\ finalized = durableFinalized
      /\ Height(tip) \in Nat /\ a \in Nat
  BY HeightType DEF BeginReorg, IndInv, TypeOK, HotInv
<1>2. /\ a < Height(tip) /\ Height(tip) - a <= FinalityDepth /\ Height(finalized) <= a
      /\ a < Height(t) /\ Height(t) - a <= MaxReplacement
      /\ Ancestor(t, a) = HeaderAt(a) /\ Wins(t, tip)
  BY DEF BeginReorg, ReorgAdmissible
<1>3. HeaderAt(a) = Ancestor(tip, a)
  BY <1>1, HeaderRead
<1>4. Ancestor(tip, a) \in Block /\ Height(Ancestor(tip, a)) = a
  BY <1>1, <1>2, AncestorBlock
<1>5. \A h \in 0 .. a : Ancestor(Ancestor(tip, a), h) = Ancestor(tip, h)
  BY <1>1, <1>2, AncestorAncestor
<1>6. a + 1 \in DOMAIN undoLogs /\ undoLogs[a + 1] = Ancestor(tip, a)
  <2>1. a + 1 \in a + 1 .. Height(tip) /\ (a + 1) - 1 = a
    BY <1>1, <1>2
  <2>2. a + 1 \in DOMAIN undoLogs /\ undoLogs[a + 1] = headers[a]
    BY <2>1 DEF BeginReorg, UndoLogsPresent, UndoRestoresParent
  <2> QED  BY <1>1, <1>2, <2>2 DEF IndInv, ChainInv
<1>7. /\ UNCHANGED <<headers, durableTip, durableFinalized, segments, undoLogs, recentBlocks>>
      /\ UNCHANGED <<terminals, watermark, authority, finalized>>
      /\ tip' = Ancestor(tip, a) /\ state' = Ancestor(tip, a)
      /\ recent' = Delete(recent, a + 1 .. Height(tip))
      /\ staging' = << >> /\ pc' = "staging" /\ target' = t /\ ancestor' = a
  BY <1>3, <1>6 DEF BeginReorg, durable
<1>8. DOMAIN << >> = {} /\ a + 1 .. a = {}
  BY <1>1
<1>9. TypeOK'
  BY <1>1, <1>4, <1>7, <1>8, SMTT(30) DEF IndInv, TypeOK, IsTable, Delete
<1>10. ChainInv' /\ RetentionInv'
  BY <1>7, SMTT(30) DEF IndInv, ChainInv, TipTerminalValid, RetentionInv, NonfinalSuffixCovered
<1>11. HotInv'
  <2>1. \A h \in DOMAIN recent : h \in Nat /\ h <= Height(tip) /\ recent[h] = Ancestor(tip, h)
    BY <1>1 DEF IndInv, TypeOK, IsTable, HotInv
  <2>2. \A h \in DOMAIN recent' : h <= a /\ recent'[h] = Ancestor(Ancestor(tip, a), h)
    BY <1>1, <1>5, <1>7, <2>1 DEF Delete
  <2> QED  BY <1>1, <1>4, <1>7, <2>2 DEF HotInv
<1>12. SuffixInv'
  BY <1>7 DEF SuffixInv
<1>13. StagingInv'
  <2>1. Extends(t, Ancestor(tip, a))
    BY <1>1, <1>2, <1>3, <1>4, HeightType DEF Extends
  <2> QED  BY <1>1, <1>2, <1>3, <1>4, <1>7, <1>8, <2>1, SMTT(30) DEF StagingInv, Wins
<1> QED  BY <1>9, <1>10, <1>11, <1>12, <1>13 DEF IndInv

\* One replacement block is applied in RAM.  The header that leaves the RAM window
\* lies at or below the ancestor because of MAX_REORG_REPLACEMENT_BLOCKS.
LEMMA StageReorgBlockInv ==
    ASSUME IndInv, StageReorgBlock
    PROVE  IndInv'
<1> DEFINE b == Ancestor(target, Height(tip) + 1)
           n == Height(tip) + 1
<1>1. /\ pc = "staging" /\ tip \in Block /\ target \in Block /\ durableTip \in Block
      /\ state = tip /\ tip /= target /\ ancestor \in Nat
      /\ Height(tip) \in Nat /\ Height(target) \in Nat
  BY HeightType DEF StageReorgBlock, IndInv, TypeOK
<1>2. /\ Extends(target, tip) /\ ancestor <= Height(tip)
      /\ Height(target) - ancestor <= MaxReplacement
      /\ DOMAIN staging = ancestor + 1 .. Height(tip)
      /\ \A h \in DOMAIN staging : staging[h] = Ancestor(target, h - 1) /\ h \in DOMAIN recent
  BY <1>1 DEF IndInv, StagingInv
<1>3. Height(tip) < Height(target)
  BY <1>1, <1>2, AncestorSelf DEF Extends
<1>4. b \in Block /\ Height(b) = n /\ Parent(b) = tip /\ Extends(target, b)
  BY <1>1, <1>2, <1>3, NextOnPath
<1>5. Ancestor(b, n) = b /\ \A h \in 0 .. Height(tip) : Ancestor(b, h) = Ancestor(tip, h)
  BY <1>1, <1>4, ChildFacts, AncestorSelf
<1>6. /\ UNCHANGED <<headers, durableTip, durableFinalized, segments, undoLogs, recentBlocks>>
      /\ UNCHANGED <<terminals, watermark, authority, finalized, pc, target, ancestor>>
      /\ tip' = b /\ state' = b /\ staging' = Put(staging, n, tip)
      /\ recent' = Delete(Put(recent, n, b), {n - HeaderLookback - 1})
  BY <1>1, <1>4 DEF StageReorgBlock, PublishTip, durable, writer
<1>7. TypeOK'
  BY <1>1, <1>4, <1>6, SMTT(30) DEF IndInv, TypeOK, IsTable, Put, Delete
<1>8. ChainInv' /\ RetentionInv'
  BY <1>6, Zenon DEF IndInv, ChainInv, TipTerminalValid, RetentionInv, NonfinalSuffixCovered
<1>9. HotInv'
  <2>1. /\ \A h \in DOMAIN recent : h \in Nat /\ h <= Height(tip) /\ recent[h] = Ancestor(tip, h)
        /\ finalized = durableFinalized
    BY <1>1 DEF IndInv, TypeOK, IsTable, HotInv
  <2>2. \A h \in DOMAIN recent' : h <= n /\ recent'[h] = Ancestor(b, h)
    BY <1>1, <1>5, <1>6, <2>1, SMTT(30) DEF Put, Delete
  <2> QED  BY <1>1, <1>4, <1>6, <2>1, <2>2, Zenon DEF HotInv
<1>10. SuffixInv'
  BY <1>1, <1>6 DEF SuffixInv
<1>11. StagingInv'
  <2>1. DOMAIN staging' = ancestor + 1 .. n
    <3>1. DOMAIN staging' = (ancestor + 1 .. Height(tip)) \cup {n}
      BY <1>2, <1>6, Zenon DEF Put
    <3>2. (ancestor + 1 .. Height(tip)) \cup {n} = ancestor + 1 .. n
      BY <1>1, <1>2
    <3> QED  BY <3>1, <3>2
  <2>2. n - HeaderLookback - 1 < ancestor + 1
    BY <1>1, <1>2, <1>3, DepthAssumption
  <2>3. ASSUME NEW h \in ancestor + 1 .. n
        PROVE  h \in DOMAIN recent'
    <3>1. DOMAIN recent' = (DOMAIN recent \cup {n}) \ {n - HeaderLookback - 1}
      BY <1>6 DEF Put, Delete
    <3>2. h /= n - HeaderLookback - 1
      BY <1>1, <2>2, DepthAssumption
    <3>3. h = n \/ h \in ancestor + 1 .. Height(tip)
      BY <1>1
    <3> QED  BY <1>2, <3>1, <3>2, <3>3
  <2>4. tip = Ancestor(target, n - 1)
    BY <1>1, <1>2 DEF Extends
  <2>5. ASSUME NEW h \in ancestor + 1 .. n
        PROVE  staging'[h] = Ancestor(target, h - 1)
    <3>1. staging' = [k \in DOMAIN staging \cup {n} |-> IF k = n THEN tip ELSE staging[k]]
      BY <1>6 DEF Put
    <3>2. CASE h = n
      BY <2>4, <3>1, <3>2
    <3>3. CASE h /= n
      <4>1. h \in ancestor + 1 .. Height(tip)
        BY <1>1, <3>3
      <4> QED  BY <1>2, <3>1, <3>3, <4>1
    <3> QED  BY <3>2, <3>3
  <2>6. ancestor <= n
    BY <1>1, <1>2
  <2>7. /\ Height(durableFinalized) <= ancestor /\ ancestor < Height(durableTip)
        /\ Height(durableTip) - ancestor <= FinalityDepth /\ ancestor < Height(target)
        /\ Ancestor(target, ancestor) = Ancestor(durableTip, ancestor) /\ Wins(target, durableTip)
    BY <1>1 DEF IndInv, StagingInv
  <2> QED  BY <1>2, <1>4, <1>6, <2>1, <2>3, <2>5, <2>6, <2>7, Zenon DEF StagingInv, Wins
<1> QED  BY <1>7, <1>8, <1>9, <1>10, <1>11 DEF IndInv

\* The branches agree up to the ancestor of a staged reorg.
LEMMA BranchesAgree ==
    ASSUME IndInv, pc = "staging", NEW h \in 0 .. ancestor
    PROVE  Ancestor(target, h) = Ancestor(durableTip, h)
<1>1. /\ target \in Block /\ durableTip \in Block /\ ancestor \in Nat
      /\ ancestor < Height(durableTip) /\ ancestor < Height(target)
      /\ Ancestor(target, ancestor) = Ancestor(durableTip, ancestor)
  BY DEF IndInv, TypeOK, StagingInv
<1>2. ancestor \in 0 .. Height(durableTip) /\ ancestor \in 0 .. Height(target)
  BY <1>1, HeightType
<1> QED  BY <1>1, <1>2, HeightType, AncestorAncestor

\* The transaction that replaces the old suffix.
LEMMA CommitReorgInv ==
    ASSUME IndInv, CommitReorg
    PROVE  IndInv'
<1> DEFINE fin == FinalizedForTip(Height(tip))
<1>1. /\ pc = "staging" /\ tip = target /\ tip \in Block /\ durableTip \in Block
      /\ durableFinalized \in Block /\ finalized = durableFinalized /\ state = tip
      /\ ancestor \in Nat /\ watermark \in Nat
      /\ Height(tip) \in Nat /\ Height(durableTip) \in Nat /\ Height(durableFinalized) \in Nat
  BY HeightType DEF CommitReorg, IndInv, TypeOK, HotInv
<1>2. /\ Height(durableFinalized) <= ancestor /\ ancestor < Height(durableTip)
      /\ ancestor < Height(tip) /\ DOMAIN staging = ancestor + 1 .. Height(tip)
      /\ \A h \in DOMAIN staging : staging[h] = Ancestor(tip, h - 1)
  BY <1>1 DEF IndInv, StagingInv
<1>3. \A h \in 0 .. ancestor : Ancestor(tip, h) = Ancestor(durableTip, h)
  BY <1>1, BranchesAgree
<1>4. fin \in Block /\ Extends(tip, fin) /\ Extends(fin, finalized)
      /\ Height(tip) - Height(fin) <= FinalityDepth
  BY <1>1, FinalizedAdvances, ExtendsFacts
<1>5. Height(fin) \in Nat /\ Height(durableFinalized) <= Height(fin) /\ Height(fin) <= Height(tip)
  BY <1>1, <1>4, HeightType DEF Extends
<1>6. /\ headers' = ReorgHeaders /\ durableTip' = tip /\ durableFinalized' = fin
      /\ segments' = tip /\ terminals' = ReorgTerminals
      /\ undoLogs' = [h \in {k \in DOMAIN undoLogs : k <= ancestor} \cup DOMAIN staging |->
                        IF h <= ancestor THEN undoLogs[h] ELSE staging[h]]
      /\ recentBlocks' = {h \in recentBlocks : h <= ancestor} \cup (ancestor + 1 .. Height(tip))
      /\ watermark' = Min2(watermark, ancestor) /\ authority' = NoAuthority
      /\ finalized' = fin /\ staging' = << >> /\ pc' = "prune" /\ target' = Genesis
      /\ ancestor' = 0 /\ tip' = tip /\ state' = state /\ recent' = recent
  BY <1>1 DEF CommitReorg, ReorgUndoLogs
<1>7. /\ DOMAIN terminals' = {h \in DOMAIN terminals : h <= ancestor} \cup (ancestor + 1 .. Height(tip))
      /\ \A h \in DOMAIN terminals' : terminals'[h] \in Block \cup {Complete}
      /\ terminals'[Height(tip)] = Complete
  BY <1>1, <1>2, <1>6, SMTT(30) DEF ReorgTerminals, IndInv, TypeOK, IsTable
<1>8. /\ DOMAIN headers' = 0 .. Height(tip)
      /\ \A h \in 0 .. Height(tip) : headers'[h] = Ancestor(tip, h)
  <2>1. /\ DOMAIN headers = 0 .. Height(durableTip)
        /\ \A h \in 0 .. Height(durableTip) : headers[h] = Ancestor(durableTip, h)
    BY DEF IndInv, ChainInv
  <2>2. DOMAIN headers' = 0 .. Height(tip)
    BY <1>1, <1>2, <1>6, <2>1, SMTT(30) DEF ReorgHeaders
  <2> QED  BY <1>1, <1>2, <1>3, <1>6, <2>1, <2>2 DEF ReorgHeaders
<1>9. TypeOK'
  <2>1. IsTable(headers', Block)
    <3>1. headers' = [h \in DOMAIN headers' |-> headers'[h]]
      BY <1>6 DEF ReorgHeaders
    <3>2. \A h \in DOMAIN headers' : headers'[h] \in Block
      BY <1>1, <1>8, AncestorBlock
    <3> QED  BY <1>1, <1>8, <3>1, <3>2 DEF IsTable
  <2>2. IsTable(terminals', Block \cup {Complete})
    <3>1. DOMAIN terminals' \subseteq Nat
      BY <1>1, <1>7 DEF IndInv, TypeOK, IsTable
    <3>2. terminals' = [h \in DOMAIN terminals' |-> terminals'[h]]
      BY <1>6 DEF ReorgTerminals
    <3> QED  BY <1>7, <3>1, <3>2 DEF IsTable
  <2>3. IsTable(undoLogs', Block)
    <3>1. \A h \in DOMAIN staging : h \in Nat /\ staging[h] \in Block
      BY DEF IndInv, TypeOK, IsTable
    <3>2. \A h \in DOMAIN undoLogs : h \in Nat /\ undoLogs[h] \in Block
      BY DEF IndInv, TypeOK, IsTable
    <3>3. \A h \in DOMAIN staging : ~(h <= ancestor)
      BY <1>1, <1>2
    <3>4. /\ DOMAIN undoLogs' \subseteq Nat
          /\ undoLogs' = [h \in DOMAIN undoLogs' |-> undoLogs'[h]]
      BY <1>6, <3>1, <3>2
    <3>5. \A h \in DOMAIN undoLogs' : undoLogs'[h] \in Block
      BY <1>6, <3>1, <3>2, <3>3
    <3> QED  BY <3>4, <3>5 DEF IsTable
  <2>4. watermark' \in Nat /\ recentBlocks' \subseteq Nat
    <3>1. watermark' \in Nat
      BY <1>1, <1>6 DEF Min2
    <3>2. recentBlocks \subseteq Nat /\ ancestor + 1 .. Height(tip) \subseteq Nat
      BY <1>1 DEF IndInv, TypeOK
    <3> QED  BY <1>6, <3>1, <3>2, Zenon
  <2>5. DOMAIN << >> = {} /\ IsTable(<< >>, Block)
    BY DEF IsTable
  <2> QED  BY <1>1, <1>4, <1>6, <2>1, <2>2, <2>3, <2>4, <2>5, GenesisHeight, SMTT(30) DEF IndInv, TypeOK
<1>10. ChainInv'
  <2>1. TipTerminalValid'
    BY <1>1, <1>2, <1>6, <1>7 DEF TipTerminalValid
  <2> QED  BY <1>4, <1>6, <1>8, <2>1, SMTT(30) DEF ChainInv
<1>11. RetentionInv'
  <2>1. watermark = 0 \/ watermark < Height(durableFinalized)
    BY DEF IndInv, RetentionInv
  <2>2. watermark' = watermark
    BY <1>1, <1>2, <1>6, <2>1, SMTT(30) DEF Min2
  <2>3. \A h \in watermark + 1 .. Height(tip) : h \in DOMAIN terminals'
    BY <1>1, <1>2, <1>7 DEF IndInv, RetentionInv
  <2>4. ASSUME NEW h \in Height(fin) + 1 .. Height(tip)
        PROVE  h \in DOMAIN undoLogs' /\ undoLogs'[h] = Ancestor(tip, h - 1)
               /\ h \in recentBlocks' /\ h \in DOMAIN terminals'
    <3>1. CASE h <= ancestor
      <4>1. h \in Height(durableFinalized) + 1 .. Height(durableTip) /\ h - 1 \in 0 .. ancestor
        BY <1>1, <1>2, <1>5, <3>1
      <4>2. /\ h \in DOMAIN undoLogs /\ undoLogs[h] = Ancestor(durableTip, h - 1)
            /\ h \in recentBlocks /\ h \in DOMAIN terminals
        BY <4>1 DEF IndInv, RetentionInv, NonfinalSuffixCovered
      <4> QED  BY <1>3, <1>6, <1>7, <3>1, <4>1, <4>2, SMTT(30)
    <3>2. CASE ~(h <= ancestor)
      <4>1. h \in ancestor + 1 .. Height(tip)
        BY <1>1, <1>5, <3>2
      <4> QED  BY <1>2, <1>6, <1>7, <3>2, <4>1, SMTT(30)
    <3> QED  BY <3>1, <3>2
  <2>5. watermark' = 0 \/ watermark' < Height(fin)
    BY <1>1, <1>5, <2>1, <2>2
  <2> QED  BY <1>6, <2>2, <2>3, <2>4, <2>5 DEF RetentionInv, NonfinalSuffixCovered
<1>12. HotInv' /\ SuffixInv' /\ StagingInv'
  BY <1>1, <1>6, Zenon DEF IndInv, HotInv, SuffixInv, StagingInv
<1> QED  BY <1>9, <1>10, <1>11, <1>12 DEF IndInv
-------------------------------------------------------------------------------
\* A snapshot install starts a new retention epoch at its boundary.
LEMMA InstallSnapshotInv ==
    ASSUME IndInv, NEW t \in Block, InstallSnapshot(t)
    PROVE  IndInv'
<1>1. Height(t) \in Nat /\ Height(t) > 0 /\ pc = "idle"
  BY HeightType, SMTT(30) DEF InstallSnapshot, IndInv, TypeOK
<1>2. /\ headers' = [h \in 0 .. Height(t) |-> Ancestor(t, h)]
      /\ durableTip' = t /\ durableFinalized' = t /\ segments' = t /\ undoLogs' = << >>
      /\ recentBlocks' = {} /\ terminals' = [h \in {Height(t)} |-> Complete]
      /\ watermark' = Height(t) - 1 /\ authority' = NoAuthority
      /\ tip' = t /\ finalized' = t /\ state' = t
      /\ recent' = [h \in Monus(Height(t), SnapshotWindow) .. Height(t) |-> Ancestor(t, h)]
      /\ staging' = staging /\ pc' = pc /\ target' = target /\ ancestor' = ancestor
  BY DEF InstallSnapshot, SnapshotWatermark, writer
<1>3. /\ Monus(Height(t), SnapshotWindow) \in Nat
      /\ \A h \in Monus(Height(t), SnapshotWindow) .. Height(t) : h \in 0 .. Height(t)
  BY <1>1, DepthAssumption DEF Monus
<1>4. \A h \in 0 .. Height(t) : Ancestor(t, h) \in Block
  BY AncestorBlock
<1>5. TypeOK'
  <2>1. DOMAIN << >> = {} /\ IsTable(<< >>, Block)
    BY DEF IsTable
  <2>2. IsTable(headers', Block) /\ IsTable(recent', Block)
    BY <1>1, <1>2, <1>3, <1>4 DEF IsTable
  <2>3. IsTable(terminals', Block \cup {Complete})
    BY <1>1, <1>2 DEF IsTable
  <2> QED  BY <1>1, <1>2, <2>1, <2>2, <2>3, SMTT(30) DEF IndInv, TypeOK
<1>6. ChainInv'
  <2>1. TipTerminalValid'
    BY <1>2, Zenon DEF TipTerminalValid
  <2> QED  BY <1>1, <1>2, <2>1, ExtendsFacts, DepthAssumption, SMTT(30) DEF ChainInv
<1>7. RetentionInv'
  BY <1>1, <1>2 DEF RetentionInv, NonfinalSuffixCovered
<1>8. HotInv'
  BY <1>2, <1>3 DEF HotInv
<1>9. SuffixInv' /\ StagingInv'
  BY <1>1, <1>2, SMTT(30) DEF IndInv, SuffixInv, StagingInv
<1> QED  BY <1>5, <1>6, <1>7, <1>8, <1>9 DEF IndInv

\* Payload retirement stays strictly below the finalized checkpoint.
LEMMA PrunePayloadsInv ==
    ASSUME IndInv, NEW n \in 0 .. PruneHeightLimit, NEW dropBody \in BOOLEAN,
           PrunePayloads(n, dropBody)
    PROVE  IndInv'
<1> DEFINE last == watermark + n
<1>1. /\ pc = "prune" /\ pc' = "pruneUndo" /\ watermark' = last
      /\ terminals' = Delete(terminals, watermark + 1 .. last)
      /\ UNCHANGED <<headers, durableTip, durableFinalized, segments, undoLogs, authority>>
      /\ UNCHANGED <<tip, finalized, state, recent, staging, target, ancestor>>
  BY DEF PrunePayloads, hot
<1>2. /\ n \in Nat /\ watermark \in Nat /\ last \in Nat
      /\ durableTip \in Block /\ durableFinalized \in Block
      /\ Height(durableTip) \in Nat /\ Height(durableFinalized) \in Nat
      /\ Height(durableFinalized) <= Height(durableTip)
  BY HeightType, DepthAssumption, SMTT(30) DEF IndInv, TypeOK, ChainInv, Extends
<1>3. PruneCutoff \in Nat /\ PruneCutoff <= Height(durableFinalized)
  BY <1>2, DepthAssumption DEF PruneCutoff, Min2, Monus
<1>4. last < PruneCutoff
  BY <1>2, <1>3, DepthAssumption DEF PrunePayloads, PruneBudget, Min2
<1>5. \A h : h \in recentBlocks /\ h \in Nat /\ h > Height(durableFinalized) => h \in recentBlocks'
  <2>1. recentBlocks \ ((watermark + 1 .. last) \cup {PruneCutoff}) \subseteq recentBlocks'
    BY DEF PrunePayloads
  <2> QED  BY <1>2, <1>3, <1>4, <2>1
<1>6. recentBlocks' \subseteq recentBlocks
  BY DEF PrunePayloads
<1>7. /\ DOMAIN terminals' = DOMAIN terminals \ (watermark + 1 .. last)
      /\ \A h \in DOMAIN terminals' : terminals'[h] = terminals[h]
  BY <1>1 DEF Delete
<1>8. \A h \in DOMAIN terminals : h > last => h \in DOMAIN terminals'
  BY <1>2, <1>7, SMTT(30) DEF IndInv, TypeOK, IsTable
<1>9. TypeOK'
  <2>1. IsTable(terminals', Block \cup {Complete})
    BY <1>1, <1>7 DEF IndInv, TypeOK, IsTable, Delete
  <2> QED  BY <1>1, <1>2, <1>6, <2>1, SMTT(30) DEF IndInv, TypeOK
<1>10. ChainInv'
  <2>1. TipTerminalValid'
    BY <1>1, <1>2, <1>3, <1>4, <1>7, <1>8 DEF IndInv, ChainInv, TipTerminalValid
  <2> QED  BY <1>1, <2>1 DEF IndInv, ChainInv
<1>11. RetentionInv'
  <2>1. watermark' < Height(durableFinalized')
    BY <1>1, <1>2, <1>3, <1>4
  <2>2. \A h \in last + 1 .. Height(durableTip) : h \in DOMAIN terminals'
    BY <1>2, <1>8 DEF IndInv, RetentionInv
  <2>3. ASSUME NEW h \in Height(durableFinalized) + 1 .. Height(durableTip)
        PROVE  h \in DOMAIN undoLogs /\ undoLogs[h] = Ancestor(durableTip, h - 1)
               /\ h \in recentBlocks' /\ h \in DOMAIN terminals'
    <3>1. /\ h \in DOMAIN undoLogs /\ undoLogs[h] = Ancestor(durableTip, h - 1)
          /\ h \in recentBlocks /\ h \in DOMAIN terminals
      BY DEF IndInv, RetentionInv, NonfinalSuffixCovered
    <3>2. h \in Nat /\ h > Height(durableFinalized) /\ h > last
      BY <1>2, <1>3, <1>4
    <3> QED  BY <1>5, <1>8, <3>1, <3>2
  <2> QED  BY <1>1, <2>1, <2>2, <2>3 DEF RetentionInv, NonfinalSuffixCovered
<1>12. HotInv' /\ SuffixInv' /\ StagingInv'
  BY <1>1, Zenon DEF IndInv, HotInv, SuffixInv, StagingInv
<1> QED  BY <1>9, <1>10, <1>11, <1>12 DEF IndInv

\* The undo retention depth exceeds the finality depth.
LEMMA PruneUndoLogsInv ==
    ASSUME IndInv, PruneUndoLogs
    PROVE  IndInv'
<1>1. /\ pc = "pruneUndo"
      /\ undoLogs' = Delete(undoLogs, {h \in 0 .. Height(durableTip) - UndoRetention :
                                         Height(durableTip) > UndoRetention})
      /\ UNCHANGED <<headers, durableTip, durableFinalized, segments, recentBlocks, terminals>>
      /\ UNCHANGED <<watermark, authority, tip, finalized, state, recent, staging>>
      /\ UNCHANGED <<target, ancestor>>
      /\ \/ pc' = "idle" /\ target = Genesis
         \/ pc' = "suffix" /\ target /= Genesis
  BY DEF PruneUndoLogs, AfterPruning, hot
<1>2. /\ durableTip \in Block /\ durableFinalized \in Block
      /\ Height(durableTip) \in Nat /\ Height(durableFinalized) \in Nat
      /\ Height(durableTip) - Height(durableFinalized) <= FinalityDepth
  BY HeightType DEF IndInv, TypeOK, ChainInv
<1>3. TypeOK'
  BY <1>1 DEF IndInv, TypeOK, IsTable, Delete
<1>4. ChainInv'
  BY <1>1 DEF IndInv, ChainInv, TipTerminalValid
<1>5. ASSUME NEW h \in Height(durableFinalized) + 1 .. Height(durableTip)
      PROVE  h \in DOMAIN undoLogs' /\ undoLogs'[h] = undoLogs[h]
  <2>1. h \in DOMAIN undoLogs
    BY DEF IndInv, RetentionInv, NonfinalSuffixCovered
  <2>2. h \notin 0 .. Height(durableTip) - UndoRetention
    BY <1>2, DepthAssumption
  <2> QED  BY <1>1, <2>1, <2>2 DEF Delete
<1>6. RetentionInv'
  BY <1>1, <1>5, SMTT(30) DEF IndInv, RetentionInv, NonfinalSuffixCovered
<1>7. HotInv' /\ SuffixInv' /\ StagingInv'
  BY <1>1, Zenon DEF IndInv, HotInv, SuffixInv, StagingInv
<1> QED  BY <1>3, <1>4, <1>6, <1>7 DEF IndInv
-------------------------------------------------------------------------------
\* Every step of the writer, the pruner, a crash and a restart keeps the
\* invariant.
LEMMA NextInv ==
    ASSUME IndInv, [Next]_vars
    PROVE  IndInv'
<1>1. CASE \E b \in Block : CommitCompleteBlock(b)
  BY <1>1, CommitCompleteBlockInv
<1>2. CASE \E b \in Block : BeginRecursiveSuffix(b)
  BY <1>2, BeginRecursiveSuffixInv
<1>3. CASE \E b \in Block : InstallSnapshot(b)
  BY <1>3, InstallSnapshotInv
<1>4. CASE \E b \in Block : \E a \in 0 .. Height(tip) : BeginReorg(a, b)
  BY <1>4, BeginReorgInv
<1>5. CASE ApplySuffixBlock
  BY <1>5, ApplySuffixBlockInv
<1>6. CASE StageReorgBlock
  BY <1>6, StageReorgBlockInv
<1>7. CASE CommitReorg
  BY <1>7, CommitReorgInv
<1>8. CASE \E n \in 0 .. PruneHeightLimit, dropBody \in BOOLEAN : PrunePayloads(n, dropBody)
  BY <1>8, PrunePayloadsInv
<1>9. CASE PruneUndoLogs
  BY <1>9, PruneUndoLogsInv
<1>10. CASE RejectSuffixBlock \/ PruneNothing \/ PruneFails
  BY <1>10, WriterOnlyInv
<1>11. CASE Crash
  BY <1>11, CrashInv
<1>12. CASE AbortReorg \/ Restart
  BY <1>12, ReloadInv
<1>13. CASE UNCHANGED vars
  <2>1. TypeOK' /\ ChainInv' /\ RetentionInv'
    BY <1>13 DEF vars, durable, hot, writer, IndInv, TypeOK, IsTable, ChainInv, TipTerminalValid,
                RetentionInv, NonfinalSuffixCovered
  <2>2. HotInv' /\ SuffixInv' /\ StagingInv'
    BY <1>13, Zenon DEF vars, durable, hot, writer, IndInv, HotInv, SuffixInv, StagingInv
  <2> QED  BY <2>1, <2>2 DEF IndInv
<1> QED  BY <1>1, <1>2, <1>3, <1>4, <1>5, <1>6, <1>7, <1>8, <1>9, <1>10, <1>11, <1>12, <1>13 DEF Next

\* The inductive invariant holds in every reachable state, for every block tree,
\* work function and choice of depths the assumptions allow.
THEOREM InductiveInvariant == Spec => []IndInv
<1>1. Init => IndInv
  BY InitInv
<1>2. IndInv /\ [Next]_vars => IndInv'
  BY NextInv
<1> QED  BY <1>1, <1>2, PTL DEF Spec

\* Type correctness of the tables, the hot view and the writer.
THEOREM TypeCorrect == Spec => []TypeOK
<1>1. IndInv => TypeOK
  BY DEF IndInv
<1> QED  BY <1>1, InductiveInvariant, PTL

\* Outside a staged reorg the RAM view of MdbxChainContext and the MDBX tables
\* name the same tip, checkpoint and state.
THEOREM HotMirror == Spec => []HotMirrorsDurable
<1>1. IndInv => HotMirrorsDurable
  BY DEF IndInv, HotInv, ChainInv, HotMirrorsDurable
<1> QED  BY <1>1, InductiveInvariant, PTL

\* A crash at any instant leaves tables that restore_from_mdbx accepts, so
\* open_or_create never clears the database.
THEOREM CrashSafety == Spec => []DurableImageRestorable
<1>1. IndInv => DurableImageRestorable
  BY Restorable DEF DurableImageRestorable
<1> QED  BY <1>1, InductiveInvariant, PTL

\* get_header_from_store answers from the branch being applied, also while MDBX
\* still holds the branch a staged reorg replaces.
THEOREM HeaderReads == Spec => []HeaderReadsFollowTip
<1>1. IndInv => HeaderReadsFollowTip
  BY HeaderRead, HeaderFound DEF HeaderReadsFollowTip
<1> QED  BY <1>1, InductiveInvariant, PTL

\* Every non-final block keeps its undo log, body and terminal.
THEOREM SuffixCoverage == Spec => []NonfinalSuffixCovered
<1>1. IndInv => NonfinalSuffixCovered
  BY DEF IndInv, RetentionInv
<1> QED  BY <1>1, InductiveInvariant, PTL

\* prune_retained_payloads_bounded always finds the terminal rows it retires.
THEOREM RetirementProgress == Spec => []RetirementNeverStalls
<1>1. ASSUME IndInv PROVE RetirementNeverStalls
  <2>1. /\ watermark \in Nat /\ durableTip \in Block /\ durableFinalized \in Block
        /\ Height(durableTip) \in Nat /\ Height(durableFinalized) \in Nat
        /\ Height(durableFinalized) <= Height(durableTip)
    BY <1>1, HeightType DEF IndInv, TypeOK, ChainInv, Extends
  <2>2. PruneCutoff \in Nat /\ PruneCutoff <= Height(durableTip)
    BY <2>1, DepthAssumption DEF PruneCutoff, Min2, Monus
  <2> QED  BY <1>1, <2>1, <2>2 DEF IndInv, RetentionInv, RetirementNeverStalls
<1> QED  BY <1>1, InductiveInvariant, PTL

\* The checks of commit_reorg pass for every fully staged reorg.
LEMMA StagedReorgCommits ==
    ASSUME IndInv, pc = "staging", tip = target
    PROVE  ReorgCommitValid
<1>1. /\ target \in Block /\ durableTip \in Block /\ durableFinalized \in Block
      /\ ancestor \in Nat /\ watermark \in Nat
      /\ Height(target) \in Nat /\ Height(durableTip) \in Nat /\ Height(durableFinalized) \in Nat
  BY HeightType DEF IndInv, TypeOK
<1>2. /\ Height(durableFinalized) <= ancestor /\ ancestor < Height(durableTip)
      /\ Height(durableTip) - ancestor <= FinalityDepth /\ ancestor < Height(target)
  BY DEF IndInv, StagingInv
<1>3. /\ DOMAIN ReorgHeaders = 0 .. Height(target)
      /\ \A h \in 0 .. Height(target) : ReorgHeaders[h] = Ancestor(target, h)
  <2>1. /\ DOMAIN headers = 0 .. Height(durableTip)
        /\ \A h \in 0 .. Height(durableTip) : headers[h] = Ancestor(durableTip, h)
    BY DEF IndInv, ChainInv
  <2>2. \A h \in 0 .. ancestor : Ancestor(target, h) = Ancestor(durableTip, h)
    BY BranchesAgree
  <2>3. DOMAIN ReorgHeaders = 0 .. Height(target)
    BY <1>1, <1>2, <2>1 DEF ReorgHeaders
  <2> QED  BY <1>1, <1>2, <2>1, <2>2, <2>3, SMTT(30) DEF ReorgHeaders
<1>4. DOMAIN ReorgTerminals = {h \in DOMAIN terminals : h <= ancestor} \cup (ancestor + 1 .. Height(target))
  BY DEF ReorgTerminals
<1>5. ReorgTerminals[Height(target)] = Complete /\ Height(target) \in DOMAIN ReorgTerminals
  BY <1>1, <1>2, <1>4, SMTT(30) DEF ReorgTerminals
<1>6. ASSUME NEW h \in ancestor + 1 .. Height(target)
      PROVE  ParentBoundaryValid(Ancestor(target, h - 1), ReorgHeaders, ReorgTerminals, authority)
  <2> DEFINE p == Ancestor(target, h - 1)
  <2>1. h - 1 \in Nat /\ h - 1 \in 0 .. Height(target) /\ h - 1 < Height(target) /\ ancestor <= h - 1
    BY <1>1, <1>2
  <2>2. p \in Block /\ Height(p) = h - 1
    BY <1>1, <2>1, AncestorBlock
  <2>3. Height(p) \in DOMAIN ReorgHeaders /\ ReorgHeaders[Height(p)] = p
    BY <1>3, <2>1, <2>2
  <2>4. ASSUME p /= Genesis
        PROVE  /\ h - 1 \in DOMAIN ReorgTerminals
               /\ ReorgTerminals[h - 1] = Complete \/ ReorgTerminals[h - 1] = target
    <3>1. h - 1 > 0
      BY <2>1, <2>2, <2>4, GenesisHeight
    <3>2. CASE h - 1 = ancestor
      <4>1. watermark = 0 \/ watermark < Height(durableFinalized)
        BY DEF IndInv, RetentionInv
      <4>2. ancestor \in watermark + 1 .. Height(durableTip)
        BY <1>1, <1>2, <3>1, <3>2, <4>1
      <4>3. ancestor \in DOMAIN terminals
        BY <4>2 DEF IndInv, RetentionInv
      <4>4. ancestor \in DOMAIN ReorgTerminals /\ ancestor >= ancestor - FinalityDepth
            /\ ~(ancestor > ancestor) /\ ancestor /= Height(target)
        BY <1>1, <1>2, <1>4, <4>3, DepthAssumption
      <4> QED  BY <3>2, <4>4 DEF ReorgTerminals
    <3>3. CASE h - 1 /= ancestor
      <4>1. h - 1 \in ancestor + 1 .. Height(target) /\ h - 1 > ancestor
        BY <1>1, <2>1, <3>3
      <4> QED  BY <1>4, <4>1 DEF ReorgTerminals
    <3> QED  BY <3>2, <3>3
  <2>5. MarkerHasAuthority(h - 1, target, ReorgHeaders, ReorgTerminals, authority)
    <3>1. ReorgHeaders[Height(target)] = target /\ Height(target) \in DOMAIN ReorgHeaders
      BY <1>1, <1>3, AncestorSelf
    <3> QED  BY <1>1, <1>5, <2>1, <3>1 DEF MarkerHasAuthority
  <2> QED  BY <2>2, <2>3, <2>4, <2>5 DEF ParentBoundaryValid
<1> QED  BY <1>1, <1>2, <1>6 DEF ReorgCommitValid

\* Compact-sync markers never make a commit of the next block or of a staged
\* reorg fail its HistoryStep parent check.
THEOREM MarkersHarmless == Spec => []MarkersNeverBlockCommit
<1>1. ASSUME IndInv PROVE ParentBoundaryValid(durableTip, headers, terminals, authority)
  <2>1. durableTip \in Block /\ Height(durableTip) \in Nat
    BY <1>1, HeightType DEF IndInv, TypeOK
  <2>2. Height(durableTip) \in DOMAIN headers /\ headers[Height(durableTip)] = durableTip
    BY <1>1, <2>1, AncestorSelf DEF IndInv, ChainInv
  <2>3. TipTerminalValid
    BY <1>1 DEF IndInv, ChainInv
  <2> QED  BY <2>1, <2>2, <2>3, GenesisHeight, SMTT(30) DEF ParentBoundaryValid, MarkerHasAuthority, TipTerminalValid
<1>2. IndInv => MarkersNeverBlockCommit
  BY <1>1, StagedReorgCommits DEF MarkersNeverBlockCommit
<1> QED  BY <1>2, InductiveInvariant, PTL
-------------------------------------------------------------------------------
\* The abstract module's descent and rollback floor in the terms of the store.
LEMMA AbstractTerms ==
    ASSUME NEW b \in Block
    PROVE  /\ \A a : Canonical!Extends(b, a) <=> Extends(b, a)
           /\ Canonical!RollbackFloor(b) = Ancestor(b, Monus(Height(b), FinalityDepth))
           /\ Monus(Height(b), FinalityDepth) \in 0 .. Height(b)
<1>1. Height(b) \in Nat /\ FinalityDepth \in Nat
  BY HeightType, DepthAssumption
<1>2. \A a : Canonical!Extends(b, a) <=> Extends(b, a)
  BY DEF Canonical!Extends, Extends, Height, Ancestor
<1>3. Monus(Height(b), FinalityDepth) \in 0 .. Height(b)
  BY <1>1 DEF Monus
<1>4. CASE Height(b) <= FinalityDepth
  <2>1. Canonical!RollbackFloor(b) = Genesis
    BY <1>4 DEF Canonical!RollbackFloor, Canonical!Genesis, Genesis, Height
  <2>2. Monus(Height(b), FinalityDepth) = 0
    BY <1>1, <1>4 DEF Monus
  <2> QED  BY <1>2, <1>3, <2>1, <2>2, GenesisHeight
<1>5. CASE ~(Height(b) <= FinalityDepth)
  <2>1. Canonical!RollbackFloor(b) = Ancestor(b, Height(b) - FinalityDepth)
    BY <1>5, Zenon DEF Canonical!RollbackFloor, Ancestor, Height
  <2>2. Monus(Height(b), FinalityDepth) = Height(b) - FinalityDepth
    BY <1>1, <1>5 DEF Monus
  <2> QED  BY <1>2, <1>3, <2>1, <2>2
<1> QED  BY <1>4, <1>5

\* Work grows along a chain, so a proper extension wins fork choice.
LEMMA ExtensionWins ==
    ASSUME NEW p \in Block, NEW b \in Block, Extends(b, p), Height(p) < Height(b)
    PROVE  Wins(b, p)
<1>1. Height(p) \in 0 .. Len(b) - 1 /\ Ancestor(b, Height(p)) = p
  BY HeightType DEF Extends, Height
<1>2. ChainWork[p] < ChainWork[b] /\ ChainWork[p] \in Nat /\ ChainWork[b] \in Nat
  BY <1>1, BlockAssumption
<1>3. ChainWork[b] > ChainWork[p]
  BY <1>2
<1> QED  BY <1>2, <1>3 DEF Wins, ChooseChainByWork

\* A move of the durable tip to t that keeps the rollback floor and advances the
\* checkpoint to f is a step of the abstract chain.
LEMMA AbstractStep ==
    ASSUME durableTip \in Block, durableFinalized \in Block,
           NEW t \in Block, NEW f \in Block, NEW a \in 0 .. Height(durableTip),
           durableTip' = t, durableFinalized' = f, Wins(t, durableTip),
           Height(durableTip) - a <= FinalityDepth, a <= Height(t),
           Ancestor(t, a) = Ancestor(durableTip, a),
           Extends(t, f), Extends(f, durableFinalized), Height(t) - Height(f) <= FinalityDepth
    PROVE  Canonical!Next
<1> DEFINE m == Monus(Height(durableTip), FinalityDepth)
<1>1. Height(durableTip) \in Nat /\ Height(t) \in Nat /\ FinalityDepth \in Nat
  BY HeightType, DepthAssumption
<1>2. m \in 0 .. a /\ a \in 0 .. Height(t)
  BY <1>1 DEF Monus
<1>3. Ancestor(t, m) = Ancestor(durableTip, m) /\ m \in 0 .. Height(durableTip) /\ m \in 0 .. Height(t)
  BY <1>1, <1>2, AncestorAncestor, SMTT(30)
<1>4. Extends(t, Ancestor(t, m))
  BY <1>3, ExtendsFacts
<1>5. Canonical!Extends(t, Canonical!RollbackFloor(durableTip))
  BY <1>3, <1>4, AbstractTerms, SMTT(30)
<1>6. Canonical!Extends(t, f) /\ Canonical!Extends(f, durableFinalized)
  BY AbstractTerms
<1>7. Len(t) - Len(f) <= FinalityDepth
  BY DEF Height
<1>8. ChooseChainByWork(ChainWork[t], HashRank[t], ChainWork[durableTip], HashRank[durableTip]) = "A"
  BY SMTT(30) DEF Wins
<1> QED  BY <1>5, <1>6, <1>7, <1>8 DEF Canonical!Next, Canonical!ChooseChainByWork, ChooseChainByWork

\* A commit on the tip implements an abstract step.
LEMMA CommitImplements ==
    ASSUME IndInv, pc \in {"idle", "suffix"}, NEW b \in Block, NEW term, NEW remaining,
           Height(b) = Height(tip) + 1, Parent(b) = tip,
           CommitAppliedNextBlock(b, term, remaining)
    PROVE  Canonical!Next
<1>1. /\ tip \in Block /\ durableTip = tip /\ finalized = durableFinalized
      /\ durableFinalized \in Block /\ pc /= "down" /\ Height(tip) \in Nat
  BY HeightType DEF IndInv, TypeOK, HotInv
<1>2. Extends(b, tip) /\ Ancestor(b, Height(tip)) = Ancestor(tip, Height(tip))
  BY <1>1, ChildFacts
<1> DEFINE f == FinalizedForTip(Height(b))
<1>3. f \in Block /\ Extends(b, f) /\ Extends(f, finalized) /\ Height(b) - Height(f) <= FinalityDepth
  BY <1>1, <1>2, FinalizedAdvances, SMTT(30)
<1>4. Wins(b, tip)
  BY <1>1, <1>2, ExtensionWins
<1>5. durableTip' = b /\ durableFinalized' = f
  BY Zenon DEF CommitAppliedNextBlock, CommitBlock
<1>6. Height(tip) \in 0 .. Height(durableTip) /\ Height(tip) <= Height(b)
      /\ Height(durableTip) - Height(tip) <= FinalityDepth
  BY <1>1, DepthAssumption
<1> HIDE DEF f
<1> QED  BY <1>1, <1>2, <1>3, <1>4, <1>5, <1>6, AbstractStep

\* The commit of a staged reorg implements an abstract step.
LEMMA ReorgImplements ==
    ASSUME IndInv, CommitReorg
    PROVE  Canonical!Next
<1>1. /\ tip \in Block /\ tip = target /\ durableTip \in Block /\ finalized = durableFinalized
      /\ durableFinalized \in Block /\ pc = "staging" /\ Height(tip) \in Nat
      /\ Height(durableTip) \in Nat /\ ancestor \in Nat
  BY HeightType, SMTT(30) DEF CommitReorg, IndInv, TypeOK, HotInv
<1>2. /\ ancestor < Height(durableTip) /\ Height(durableTip) - ancestor <= FinalityDepth
      /\ ancestor < Height(tip) /\ Ancestor(tip, ancestor) = Ancestor(durableTip, ancestor)
      /\ Wins(tip, durableTip)
  BY <1>1 DEF IndInv, StagingInv
<1> DEFINE f == FinalizedForTip(Height(tip))
<1>3. f \in Block /\ Extends(tip, f) /\ Extends(f, finalized) /\ Height(tip) - Height(f) <= FinalityDepth
  BY <1>1, FinalizedAdvances, ExtendsFacts, SMTT(30)
<1>4. durableTip' = tip /\ durableFinalized' = f
  BY <1>1 DEF CommitReorg
<1>5. ancestor \in 0 .. Height(durableTip) /\ ancestor <= Height(tip)
  BY <1>1, <1>2
<1> HIDE DEF f
<1> QED  BY <1>1, <1>2, <1>3, <1>4, <1>5, AbstractStep

\* A snapshot install implements an abstract step: its headers contain the
\* accepted tip, or leave the accepted chain above finality and win fork choice.
LEMMA SnapshotImplements ==
    ASSUME IndInv, NEW t \in Block, InstallSnapshot(t)
    PROVE  Canonical!Next
<1>1. /\ durableTip \in Block /\ durableFinalized \in Block /\ tip = durableTip
      /\ Height(durableTip) \in Nat /\ Height(t) \in Nat /\ Height(durableFinalized) \in Nat
      /\ Height(t) > Height(durableTip) /\ durableTip' = t /\ durableFinalized' = t
  BY HeightType DEF InstallSnapshot, IndInv, TypeOK, HotInv
<1>2. Extends(durableTip, durableFinalized)
  BY DEF IndInv, ChainInv
<1>3. Extends(t, t) /\ Height(t) - Height(t) <= FinalityDepth
  BY <1>1, ExtendsFacts, DepthAssumption, SMTT(30)
<1>4. CASE Extends(t, durableTip)
  <2>1. Wins(t, durableTip) /\ Extends(t, durableFinalized)
    BY <1>1, <1>2, <1>4, ExtensionWins, ExtendsFacts
  <2>2. /\ Height(durableTip) \in 0 .. Height(durableTip) /\ Height(durableTip) <= Height(t)
        /\ Height(durableTip) - Height(durableTip) <= FinalityDepth
        /\ Ancestor(t, Height(durableTip)) = Ancestor(durableTip, Height(durableTip))
    BY <1>1, <1>4, AncestorSelf, DepthAssumption, SMTT(30) DEF Extends
  <2> QED  BY <1>1, <1>3, <2>1, <2>2, AbstractStep
<1>5. CASE ~Extends(t, durableTip)
  <2>1. PICK a \in Height(durableFinalized) .. Height(durableTip) - 1 :
           /\ Ancestor(t, a) = headers[a]
           /\ Height(durableTip) - a <= FinalityDepth
           /\ Wins(t, durableTip)
    BY <1>5 DEF InstallSnapshot, SnapshotHeadersAdmit
  <2>2. /\ a \in 0 .. Height(durableTip) /\ a \in 0 .. Height(t) /\ a <= Height(t)
        /\ Height(durableFinalized) \in 0 .. a
    BY <1>1, <2>1
  <2>3. Ancestor(t, a) = Ancestor(durableTip, a)
    BY <2>1, <2>2 DEF IndInv, ChainInv
  <2>4. Ancestor(t, Height(durableFinalized)) = Ancestor(durableTip, Height(durableFinalized))
    BY <1>1, <2>2, <2>3, AncestorAncestor
  <2>5. Extends(t, durableFinalized)
    BY <1>1, <1>2, <2>2, <2>4, SMTT(30) DEF Extends
  <2> QED  BY <1>1, <1>3, <2>1, <2>2, <2>3, <2>5, AbstractStep
<1> QED  BY <1>4, <1>5

\* Each step of the store is an abstract step or leaves tip and checkpoint alone.
LEMMA StepImplements ==
    ASSUME IndInv, [Next]_vars
    PROVE  Canonical!Next \/ UNCHANGED <<durableTip, durableFinalized>>
<1>1. CASE \E b \in Block : CommitCompleteBlock(b)
  <2>1. PICK b \in Block : CommitCompleteBlock(b)
    BY <1>1
  <2> QED  BY <2>1, CommitImplements DEF CommitCompleteBlock
<1>2. CASE ApplySuffixBlock
  <2> DEFINE b == Ancestor(target, Height(tip) + 1)
  <2>1. /\ pc = "suffix" /\ b \in Block /\ Height(b) = Height(tip) + 1 /\ Parent(b) = tip
    BY <1>2, NextOnPath, SMTT(30) DEF ApplySuffixBlock, IndInv, TypeOK, SuffixInv
  <2>2. \/ CommitAppliedNextBlock(b, Complete, Genesis)
        \/ CommitAppliedNextBlock(b, target, target)
    BY <1>2 DEF ApplySuffixBlock
  <2> HIDE DEF b
  <2> QED  BY <2>1, <2>2, CommitImplements
<1>3. CASE CommitReorg
  BY <1>3, ReorgImplements
<1>4. CASE \E b \in Block : InstallSnapshot(b)
  BY <1>4, SnapshotImplements
<1>5. CASE Restart
  BY <1>5, Restorable DEF Restart, durable
<1>6. CASE \/ \E b \in Block : BeginRecursiveSuffix(b) \/ \E a \in 0 .. Height(tip) : BeginReorg(a, b)
           \/ RejectSuffixBlock \/ StageReorgBlock \/ AbortReorg
           \/ \E n \in 0 .. PruneHeightLimit, dropBody \in BOOLEAN : PrunePayloads(n, dropBody)
           \/ PruneNothing \/ PruneUndoLogs \/ PruneFails \/ Crash \/ UNCHANGED vars
  BY <1>6, Zenon DEF BeginRecursiveSuffix, BeginReorg, RejectSuffixBlock, StageReorgBlock, AbortReorg,
              PrunePayloads, PruneNothing, PruneUndoLogs, PruneFails, Crash, durable, vars
<1> QED  BY <1>1, <1>2, <1>3, <1>4, <1>5, <1>6 DEF Next

\* The durable chain implements the abstract canonical chain: finality is never
\* undone, every change of tip wins fork choice, and no rollback is deeper than the
\* finality depth, across reorgs, snapshot installs, crashes and restarts.
THEOREM Refinement == Spec => ImplementsCanonicalChain
<1>1. Init => Canonical!Init
  BY DEF Init, Genesis, Canonical!Init, Canonical!Genesis
<1>2. IndInv /\ [Next]_vars => [Canonical!Next]_<<durableTip, durableFinalized>>
  BY StepImplements
<1> QED  BY <1>1, <1>2, InductiveInvariant, PTL DEF Spec, ImplementsCanonicalChain, Canonical!Spec
===============================================================================
