------------------------------- MODULE FeeFloor -------------------------------
(***************************************************************************)
(* The dynamic relay-fee floor of the mempool: nine tenths of the median   *)
(* of the last admitted fees, applied at any occupancy by the legacy       *)
(* policy and only while a pressure latch is set from v1.1 on.  The latch  *)
(* closes at 80% of the entry or byte limit and opens below 50% of both.   *)
(***************************************************************************)
EXTENDS Integers, Sequences, FiniteSets

CONSTANTS
    MinFeeBase,       \* MIN_FEE_BASE
    FloorWindow       \* fee_floor_window, at least one

Latch == {"legacy", "open", "set"}   \* pressure_active: None, Some(false), Some(true)

Higher(a, b) == IF a > b THEN a ELSE b

NewFloor == [recent |-> << >>, current |-> MinFeeBase, latch |-> "legacy"]

\* sorted[len / 2]: at most len / 2 entries are below it and more are not above it.
Median(s) ==
    CHOOSE m \in {s[i] : i \in DOMAIN s} :
        /\ Cardinality({i \in DOMAIN s : s[i] < m}) <= Len(s) \div 2
        /\ Cardinality({i \in DOMAIN s : s[i] <= m}) > Len(s) \div 2

Compute(s) == IF s = << >> THEN MinFeeBase ELSE Higher((Median(s) * 9) \div 10, MinFeeBase)

Record(f, fee) ==
    LET window == IF Len(f.recent) >= FloorWindow THEN Tail(f.recent) ELSE f.recent
        recent == Append(window, fee)
    IN  [f EXCEPT !.recent = recent, !.current = Compute(recent)]

Current(f) == IF f.latch = "open" THEN MinFeeBase ELSE f.current

Reset(f) ==
    [recent |-> << >>, current |-> MinFeeBase,
     latch |-> IF f.latch = "legacy" THEN "legacy" ELSE "open"]

BelowHalf(count, maxCount, bytes, maxBytes) == 2 * count < maxCount /\ 2 * bytes < maxBytes
AtPressure(count, maxCount, bytes, maxBytes) ==
    5 * count >= 4 * maxCount \/ 5 * bytes >= 4 * maxBytes

\* Mutant: the latch never opens again.
UpdatePressureNeverOpens(f, v11, count, maxCount, bytes, maxBytes) ==
    IF ~v11 THEN LET g == [f EXCEPT !.latch = "legacy"] IN IF count = 0 THEN Reset(g) ELSE g
    ELSE [f EXCEPT !.latch = IF AtPressure(count, maxCount, bytes, maxBytes) THEN "set"
                             ELSE IF f.latch = "legacy" THEN "open" ELSE f.latch]

UpdatePressure(f, v11, count, maxCount, bytes, maxBytes) ==
    IF ~v11 THEN LET g == [f EXCEPT !.latch = "legacy"] IN IF count = 0 THEN Reset(g) ELSE g
    ELSE IF count = 0 \/ BelowHalf(count, maxCount, bytes, maxBytes)
         THEN Reset([f EXCEPT !.latch = "open"])
    ELSE [f EXCEPT !.latch = IF AtPressure(count, maxCount, bytes, maxBytes) THEN "set"
                             ELSE IF f.latch = "legacy" THEN "open" ELSE f.latch]
===============================================================================
