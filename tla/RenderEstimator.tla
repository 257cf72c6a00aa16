-------------------------- MODULE RenderEstimator --------------------------
(***************************************************************************)
(* The running 95th percentile of render times that the frame loop sleeps  *)
(* by (userland/prism/src/main.rs, RenderEstimator).  A frame is quick or  *)
(* slow; the ring remembers which of its slots hold slow ones.             *)
(***************************************************************************)
EXTENDS Integers, FiniteSets

CONSTANTS
    Window,      \* samples in the ring (256 in the code)
    MaxSlow      \* bound: slow frames in a row

ASSUME EstimatorAssumption == Window \in Nat \ {0}

VARIABLES
    slow, idx, filled,   \* the ring: slots with slow frames, next slot, slots filled
    cached,              \* the estimate: "half" a frame at first, then "quick", "slow"
    streak               \* history: slow frames in a row

renderVars == <<slow, idx, filled, cached, streak>>

Recompute == 16

EstimatorInit ==
    /\ slow = {} /\ idx = 0 /\ filled = 0 /\ cached = "half"
    /\ streak = 0

\* Mutation of Percentile: the rank is taken in the whole ring.
Percentile_Whole(slots, n) ==
    LET rank == (Window * 95) \div 100
    IN  IF rank < n - Cardinality(slots) THEN "quick" ELSE "slow"

\* The sample at 95 % of the n sorted ones: the slow ones come last.
Percentile(slots, n) ==
    LET rank == (n * 95) \div 100
    IN  IF rank < n - Cardinality(slots) THEN "quick" ELSE "slow"

\* record: the estimate is recomputed when the next slot is a multiple of 16.
RecordFrame(isSlow) ==
    /\ isSlow => streak < MaxSlow
    /\ slow' = IF isSlow THEN slow \cup {idx} ELSE slow \ {idx}
    /\ idx' = (idx + 1) % Window
    /\ filled' = IF filled < Window THEN filled + 1 ELSE filled
    /\ cached' = IF idx' % Recompute = 0 THEN Percentile(slow', filled') ELSE cached
    /\ streak' = IF isSlow THEN streak + 1 ELSE 0

\* Slow frames come alone, or in a row once there are no others in the ring.
EstimatorNext == \/ RecordFrame(FALSE)
                 \/ (streak = 0 => slow = {}) /\ RecordFrame(TRUE)
EstimatorSpec == EstimatorInit /\ [][EstimatorNext]_renderVars

-----------------------------------------------------------------------------
(* Properties *)

\* A regression that lasts is in the estimate within one recomputation of the
\* frames the percentile leaves out, wherever in the ring it begins; and one slow
\* frame among two recomputations or more is not (main.rs:113-119).
RegressionSeen ==
    /\ streak >= Window - (Window * 95) \div 100 + Recompute - 1 => cached = "slow"
    /\ Cardinality(slow) = 1 /\ filled >= 2 * Recompute /\ streak = 0 /\ idx % Recompute = 0
           => cached = "quick"
=============================================================================
