----------------------------- MODULE Calibrate -----------------------------
(***************************************************************************)
(* The calibrator of src/plugin/dst/fsx32.c (calibrate, calibrate32,       *)
(* calibrate64): an integer budget val is split over the buckets of a      *)
(* vector in proportion to their capacities, and the rounding remainder    *)
(* goes one unit at a time to the buckets at the head of the vector.       *)
(*                                                                         *)
(* Vectors are TLA+ sequences: the bucket at C index i is at position i+1. *)
(* The products val * cap are computed in u64 by the code; with val at     *)
(* most 2^31 (calibrate32) and capacities below 2^33 they do not wrap, so  *)
(* the operator uses unbounded integers (see README, check_space).         *)
(***************************************************************************)
EXTENDS Integers, Sequences, Functions

\* sum_not_scaled: the sum of a vector of naturals.
VecSum(v) == SumFunction(v)

\* The scaled floor share of bucket i: div64_u64(val * cap, sum_not_scaled).
ScaledShare(val, caps, i) == (val * caps[i]) \div VecSum(caps)

\* calibrate(): floor shares first, then one more unit to each of the first
\* rest = val - sum_scaled buckets ("Don't modify this: it will be a format
\* change!").
Calibrate(val, caps) ==
  LET q    == [i \in DOMAIN caps |-> ScaledShare(val, caps, i)]
      rest == val - VecSum(q)
  IN  [i \in DOMAIN caps |-> q[i] + (IF i <= rest THEN 1 ELSE 0)]

=============================================================================
