------------------------------ MODULE SlotSums ------------------------------
(***************************************************************************)
(* The slot arithmetic of the runtime: the u16 fold with saturating_add    *)
(* that runtime.rs computes, and the exact sum it is meant to be.  Both    *)
(* run over a weight function w on the ids 1 .. n: w[k] is what the        *)
(* reservation with id k contributes, 0 when there is none or when the     *)
(* filter of the fold drops it.                                            *)
(***************************************************************************)
EXTENDS Integers

CONSTANT MaxU16  \* u16::MAX

ASSUME MaxU16Assumption == MaxU16 \in Nat \ {0}

SaturatingAdd(a, b) == IF a + b > MaxU16 THEN MaxU16 ELSE a + b

SaturatingSub(a, b) == IF a < b THEN 0 ELSE a - b

\* fold(0u16, |acc, r| acc.saturating_add(r)) over the ids 1 .. n.
SaturatingSum(w) ==
  LET acc[k \in Nat] == IF k = 0 THEN 0 ELSE SaturatingAdd(acc[k - 1], w[k])
  IN  acc

\* The unbounded sum: the reference the fold is compared with.
ExactSum(w) ==
  LET acc[k \in Nat] == IF k = 0 THEN 0 ELSE acc[k - 1] + w[k]
  IN  acc
=============================================================================
