----------------------------- MODULE MCPayments -----------------------------
(***************************************************************************)
(* Instances of Payments for TLC.                                          *)
(***************************************************************************)
EXTENDS Payments, TLC

CONSTANTS u1, u2, r1, full, shorts, k1, k2

OneUser == {u1}
TwoUsers == {u1, u2}
OneRecording == {r1}
TwoItems == {full, shorts}
BothOfOne == [i \in TwoItems |-> r1]
TwoCalls == {k1, k2}

Symmetry == Permutations(TwoCalls) \cup Permutations(TwoItems)
=============================================================================
