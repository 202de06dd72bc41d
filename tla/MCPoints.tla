------------------------------ MODULE MCPoints ------------------------------
(***************************************************************************)
(* Instances of Points for TLC.                                            *)
(***************************************************************************)
EXTENDS Points, TLC

CONSTANTS u1, u2, s1, s2, c1, c2

OneUser == {u1}
OneSession == {s1}
TwoSessions == {s1, s2}
OfOneUser == [s \in Sessions |-> u1]
TwoCalls == {c1, c2}

CallSymmetry == Permutations(TwoCalls)
=============================================================================
