------------------------- MODULE MCStrategySleeves -------------------------
(***************************************************************************)
(* Instances of StrategySleeves for TLC.                                   *)
(***************************************************************************)
EXTENDS StrategySleeves, TLC

CONSTANTS s1, p1, p2, r1, r2

OneSleeve == {s1}
TwoPlans == {p1, p2}
OneRunner == {r1}
TwoRunners == {r1, r2}
SameSleeve == [p \in Plans |-> s1]
SleeveSymmetry == Permutations(Plans) \cup Permutations(Runners)
=============================================================================
