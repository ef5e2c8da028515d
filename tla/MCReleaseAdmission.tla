------------------------- MODULE MCReleaseAdmission -------------------------
EXTENDS ReleaseAdmission, TLC

CONSTANTS a1, a2, x1, g1, g2, s1, c1

OperatorSymmetry == Permutations(Admissions) \union Permutations(Generations)
=============================================================================
