--------------------------- MODULE MCPaperAccount ---------------------------
(***************************************************************************)
(* Instances of PaperAccount for TLC.                                      *)
(***************************************************************************)
EXTENDS PaperAccount, TLC

CONSTANTS x, y, s1, s2, o1, o2

TwoSymbols == {x, y}
TwoSleeves == {s1, s2}
TwoOrders == {o1, o2}
AccountSymmetry == Permutations(Symbols) \cup Permutations(Sleeves) \cup Permutations(Orders)
=============================================================================
