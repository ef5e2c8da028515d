------------------------- MODULE MCHermesConnector -------------------------
(***************************************************************************)
(* Instances of HermesConnector for TLC.                                   *)
(***************************************************************************)
EXTENDS HermesConnector

CONSTANTS c1, c2, w1, w2, s1

OneCommand == {c1}
TwoCommands == {c1, c2}
TwoWorkers == {w1, w2}
OneWorker == {w1}
RunsPerCommand == 1..3
MCRuns == Commands \X RunsPerCommand
OneSession == [c \in Commands |-> s1]
=============================================================================
