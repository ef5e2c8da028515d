--------------------------- MODULE MCBacktestJobs ---------------------------
(***************************************************************************)
(* An instance of BacktestJobs for TLC.                                    *)
(***************************************************************************)
EXTENDS BacktestJobs

CONSTANTS j1, j2

TwoJobs == {j1, j2}
=============================================================================
