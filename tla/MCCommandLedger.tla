-------------------------- MODULE MCCommandLedger --------------------------
(***************************************************************************)
(* The instance of CommandLedger that TLC checks, with unrestricted        *)
(* callers.                                                                *)
(***************************************************************************)
EXTENDS CommandLedger

CONSTANTS c1, c2, r1, r2

MCCommands == {c1, c2}
MCResearch == {c2}
MCRuns == {r1, r2}

=============================================================================
