\* Two workers and one command; every reply of Hermes, and a journal that may fail.
CONSTANTS
  c1 = c1
  c2 = c2
  w1 = w1
  w2 = w2
  s1 = s1
  NoRun = NoRun
  NoCommand = NoCommand
  Commands <- OneCommand
  Workers <- TwoWorkers
  Runs <- MCRuns
  Research = {c1}
  SessionOf <- OneSession
  Replies = {"refused", "refused_replay", "odd_refusal", "server_error", "store_down",
             "garbled", "unjournalled"}
  Outcomes = {"completed", "partial"}
  MaxVersion = 100
  MaxFaults = 2
  MaxBeats = 1
  MaxPolls = 1

SPECIFICATION Spec
INVARIANTS TypeOK AtMostOneRun UnsentOrHeld LedgerTellsHermes DispatchExclusive
