\* Two commands of one session under the fairness of the daemon; a retry is
\* never refused outright.
CONSTANTS
  c1 = c1
  c2 = c2
  w1 = w1
  w2 = w2
  s1 = s1
  NoRun = NoRun
  NoCommand = NoCommand
  Commands <- TwoCommands
  Workers <- OneWorker
  Runs <- MCRuns
  Research = {}
  SessionOf <- OneSession
  Replies = {"refused", "server_error"}
  Outcomes = {"completed"}
  MaxVersion = 100
  MaxFaults = 2
  MaxBeats = 0
  MaxPolls = 1

SPECIFICATION FairSpec
INVARIANTS OneLiveRunPerSession OverReleasesSession
PROPERTIES CommandsSettle
