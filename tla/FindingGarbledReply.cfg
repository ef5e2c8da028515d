\* An accepted POST answered with a JSON body that is no object.
CONSTANTS
  c1 = c1
  c2 = c2
  w1 = w1
  w2 = w2
  s1 = s1
  NoRun = NoRun
  NoCommand = NoCommand
  Commands <- OneCommand
  Workers <- OneWorker
  Runs <- MCRuns
  Research = {}
  SessionOf <- OneSession
  Replies = {"garbled"}
  Outcomes = {"completed"}
  MaxVersion = 100
  MaxFaults = 1
  MaxBeats = 0
  MaxPolls = 1

SPECIFICATION Spec
INVARIANTS UnsentUnlessRecorded
