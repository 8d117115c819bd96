SPECIFICATION FairSpec
CONSTANTS
  bookit = bookit
  platform = platform
  v1 = v1
  v2 = v2
  p1 = p1
  p2 = p2
  Procs = {p1}
  Commands = {"setup", "reset"}
  Repos = {bookit}
  Revs = {v1, v2}
  Checkpoint <- OneRepoMap
  Rank <- OneRank
  Labs <- LabAtV1
  Items <- OneReport
  Trees = {t1}
  MaxClock = 1
  MaxFaults = 1
  MaxStudent = 1

PROPERTY RetrySucceeds
