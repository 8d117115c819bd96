SPECIFICATION Spec
CONSTANTS
  bookit = bookit
  platform = platform
  v1 = v1
  v2 = v2
  p1 = p1
  p2 = p2
  Procs = {p1, p2}
  Commands = {"setup", "reset"}
  Repos = {bookit, platform}
  Revs = {v1, v2}
  Checkpoint <- TwoRepoMap
  Rank <- TwoRank
  Labs <- NoLabs
  Items <- NoItems
  Trees = {}
  MaxClock = 0
  MaxFaults = 1
  MaxStudent = 0
SYMMETRY TwoProcs
INVARIANTS SetupClones ResetVerified
