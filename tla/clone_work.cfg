SPECIFICATION Spec
CONSTANTS
  bookit = bookit
  platform = platform
  v1 = v1
  v2 = v2
  p1 = p1
  p2 = p2
  Procs = {p1, p2}
  Commands = {"setup", "reset", "start-lab"}
  Repos = {bookit}
  Revs = {v1}
  Checkpoint <- OneRevMap
  Rank <- OneRank
  Labs <- LabAtV1
  Items <- TwoReports
  Trees = {}
  MaxClock = 1
  MaxFaults = 1
  MaxStudent = 0
SYMMETRY TwoProcs
INVARIANTS TypeOK CustodyInv
PROPERTIES WorkKept ArchivesSealed
