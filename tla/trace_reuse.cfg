SPECIFICATION Spec
CONSTANTS
  r1 = r1
  r2 = r2
  a1 = a1
  a2 = a2
  s1 = s1
  s2 = s2
  Requests = {r1, r2}
  Answers = {a1, a2}
  Scripts <- TwoAnswers
  Stages = {s1, s2}
  Bare = Bare
  Recorders = {"evt-wf", "evt-rel", "evt-int"}
  None = None
  Bad = Bad
  MaxSessions = 2
  MaxLines = 4
  MaxNotes = 1
INVARIANT ReplayHonest
CHECK_DEADLOCK FALSE
