SPECIFICATION Spec
CONSTANTS
  Features = {"feature"}
  Multis = {"multi"}
  Clients = {"feature", "multi"}
  Keys <- MCKeys
  NoKey <- MCNoKey
  Transports = {"double", "live"}
  MaxSends = 2
  FirstNumber = 101
  Task <- MCTask
  Implementers <- MCImplementers
  Reviewers <- MCReviewers
  Fixers <- MCFixers
  Lines <- MCLines
  MaxLines = 2
  MaxPatches = 2
  MaxRounds = 2
INVARIANTS TypeOK CompletedIsReviewed DeliveredIsReviewed AnswersReadWhole
  ArtifactsKept AnswersHold
PROPERTIES TerminalForever EndsOrFixes OpensOnce
CHECK_DEADLOCK FALSE
