SPECIFICATION FairSpec
CONSTANTS
  repo_search = repo_search
  apply_change = apply_change
  Tools = {repo_search, apply_change}
  SideEffect <- Classes
  RepoSearch = repo_search
  Decisions = {"approved", "rejected", "expired"}
  Approved = "approved"
  Notifications = {"notifications/initialized"}
  Initialized = "notifications/initialized"
  None = None
  PipeSize = 2
  MaxSends = 3
INVARIANTS TypeOK ReplyMatches ApprovedOnly TraceTells RepliesAreEarned
PROPERTY RequestEnds
CHECK_DEADLOCK FALSE
