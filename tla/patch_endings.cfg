SPECIFICATION Spec
CONSTANTS
    Paths = {"a", "b", "c"}
    Base <- MCBase
    Edited <- MCEdited
    Solved <- MCSolved
    MaxPatches = 1
    Graders = {"visible"}
    Declared = {"visible"}
    MaxAttempts = 1
INVARIANT RecoveryKeepsAll
CHECK_DEADLOCK FALSE
