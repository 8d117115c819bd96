SPECIFICATION Spec
CONSTANTS
    Paths = {"a", "b", "c"}
    Base <- MCBase
    Edited <- MCEdited
    Solved <- MCSolved
    MaxPatches = 2
    Graders = {"visible"}
    Declared = {"visible", "hidden"}
    MaxAttempts = 2
INVARIANT GradesStand
INVARIANT SandboxesGo
INVARIANT OverlapsSeen
INVARIANT RecoveryKeeps
CHECK_DEADLOCK FALSE
