SPECIFICATION Spec
CONSTANTS
    Objects <- MCObjects
    Files <- MCFiles
INVARIANT RoundTrip
INVARIANT TypesHonoured
CHECK_DEADLOCK FALSE
