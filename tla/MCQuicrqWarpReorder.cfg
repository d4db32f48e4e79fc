CONSTANTS
    Media <- MCMedia
    Modes = {"warp", "rush"}
    Spaces = {1, 2}
    Skip = TRUE
    Reorder = TRUE
    MaxInFlight = 2
SPECIFICATION Spec
CHECK_DEADLOCK FALSE
INVARIANT NoFailure
