CONSTANTS
    Media <- MCMedia
    Modes = {"warp", "rush"}
    Spaces = {1, 2}
    Skip = TRUE
    Reorder = FALSE
    MaxInFlight = 4
SPECIFICATION Spec
CHECK_DEADLOCK FALSE
INVARIANTS TypeOK NoFailure
PROPERTY WarpCompletes
