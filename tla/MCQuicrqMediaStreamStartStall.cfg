CONSTANTS
    Requests <- MCRequestsSingleStart
    NbObjects = 2
    MinObjects = 1
    RealTime = FALSE
    MsgUnits = 2
    Spaces = {2}
SPECIFICATION Spec
CHECK_DEADLOCK FALSE
PROPERTY MediaCompletes
