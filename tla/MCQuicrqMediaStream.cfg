CONSTANTS
    Requests <- MCRequests
    NbObjects = 3
    MinObjects = 1
    RealTime = TRUE
    MsgUnits = 3
    Spaces = {1, 2, 3}
SPECIFICATION Spec
CHECK_DEADLOCK FALSE
INVARIANTS TypeOK NoProtocolError ObjectsInOrder ReceivedAsSent
PROPERTY MediaCompletes
