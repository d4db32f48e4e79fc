CONSTANTS
    s1 = s1  s2 = s2  c1 = c1  c2 = c2  u1 = u1  u2 = u2
    Subs <- MCSubs
    Conns <- MCConns
    URLs <- MCURLs
    Match <- MCMatch
    SubConn <- MCSubConnApart
    MsgUnits = 2
    Spaces = {1, 2}
SPECIFICATION Spec
CHECK_DEADLOCK FALSE

PROPERTY AllNotified
