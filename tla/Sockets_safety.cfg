SPECIFICATION Spec
CONSTANTS
    Sockets = {s1, s2}
    Orders = {o1}
    Me = me
    Role = "client"
    None = None
    MaxFrames = 1
    MaxFetches = 2
SYMMETRY WsSymmetry
INVARIANTS TypeOK RoomsAgree ConnectionIsBacked ClosedSocketIsForgotten
CHECK_DEADLOCK FALSE
