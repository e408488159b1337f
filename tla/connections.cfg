SPECIFICATION MCSpec
CONSTANTS
    Parts = {"ingress", "relays", "listener"}
    Logins = {l1}
    Keys = {k1, k2}
    Posts = {p1, p2}
    Requests = {r1}
    Sockets = {w1, w2}
    SessionLimit = 2
    SocketLimit = 1
    NoKey = NoKey
    Relays = {rl1, rl2}
    MaxRelays = 1
    MaxDisturbances = 3
INVARIANTS ConnectionsTypeOK UsedIsRenewed
PROPERTIES SocketsEnd RelayFrees ListenerServes
CHECK_DEADLOCK FALSE
