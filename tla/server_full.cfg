\* One slot and two connections: the second one must be refused.
SPECIFICATION Spec
CONSTANTS
    MaxClients = 1
    NumSockets = 4
    c1 = c1
    c2 = c2
    c3 = c3
    t1 = t1
    t2 = t2
    t3 = t3
    NoConn = NoConn
    Conns <- TwoConns
    Tasks <- TwoTasks
INVARIANTS
    RefusesWhenFull
CHECK_DEADLOCK FALSE
