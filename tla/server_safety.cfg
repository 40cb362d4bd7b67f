\* Two slots, two connections, three handler tasks: every overlap of a
\* releasing task, a serving task and the accept loop, and a full table.
SPECIFICATION Spec
CONSTANTS
    MaxClients = 2
    NumSockets = 4
    c1 = c1
    c2 = c2
    c3 = c3
    t1 = t1
    t2 = t2
    t3 = t3
    NoConn = NoConn
    Conns <- TwoConns
    Tasks <- ThreeTasks
SYMMETRY Symmetry
INVARIANTS
    TypeOK
    SlotExclusive
    SlotAccounting
    OwnSocket
    ReplyToRequester
    ListenerOpen
    NoDescriptorLeak
PROPERTY PoolSpec
\* The system may stop: in a fault, or when every connection has been given
\* to a slot whose task was never created and its peer has gone.
CHECK_DEADLOCK FALSE
