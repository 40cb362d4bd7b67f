\* Two connections that come and go through one or two usable slots.
SPECIFICATION FairSpec
CONSTANTS
    MaxClients = 2
    NumSockets = 4
    c1 = c1
    c2 = c2
    c3 = c3
    t1 = t1
    t2 = t2
    t3 = t3
    NoConn = NoConn
    Conns <- TwoConns
    Tasks <- TwoTasks
\* Once it is false Undisturbed stays false and both properties are true,
\* so the states beyond need not be explored.
CONSTRAINT Undisturbed
PROPERTIES
    DisconnectReleases
    RequestsRead
\* The system may stop: in a fault, or when every connection has been given
\* to a slot whose task was never created and its peer has gone.
CHECK_DEADLOCK FALSE
