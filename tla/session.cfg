\* Requests that fit, in one segment each or cut anywhere, repeated early,
\* replies lost.
SPECIFICATION FairSpec
CONSTANTS
    Prog <- FittingProg
    FcCell = 1
    BufSize = 4
    MaxRepeats = 2
    MaxLost = 1
CHECK_DEADLOCK FALSE \* a client that gave up leaves nothing to do
INVARIANT SessionInv
PROPERTIES
    ServiceSpec
    Resync
