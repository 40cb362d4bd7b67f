\* Two tasks that share a heap of two blocks, with the callbacks as shipped
\* and with all of them, every supported function.
SPECIFICATION FairSpec
CONSTANTS
    b1 = b1
    b2 = b2
    b3 = b3
    t1 = t1
    t2 = t2
    NoBlock = NoBlock
    RecvBufferSize = 64
    Tasks <- TwoTasks
    Blocks <- TwoBlocks
    CallbackSets <- EitherWay
    Results <- Choosy
    Requests <- AllRequests
INVARIANTS
    TypeOK
    BlockOwnership
    RepliesFramed
    
PROPERTIES
    SilentOnlyWithoutMemory
    RequestsEnd
\* A fault stops the board.
CHECK_DEADLOCK FALSE
