\* Three messages, a mailbox that holds two of them, three pbufs, one task.
SPECIFICATION Spec
SYMMETRY PbufSymmetry
CONSTANTS
    Net = Net
    Tcpip = Tcpip
    Tasks = {task}
    None = None
    Pbufs = {p1, p2, p3}
    InpktNum = 3
    MboxSize = 2
    FifoLen = 2
    MaxFrames = 3
    MaxTx = 1
    MaxErr = 1
INVARIANTS
    Exclusive
    Owned
    InOrder
