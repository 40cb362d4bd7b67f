\* One message, a mailbox that holds it, one pbuf, one socket task.
SPECIFICATION FairSpec
CONSTANTS
    Net = Net
    Tcpip = Tcpip
    Tasks = {task}
    None = None
    Pbufs = {p1}
    InpktNum = 1
    MboxSize = 1
    FifoLen = 2
    MaxFrames = 1
    MaxTx = 1
    MaxErr = 1
PROPERTY Progress
