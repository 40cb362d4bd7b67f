\* Words of 20 bits, and lengths as they are: an ARP request and the longest frames to
\* send; a size for which payload_length wraps, the shortest and the longest frame that
\* fit, and one that does not. A FIFO in which a long and a short frame leave one word
\* (tx_space wraps), the longest frame one word too few for a short one. Old bytes that
\* stand for any of these. Two devices; three filter entries, an address and the one a
\* half-written entry stands for; two PHY
\* registers; one access that fails and one that is aborted, two that fail for the filter.
SPECIFICATION FairSpec
CONSTANTS
    MaxErr = 1
    MaxFault = 1
    Word = 1048576
    BuffLen = 1530
    TxLens = {42, 1510, 1514}
    RxSizes = {14, 66, 1524, 1526}
    Stale = {0, 14, 2000}
    TxWords = 791
    Overhead = 1
    RxLen = 1
    N = 3
    Uppers = {1}
    Lowers = {0, 1}
    MaxFails = 2
    Devs = {d1, d2}
    Main = d1
    MaxInits = 4
    Regs = {pd, r1}
    Pd = pd
    Vals = {0, 1}
INVARIANTS
    FifoInv
    FilterInv
    SetupInv
    PhyInv
PROPERTIES
    RemovedClean
    CallsEnd
\* All calls of adin1110_init may have been made.
CHECK_DEADLOCK FALSE
