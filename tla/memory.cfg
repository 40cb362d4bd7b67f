\* A FreeRTOS heap at an odd address with ten units of two bytes; an lwIP heap
\* of four of the smallest blocks, whose largest size wraps when it is aligned;
\* a pool of three elements, which one task uses outside the core lock.
SPECIFICATION Spec
CONSTANTS
    Align = 2
    Struct = 2
    Base = 1
    Total = 23
    MaxWant = 7
    Header = 2
    MinSize = 4
    MemSize = 26
    Width = 40
    Wants = {0, 1, 4, 5, 7, 10, 16, 24, 25, 39}
    Elements = {e1, e2, e3}
    Null = null
    Allocs = {tcpip, task, handler}
    Frees = {tcpip, task, handler}
    Locked = {tcpip, handler}
INVARIANTS
    HeapInv
    MemInv
PROPERTIES
    HeapServiceSpec
    MempServiceSpec
