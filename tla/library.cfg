\* A list of three elements and two values, with an iterator that may outlive
\* its element; four menus with text fields of at most two characters.
SPECIFICATION Spec
CONSTANTS
    Elems = {1, 2, 3}
    Data = {1, 2}
    MaxIdx = 3
    Main = main
    network = network
    ssh = ssh
    status = status
    Menus <- TheMenus
    Root <- TheRoot
    Kids <- TheKids
    Kind <- TheKind
    Opens <- TheOpens
    Cleared <- TheCleared
    Quit = Quit
    None = None
    MaxLength = 2
INVARIANTS
    ListInv
    FormInv
PROPERTIES
    ListServiceSpec
    FormServiceSpec
\* A NULL pointer followed stops the program; the Quit button ends it.
CHECK_DEADLOCK FALSE
