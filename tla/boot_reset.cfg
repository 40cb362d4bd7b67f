\* The values of main.c.
SPECIFICATION FairSpec
CONSTANTS
    Prescaler = 128
    Reload = 2500
    LsiHz = 32000
    WaitMs = 1000
PROPERTY NoReset
