SPECIFICATION LiveSpec
CONSTANTS
    BufLen = 3
    Depth = 2
    Almost = 0
    IntMax = 4
    DefaultTimeout = 2
    MaxCall = 3
    Bounds <- MCBounds
INVARIANTS NoLostWakeup
PROPERTIES Streams BytesAreShown ReadersServed CallsGiveUp
