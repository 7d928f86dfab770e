SPECIFICATION Spec
CONSTANTS
    M = 8
    Depth = 7
    Coords <- MCCoords
INVARIANTS
    PixelsNearLine
    ReadyMeansComplete
    IndInv
PROPERTIES
    ImplementsContract
    LineFinishes
