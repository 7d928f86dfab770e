SPECIFICATION FairSpec
CONSTANTS
    NUM_TRIANGLES = 1
    NUM_ANGLES = 3
    SCREEN_SIZE = 12
    SYNC_GAP = 1
    Screen <- MCScreen
    LineOf <- MCLineOf
INVARIANTS
    FrameComplete
    PixelTakenInTime
PROPERTIES
    DrivesRaster
    SwitchShowsWholeFrame
    FramesKeepComing
