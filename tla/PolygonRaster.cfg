SPECIFICATION RasterSpec
CONSTANTS
    NUM_TRIANGLES = 2
    NUM_ANGLES = 3
    Screen <- MCScreen
    LineOf <- MCLineOf
INVARIANTS
    VerticesOfThisFrame
    StartsIdleLines
    PopsFinishedLines
PROPERTIES
    ImplementsRasterContract
    FrameRasterized
