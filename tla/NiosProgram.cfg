SPECIFICATION LiveSpec
CONSTANTS
    NUM_TRIANGLES = 2
    Spare = 2
    Files <- MCFiles
    MaxRuns = 2
INVARIANTS StartsComplete FrameShowsFile
PROPERTY FileIsShown
