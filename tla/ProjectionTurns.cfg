SPECIFICATION Spec
CONSTANTS
    One = 2048
    WIDTH = 319
    HEIGHT = 239
    Vertices <- MCVertices
    Angles <- MCAngles
INVARIANT RotatesAboutX
