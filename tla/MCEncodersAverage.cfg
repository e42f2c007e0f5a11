SPECIFICATION Spec
CONSTANTS
    COUNT = 3
    NullEncoders = {}
    Misalignments = {1, 2}
INVARIANT
    AveragesAligned
