SPECIFICATION Spec
CONSTANTS
    Version = {v1, v2}
    NoVersion = NoVersion
    Length = 2
    Copies = 2
    Blocks = 4
    Commands = {}
    MaxFails = 0
INVARIANT
    NeverBricked
