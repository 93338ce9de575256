SPECIFICATION Spec
CONSTANTS
    Quads = 6
    AppTop = 24
    MaxResets = 1
    Levels = {1, 2, 4}
    ExcmLevel = 3
    HookKinds = {"task"}
    Activities <- Activities_
    MaxQueues = 3
    MaxKeys = 3
    MaxDepth = 2
    Modulus = 3
    Cells = {0, 1, 2, 3, 4, 5}
    Code <- Code_
    Longest = 2
INVARIANT FramesKept
CHECK_DEADLOCK FALSE
