SPECIFICATION Spec
CONSTANTS
    Configs <- RamLoadGnu
    MaxResets = 1
INVARIANT LoadedImageKept
CHECK_DEADLOCK FALSE
