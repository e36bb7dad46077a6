SPECIFICATION LiveSpec
CONSTANTS
    Builds = {"spi"}
    Radix = 2
    EraseSize = 4
    PageSize = 2
    Images <- MCImages
    Protection <- MCUnprotected
    ChipIds <- MCChipIds
    MaxFrame = 10
    FlashSize = 8
    DataWidth = 2
    FifoDepth = 8
    Beyond = 0
    MaxPolls = 2
    KnownIds <- MCKnownIds
    Addrs = {2}
    Counts = {1}
    Stalls = FALSE
    MaxCalls = 1
    MaxResets = 0
PROPERTY CallsReturn
CHECK_DEADLOCK FALSE
