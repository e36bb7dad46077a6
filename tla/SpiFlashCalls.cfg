SPECIFICATION Spec
CONSTANTS
    Builds = {"spi", "qspi", "qspi_quad"}
    Radix = 2
    EraseSize = 4
    PageSize = 2
    Images <- MCImages
    Protection <- MCProtection
    ChipIds <- MCChipIds
    MaxFrame = 10
    FlashSize = 8
    DataWidth = 2
    FifoDepth = 8
    Beyond = 0
    MaxPolls = 3
    KnownIds <- MCKnownIds
    Addrs = {0, 2, 6, 8}
    Counts = {1, 2}
    Stalls = FALSE
    MaxCalls = 2
    MaxResets = 1
INVARIANTS TypeOK Ready EraseDone Confined ReadExact BusReleased
PROPERTY ProtectionKept
CHECK_DEADLOCK FALSE
