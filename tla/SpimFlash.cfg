SPECIFICATION FairSpec
CONSTANTS
    Radix = 2
    EraseSize = 4
    PageSize = 2
    Images <- MCImages
    Protection <- MCProtection
    ChipIds <- MCChipIds
    MaxFrame = 6
    FlashSize = 8
    SectorSize = 2
    DataWidth = 1
    WordMod = 64
    Source <- MCSource
    Addrs = {0, 3, 6, 8}
    Counts = {1, 4}
    MaxCalls = 3
    MaxResets = 2
INVARIANTS TypeOK Ready EraseDone ProgramDone ReadExact Confined
PROPERTY CallsReturn
CHECK_DEADLOCK FALSE
