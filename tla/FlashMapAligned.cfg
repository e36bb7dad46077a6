SPECIFICATION Spec
CONSTANTS
    WordMod = 64
    MemoryBase = 8
    SectorSize = 8
    SectorCount = 4
    ProgramUnit = 2
    DataWidth = 2
    FLASH_PROGRAM_UNIT = 4
    Bits <- mcBits
    Garbage <- mcGarbage
    Areas <- mcAreas
    fa_off <- mc_fa_off
    fa_size <- mc_fa_size
    WriteOffs <- mcUnitOffs
    Offs <- mcFewOffs
    Lens <- mcFewLens
    Srcs <- mcSrcs
    Images <- mcImages
    MaxCalls = 2
INVARIANTS
    InOrder
    OnlySourceBits
PROPERTIES
    ImplementsStore
CHECK_DEADLOCK FALSE
