SPECIFICATION FairSpec
CONSTANTS
    WordMod = 64
    MemoryBase = 8
    SectorSize = 8
    SectorCount = 4
    ProgramUnit = 4
    DataWidth = 2
    FLASH_PROGRAM_UNIT = 4
    Bits <- mcBits
    Garbage <- mcGarbage
    Areas <- mcAreas
    fa_off <- mc_fa_off
    fa_size <- mc_fa_size
    WriteOffs <- mcOffs
    Offs <- mcOffs
    Lens <- mcLens
    Srcs <- mcSrcs
    Images <- mcImages
    MaxCalls = 1
INVARIANTS
    TypeOK
    Confined
    ReadExact
    EmptyIsErased
    NeverRefused
PROPERTIES
    CallReturns
CHECK_DEADLOCK FALSE
