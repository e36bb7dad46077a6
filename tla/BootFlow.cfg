SPECIFICATION FairSpec
CONSTANTS
    Configs <- Sound
    MaxResets = 2
INVARIANTS TypeOK HandOver FlashReady Forgotten LoadedImageKept
PROPERTY Boots
CHECK_DEADLOCK FALSE
