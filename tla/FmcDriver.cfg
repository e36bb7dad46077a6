SPECIFICATION FairSpec
CONSTANTS
    Pages = {1, 2}
    PageUnits = 2
    Bits = {b1, b2}
    Refused <- MCRefused
    Timeout = 1
    MaxCalls = 3
INVARIANTS TypeOK OKMeansDone CleanAgain
PROPERTIES WholeCommand CallsReturn
CHECK_DEADLOCK FALSE
