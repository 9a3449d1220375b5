\* otaab_finish(0), never cut in two; power losses anywhere else.
SPECIFICATION FairSpec
CONSTANTS
    NULL = NULL
    Erased = 6
    Limit = 3
    Fallbacks = {0}
    FinishWhole = TRUE
    MaxLoss = 3
INVARIANTS
    TypeOK
    KeptWorks
    PresentKept
PROPERTIES
    SlotsKept
    StartsUp
