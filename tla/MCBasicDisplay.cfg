SPECIFICATION DisplaySpec
CONSTANTS
    Views = 1
    PostModes <- Screen
    SampleModes <- SmallTable
    FailureClears = TRUE
    Padding = 1
    Bytes = 4
    MaxOutstanding = 1
    MaxPresents = 2
    MaxMaps = 2
    EnumMaps = 0
INVARIANTS
    EveryHandleReturned
    CleanUpOnlyAfterFailure
    OffersWhatIsOpen
    DrawsIntoLiveMapping
    DrawsThePicture
    ObjectOutlivesThreads
    EveryWaitEnds
CHECK_DEADLOCK FALSE
PROPERTIES
    PresentIsReported
