SPECIFICATION Spec
CONSTANTS
    KeptBackups = 2
    DayTicks = 3
    DueTick = 1
    LongestJob = 1
    MaxDowns = 1
    LastTick = 7
    Reported <- ReportedCounts
    Windows = {0, 2, 9}
    WindowMax = 3
    MaxPasswords = 3
    MaxSamples = 4
    Ids = {0, 1, 200}
    Sizes = {1, 127, 128, 16384, 1048575, 1048576, 1048577, 268435456}
    SizeMax = 1048576
    Texts <- LoggedTexts
    OverlapMax = 2
    FetchLines = 3
    CacheLimit = 3
    WireMax = 1
    MaxServers = 2
    MaxVisits = 1
INVARIANTS
    TypeOK
    
    NeverStale
    PasswordStays
    AlignedAreRead
    AnswersAreTails
    PacketsAgree
PROPERTIES
    NamesGrow
    OnePerDate
    EnoughRemain
    HistoryIsKept
    FreshAnswerHeals
    CompleteStaysComplete
CHECK_DEADLOCK FALSE
