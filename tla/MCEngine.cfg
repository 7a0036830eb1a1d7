CONSTANTS
    Reach <- MCReach
    Shapes <- MCShapes
    Searches <- MCSearches
    Halvings = 3
    MaxIter = 4
    Samples = 4
    Curves <- MCCurves
    Books <- MCBooks
    Inversion = 6
    Convexity = 1
    Histories <- MCHistories
    Exposures <- MCExposures
    Levels <- MCLevels
    Horizons = {1, 2}
    MinimumDays = 2
    BaselDays = 3
    BaselLevel <- MCBaselLevel
    GreenMax = 0
    AmberMax = 1
    LimitSets <- MCLimitSets
    Maturities <- MCMaturities
    Valuations <- MCValuations
    FirstYear = 1990
    LastYear = 2060
    SpecialClosures <- MCClosures
    FeedYears = {2023, 2024, 2025}
    Feeds <- MCFeeds
    DateField = "date"
    NaturalKey <- MCKey
    Wide = TRUE
    FeedToday <- MCToday
    RateMin = 0
    RateMax = 8
    RateJump = 2
    SentinelZeroRun = 2
    Documents <- MCDocuments
    MaxTokens = 9
    TargetTokens = 7
    OverlapTokens = 2
    Callers = {"expert", "router"}
    Specialists = {"expert"}
    Schemas <- MCSchemas
    Replies <- MCReplies
    MaxCalls = 2
    Specs <- MCSpecs
    Offers <- MCOffers
    Turns <- MCTurns
    MaxSteps = 3
    Hits <- MCHits
    MaxReference = 2
    NumberRules <- MCNumberRules
    IntegerRules <- MCIntegerRules
    EnumRules <- MCEnumRules
    RawParams <- MCRawParams
    MaxLosses = 2
    Results <- MCResults
    MaxTurns = 2
SPECIFICATION MCSpec
INVARIANTS SearchHolds PackHolds MeasuresAgree ScheduleHolds CalendarHolds TableHolds ChunksHold
           AnswerHolds LoopHolds
PROPERTY RequirementHolds
CHECK_DEADLOCK FALSE
