SPECIFICATION OfflineSpec

CONSTANTS
    acme = acme
    bolt = bolt
    bad = bad
    e1 = e1
    e2 = e2
    c1 = c1
    o1 = o1
    o2 = o2
    gold = gold
    euro = euro
    home = home
    s1 = s1
    s2 = s2
    w1 = w1
    w2 = w2
    w3 = w3
    i1 = i1
    i2 = i2
    i3 = i3
    i4 = i4
    n1 = n1
    n2 = n2
    l3 = l3

    Nothing = Nothing
    Companies = {acme, bolt}
    PreOpenLead = 1
    Exporters = {e1, e2}
    Checkers = {c1}
    ResearchOutputs = {o1, o2}
    Targets <- MCTargets
    Articles <- MCArticles
    Settings <- MCSettings
    MaxCrashes = 1

    Assets = {gold, euro}
    Profiles = {home}
    Symbols = {s1, s2}
    MapFiles <- MCMapFiles
    Answers <- MCAnswers
    Period = 1
    Latency = 1
    MaxSymbols = 2
    MaxBars = 2
    Clock = {3, 9}
    MaxCommands = 2
    MaxMapEdits = 1

    SessionDays <- MCSessionDays
    Horizons <- MCHorizons
    LastOffset <- MCLastOffset
    ControlSessions = 2
    SessionsKept = 4
    RegimeLength = 2
    SignalLists <- MCSignalLists
    MaxSignals = 2
    MaxErrorCases = 2
    StudiesShown = 3
    EffectLength = 3

    Writers = {w1, w2, w3}
    MaxKilled = 1

    Workers = {1, 2}
    NewsArticles <- MCNewsArticles
    NearAmong <- MCNearAmong
    InvalidRecords = {bad}
    Mentioned <- MCMentioned
    CompaniesFile <- MCCompaniesFile
    MarketDate <- MCMarketDate
    DemoBatch <- MCDemoBatch
    FeedBatches <- MCFeedBatches
    Absent = Absent
    MaxDatabaseCommands = 2
    MaxStops = 1

    ArticleText <- MCArticleText
    FileSections <- MCFileSections
    Questions <- MCQuestions
    UnknownTicker = UnknownTicker
    NoQuestion = NoQuestion
    MaxQuestions = 1

    Items = {i1, i2, i3, i4}
    ItemOf <- MCItemOf
    Empty = Empty
    Formats <- MCFormats
    MostColumns = 1
    MaxPublished = 2
    MaxReadings = 2

    Aliases <- MCAliases
    Inside <- MCInside
    EventKeywords <- MCEventKeywords
    MostWords = 4

INVARIANTS
    OfflineTypeOK
    ResearchPackagesSound
    BridgeExportsSound
    StudiesAreSound
    ExportedStaysWhole
    DatabaseRowsSound
    PagesMissNothing
    TickersAreKnown
    ParsersAreSound
    RulesAreSound

PROPERTIES
    PackagesStay
    OfflineCommandsEnd

\* The services stop: commands are bounded.
CHECK_DEADLOCK FALSE
