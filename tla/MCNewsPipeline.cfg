SPECIFICATION Spec
CONSTANTS
    s1 = s1
    s2 = s2
    a1 = a1
    a2 = a2
    c1 = c1
    c2 = c2
    c3 = c3
    w1 = w1
    w2 = w2
    None = None
    Sources <- MCSources
    ArticleIds <- MCArticleIds
    Contents <- MCContents
    Pages <- MCPages
    Records <- MCRecords
    Similarity <- MCSimilarity
    Wordless <- MCWordless
    Threshold = 8
    WindowHours = 2
    MaxCandidates = 2
    MaxObservations = 4
INVARIANTS
    TypeOK
    DuplicatesSound
    LedgerSound
    OnlyCanonicalsAnalysed
PROPERTIES
    ReplaysKeepRows
    RegisterSpec
CHECK_DEADLOCK FALSE
