SPECIFICATION Spec
CONSTANTS
    feed = feed
    sec = sec
    home = home
    mirror = mirror
    elsewhere = elsewhere
    Nothing = Nothing
    NoHost = NoHost
    SourceIds <- MCSourceIds
    Hosts <- MCHosts
    RegistryHosts <- MCHosts
    CommittedDefinitions <- MCDefinitions
    StoredReviews <- MCReviews
    OverrideFiles <- MCOverrideFiles
    MaxRedirects = 3
    MaxResponseBytes = 2
    ChunkSizes = {1, 2}
    AllowLocalHttp = FALSE
    MaxEdits = 1
INVARIANTS
    SmokeTypeOK
    RequestsReviewed
    CallsBounded
    EnabledWereApproved
    ReportMatchesRequests
CHECK_DEADLOCK FALSE
