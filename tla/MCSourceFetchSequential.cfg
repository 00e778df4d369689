SPECIFICATION Spec
CONSTANTS
    Processes = {p1}
    Network = {1}
    Exports = {2}
    Interval = 2
    MinInterval <- MCMinInterval
    MaxRetries = 1
    NoRow = NoRow
    Failing = {"failed", "policy_blocked"}
    MaxVersion = 2
    MaxTime = 4
    MaxCommands = 3
INVARIANTS
    RowReflectsLog
    DownloadsSpaced
    NoRepeatedDownload
CHECK_DEADLOCK FALSE
