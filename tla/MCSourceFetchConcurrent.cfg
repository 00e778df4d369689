SPECIFICATION Spec
CONSTANTS
    Processes = {p1, p2}
    Network = {1, 2}
    Exports = {}
    Interval = 0
    MinInterval <- MCMinInterval
    MaxRetries = 0
    NoRow = NoRow
    Failing = {"failed"}
    MaxVersion = 2
    MaxTime = 1
    MaxCommands = 2
INVARIANTS
    TypeOK
    ValidatorNeverAhead
    OutcomesAreAtomic
PROPERTIES
    DryRunLeavesNoTrace
    CommandsEnd
CHECK_DEADLOCK FALSE
