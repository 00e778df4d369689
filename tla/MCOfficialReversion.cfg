SPECIFICATION Spec
CONSTANTS
    Keys = {1, 2}
    Values = {9, 10, 11, 12, 20, 21}
    Records <- MCRecords
    Tolerance = 1
    NoRow = NoRow
    MaxBatches = 3
CHECK_DEADLOCK FALSE
PROPERTIES
    ChangedValueAppends
