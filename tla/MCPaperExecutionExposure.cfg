SPECIFICATION Spec
CONSTANTS
    x = x
    y = y
    z = z
    equity = equity
    fx = fx
    d1 = d1
    d2 = d2
    d3 = d3
    NoSignal = NoSignal
    Assets <- MCAssets
    Classes <- MCClasses
    ClassOf <- MCClassOf
    AllowedClasses = {equity, fx}
    Days <- MCDays
    Signals <- MCSignals
    OpenPrices = {10, 20}
    OrderNotional = 220
    MaxOrdersPerDay = 3
    MaxOrdersPerAssetDay = 1
    MaxPerAsset = 600
    MaxPerClass = 600
    MaxTotal = 900
    MaxDrawdownBps = 500
    SlippageBps = 1000
    CommissionBps = 500
    StartingCash = 1800
    NavBase = 1800
PROPERTIES
    AbsentExposureIsAbsent
CHECK_DEADLOCK FALSE
