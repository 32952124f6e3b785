SPECIFICATION FairSpec
CONSTANTS
    DayMinutes = 4
    Hour = 2
    Throttle = 4
    Windows <- TwoWindows
    SummaryKeys = {}
    ErrorKeys = {e1}
    Checks = {c1}
    NoKey = NoKey
    Env = {"manual", "send"}
PROPERTIES AlertsRepeat
