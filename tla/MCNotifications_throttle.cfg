SPECIFICATION Spec
CONSTANTS
    DayMinutes = 4
    Hour = 2
    Throttle = 4
    Windows <- TwoWindows
    SummaryKeys = {s1}
    ErrorKeys = {}
    Checks = {c1, c2}
    NoKey = NoKey
    Env = {"manual", "send", "db", "crash"}
SYMMETRY Symmetry
INVARIANTS TimerClosesWindow
PROPERTIES ThrottleUnlessRaced QuietUnlessOvertaken
