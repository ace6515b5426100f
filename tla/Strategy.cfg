CONSTANTS
    NoPrice = NoPrice
    NoBinding = NoBinding
    Prices = {0, 2, 3, 4, 5, 6}
    VeryCheap = 0
    Valley = 2
    Acceptable = 1
    ReservePrice = 3
    Average = 3
    Effective = 5
    VeryExpensive = 6
    FeedIn = 0
    Tolerance = 1
    Hysteresis = 1
    EmergencySoc = 0
    SocMin = 1
    Resume = 2
    SocMax = 4
    Margin = 1
    ReserveTarget = 3
    Need = 2
    Latest = 1
    Deadline = 2
    MaxTime = 2
    GapLimit = 2
SPECIFICATION Spec
INVARIANT CycleSafe
PROPERTIES BindingGuarded LearnedEnds
