SPECIFICATION Spec
CONSTANTS
    Handlers = {h1, h2, h3}
    MaxAttempts = 2
    MaxResends = 1
    HourlyMax = 1
    MaxCodes = 2
    MaxCrashes = 1
SYMMETRY Symmetry
INVARIANTS GuessesBounded CodesExpire AcceptedIsSpent HourlyCap
