SPECIFICATION Spec
CONSTANTS
    Handlers = {h1, h2}
    MaxFails = 2
    MaxLockouts = 2
    MaxEvents = 3
    MaxDeaths = 1
SYMMETRY HandlerSymmetry
INVARIANTS GuessesBounded LockoutsRecover ResetOpens
CHECK_DEADLOCK FALSE
