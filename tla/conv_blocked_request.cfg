SPECIFICATION Spec
CONSTANTS
    Alice = Alice
    Bob = Bob
    Nobody = Nobody
    Handlers = {h1, h2}
    Clients = "perUser"
    MaxEarly = 2
SYMMETRY HandlerSymmetry
INVARIANT NoPendingFromBlocked
