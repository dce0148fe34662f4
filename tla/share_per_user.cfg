SPECIFICATION Spec
CONSTANTS
    Alice = Alice
    Bob = Bob
    Nobody = Nobody
    Handlers = {h1, h2}
    Clients = "perUser"
    MaxRequests = 3
SYMMETRY HandlerSymmetry
INVARIANT OneOpenRequestEach
PROPERTIES ConsentOfBoth AnswersAreFinal NothingWithBlocked
