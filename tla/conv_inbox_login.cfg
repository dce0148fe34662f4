SPECIFICATION PartsFairSpec
CONSTANTS
    Alice = Alice
    Bob = Bob
    Nobody = Nobody
    Handlers = {h1, h2}
    Clients = "perUser"
    MaxEarly = 2
    MaxMessages = 3
    MaxFailures = 1
    Logins = {l1, l2, l3}
    LoginMax = 2
    Ttl = 2
    Most = 4
INVARIANTS OneIntroEach WrongCountExplained ReadMeansListed AnsweredMeansAnnounced LockedForEverExplained
PROPERTIES RecipientDecides KeepsPromise RequestsExpire CountCatchesUp LockoutEnds
