SPECIFICATION AccountSpec
CONSTANTS
    Handlers = {h1, h2, h3}
    Phones = {p1, p2}
    NoPhone = NoPhone
    Scores = {50, 60}
    Overlap = FALSE
    Users = {}
    Emails = {}
    Domains = {}
    DomainOf <- NoDomain
    Seeded = {}
    Reviews = {}
    About <- NoDomain
    OneAdmin = TRUE
SYMMETRY HandlerSymmetry
INVARIANTS DeletionSticks VerifiedMeansProven VerifiedCounts
CHECK_DEADLOCK FALSE
