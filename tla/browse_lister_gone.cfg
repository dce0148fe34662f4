SPECIFICATION AccountSpec
CONSTANTS
    Handlers = {h1, h2}
    Phones = {p1}
    NoPhone = NoPhone
    Scores = {50}
    Overlap = FALSE
    Users = {}
    Emails = {}
    Domains = {}
    DomainOf <- NoDomain
    Seeded = {}
    Reviews = {}
    About <- NoDomain
    OneAdmin = TRUE
SYMMETRY HandlerSymmetry
INVARIANT BrowseInvariant
CHECK_DEADLOCK FALSE
