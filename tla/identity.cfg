SPECIFICATION Spec
CONSTANTS
    h1 = h1
    h2 = h2
    u1 = u1
    u2 = u2
    r1 = r1
    r2 = r2
    atCorp = atCorp
    atNew = atNew
    corp = corp
    new = new
    Handlers = {h1, h2}
    Users = {u1, u2}
    Emails = {atCorp, atNew}
    Domains = {corp, new}
    DomainOf <- DomainOfEmail
    Seeded = {}
    Reviews = {r1, r2}
    About <- AboutReview
    OneAdmin = TRUE
SYMMETRY Symmetry
INVARIANTS TypeOK CacheCatchesUp MembersAllowed MovedByOwnCode
