SPECIFICATION PartsSpec
CONSTANTS
    Handlers = {h1, h2, h3}
    Routes = {r1}
    Budget = 2
    LastDay = 2
    Objects = {o1, o2}
    Confirms = {c1, c2}
    Limit = 1
    LastHour = 2
CONSTRAINT FewUnits
SYMMETRY Symmetry
INVARIANT UploadsConsistent
PROPERTIES KeepsAllowance UploadsKeepAllowance
