SPECIFICATION PartsSpec
CONSTANTS
    Handlers = {h1, h2, h3}
    Max = 2
    LastDay = 2
    Requests = {h1, h2, h3, r4}
    RateWindow = 3
    Life = 1
    Ids = {1, 2, 3, 4}
SYMMETRY Symmetry
CONSTRAINT FewFaults
INVARIANTS SlotAccounting RateExact ReportsAnnounced
PROPERTY KeepsAllowance
