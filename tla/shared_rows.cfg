SPECIFICATION PartsSpec
CONSTANTS
    Edits = {h1, h2, h3}
    Fields = {f1, f2, f3}
    First = First
    Ids = {1, 2, 3}
    Times = {1, 2}
    Limits = {1, 2}
    Viewers = {v1}
    Handlers = {h1, h2, h3}
    Topics = {t1, t2}
    Reports = {1, 2}
    Users = {u1, u2}
    Streams = {h1, h2, h3, s4}
    MaxEvents = 3
SYMMETRY Symmetry
INVARIANTS LostToOverlapOnly PagesExact ShownUnlessBarred ReportsSettled StreamsServed
CHECK_DEADLOCK FALSE
