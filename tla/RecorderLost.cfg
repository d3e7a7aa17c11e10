SPECIFICATION Spec
CONSTANTS
    Clients = {c1}
    Pids = {p1, p2, p3}
    Nothing = Nothing
    MaxPolls = 2
    MaySleep = FALSE
INVARIANT
    Tracked
