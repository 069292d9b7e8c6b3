SPECIFICATION Spec
CONSTANTS
    Ids = {i1, i2}
    Servers = {p1}
    Sources = {a, b}
    Keys = {k}
    NoKey = NoKey
    Values = {v, w}
    Absent = Absent
    Ttls = {1}
    Retention = 2
    MaxTime = 3
    MaxEdits = 1
SYMMETRY Symmetry
INVARIANT LifetimeKept
INVARIANT ChangelogComplete
CHECK_DEADLOCK FALSE
