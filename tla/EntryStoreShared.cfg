SPECIFICATION Spec
CONSTANTS
    Ids = {i1, i2}
    Servers = {p1, p2}
    Sources = {a, b}
    Keys = {k}
    NoKey = NoKey
    Values = {}
    Absent = Absent
    Ttls = {1}
    Retention = 1
    MaxTime = 2
    MaxEdits = 1
SYMMETRY Symmetry
INVARIANT TypeOK
INVARIANT UpsertFindsRow
INVARIANT LifetimeKept
INVARIANT ChangelogComplete
PROPERTY NeverPurgedEarly
CHECK_DEADLOCK FALSE
