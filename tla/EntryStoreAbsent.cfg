SPECIFICATION Spec
CONSTANTS
    Ids = {i1}
    Servers = {p1}
    Sources = {a, b}
    Keys = {k}
    NoKey = NoKey
    Values = {v, w}
    Absent = Absent
    Ttls = {1}
    Retention = 2
    MaxTime = 4
    MaxEdits = 2
SYMMETRY Symmetry
PROPERTY UpdateTakesEffect
CHECK_DEADLOCK FALSE
