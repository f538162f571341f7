SPECIFICATION Spec
CONSTANTS
    People = {p1, p2}
    Supers = {}
    Mails = {m1, m2}
    Requests = {r1}
    MaxRows = 2
    NoOne = NoOne
    Faults = {}
PROPERTY OwnerStays
CHECK_DEADLOCK FALSE
