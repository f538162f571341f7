SPECIFICATION Spec
CONSTANTS
    r1 = r1
    r2 = r2
    m1 = m1
    m2 = m2
    i1 = i1
    s1 = s1
    s2 = s2
    own = own
    NoReq = NoReq
    NoMsg = NoMsg
    NoSeller = NoSeller
INVARIANT TypeOK
INVARIANT AppliedOnce
INVARIANT RefundRecorded
INVARIANT DisputedHasRow
INVARIANT OneCatalog
PROPERTY RequestsEnd
PROPERTY CachesConverge
PROPERTY PullHeals
PROPERTY PendingResolves
PROPERTY DeliveredIsReceived
CHECK_DEADLOCK FALSE
