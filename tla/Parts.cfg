SPECIFICATION Spec
CONSTANTS
    r1 = r1
    n1 = n1
    p1 = p1
    m1 = m1
    m2 = m2
    NoReq = NoReq
    NoRow = NoRow
    NoOne = NoOne
    Requests = {r1, r2}
    Notices = {n1, n2}
    Attempts = {a1, a2}
    Refunds = {x1}
    Zips = {1, 2}
    People = {a1, a2}
    Supers = {a2}
    Mails = {m1, m2}
    Calls = {c1, c2}
    Merchants = {m1, m2}
    MaxChanges = 1
    MaxUnits = 2
    MaxConfirms = 2
    MaxAttempts = 2
    MaxCodes = 2
    MaxInvites = 2
    MaxMembers = 3
    MaxAccounts = 2
    MaxKept = 3
    MaxTokens = 3
INVARIANT TypeOK
INVARIANT HeldBalance
INVARIANT PaidFindsOrder
INVARIANT ConfirmedIsWhole
INVARIANT CodeOnce
INVARIANT RefusedWithNew
INVARIANT SellerAgrees
INVARIANT AccessAnswers
INVARIANT RowsAnswer
PROPERTY ChangesAllowed
PROPERTY AuthedIsCurrent
PROPERTY AckedIsHeld
PROPERTY ConfirmedStays
PROPERTY StaysPayable
CHECK_DEADLOCK FALSE
