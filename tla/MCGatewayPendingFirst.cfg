SPECIFICATION MCSpec
CONSTANTS
    u1 = u1
    k1 = k1
    r1 = r1
    w1 = w1
    w2 = w2
    User = {u1}
    Key = {k1}
    Reservation = {r1}
    OwnerOf <- MCOwnerOf
    KeyOf <- MCKeyOf
    AmountOf <- MCAmountOf
    Quotas = {}
    NoQuota = NoQuota
    NoReservation = NoReservation
    SignupBonus = 2
    MaxCredits = 2
    MaxAttempts = 2
    MaxEntries = 1
    Worker = {w1, w2}
INVARIANTS
    PendingBeforeReturned
CHECK_DEADLOCK FALSE
