SPECIFICATION Spec
CONSTANTS
    u1 = u1
    k1 = k1
    k2 = k2
    r1 = r1
    r2 = r2
    r3 = r3
    User = {u1}
    Key = {k1, k2}
    Reservation = {r1, r2, r3}
    OwnerOf <- MCOwnerOf
    KeyOf <- MCKeyOf
    AmountOf <- MCAmountOf
    Quotas = {2}
    NoQuota = NoQuota
    NoReservation = NoReservation
    SignupBonus = 2
    MaxCredits = 3
    MaxAttempts = 2
    MaxEntries = 2
INVARIANTS
    TypeOK
    Covered
    QuotaAccounting
    ChargedOnce
    BalanceChain
PROPERTIES
    QuotaRespected
CHECK_DEADLOCK FALSE
