SPECIFICATION MCSpec
CONSTANTS
    u1 = u1
    u2 = u2
    k1 = k1
    s1 = s1
    s2 = s2
    User = {u1, u2}
    Key = {k1}
    Reservation = {1, 2}
    OwnerOf <- MCOwnerOf
    KeyOf <- MCKeyOf
    AmountOf <- MCAmountOf
    Quotas = {1}
    NoQuota = NoQuota
    NoReservation = NoReservation
    SignupBonus = 2
    MaxCredits = 2
    MaxAttempts = 1
    MaxEntries = 2
    Session = {s1, s2}
    Batch <- MCBatch
    Amount = {1}
    Idle = Idle
SYMMETRY Connections
INVARIANTS
    ChecksStillHold
    RoutineNeverDeadlocks
PROPERTIES
    ImplementsLedger
