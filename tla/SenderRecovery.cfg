SPECIFICATION LiveSpec
CONSTANTS
    k1 = k1
    k2 = k2
    Contexts = {c1}
    Keysets = {k1, k2}
    Covers <- MCCovers
    Expiry = 0
    MaxTime = 1
    MaxAttempts = 2
    MaxNetFaults = 1
    NoAttempt = noAttempt
INVARIANTS
    RefundRestorable
    RecoveryExact
PROPERTIES
    AbsenceIsReal
    SenderMadeWhole
\* Once it is paid a sender has nothing left to do.
CHECK_DEADLOCK FALSE
