SPECIFICATION Spec
CONSTANTS
    Backend = "sqlite"
    c1 = c1
    c2 = c2
    k1 = k1
    k2 = k2
    Channels = {c1, c2}
    Openings = {o1, o2}
    Proofs = {p1}
    Balances = {1, 2}
    MaxCount = 2
    None = None
    Tasks = {t1, t2}
    Kinds = {"prepared", "recover_prepared", "record"}
    Keysets = {k1, k2}
    KeysetOf <- OneEach
    FirstKeyset = k1
    Capacity = 1
    Careful = TRUE
SYMMETRY Symmetry
INVARIANTS
    FundingReachable
    ChangeReachable
    PaymentsBacked
CHECK_DEADLOCK FALSE
PROPERTIES
    ClosedStaysClosed
