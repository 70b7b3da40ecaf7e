SPECIFICATION Spec
CONSTANTS
    Backend = "sqlite"
    c1 = c1
    c2 = c2
    k1 = k1
    k2 = k2
    Channels = {c1, c2}
    Openings = {o1}
    Proofs = {p1}
    Balances = {1}
    MaxCount = 0
    None = None
    Tasks = {t1}
    Kinds = {"open"}
    Keysets = {k1, k2}
    KeysetOf <- OneEach
    FirstKeyset = k1
    Capacity = 1
    Careful = FALSE
PROPERTIES
    FollowsLifecycle
CHECK_DEADLOCK FALSE
