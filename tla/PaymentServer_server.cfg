SPECIFICATION Spec
CONSTANTS
    Backend = "sqlite"
    Fundings = {f1}
    Balances = {0, 1, 2, 3}
    Signatures = {good, bad}
    Journals = {}
    Usages = {1}
    MaxUsage = 2
    None = None
    Handlers = {h1, h2}
    Kinds = {"pay", "register", "cooperative", "unilateral", "resume", "recover"}
    Capacity = 2
    AliceSigs = {good}
    Price = 1
    Scale = 1
    Keysets = {k1}
    FundingKeyset = k1
    ListsRetired = FALSE
    Serialized = FALSE
INVARIANTS
    CloseAuthorized
    ServedPaymentKept
    ClosedMatchesMint
    SettledChannelNotOpen
SYMMETRY HandlerSymmetry
CHECK_DEADLOCK FALSE
