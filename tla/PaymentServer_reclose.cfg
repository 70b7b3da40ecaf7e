SPECIFICATION Spec
CONSTANTS
    Backend = "sqlite"
    Fundings = {f1}
    Balances = {0, 1}
    Signatures = {good}
    Journals = {}
    Usages = {1}
    MaxUsage = 2
    None = None
    Handlers = {h1, h2}
    Kinds = {"pay", "cooperative", "unilateral"}
    Capacity = 1
    AliceSigs = {good}
    Price = 1
    Scale = 1
    Keysets = {k1}
    FundingKeyset = k1
    ListsRetired = FALSE
    Serialized = TRUE
INVARIANTS
    ClosingMatchesMint
SYMMETRY HandlerSymmetry
CHECK_DEADLOCK FALSE
