SPECIFICATION ReplaySpec
CONSTANTS
    Backend = "sqlite"
    Fundings = {f1}
    Balances = {0, 1, 2}
    Signatures = {good}
    Journals = {}
    Usages = {1}
    MaxUsage = 2
    None = None
    Handlers = {h1}
    Kinds = {"pay", "register", "unilateral", "resume", "recover"}
    Capacity = 2
    AliceSigs = {good}
    Price = 1
    Scale = 1
    Keysets = {k1, k2}
    FundingKeyset = k1
    ListsRetired = TRUE
    Serialized = TRUE
INVARIANTS
    UsageCovered
    ClosingMatchesMint
    UnilateralSettlesBest
CHECK_DEADLOCK FALSE
PROPERTIES
    CloseCompletes
    RequestsAnswered
