SPECIFICATION StoreSpec
CONSTANTS
    Backend = "sqlite"
    Fundings = {f1, f2}
    Balances = {0, 1, 2}
    Signatures = {s1, s2}
    Journals = {j1, j2}
    Usages = {1}
    MaxUsage = 1
    None = None
INVARIANTS
    JournalFreezesPayment
PROPERTIES
    Ratchet
