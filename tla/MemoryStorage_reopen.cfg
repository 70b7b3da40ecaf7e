SPECIFICATION Spec
CONSTANTS
    Threads = {t1, t2, t3}
    Fundings = {f1}
    Balances = {0, 1}
    Signatures = {s1}
    Journals = {j1, j2}
    None = None
INVARIANTS
    ClosingNeverSeenAsOpen
