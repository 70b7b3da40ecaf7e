SPECIFICATION MCSpec
CONSTANTS
    k1 = k1
    k2 = k2
    k3 = k3
    Order <- MCOrder
    Meta <- MCMeta
    Unit = "sat"
    Allowed = {0, 1}
    Inputs = {k1}
    FirstActive = {k1, k3}
    Refreshers = {r1}
    MaxNow = 1
    MaxCacheFaults = 1
    NoKeyset = none
    HostBindings = {"go", "python", "wasm"}
    HostBalances = {1, 2, 3}
    Mantissa = 1
    MaxHostUsage = 3
    MaxHostFaults = 2
    ClientBalances = {1, 2}
    OpeningRecords = {1, 2}
    MaxClientFaults = 2
INVARIANTS
    
    
    
    SpentInputsReachable
PROPERTIES
    SwapIsJournaled
    
\* An application may stop calling.
CHECK_DEADLOCK FALSE
