SPECIFICATION MCSpec
CONSTANTS
    MaxU = 31
    FeeKeysets <- MCFeeKeysets
    AmountTerms <- MCAmountTerms
    NoTerms = noTerms
    MaxAmount = 24
    OpeningInputs <- MCOpeningInputs
    Charges <- MCCharges
    r1 = r1
    r2 = r2
    k1 = k1
    k2 = k2
    NoR = noR
    Splits <- MCSplits
    Randomness = {r1, r2}
    Keysets = {k1, k2}
    MaxFaults = 2
    Q = 5
    MaxDraws = 2
INVARIANTS
    
    
    OpeningBalances
    AmountDueSaturates
    AcceptedIsWhole
    RestoreIsExact
    OpeningVerifies
    DiscoveryFindsAll
    PartiesAgree
    OutputsSpendable
\* A behaviour ends when the last amount, fault or hash is reached.
CHECK_DEADLOCK FALSE
