SPECIFICATION FairSpec
CONSTANTS
    c1 = c1
    c2 = c2
    r1 = r1
    r2 = r2
    r3 = r3
    ref = ref
    none = none
    Customers = {c1, c2}
    Requests = {r1, r2, r3}
    References = {ref}
    Inputs <- MCInputs
    NoReference = none
    NoInput = none
    NoRequest = none
    MaxCents = 3
    MaxEntries = 2
INVARIANTS
    LedgerRunsToTheBalance
PROPERTIES
    ImplementsCreditAccounts
    EveryAdjustmentEnds
