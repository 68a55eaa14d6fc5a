SPECIFICATION FairSpec
CONSTANTS
    Providers <- MCProviders
    Chain <- MCChain
    Attempts = 2
    Threshold = 2
    Cooldown = 2
    Never = Never
    MaxTime = 4
    MaxRequests = 2
INVARIANT TypeOK
INVARIANT FallbackInOrder
INVARIANT NotHammeredInRequest
PROPERTY CallsEnd
PROPERTY KeepsContract
