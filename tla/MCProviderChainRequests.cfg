SPECIFICATION Spec
CONSTANTS
    Providers <- MCProviders
    Chain <- MCChain
    Attempts = 2
    Threshold = 2
    Cooldown = 3
    Never = Never
    MaxTime = 2
    MaxRequests = 3
INVARIANT NotHammered
