SPECIFICATION FairSpec
CONSTANTS
    Nonces = {n1, n2}
    NoNonce = NoNonce
    Expiries <- MCExpiries
    IsAka = TRUE
    MaxTime = 4
CHECK_DEADLOCK FALSE
INVARIANTS TypeOK DeregisterIsLast OneChallengeSigns
PROPERTIES Lifecycle Settles
