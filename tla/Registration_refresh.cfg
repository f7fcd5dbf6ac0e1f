SPECIFICATION FairSpec
CONSTANTS
    Nonces = {n1, n2}
    NoNonce = NoNonce
    Expiries <- MCExpiries
    IsAka = FALSE
    MaxTime = 4
CHECK_DEADLOCK FALSE
PROPERTY RefreshedWhenDue
