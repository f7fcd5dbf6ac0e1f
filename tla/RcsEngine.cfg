SPECIFICATION FairSpec
CONSTANTS
    Conns = {c1, c2}
    None = None
CHECK_DEADLOCK FALSE
INVARIANTS TypeOK DeadlocksKnown MaintainedIsRegistered
PROPERTIES OnlyHostUnbindsCurrent EachLifecycle AttemptResolves
