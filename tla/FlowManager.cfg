SPECIFICATION Spec
CONSTANTS
    Conns = {c1, c2}
    None = None
    Elsewhere = Elsewhere
    FlowIds = {f1, f2}
    Records = {r1, r2}
    Lifetimes <- MCLifetimes
CHECK_DEADLOCK FALSE
INVARIANTS TypeOK SubscriptionOfObserved FlowsSound
PROPERTY RegInfo
