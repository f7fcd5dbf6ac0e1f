SPECIFICATION Spec
CONSTANTS
    Conns = {c1, c2}
    None = None
    Elsewhere = Elsewhere
    FlowIds = {f1}
    Records = {r1}
    Lifetimes <- MCLifetimes
CHECK_DEADLOCK FALSE
PROPERTY EndsOwnSubscription
