SPECIFICATION Spec
CONSTANTS
    Invitations = {i1, i2}
    ann = ann
    Contacts = {ann}
    From <- FromAnn
    Messages = {m1, m2}
    Connections = 2
    Room = 1
    NoSession = NoSession
INVARIANTS
    TypeOK
    ListIsExact
    IncomingAnswerable
PROPERTIES
    EachInvite
    MessagesMoveOn
CHECK_DEADLOCK FALSE
