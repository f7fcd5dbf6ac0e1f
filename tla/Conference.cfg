SPECIFICATION Spec
CONSTANTS
    Created = {c1}
    Invited = {i1}
    Room = 1
INVARIANTS
    TypeOK
PROPERTIES
    EachInvite
    EndIsHeard
CHECK_DEADLOCK FALSE
