SPECIFICATION ReceiveFairSpec
CONSTANTS
    Capacity = 1
CHECK_DEADLOCK FALSE
INVARIANTS ReceiveTypeOK DeliveredOnce
PROPERTIES MediaSession
