\* A queue of two events, a message channel of one, two publishers.
SPECIFICATION FairSpec
CONSTANTS
    Handler = handler
    Rpc = {rpc}
    Bus = bus
    Cap = 2
    MsgCap = 1
    MaxEvents = 4
CHECK_DEADLOCK FALSE
INVARIANTS
    DeliveredInOrder
PROPERTIES
    BusDrains
