SPECIFICATION ServerSpec
CONSTANTS
    Clients = {c1, c2}
    Messages = {touch}
    OutMessages = {update}
    None = None
    MaxInbox = 2
INVARIANTS
    SlotIsServed
PROPERTIES
    SlotHandover
    DeadClientLosesSlot
    AtMostOneLateMessage
    StoppedSlotEmpties
CHECK_DEADLOCK FALSE
