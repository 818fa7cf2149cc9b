SPECIFICATION Spec
SYMMETRY Symmetry
CONSTANTS
    Chats = {k1}
    Persons = {p1, p2}
    Bodies = {b1}
    Requests = {r1, r2}
    NoBody = NoBody
    NoRecord = NoRecord
    NoRequest = NoRequest
    MaxTurns = 5
INVARIANTS
    ConversationsAreOwned
    SerialUseIsAtomic
PROPERTY SerialSelectionRetained
CHECK_DEADLOCK FALSE
