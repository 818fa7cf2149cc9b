SPECIFICATION FairSpec
CONSTANTS
    Bodies = {b1}
    Agents = {a1, a2}
    Capabilities = {}
    NoBody = NoBody
    NoAgent = NoAgent
    Callers = {c1, c2}
    Services = {s1, s2}
    Free = Free
    NoCall = NoCall
    MaxAbandoned = 1
INVARIANTS
    AssignmentsAreSound
    SharedServiceDecisionsHold
PROPERTIES
    CallsReturn
    ImplementsStore
