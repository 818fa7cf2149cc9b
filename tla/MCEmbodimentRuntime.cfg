SPECIFICATION Spec
SYMMETRY Symmetry
CONSTANTS
    Bodies = {b1}
    Agents = {a1}
    Capabilities = {k1, k2}
    Configured <- MCConfigured
    Advertised <- MCAdvertised
    k1 = k1
    k2 = k2
    NoBody = NoBody
    NoAgent = NoAgent
    Clients = {c1, c2}
    Requests = {r1, r2}
    kitchen = kitchen
    garden = garden
    p1 = p1
    p2 = p2
    Sample <- MCSample
    RegisteredSpaces = {kitchen}
    NoSession = NoSession
    NoSample = NoSample
    NoRequest = NoRequest
    NoId = NoId
    NoClient = NoClient
    MaxSessions = 2
    MaxInstances = 2
INVARIANTS
    RuntimeIsSound
PROPERTIES
    OnlyHolderActs
    TelemetryAdvances
