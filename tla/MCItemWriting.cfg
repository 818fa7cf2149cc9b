SPECIFICATION WritingSpec
CONSTANTS
    Items = {i1}
    Places = {p1, p2}
    Admissible = {p1, p2}
    Values = {v1, v2, w1}
    Declared = {v1, v2}
    Callers = {c1, c2}
    NoItem = NoItem
    NoPlace = NoPlace
    NoCall = NoCall
    Free = Free
    MaxAbandoned = 1
    Keys <- MCKeys
    PlacesCalled <- MCCalled
    HomePlaces <- MCHome
    Suitable <- MCSuitable
    Writable <- MCWritable
    Clients = {c1, c2}
    Requests <- MCRequests
    Stores <- MCStores
    MaxCalls = 3
SYMMETRY Symmetry
INVARIANTS
    TablesAreSound
    ReplyJustified
PROPERTIES
    AppliedReportIsActual
    OnlyAppliedCommitsWrite
