\* A household of three, a cabinet with two levels of hosted spaces, five items.
CONSTANTS
  NodeFiles <- MCNodeFiles
  EdgeFiles <- MCEdgeFiles
  TypeOf <- MCTypeOf
  Records <- MCRecords
  Now <- MCNow
  Order <- MCOrder
  StaticEdges <- MCStaticEdges
  Layouts <- MCAllLayouts
  Moves <- MCMoves
  Names <- MCNames
  Normal <- MCNormal
  FullName <- MCFullName
  Collapsed = {"cabinet", "loopA"}
  Concepts <- MCConcepts
  Caller = "ann"
  Household = "home"
  Assistant = "agent"
  Requests <- MCRequests
  Discourses <- MCDiscourses
  MaxRecords = 3
  ScopeDepth = 12
  MaxMoves = 2
SPECIFICATION FactsSpec
INVARIANTS AnswerBracketed FailureJustified OffsetMeetsItsAnniversary OccurrenceIsNext
CHECK_DEADLOCK FALSE
