CONSTANTS
  IdTokens = {"p", ":k"}
  DisplayName <- MCDisplayName
  AgentName <- MCAgentName
  Punctuation = {","}
  Space = " "
  Address <- MCAddress
  MaxSteps = 3
  MaxCalls = 2
  MaxRecords = 2
  MaxBytes = 5
  ToolNames = {"calendar.list_events", "calendar.check_availability", "write_item", "get_entity"}
  Public = {"calendar.list_events", "calendar.check_availability", "write_item"}
  Limits <- MCLimits
  LimitMaximum = 3
  NameBytes <- MCNameBytes
  ItemBytes = {2}
  MaxItems = 3
  Alphabet = {"a", ",", " ", "p", ":k"}
  MaxText = 4
  MaxLaterText = 1
SPECIFICATION LoopSpec
INVARIANTS StreamShowsTheAnswer StopReasonIsWhatHappened ToolsAreServed
PROPERTY AnswerEnds
