\* Four turns of one conversation, a turn of another, and a request without one;
\* room for one conversation, two remembered turns.
CONSTANTS
  Requests = {"a1", "a2", "a3", "a4", "b", "n"}
  KeyOf <- MCKeyOf
  Sent <- MCSent
  PlansFor <- MCPlansFor
  None = "none"
  Maximum = 1
  MaxTurns = 2
  Attempts = 2
  Scenarios = {{"a1", "a2", "a3", "a4"}, {"a1", "b", "a2"}, {"b", "n"}}
SPECIFICATION Spec
INVARIANTS TurnsReferBack UsedConversationsStay ReplayIsInOrder WritesAreAskedFor
PROPERTIES RequestsEnd
CHECK_DEADLOCK FALSE
