\* Two sources that are installed, and what is exported; eight sources that are refused.
CONSTANTS
  Tables <- MCTables
  Schemas <- MCSchemas
  RetiredEdges = {"contained_in"}
  RetiredNodes = {"location"}
  TableOf <- MCTableOf
  Sources <- MCSources
  Installed <- MCInstalled
  Leftovers <- MCLeftovers
  Absent = "absent"
  Null = "null"
  Items = {"i1", "i2"}
  Places = {"s1", "s2"}
  Budgets <- MCBudgets
SPECIFICATION Spec
INVARIANTS InstalledIsSource StaysSomewhere ExportedComesBack OldTreeSurvives
CHECK_DEADLOCK FALSE
