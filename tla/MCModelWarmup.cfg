SPECIFICATION Spec
CONSTANTS
  Workers = {w1, w2}
  Providers = {"chat", "fallback"}
  KeyOf <- MCKeyOf
  NoWorker = NoWorker
  MaxEvictions = 2
  MaxFaults = 2
  MaxStops = 1
INVARIANTS
  WarmWasVerified
  WarmedOnce
PROPERTIES
  StaysWarm
