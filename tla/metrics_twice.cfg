CONSTANTS
  Sends = {s1, s2}
  Fetches = {f1}
  LegacyFetches = {f1}
  MaxConnections = 2
  MaxRounds = 2
SPECIFICATION Spec
INVARIANT RecordedOnce
CHECK_DEADLOCK FALSE
