CONSTANTS
  Sends = {s1, s2}
  Fetches = {f1}
  LegacyFetches = {f1}
  MaxConnections = 2
  MaxRounds = 2
SPECIFICATION FairSpec
INVARIANTS TypeOK PermitsAddUp EndedIsMeasured OkIsTrue
PROPERTY RequestsEnd
CHECK_DEADLOCK FALSE
