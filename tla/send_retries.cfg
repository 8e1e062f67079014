CONSTANTS
  n1 = n1
  n2 = n2
  n3 = n3
  t1 = t1
  t2 = t2
  t3 = t3
  k1 = k1
  k2 = k2
  k3 = k3
  k4 = k4
  a = a
  b = b
  d = d
  Notes = {n1, n2, n3}
  Tags = {t1, t2, t3}
  TagOf <- MCTagOf
  BatchSize = 1
  LegacyThreshold <- MCLegacyThreshold
  Calls = {k1, k2, k3, k4}
  CallNote <- MCCallNote
  HeaderSize <- MCHeaderSize
  DetailsSize <- MCDetailsSize
  Malformed = {n2}
  MaxNoteSize = 2
  Clients = {d}
  AskTags <- MCAskTags
  MaxTags = 3
  FirstCursor <- MCFirstCursor
  Watchers = {a}
  PoolSize = 2
  Retention = 0
  MaxTime = 1
  MaxFaults = 2
SPECIFICATION Spec
INVARIANTS AckedIsStored DuplicateMeansStored StoredOnce StatsAgree
