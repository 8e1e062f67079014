CONSTANTS
  n1 = n1
  n2 = n2
  n3 = n3
  t1 = t1
  t2 = t2
  t3 = t3
  k1 = k1
  k2 = k2
  k3 = k3
  k4 = k4
  a = a
  b = b
  d = d
  Notes = {n1, n2, n3}
  Tags = {t1, t2, t3}
  TagOf <- MCTagOf
  BatchSize = 2
  LegacyThreshold <- MCLegacyThreshold
  Calls = {k1, k3}
  CallNote <- MCCallNote
  HeaderSize <- MCHeaderSize
  DetailsSize <- MCDetailsSize
  Malformed = {}
  MaxNoteSize = 2
  Clients = {b}
  AskTags <- MCAskTags
  MaxTags = 3
  FirstCursor <- MCFirstCursor
  Watchers = {}
  PoolSize = 1
  Retention = 0
  MaxTime = 1
  MaxFaults = 1
SPECIFICATION FairSpec
PROPERTIES SendEnds OldNotesGo StoredIsDelivered
