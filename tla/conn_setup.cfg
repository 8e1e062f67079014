CONSTANTS
  o1 = o1
  o2 = o2
  n1 = n1
  Conns = {c1, c2, c3}
  Notes = {n1}
  OldNotes = {o1, o2}
  CreatedAt <- MCCreatedAt
  MaxFaults = 2
SPECIFICATION FairSpec
INVARIANTS TypeOK ReadyMeansMigrated NotesKept RefusedOnlyIfRun
PROPERTIES PositionsKept EveryoneConnects
CHECK_DEADLOCK FALSE
