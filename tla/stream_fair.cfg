CONSTANTS
  n1 = n1
  n2 = n2
  n3 = n3
  t1 = t1
  t2 = t2
  s1 = s1
  s2 = s2
  s3 = s3
  TagOf <- MCTagOf
  SubTag <- MCSubTag
  LegacyThreshold = 9
  BatchSize = 1
  Subs = {s1, s3}
  Notes = {n1}
  Tags = {t1, t2}
  CtrlCap = 6
  SubCap = 1
  MaxStored = 1
  MaxCleanups = 1
  Period = 1
  MaxSpurious = 0
  MaxOthers = 0
  EndlessOthers = FALSE
  MaxErrors = 1
  MayStop = TRUE
SPECIFICATION FairSpec
PROPERTIES WaitingIsServed ClosedIsRemoved StopEndsStreams
CHECK_DEADLOCK FALSE
