CONSTANTS
  n1 = n1
  n2 = n2
  n3 = n3
  t1 = t1
  t2 = t2
  s1 = s1
  s2 = s2
  s3 = s3
  TagOf <- MCTagOf
  SubTag <- MCSubTag
  LegacyThreshold = 9
  BatchSize = 1
  Subs = {s1, s2}
  Notes = {n1, n3}
  Tags = {t1}
  CtrlCap = 2
  SubCap = 1
  MaxStored = 2
  MaxCleanups = 0
  Period = 1
  MaxSpurious = 1
  MaxOthers = 1
  EndlessOthers = FALSE
  MaxErrors = 1
  MayStop = FALSE
SPECIFICATION Spec
INVARIANT CursorWasForwarded
