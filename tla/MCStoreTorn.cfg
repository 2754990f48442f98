SPECIFICATION Spec
CONSTANTS
  m1 = m1
  m2 = m2
  m3 = m3
  m4 = m4
  m5 = m5
  A = A
  B = B
  C = C
  Ids = {m1, m2}
  SourceOf <- TwoMessages
  MaxMessages = 2
  MaxUnverified = 1
  MaxSources = 1
  MaxRecords = 4
  Signatures = {"VERIFIED"}
  Updated = {"status"}
  Bodies = {0, 1}
  MaxFailures = 1
  MaxCrashes = 1
INVARIANT AcceptedSurvives
CHECK_DEADLOCK FALSE
