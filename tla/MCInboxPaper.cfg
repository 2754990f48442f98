SPECIFICATION InboxSpec
CONSTANTS
  m1 = m1
  m2 = m2
  Incoming = {m1, m2}
  SourceOf <- OneSender
  Mail <- OneBad
  Batch = 1
  Retain = FALSE
  MaxPapers = 1
  MaxChanges = 1
INVARIANT PaperExempt
CHECK_DEADLOCK FALSE
