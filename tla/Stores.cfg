SPECIFICATION Spec
CONSTANTS
  t1 = t1
  t2 = t2
  s1 = s1
  s2 = s2
  c1 = c1
  c2 = c2
  Threads <- MCThreads
  Sids <- MCSids
  Modes = {plan}
  Users = {alice}
  Data = {transcript}
  ApprovalIds = {approval}
  ScheduleIds <- MCScheduleIds
  Null = Null
  Retention = 1
  Interval = 1
  Start = 1
  MaxTime = 3
  MaxSeq = 2
  MaxCalls = 5
SYMMETRY MCSymmetry
INVARIANT
  SameAnswers
