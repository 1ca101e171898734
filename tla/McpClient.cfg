SPECIFICATION FairClientSpec
CONSTANTS
  a1 = a1
  a2 = a2
  a3 = a3
  nobody = nobody
  Callers <- MCCallers2
  Nobody = nobody
  Faults = {"dies", "hangup", "spawn", "refuse", "noise", "stubborn"}
  MaxFaults = 2
\* Every call may be over.
CHECK_DEADLOCK FALSE
INVARIANTS
  RepliesMatch
  NobodyAwaitsTheGone
  NoStray
PROPERTIES
  RebuiltOnce
  CallsEnd
