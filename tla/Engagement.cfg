SPECIFICATION Spec
CONSTANTS
  ana = ana
  budi = budi
  mal = mal
  bot = bot
  noOne = noOne
  jean = jean
  else = else
  People <- MCPeople
  Blocked <- MCBlocked
  Manager = ana
  Bot = bot
  NoOne = noOne
  Jean = jean
  Else = else
  Messages <- MCMessages
  MaxPosts = 3
  Faults = {"fails", "redelivered", "ack"}
  MaxFaults = 1
\* The thread may have nothing left to say.
CHECK_DEADLOCK FALSE
INVARIANTS
  PartnerHasEngaged
  TurnsAreEarned
  OneTurnEach
  OrderlyMessagesFollowTheRules
  AddressedAreAnswered
PROPERTIES
  BystandersAreInert
