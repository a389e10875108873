SPECIFICATION FairSpec
CONSTANTS
  c1 = c1
  c2 = c2
  s1 = s1
  NoOne = NoOne
  Clients <- TwoClients
  Strangers <- OneStranger
  HEARTBEAT_MAX_RETRIES = 3
  MaxInFlight = 1
  SocketBuffer = 1
INVARIANT ReadHasData
INVARIANT PacketMatchesAddr
INVARIANT AcksEarned
INVARIANT GivesUpWhenSilent
PROPERTY DeadServerNoticed
PROPERTY ServerAnswers
