SPECIFICATION FairSpec
CONSTANTS
  c1 = c1
  c2 = c2
  Listener = Listener
  NoConn = NoConn
  NoRequest = NoRequest
  Conns <- TwoConns
  Pipelining <- SecondOne
  MaxRequests = 2
  MaxDown = 1
  Pieces = 3
  FailingCalls <- Calls
INVARIANT ServerSurvives
