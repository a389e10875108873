SPECIFICATION FairSpec
CONSTANTS
  s1 = s1
  h1 = h1
  NoConn = NoConn
  Http <- OneHttp
  Again <- OneHttp
  sockfd_tcp = 3
  sockfd_udp = 4
  sockfd_tcp_http = 5
  Conns <- TwoConns
  FdLimit = 8
  UrgentFds = {3, 6}
  MayStall = TRUE
INVARIANT TablesAgree
INVARIANT SnapshotFresh
INVARIANT NobodySkipped
INVARIANT CleanExit
PROPERTY EveryClientServed
PROPERTY StopEnds
