SPECIFICATION Spec
CONSTANTS
  procA = procA
  procB = procB
  procC = procC
  Numeral <- Numbers
  Procs <- ThreeProcs
  MayRun <- Roles
  ArgumentLists <- Lists
  Addresses <- Hosts
INVARIANT ReadyToServe
INVARIANT NoStraySocket
INVARIANT ModeMeetsService
INVARIANT LastPairWins
PROPERTY OnlyLiveSocketsRefuse
