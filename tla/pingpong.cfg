SPECIFICATION FairSpec
CONSTANTS
  c1 = c1
  c2 = c2
  Listener = Listener
  Clients <- TwoClients
  MaxDown = 2
INVARIANT KilledOnlyByCrossing
INVARIANT OnePongPerPing
PROPERTY ClientsAreForgotten
PROPERTY ClientsFinish
