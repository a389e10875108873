SPECIFICATION FairSpec
CONSTANTS
  Base = 4
  Packets <- TwoPackets
  MaxPackets = 3
  Room = 9
INVARIANT TypeOK
INVARIANT InStep
INVARIANT FormatsRoundTrip
PROPERTY ImplementsPacketQueue
