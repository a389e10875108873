SPECIFICATION FairSpec
CONSTANTS
  Unset = Unset
  NoFile = NoFile
  MaxBody = 4
  Room = 4
  DEFAULT_BUFFER_SIZE = 8
INVARIANT TypeOK
INVARIANT HeadersWhole
INVARIANT BodyFits
INVARIANT FileIsResource
PROPERTY ExchangeEnds
