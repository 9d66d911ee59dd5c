\* An executor up to two ticks late, a timeout of four ticks, retries every three,
\* and a buffer of the driver that takes three updates to read.
CONSTANTS
  RxTimeout = 4
  Interval = 3
  SendPeriod = 1
  MaxLate = 2
  MaxReads = 3
SPECIFICATION FairSpec
INVARIANTS
  TypeOK
  DeadLinkCloses
  NoSplice
PROPERTIES
  NoPrematureTimeout
  RetriesPaced
  StreamConnects
