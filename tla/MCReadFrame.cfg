\* A device without start bytes in its data; damaged bytes may be start bytes.
CONSTANTS
  Base = 8
  StartByte = 5
  DeviceId = 1
  Stream <- PlainStream
  Boundaries <- PlainBoundaries
  MaxGap = 2
  MaxDamage = 2
  TimeoutMs = 5
  MaxFrameSize = 10
SPECIFICATION FairSpec
INVARIANTS
  Recognised
  IdentifiedRight
PROPERTY Ends
