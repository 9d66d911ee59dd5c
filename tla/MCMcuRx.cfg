\* Both versions of the receiver.
CONSTANTS
  Base = 8
  StartByte = 5
  DeviceId = 1
  Rx16Num = 2
  FifoSize = 16
  MaxDamage = 1
  Payloads <- BenignPayloads
SPECIFICATION FairSpec
INVARIANTS
  BufferInBounds
  CommandsExact
PROPERTIES
  CommandsInOrder
  Resynchronises
