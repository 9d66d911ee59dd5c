\* Frames of eight bytes.  A damaged LEN byte makes one of up to 19 bytes, so that
\* rx_buffer_ and a read hold three messages, one of them out of the data of
\* another: one more than the limit.  Whole frames do not reach it.
CONSTANTS
  Base = 16
  StartByte = 5
  DeviceId = 1
  Rx16Num = 2
  ReadSize = 8
  MaxFrames = 2
  KernelSize = 16
  MaxDamage = 1
  Feedback <- NestedPayloads
SPECIFICATION BridgeFairSpec
INVARIANTS
  NothingWithheld
PROPERTIES
  ChunkingIndependent
  StreamExact
  BridgeResynchronises
