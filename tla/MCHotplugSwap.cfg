\* A device moved to another one's port.
CONSTANTS
  d1 = d1
  d2 = d2
  Device = {d1, d2}
  Id = {1, 2}
  Flashings <- OnlyOwn
  Port = {1, 2}
  Excluded = {}
  NoPort = NoPort
  Closed = Closed
  Gone = Gone
  MaxEvents <- Two
SPECIFICATION FairSpec
PROPERTY AnyPortServes
