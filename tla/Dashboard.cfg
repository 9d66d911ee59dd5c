\* One device, two events.
CONSTANTS
  Id = {1}
  NoNode = NoNode
  MaxEvents = 2
SPECIFICATION FairSpec
INVARIANTS
  ExitClean
PROPERTIES
  ShutdownEnds
  RowsTell
