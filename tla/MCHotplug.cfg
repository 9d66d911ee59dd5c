\* Two devices with their own IDs or a shared one; three ports, one excluded.
CONSTANTS
  d1 = d1
  d2 = d2
  Device = {d1, d2}
  Id = {1, 2}
  Flashings <- OwnOrSame
  Port = {1, 2, 3}
  Excluded = {3}
  NoPort = NoPort
  Closed = Closed
  Gone = Gone
  MaxEvents <- ThreeOrTwo
SPECIFICATION FairSpec
INVARIANTS
  TypeOK
  KnownPortsExact
  PortsDistinct
  ScanAvoidsNodes
  SingleReader
  ExcludedUntouched
PROPERTIES
  RegistrySpec
  EventuallyBridged
  ShutdownCompletes
