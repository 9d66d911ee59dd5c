\* Every image, two commands, the words that a task handles in its own way.
SPECIFICATION Spec
CONSTANTS
  Images <- AllImages
  RxWatched <- CommandWords
  TxWatched <- TelemetryWords
  Rx16Num = 24
  MaxFrames = 2
  Miswired <- MiswiredImages
INVARIANTS
  Configured
  DriversAgree
  MeasurementWhole
PROPERTIES
  ImplementsRegister
  CatchesUp
