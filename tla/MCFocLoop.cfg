\* A loop of two milliseconds, in which the receive buffer can fill, and a frame
\* that takes longer than a period to drain.
CONSTANTS
  Command <- Commands
  TxPeriod = 3
  CmdTimeout = 4
  LoopTime = 2
  FillTime = 2
  DrainTime = 5
  SetupTime = 6
SPECIFICATION Spec
INVARIANTS
  CommandsPrompt
  TelemetryRegular
PROPERTY TelemetrySpaced
