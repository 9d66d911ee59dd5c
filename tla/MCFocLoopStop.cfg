\* Commands stop arriving.
CONSTANTS
  Command <- Commands
  TxPeriod = 3
  CmdTimeout = 4
  LoopTime = 2
  FillTime = 3
  DrainTime = 2
  SetupTime = 6
SPECIFICATION Spec
INVARIANT StopsWithoutCommands
