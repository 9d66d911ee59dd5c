\* Eight counts per turn, a frame per tick, a pass per tick.
SPECIFICATION Spec
CONSTANTS
  Motors <- ThreeMotors
  Handled <- LastHandled
  EncoderMax = 8
  QueueLen = 4
  MaxStep = 1
  PassTicks = 1
  MaxPosition = 11
  MaxPulses = 2
INVARIANTS
  AnglesExact
  NeverSlips
  PulsesKept
