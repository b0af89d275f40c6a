\* A script that may skip tuples, no signal: does the scan still complete?
CONSTANTS
  Tuples = 2
  Wait = 1
  Rate = 1
  MaxSignals = 0
  Spurious = FALSE
  LoopOutcomes <- SkippingScript
  Garbage <- MCGarbage

SPECIFICATION Spec
PROPERTY Termination
CHECK_DEADLOCK FALSE
