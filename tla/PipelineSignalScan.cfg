\* One signal during a scan: does loop_cb stop calling the script?
CONSTANTS
  Tuples = 3
  Wait = 1
  Rate = 1
  MaxSignals = 1
  Spurious = FALSE
  LoopOutcomes <- HonestScript
  Garbage <- MCGarbage

SPECIFICATION Spec
PROPERTY GeneratorStopsOnSignal
CHECK_DEADLOCK FALSE
