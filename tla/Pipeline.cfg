\* The pipeline with a script that honours the probe contract.
CONSTANTS
  Tuples = 3
  Wait = 1
  Rate = 1
  MaxSignals = 2
  \* No spurious wakeup at the start barrier (pktizr.c:93): the properties
  \* here are about completion and shutdown, and finding 4 shows what a
  \* spurious wakeup does to the barrier.
  Spurious = FALSE
  LoopOutcomes <- HonestScript
  Garbage <- MCGarbage

SPECIFICATION Spec

INVARIANT TypeOK
INVARIANT CompletionAfterScan

PROPERTY ShutdownRefined

\* main returns and the process exits: that final state has no successor.
CHECK_DEADLOCK FALSE
