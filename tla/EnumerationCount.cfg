\* The enumeration with duplicate probes (--count 2).
CONSTANTS
  MaxTargets = 3
  MaxPorts = 2
  Counts = {2}

SPECIFICATION Spec
INVARIANT EachPairCountTimes
