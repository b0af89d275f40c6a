\* The enumeration with one probe per tuple (the default --count).
CONSTANTS
  MaxTargets = 4
  MaxPorts = 4
  Counts = {1}

SPECIFICATION Spec
INVARIANT TypeOK
INVARIANT EachPairCountTimes
