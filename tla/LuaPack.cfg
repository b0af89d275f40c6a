\* pack and unpack of every format of up to two items (three for items
\* that align), with the integer codec checked against its reference.
CONSTANTS
  NB = 2
  SZINT = 2
  IntSize = 1
  MAXINTSIZE = 3
  NativeLittle = TRUE
  Formats <- MCFormats
  IntVals <- MCIntVals
  StrVals <- MCStrVals
  Recv <- MCRecv
  Inits <- MCInits

SPECIFICATION Spec

INVARIANT TypeOK
INVARIANT IntCodecMatchesReference
INVARIANT PackUnpackRoundTrip

\* A call ends with its result or its error.
CHECK_DEADLOCK FALSE
