\* str_unpack of any data of up to three chars: does it stay inside the data?
CONSTANTS
  NB = 2
  SZINT = 2
  IntSize = 1
  MAXINTSIZE = 3
  NativeLittle = TRUE
  Formats <- MCFormats
  IntVals <- MCIntVals
  StrVals <- MCStrVals
  Recv <- MCRecv
  Inits <- MCInits

SPECIFICATION Spec

INVARIANT UnpackWithinData

\* A call ends with its result or its error.
CHECK_DEADLOCK FALSE
