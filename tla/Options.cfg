\* Every occurrence: every option, form, word split and value class.
SPECIFICATION Spec
CONSTANTS
  Occ <- Occurrences
  MaxOpts = 2
INVARIANT ValidatedArgs
CHECK_DEADLOCK FALSE
