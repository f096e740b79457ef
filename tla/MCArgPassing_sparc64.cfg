SPECIFICATION Spec
CONSTANTS
  ABIs <- Sparc64ABIs
  Types <- MCTypes
  Calls <- Sparc64Calls
INVARIANT SpecifiedValueReturned
CHECK_DEADLOCK FALSE
