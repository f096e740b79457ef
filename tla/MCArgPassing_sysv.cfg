SPECIFICATION Spec
CONSTANTS
  ABIs <- SysVABIs
  Types <- MCTypes
  Calls <- SysVCalls
INVARIANT NextArgumentFetched
CHECK_DEADLOCK FALSE
