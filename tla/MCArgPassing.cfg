SPECIFICATION Spec
CONSTANTS
  ABIs <- ABISet
  Types <- MCTypes
  Calls <- MCCalls
INVARIANTS
  TypeOK
  ArgumentsArrive
  StructAddressArrives
  ReturnValueArrives
  StoresInside
PROPERTIES
  PushedKept
CHECK_DEADLOCK FALSE
