SPECIFICATION Spec
CONSTANTS
  TemplatesOfR <- AllOfR
  TemplatesOfG <- AllOfG
INVARIANTS
  CallsAsAllocated
  QueriesReadBack
  NextSlotKept
  StoresAligned
