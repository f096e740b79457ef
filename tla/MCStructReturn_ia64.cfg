SPECIFICATION Spec
CONSTANTS
  W = 2
  Cpus = {"ia64"}
  Bytes <- MCBytes
  Concurrent = FALSE
INVARIANTS
  BystandersKept
