SPECIFICATION Spec
CONSTANTS
  W = 2
  Cpus = {"x86_64"}
  Bytes <- MCBytes
  Concurrent = FALSE
INVARIANTS
  ReturnedExactly
