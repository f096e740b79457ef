SPECIFICATION Spec
CONSTANTS
  TemplatesOfR <- OnlyRiscv32
  TemplatesOfG = {}
INVARIANT CallsAsAllocated
