SPECIFICATION Spec
CONSTANTS
  W = 4
  Cpus = {"x86_64", "arm64", "loongarch64", "powerpc64", "riscv32", "riscv64", "windows", "mips64el", "mips64", "mipsn32", "hppa64", "hppa", "sparc64"}
  Bytes <- MCBytes
  Concurrent = TRUE
INVARIANTS
  TypeOK
  ReturnedUnlessNegative
  BystandersKept
