------------------------- MODULE MCTrampolineLayout -------------------------
(* All CPUs of both packages. riscv32 of callback has a run of its own.      *)
EXTENDS TrampolineLayout

R == INSTANCE TemplatesR
G == INSTANCE TemplatesG

AllOfR == {R!i386, R!m68k, R!mips, R!mips64, R!sparc, R!sparc64, R!alpha, R!hppa,
           R!hppa64, R!arm, R!arm64, R!powerpcsysv4, R!powerpcaix,
           R!powerpc64_elfv2, R!powerpc64aix, R!ia64, R!x86_64_x32, R!x86_64,
           R!s390, R!s390x, R!riscv64, R!loongarch64}
OnlyRiscv32 == {R!riscv32}
AllOfG == {G!i386, G!m68k, G!mips, G!mips64, G!sparc, G!sparc64, G!alpha, G!hppa,
           G!hppa64, G!arm, G!arm64, G!powerpcsysv4, G!powerpcaix,
           G!powerpc64_elfv2, G!powerpc64aix, G!ia64, G!x86_64_x32, G!x86_64,
           G!s390, G!s390x, G!riscv32, G!riscv64, G!loongarch64}
=============================================================================
