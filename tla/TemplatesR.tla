----------------------------- MODULE TemplatesR -----------------------------
(* The code templates of src/callback/trampoline_r/trampoline.c, one definition
   per CPU for which code is compiled. The fields are, in this order,

     <<data, address>>

   data is the address of the two words behind the template, address the
   function that is called. A load is written as the register plus the
   displacement of the instruction, when the register is not `function'. i386
   and x86_64 keep their instruction caches coherent and have no code to flush
   them: there flush is all of the template.                                 *)
EXTENDS CodeTemplate

i386 == InCode(
  [word |-> 4, orders |-> Little, length |-> 12, align |-> 16, unit |-> 1, flush |-> 12,
   code |-> {Unit(0, 1), Unit(5, 1), Unit(10, 2)}, fetched |-> {Unit(0, 1), Unit(5, 1)},
   base |-> <<10, 5 + 5, 10>>,  \* jmp counts from the end of the instruction
   stores |-> <<{Unit(1, 4)}, {Unit(6, 4)}>>,
   loads |-> <<{Unit(0 + 1, 4)}, {Unit(5 + 1, 4)}>>,
   reads |-> <<{Unit(1, 4)}, {Unit(6, 4)}>>])

m68k == InCode(
  [word |-> 4, orders |-> Big, length |-> 14, align |-> 16, unit |-> 2, flush |-> 14,
   code |-> {Unit(0, 2), Unit(6, 2), Unit(12, 2)},
   fetched |-> {Unit(0, 2), Unit(6, 2)}, base |-> <<0, 0, 0>>,
   stores |-> <<{Unit(2, 4)}, {Unit(8, 4)}>>,
   loads |-> <<{Unit(0 + 2, 4)}, {Unit(6 + 2, 4)}>>,
   reads |-> <<{Unit(2, 4)}, {Unit(8, 4)}>>])

mips == DataWords([word |-> 4, orders |-> Either, length |-> 24, align |-> 4,
  code |-> 16, flush |-> 16,
  stores |-> <<16, 20>>, loads |-> <<16, 20>>, reads |-> <<16, 20>>])

mips64 == DataWords([word |-> 8, orders |-> Either, length |-> 32, align |-> 8,
  code |-> 16, flush |-> 16,
  stores |-> <<16, 24>>, loads |-> <<16, 24>>, reads |-> <<16, 24>>])

\* sethi has 22 bits of its operand, or and jmp the other 10.
sparc ==
  LET Hi(at) == Piece(at, 4, 0, 10, 22)
      Lo(at) == Piece(at, 4, 0, 0, 10)
      Op == {Piece(0, 4, 22, 0, 10), Piece(4, 4, 22, 0, 10),
             Piece(8, 4, 10, 0, 22), Piece(12, 4, 10, 0, 22)}
  IN InCode(
  [word |-> 4, orders |-> Big, length |-> 16, align |-> 16, unit |-> 4, flush |-> 2 * 8,
   code |-> Op, fetched |-> Op, base |-> <<0, 0, 0>>,
   stores |-> <<{Hi(0), Lo(12)}, {Hi(4), Lo(8)}>>,
   loads |-> <<{Hi(0), Lo(12)}, {Hi(4), Lo(8)}>>,
   reads |-> <<{Hi(0), Lo(12)}, {Hi(4), Lo(8)}>>])

sparc64 == DataWords([word |-> 8, orders |-> Big, length |-> 32, align |-> 16,
  code |-> 16, flush |-> 2 * 8,
  stores |-> <<16, 24>>, loads |-> <<16, 24>>, reads |-> <<16, 24>>])

\* $1 is function + 4. The barrier applies to all of the cache.
alpha == DataWords([word |-> 8, orders |-> Little, length |-> 32, align |-> 8,
  code |-> 16, flush |-> 32,
  stores |-> <<2 * 8, 3 * 8>>, loads |-> <<4 + 12, 4 + 20>>, reads |-> <<2 * 8, 3 * 8>>])

\* tramp_r gets the address of the closure, function + 8.
hppa == DataWords([word |-> 4, orders |-> Big, length |-> 16, align |-> 16,
  code |-> 8, flush |-> -1,
  stores |-> <<8, 12>>, loads |-> <<8 + 0, 8 + 4>>, reads |-> <<2 * 4, 3 * 4>>])

hppa64 == DataWords([word |-> 8, orders |-> Big, length |-> 48, align |-> 8,
  code |-> 32, flush |-> -1,
  stores |-> <<32, 40>>, loads |-> <<32 + 0, 32 + 8>>, reads |-> <<4 * 8, 5 * 8>>])

\* pc is the address of the instruction plus 8.
arm == DataWords([word |-> 4, orders |-> Little, length |-> 48, align |-> 4,
  code |-> 40, flush |-> 40,
  stores |-> <<10 * 4, 11 * 4>>, loads |-> <<20 + 8 + 12, 32 + 8 + 4>>,
  reads |-> <<10 * 4, 11 * 4>>])

\* Mutant: both displacements counted from the beginning of the slot.
arm64FromStart == DataWords([word |-> 8, orders |-> Little, length |-> 32, align |-> 8,
  code |-> 16, flush |-> 16,
  stores |-> <<16, 24>>, loads |-> <<0 + 12, 0 + 24>>, reads |-> <<16, 24>>])

\* Displacements count from the instruction.
arm64 == DataWords([word |-> 8, orders |-> Little, length |-> 32, align |-> 8,
  code |-> 16, flush |-> 16,
  stores |-> <<16, 24>>, loads |-> <<4 + 12, 0 + 24>>, reads |-> <<16, 24>>])

\* An instruction has its 16-bit operand in its lower half.
powerpcsysv4 == InCode(
  [word |-> 4, orders |-> Big, length |-> 24, align |-> 4, unit |-> 4, flush |-> 24,
   code |-> {Unit(0, 2), Unit(4, 2), Unit(8, 2), Unit(12, 2), Unit(16, 4), Unit(20, 4)},
   fetched |-> {Unit(0, 2), Unit(4, 2), Unit(8, 2), Unit(12, 2), Unit(16, 4), Unit(20, 4)},
   base |-> <<0, 0, 0>>,
   stores |-> <<{Piece(2, 2, 0, 16, 16), Piece(6, 2, 0, 0, 16)},
                {Piece(10, 2, 0, 16, 16), Piece(14, 2, 0, 0, 16)}>>,
   loads |-> <<{Piece(0, 4, 0, 16, 16), Piece(4, 4, 0, 0, 16)},
               {Piece(8, 4, 0, 16, 16), Piece(12, 4, 0, 0, 16)}>>,
   reads |-> <<{Piece(2, 2, 0, 16, 16), Piece(6, 2, 0, 0, 16)},
               {Piece(10, 2, 0, 16, 16), Piece(14, 2, 0, 0, 16)}>>])

\* tramp_r gets .mytoc, function + 12.
powerpcaix == DataWords([word |-> 4, orders |-> Big, length |-> 20, align |-> 4,
  code |-> 12, flush |-> -1,
  stores |-> <<12, 16>>, loads |-> <<12 + 0, 12 + 4>>, reads |-> <<3 * 4, 4 * 4>>])

powerpc64_elfv2 == DataWords([word |-> 8, orders |-> Little, length |-> 32, align |-> 8,
  code |-> 16, flush |-> 16,
  stores |-> <<16, 24>>, loads |-> <<16, 24>>, reads |-> <<16, 24>>])

powerpc64aix == DataWords([word |-> 8, orders |-> Big, length |-> 40, align |-> 8,
  code |-> 24, flush |-> -1,
  stores |-> <<24, 32>>, loads |-> <<24 + 0, 24 + 8>>, reads |-> <<3 * 8, 4 * 8>>])

\* Mutant: the queries expect the data first, as on the other CPUs.
ia64DataFirst == DataWords([word |-> 8, orders |-> Either, length |-> 32, align |-> 16,
  code |-> 16, flush |-> -1,
  stores |-> <<24, 16>>, loads |-> <<16 + 8, 16 + 0>>, reads |-> <<2 * 8, 3 * 8>>])

\* The address comes first. tramp_r gets function + 16.
ia64 == DataWords([word |-> 8, orders |-> Either, length |-> 32, align |-> 16,
  code |-> 16, flush |-> -1,
  stores |-> <<24, 16>>, loads |-> <<16 + 8, 16 + 0>>, reads |-> <<3 * 8, 2 * 8>>])

\* Each of the first three stores has an opcode between parts of both operands.
x86_64_x32 ==
  LET Op == {Unit(0, 2), Unit(6, 1), Unit(11, 1)}
  IN InCode(
  [word |-> 4, orders |-> Little, length |-> 13, align |-> 4, unit |-> 1, flush |-> 13,
   code |-> Op \cup {Unit(12, 4)}, fetched |-> Op \cup {Unit(12, 1)}, base |-> <<0, 0, 0>>,
   stores |-> <<{Piece(0, 4, 16, 0, 16), Piece(4, 4, 0, 16, 16)},
                {Piece(4, 4, 24, 0, 8), Piece(8, 4, 0, 8, 24)}>>,
   loads |-> <<{Unit(0 + 2, 4)}, {Unit(6 + 1, 4)}>>,
   reads |-> <<{Piece(0, 4, 16, 0, 16), Piece(4, 4, 0, 16, 16)},
               {Piece(4, 4, 24, 0, 8), Piece(8, 4, 0, 8, 24)}>>])

x86_64 == InCode(
  [word |-> 8, orders |-> Little, length |-> 22, align |-> 16, unit |-> 1, flush |-> 22,
   code |-> {Unit(0, 2), Unit(10, 2), Unit(20, 2)},
   fetched |-> {Unit(0, 2), Unit(10, 2), Unit(20, 2)}, base |-> <<0, 0, 0>>,
   stores |-> <<{Piece(2, 2, 0, 0, 16), Piece(4, 4, 0, 16, 32), Piece(8, 2, 0, 48, 16)},
                {Piece(12, 4, 0, 0, 32), Piece(16, 4, 0, 32, 32)}>>,
   loads |-> <<{Unit(0 + 2, 8)}, {Unit(10 + 2, 8)}>>,
   reads |-> <<{Piece(8, 2, 0, 48, 16), Piece(4, 4, 0, 16, 32), Piece(2, 2, 0, 0, 16)},
               {Piece(16, 4, 0, 32, 32), Piece(12, 4, 0, 0, 32)}>>])

\* lm loads two words, relative to .L1, function + 4.
s390 == DataWords([word |-> 4, orders |-> Big, length |-> 20, align |-> 4,
  code |-> 12, flush |-> 12,
  stores |-> <<12, 16>>, loads |-> <<4 + 8, 4 + 8 + 4>>, reads |-> <<12, 16>>])

\* .L1 is function + 6.
s390x == DataWords([word |-> 8, orders |-> Big, length |-> 32, align |-> 8,
  code |-> 16, flush |-> 16,
  stores |-> <<16, 24>>, loads |-> <<6 + 10, 6 + 10 + 8>>, reads |-> <<16, 24>>])

riscv32 == DataWords([word |-> 4, orders |-> Little, length |-> 24, align |-> 4,
  code |-> 16, flush |-> 16,
  stores |-> <<16, 24>>, loads |-> <<16, 20>>, reads |-> <<16, 20>>])

riscv64 == DataWords([word |-> 8, orders |-> Little, length |-> 32, align |-> 8,
  code |-> 16, flush |-> 16,
  stores |-> <<16, 24>>, loads |-> <<16, 24>>, reads |-> <<16, 24>>])

loongarch64 == DataWords([word |-> 8, orders |-> Little, length |-> 32, align |-> 8,
  code |-> 16, flush |-> 16,
  stores |-> <<16, 24>>, loads |-> <<16, 24>>, reads |-> <<16, 24>>])
=============================================================================
