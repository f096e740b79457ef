----------------------------- MODULE TemplatesG -----------------------------
(* The code templates of src/trampoline/trampoline.c, of the closures that
   store to a global variable, one definition per CPU for which code is
   compiled. The fields are, in this order,

     <<variable, data, address>>

   A load is written as the register plus the displacement of the instruction,
   when the register is not `function'. i386 and x86_64 keep their instruction
   caches coherent and have no code to flush them: there flush is all of it.  *)
EXTENDS CodeTemplate

i386 == InCode(
  [word |-> 4, orders |-> Little, length |-> 15, align |-> 16, unit |-> 1, flush |-> 15,
   code |-> {Unit(0, 2), Unit(10, 1)}, fetched |-> {Unit(0, 2), Unit(10, 1)},
   base |-> <<15, 10 + 5, 15>>,  \* jmp counts from the end of the instruction
   stores |-> <<{Unit(2, 4)}, {Unit(6, 4)}, {Unit(11, 4)}>>,
   loads |-> <<{Unit(0 + 2, 4)}, {Unit(0 + 6, 4)}, {Unit(10 + 1, 4)}>>,
   reads |-> <<{Unit(2, 4)}, {Unit(6, 4)}, {Unit(11, 4)}>>])

m68k == InCode(
  [word |-> 4, orders |-> Big, length |-> 18, align |-> 16, unit |-> 2, flush |-> 18,
   code |-> {Unit(0, 2), Unit(10, 2), Unit(16, 2)},
   fetched |-> {Unit(0, 2), Unit(10, 2)}, base |-> <<0, 0, 0>>,
   stores |-> <<{Unit(6, 4)}, {Unit(2, 4)}, {Unit(12, 4)}>>,
   loads |-> <<{Unit(0 + 2 + 4, 4)}, {Unit(0 + 2, 4)}, {Unit(10 + 2, 4)}>>,
   reads |-> <<{Unit(6, 4)}, {Unit(2, 4)}, {Unit(12, 4)}>>])

mips == DataWords([word |-> 4, orders |-> Either, length |-> 36, align |-> 4,
  code |-> 24, flush |-> 24,
  stores |-> <<24, 28, 32>>, loads |-> <<24, 28, 32>>, reads |-> <<24, 28, 32>>])

mips64 == DataWords([word |-> 8, orders |-> Either, length |-> 48, align |-> 8,
  code |-> 24, flush |-> 24,
  stores |-> <<24, 32, 40>>, loads |-> <<24, 32, 40>>, reads |-> <<24, 32, 40>>])

\* sethi has 22 bits of its operand, or, st and jmp the other 10.
sparc ==
  LET Hi(at) == Piece(at, 4, 0, 10, 22)
      Lo(at) == Piece(at, 4, 0, 0, 10)
      Op == {Piece(0, 4, 22, 0, 10), Piece(4, 4, 22, 0, 10), Piece(8, 4, 10, 0, 22),
             Piece(12, 4, 10, 0, 22), Piece(16, 4, 22, 0, 10), Piece(20, 4, 10, 0, 22),
             Unit(24, 4)}
  IN InCode(
  [word |-> 4, orders |-> Big, length |-> 28, align |-> 16, unit |-> 4, flush |-> 4 * 8,
   code |-> Op, fetched |-> Op, base |-> <<0, 0, 0>>,
   stores |-> <<{Hi(0), Lo(12)}, {Hi(4), Lo(8)}, {Hi(16), Lo(20)}>>,
   loads |-> <<{Hi(0), Lo(12)}, {Hi(4), Lo(8)}, {Hi(16), Lo(20)}>>,
   reads |-> <<{Hi(0), Lo(12)}, {Hi(4), Lo(8)}, {Hi(16), Lo(20)}>>])

sparc64 == DataWords([word |-> 8, orders |-> Big, length |-> 48, align |-> 16,
  code |-> 24, flush |-> 4 * 8,
  stores |-> <<24, 32, 40>>, loads |-> <<24, 32, 40>>, reads |-> <<24, 32, 40>>])

\* $1 is function + 4. The barrier applies to all of the cache.
alpha == DataWords([word |-> 8, orders |-> Little, length |-> 48, align |-> 8,
  code |-> 24, flush |-> 48,
  stores |-> <<4 * 8, 3 * 8, 5 * 8>>, loads |-> <<4 + 28, 4 + 20, 4 + 36>>,
  reads |-> <<4 * 8, 3 * 8, 5 * 8>>])

\* tramp gets the address of the closure, function + 8.
hppa == DataWords([word |-> 4, orders |-> Big, length |-> 20, align |-> 16,
  code |-> 8, flush |-> -1,
  stores |-> <<8, 12, 16>>, loads |-> <<8 + 0, 8 + 4, 8 + 8>>,
  reads |-> <<2 * 4, 3 * 4, 4 * 4>>])

\* Mutant: slots aligned for the instructions of most CPUs only.
hppa64Align4 == DataWords([word |-> 8, orders |-> Big, length |-> 56, align |-> 4,
  code |-> 32, flush |-> -1,
  stores |-> <<32, 40, 48>>, loads |-> <<32 + 0, 32 + 8, 32 + 16>>,
  reads |-> <<4 * 8, 5 * 8, 6 * 8>>])

hppa64 == DataWords([word |-> 8, orders |-> Big, length |-> 56, align |-> 8,
  code |-> 32, flush |-> -1,
  stores |-> <<32, 40, 48>>, loads |-> <<32 + 0, 32 + 8, 32 + 16>>,
  reads |-> <<4 * 8, 5 * 8, 6 * 8>>])

\* pc is the address of the instruction plus 8.
arm == DataWords([word |-> 4, orders |-> Little, length |-> 36, align |-> 4,
  code |-> 24, flush |-> 24,
  stores |-> <<7 * 4, 6 * 4, 8 * 4>>,
  loads |-> <<8 + 8 + 12, 4 + 8 + 12, 20 + 8 + 4>>,
  reads |-> <<7 * 4, 6 * 4, 8 * 4>>])

\* Displacements count from the instruction.
arm64 == DataWords([word |-> 8, orders |-> Little, length |-> 48, align |-> 8,
  code |-> 24, flush |-> 24,
  stores |-> <<32, 24, 40>>, loads |-> <<4 + 28, 0 + 24, 8 + 32>>,
  reads |-> <<32, 24, 40>>])

\* An instruction has its 16-bit operand in its lower half.
powerpcsysv4 ==
  LET Op == {Unit(0, 2), Unit(4, 2), Unit(8, 2), Unit(12, 2), Unit(16, 4),
             Unit(20, 2), Unit(24, 2), Unit(28, 4), Unit(32, 4)}
      Halves(hi, lo) == {Piece(hi, 2, 0, 16, 16), Piece(lo, 2, 0, 0, 16)}
      Operands(hi, lo) == {Piece(hi, 4, 0, 16, 16), Piece(lo, 4, 0, 0, 16)}
  IN InCode(
  [word |-> 4, orders |-> Big, length |-> 36, align |-> 4, unit |-> 4, flush |-> 9 * 4,
   code |-> Op, fetched |-> Op, base |-> <<0, 0, 0>>,
   stores |-> <<Halves(2, 6), Halves(10, 14), Halves(22, 26)>>,
   loads |-> <<Operands(0, 4), Operands(8, 12), Operands(20, 24)>>,
   reads |-> <<Halves(2, 6), Halves(10, 14), Halves(22, 26)>>])

\* tramp gets .mytoc, function + 12.
powerpcaix == DataWords([word |-> 4, orders |-> Big, length |-> 24, align |-> 4,
  code |-> 12, flush |-> -1,
  stores |-> <<12, 16, 20>>, loads |-> <<12 + 0, 12 + 4, 12 + 8>>,
  reads |-> <<3 * 4, 4 * 4, 5 * 4>>])

powerpc64_elfv2 == DataWords([word |-> 8, orders |-> Little, length |-> 48, align |-> 8,
  code |-> 24, flush |-> 6 * 4,
  stores |-> <<24, 32, 40>>, loads |-> <<24, 32, 40>>, reads |-> <<24, 32, 40>>])

powerpc64aix == DataWords([word |-> 8, orders |-> Big, length |-> 48, align |-> 8,
  code |-> 24, flush |-> -1,
  stores |-> <<24, 32, 40>>, loads |-> <<24 + 0, 24 + 8, 24 + 16>>,
  reads |-> <<3 * 8, 4 * 8, 5 * 8>>])

\* The address comes first. tramp gets function + 16.
ia64 == DataWords([word |-> 8, orders |-> Either, length |-> 40, align |-> 16,
  code |-> 16, flush |-> -1,
  stores |-> <<24, 32, 16>>, loads |-> <<16 + 8, 16 + 16, 16 + 0>>,
  reads |-> <<3 * 8, 4 * 8, 2 * 8>>])

\* The first three stores have parts of two operands, or of one and an opcode.
x86_64_x32 ==
  LET Op == {Unit(0, 3), Unit(11, 1), Unit(16, 2)}
  IN InCode(
  [word |-> 4, orders |-> Little, length |-> 18, align |-> 4, unit |-> 1, flush |-> 18,
   code |-> Op, fetched |-> Op, base |-> <<0, 0, 0>>,
   stores |-> <<{Piece(0, 4, 24, 0, 8), Piece(4, 4, 0, 8, 24)},
                {Piece(4, 4, 24, 0, 8), Piece(8, 4, 0, 8, 24)}, {Unit(12, 4)}>>,
   loads |-> <<{Unit(0 + 3, 4)}, {Unit(0 + 7, 4)}, {Unit(11 + 1, 4)}>>,
   reads |-> <<{Piece(0, 4, 24, 0, 8), Piece(4, 4, 0, 8, 24)},
               {Piece(4, 4, 24, 0, 8), Piece(8, 4, 0, 8, 24)}, {Unit(12, 4)}>>])

x86_64 ==
  LET Op == {Unit(0, 2), Unit(10, 2), Unit(20, 2), Unit(30, 2)}
      LoMidHi(at) == {Piece(at, 2, 0, 0, 16), Piece(at + 2, 4, 0, 16, 32),
                      Piece(at + 6, 2, 0, 48, 16)}
      LoHi(at) == {Piece(at, 4, 0, 0, 32), Piece(at + 4, 4, 0, 32, 32)}
  IN InCode(
  [word |-> 8, orders |-> Little, length |-> 32, align |-> 16, unit |-> 1, flush |-> 32,
   code |-> Op, fetched |-> Op, base |-> <<0, 0, 0>>,
   stores |-> <<LoHi(12), LoMidHi(2), LoMidHi(22)>>,
   loads |-> <<{Unit(10 + 2, 8)}, {Unit(0 + 2, 8)}, {Unit(20 + 2, 8)}>>,
   reads |-> <<LoHi(12), LoMidHi(2), LoMidHi(22)>>])

\* Mutant: TRAMP_LENGTH without the third word of data.
s390Short == DataWords([word |-> 4, orders |-> Big, length |-> 36, align |-> 4,
  code |-> 28, flush |-> 28,
  stores |-> <<32, 28, 36>>, loads |-> <<4 + 28, 4 + 24, 20 + 16>>,
  reads |-> <<32, 28, 36>>])

\* .L1 is function + 4, .L2 function + 20.
s390 == DataWords([word |-> 4, orders |-> Big, length |-> 40, align |-> 4,
  code |-> 28, flush |-> 28,
  stores |-> <<32, 28, 36>>, loads |-> <<4 + 28, 4 + 24, 20 + 16>>,
  reads |-> <<32, 28, 36>>])

\* .L1 is function + 6, .L2 function + 30.
s390x == DataWords([word |-> 8, orders |-> Big, length |-> 64, align |-> 8,
  code |-> 40, flush |-> 40,
  stores |-> <<48, 40, 56>>, loads |-> <<6 + 42, 6 + 34, 30 + 26>>,
  reads |-> <<48, 40, 56>>])

riscv32 == DataWords([word |-> 4, orders |-> Little, length |-> 36, align |-> 4,
  code |-> 24, flush |-> 24,
  stores |-> <<28, 24, 32>>, loads |-> <<28, 24, 32>>, reads |-> <<28, 24, 32>>])

riscv64 == DataWords([word |-> 8, orders |-> Little, length |-> 48, align |-> 8,
  code |-> 24, flush |-> 24,
  stores |-> <<32, 24, 40>>, loads |-> <<32, 24, 40>>, reads |-> <<32, 24, 40>>])

loongarch64 == DataWords([word |-> 8, orders |-> Little, length |-> 48, align |-> 8,
  code |-> 24, flush |-> 24,
  stores |-> <<24, 32, 40>>, loads |-> <<24, 32, 40>>, reads |-> <<24, 32, 40>>])
=============================================================================
