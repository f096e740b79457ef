------------------------------ MODULE CallABI ------------------------------
(***************************************************************************)
(* The calling conventions that avcall's argument lists and vacall's       *)
(* argument fetches are written for, and the memory they pass arguments    *)
(* in.  An ABI is a record [cpu, order, cc]: the macro ffcall-abi.h        *)
(* defines, the byte order, and the compiler ("gcc", or the "vendor" whose *)
(* ..CC_STRUCT_ARGS and ..CC_FLOAT_ARGS flags both headers then set).      *)
(*                                                                         *)
(* A byte of memory is a symbol <<i, form, k>>: the k-th byte of argument  *)
(* i in one of the forms                                                   *)
(*   "own"   the argument itself, as its own type lays it out in memory    *)
(*   "ext"   the bytes that extend an integer to a word                    *)
(*   "dbl"   a float argument converted to double                          *)
(*   "ptr"   the address i                                                 *)
(*   "raddr" the address of the struct to be returned                      *)
(*   "junk"  anything else.                                                *)
(***************************************************************************)
EXTENDS Integers, Sequences, FiniteSets

AlignUp(x, n)   == ((x + n - 1) \div n) * n
AlignDown(x, n) == (x \div n) * n
CeilDiv(x, n)   == (x + n - 1) \div n

-----------------------------------------------------------------------------
(* Word sizes.                                                             *)

Cpus32 == {"i386", "m68k", "mips", "sparc", "hppa", "arm", "armhf",
           "powerpc_aix", "powerpc_sysv4", "s390", "riscv32"}
LongIs64 == {"mips64", "sparc64", "alpha", "hppa64", "arm64", "arm64_apple",
             "powerpc64", "powerpc64_aix", "ia64", "x86_64_sysv", "s390x",
             "riscv64", "loongarch64"}
Cpus == Cpus32 \cup LongIs64 \cup {"mipsn32", "x86_64_x32", "x86_64_ms"}

(* The byte orders and the flags that each CPU comes with.                 *)
OnlyLittle == {"i386", "alpha", "ia64", "arm64", "arm64_apple", "x86_64_sysv",
               "x86_64_x32", "x86_64_ms", "riscv32", "riscv64", "loongarch64"}
EitherOrder == {"mips", "mipsn32", "mips64", "arm", "armhf", "powerpc64"}
HasVendor == {"mips", "mipsn32", "mips64", "powerpc_aix", "powerpc64_aix", "ia64"}
ABISet ==
  {x \in [cpu : Cpus, order : {"little", "big"}, cc : {"gcc", "vendor"}] :
     /\ x.cpu \notin EitherOrder => (x.order = "little" <=> x.cpu \in OnlyLittle)
     /\ x.cc = "vendor" => /\ x.cpu \in HasVendor
                           /\ x.cpu \in EitherOrder => x.order = "big"}

(* sizeof (__avword) = sizeof (__vaword), sizeof (__avrword), and the size *)
(* of a pointer.                                                           *)
W(a) == IF a.cpu \in Cpus32 \cup {"arm64_apple"} THEN 4 ELSE 8
R(a) == IF a.cpu \in Cpus32 THEN 4 ELSE 8
P(a) == IF a.cpu \in Cpus32 \cup {"mipsn32", "x86_64_x32"} THEN 4 ELSE 8

SysV     == {"x86_64_sysv", "x86_64_x32"}
Arm64    == {"arm64", "arm64_apple"}
PPC64    == {"powerpc64", "powerpc64_aix"}
S390     == {"s390", "s390x"}
RiscV    == {"riscv32", "riscv64", "loongarch64"}
MipsWide == {"mipsn32", "mips64"}

(* Where the first integer arguments go to an array of their own.          *)
HasIargs == Arm64 \cup SysV \cup S390 \cup {"powerpc_sysv4"}

(* __AV_IARG_NUM = __VA_IARG_NUM                                           *)
IargNum(a) == CASE a.cpu = "armhf"                                 -> 4
                [] a.cpu \in Arm64 \cup RiscV \cup {"powerpc_sysv4"} -> 8
                [] a.cpu \in SysV                                  -> 6
                [] a.cpu \in S390                                  -> 5
                [] OTHER                                           -> 0

(* The floating-point argument registers.                                  *)
FargNum(a) == CASE a.cpu \in {"mips", "s390"}                      -> 2
                [] a.cpu \in MipsWide \cup Arm64 \cup RiscV \cup SysV
                     \cup {"hppa64", "powerpc_sysv4", "ia64"}      -> 8
                [] a.cpu \in PPC64 \cup {"powerpc_aix"}            -> 13
                [] a.cpu \in {"x86_64_ms", "hppa", "s390x"}        -> 4
                [] a.cpu \in {"armhf", "sparc64"}                  -> 16
                [] a.cpu = "alpha"                                 -> 6
                [] OTHER                                           -> 0

-----------------------------------------------------------------------------
(* Argument types: [kind, size, align].                                    *)

Scalar(kind, n) == [kind |-> kind, size |-> n, align |-> n]
Struct(n, al)   == [kind |-> "struct", size |-> n, align |-> al]

CChar    == Scalar("int", 1)
CInt     == Scalar("int", 4)
CPtr(a)  == Scalar("ptr", P(a))
CLongLong == Scalar("longlong", 8)
CFloat   == Scalar("float", 4)
CDouble  == Scalar("double", 8)

-----------------------------------------------------------------------------
(* Memory: a function from the addresses written to bytes.                 *)

Bytes(i, form, n) == [k \in 1..n |-> <<i, form, k>>]
Own(i, n)         == Bytes(i, "own", n)
AsDouble(i)       == Bytes(i, "dbl", 8)
Address(x, n)     == Bytes(x, "ptr", n)
Junk              == <<0, "junk", 0>>

(* An n-byte integer extended to a word of w bytes.                        *)
Extended(a, bytes, w) ==
  LET ext == Bytes(bytes[1][1], "ext", w - Len(bytes))
  IN  IF a.order = "little" THEN bytes \o ext ELSE ext \o bytes

(* f, overridden by g.                                                     *)
Override(f, g) ==
  [x \in DOMAIN f \cup DOMAIN g |-> IF x \in DOMAIN g THEN g[x] ELSE f[x]]

Put(mem, at, bytes) ==
  Override(mem, [x \in at..(at + Len(bytes) - 1) |-> bytes[x - at + 1]])

Get(mem, at, n) ==
  [k \in 1..n |-> IF at + k - 1 \in DOMAIN mem THEN mem[at + k - 1] ELSE Junk]

Below(mem, limit) == [x \in {y \in DOMAIN mem : y < limit} |-> mem[x]]
From(mem, limit)  == [x \in {y \in DOMAIN mem : y >= limit} |-> mem[x]]

(* What a floating-point register holds when it is taken for a float.      *)
(* float is a format of its own, except where the registers hold doubles.  *)
Single(a, reg) ==
  IF Len(reg) = 4 THEN reg
  ELSE CASE a.cpu \in SysV    -> SubSeq(reg, 1, 4)
         [] a.cpu = "sparc64" -> SubSeq(reg, 5, 8)
         [] OTHER -> IF reg = AsDouble(reg[1][1]) THEN Own(reg[1][1], 4)
                     ELSE [k \in 1..4 |-> Junk]

(* ... and when it is taken for a double.                                  *)
Full(reg) == IF Len(reg) = 8 THEN reg ELSE [k \in 1..8 |-> Junk]
=============================================================================
