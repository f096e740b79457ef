----------------------------- MODULE ReturnValue -----------------------------
(***************************************************************************)
(* How a value gets back from va_return_<type> to the variable that        *)
(* av_start_<type> was given: the function stores it into its va_alist or  *)
(* at the address it was passed, the receiver vacall-<cpu>.c loads         *)
(* registers, and avcall-<cpu>.c stores them.  A struct is word aligned on *)
(* both sides here; StructReturn has the code for those that are not.      *)
(*                                                                         *)
(* A return convention is a record [type, flags]: the type the function    *)
(* returns, `split' being its word-splittable flag, and the flags of       *)
(* __AV_STRUCT_RETURN and __AV_FLOAT_RETURN that are set.  Caller and      *)
(* function agree on it.  Registers are a record [int, flt]: the bytes of  *)
(* iret, iret2, ... in memory order, and of fret or dret.                  *)
(***************************************************************************)
EXTENDS CallABI

Void       == Scalar("void", 0)
CLong(a)   == Scalar("long", IF a.cpu \in LongIs64 THEN 8 ELSE 4)
Returning(t, split, flags) ==
  [kind |-> t.kind, size |-> t.size, split |-> split, flags |-> flags]

(* sizeof (long) in the library: its code for 64-bit Windows is compiled   *)
(* for another ABI, in which long has 64 bits.                             *)
LibrarySize(a, r) ==
  IF r.kind = "long" /\ a.cpu = "x86_64_ms" THEN 8 ELSE r.size

-----------------------------------------------------------------------------
(* Structs in registers or in memory.                                      *)

(* 1, 2 or 4 bytes, or two words that are not one long long.               *)
OneOrTwoWords(r, two) ==
  \/ r.size \in {1, 2, 4, two \div 2}
  \/ r.size = two /\ r.split /\ "gcc" \in r.flags

(* __av_reg_struct_return; sparc's avcall always passes the address, and   *)
(* then looks at the same sizes.                                           *)
av_reg_struct_return(a, r) ==
  CASE a.cpu = "i386" ->
         OneOrTwoWords(r, 8) \/ (r.size = 8 /\ "msvc" \in r.flags)
    [] a.cpu \in {"m68k", "powerpc_aix", "powerpc_sysv4", "s390"} ->
         OneOrTwoWords(r, 8)
    [] a.cpu = "alpha"                 -> OneOrTwoWords(r, 16)
    [] a.cpu \in {"arm", "armhf"}      -> r.size <= 4
    [] a.cpu \in {"hppa", "riscv32"}   -> r.size <= 8
    [] a.cpu \in {"mips", "sparc"}     -> r.size \in {1, 2, 4}
    [] a.cpu \in MipsWide ->
         IF "gcc" \in r.flags THEN r.size \in {1, 2, 4, 8} ELSE r.size <= 16
    [] a.cpu \in {"powerpc64_aix", "s390x"} -> FALSE
    [] a.cpu = "powerpc64"             -> a.order = "little" /\ r.size <= 16
    [] a.cpu \in {"sparc64", "ia64"}   -> r.size <= 32
    [] a.cpu = "x86_64_ms"             -> r.size \in {1, 2, 4, 8}
    [] OTHER                           -> r.size <= 16

(* Mutant: two words are returned in registers even if they are one field. *)
OneOrTwoWordsUnsplit(a, r) ==
  IF a.cpu = "i386" THEN r.size \in {1, 2, 4, 8} ELSE av_reg_struct_return(a, r)

(* __va_reg_struct_return                                                  *)
va_reg_struct_return(a, r) ==
  LET n == r.size
  IN
  CASE a.cpu = "i386" ->
         OneOrTwoWords(r, 8) \/ (n = 8 /\ "msvc" \in r.flags)
    [] a.cpu \in {"m68k", "powerpc_aix", "powerpc_sysv4", "s390"} ->
         OneOrTwoWords(r, 8)
    [] a.cpu \in {"arm", "armhf"}      -> n <= 4
    [] a.cpu = "alpha"                 -> OneOrTwoWords(r, 16)
    [] a.cpu \in {"hppa", "riscv32"}   -> n <= 8
    [] a.cpu \in {"mips", "sparc"}     -> n \in {1, 2, 4}
    [] a.cpu \in MipsWide ->
         IF "gcc" \in r.flags THEN n \in {1, 2, 4, 8} ELSE n <= 16
    [] a.cpu \in {"powerpc64", "powerpc64_aix"} ->
         a.cpu = "powerpc64" /\ a.order = "little" /\ n <= 16
    [] a.cpu = "s390x"                 -> FALSE
    [] a.cpu \in {"sparc64", "ia64"}   -> n <= 32
    [] a.cpu \in Arm64 \cup SysV \cup {"hppa64", "riscv64", "loongarch64"} ->
         n <= 16
    [] a.cpu = "x86_64_ms"             -> n \in {1, 2, 4, 8}

Kind(r, inRegisters) ==
  IF r.kind # "struct" THEN "none"
  ELSE IF "small" \in r.flags /\ inRegisters THEN "register" ELSE "memory"

(* What av_start and va_start take for the way the value is returned.      *)
AvKind(a, r) == Kind(r, av_reg_struct_return(a, r))
VaKind(a, r) == Kind(r, va_reg_struct_return(a, r))

-----------------------------------------------------------------------------
(* va_return_<type>: the value is Own(0, size).                            *)

Nothing(n) == [k \in 1..n |-> Junk]
NoValue    == [int |-> Nothing(32), flt |-> Nothing(8)]

(* The union tmp, and where the va_alist's raddr is, counted from it: aptr *)
(* is between them.                                                        *)
TmpSize(a)     == IF W(a) = 4 THEN 8 ELSE 16
RaddrOffset(a) == TmpSize(a) + P(a)

(* What the receiver reads at (LIST).raddr, which was &(LIST).tmp before   *)
(* the struct was copied there; the bytes after the struct are in tmp.     *)
StructInTmp(a, r) ==
  IF r.size <= RaddrOffset(a) THEN Own(0, r.size) \o Nothing(4)
  ELSE Nothing(r.size + 4)

(* The struct returned in memory, at the address va_start found.           *)
StructAtRaddr(a, r, raddr) ==
  IF raddr = Bytes(0, "raddr", P(a)) THEN Put(<<>>, 0, Own(0, r.size)) ELSE <<>>

-----------------------------------------------------------------------------
(* The receivers load registers.                                           *)

InInt(bytes) == [NoValue EXCEPT !.int = bytes \o Nothing(32 - Len(bytes))]
InFlt(bytes) == [NoValue EXCEPT !.flt = bytes]

Scalars(a, r) ==
  LET own == Own(0, r.size)
  IN  CASE r.kind \in {"int", "long", "ptr"} ->
             InInt(Extended(a, own \o Nothing(LibrarySize(a, r) - r.size), R(a)))
        [] r.kind = "longlong"             -> InInt(own)
        [] r.kind \in {"float", "double"}  -> InFlt(own)
        [] r.kind = "void"                 -> NoValue

Receiver(a, r, struct) ==
  CASE r.kind # "struct"         -> Scalars(a, r)
    [] VaKind(a, r) = "register" -> InInt(struct)
    [] VaKind(a, r) = "memory"   -> NoValue

(* The unsigned integer of r.size bytes at list.raddr, or two words.       *)
LoadInteger(a, r) ==
  LET own == SubSeq(StructInTmp(a, r), 1, r.size)
  IN  IF r.size < R(a) THEN Extended(a, own, R(a)) ELSE own

(* Words in memory order.  The rest of the last one is 0, or on ia64 what  *)
(* follows the struct: nothing that a caller may look at.                  *)
LoadWords(a, r) == SubSeq(StructInTmp(a, r), 1, r.size)

(* hppa: the struct ends where the last word ends.                         *)
LoadRight(a, r) == Nothing((-r.size) % 4) \o LoadWords(a, r)

(* arm: an unsigned int for a struct of 3 bytes, too.                      *)
LoadArm(a, r) == IF r.size = 3 THEN SubSeq(StructInTmp(a, r), 1, 4)
                 ELSE LoadInteger(a, r)

(* m68k: in fp0; or in d0 and d1, like integers, float as double for       *)
(* Sun cc.                                                                 *)
receive_m68k(a, r) ==
  IF r.kind \notin {"float", "double"} \/ "freg" \in r.flags
  THEN Receiver(a, r, LoadInteger(a, r))
  ELSE InInt(IF r.kind = "float" /\ "suncc_float" \in r.flags THEN AsDouble(0)
             ELSE Own(0, r.size))

receive_sparc(a, r) ==
  IF r.kind = "float" /\ "suncc_float" \in r.flags THEN InFlt(AsDouble(0))
  ELSE Receiver(a, r, LoadInteger(a, r))

(* arm without floating-point registers.                                   *)
receive_arm(a, r) ==
  IF r.kind \in {"float", "double"} THEN InInt(Own(0, r.size))
  ELSE Receiver(a, r, LoadArm(a, r))

(* gcc's and cc's structs.  Structs of floats or doubles are put into the  *)
(* floating-point registers, too, and floats into the integer registers on *)
(* the hppa; avcall looks at neither.                                      *)
ReceiverMips(a, r) ==
  Receiver(a, r, IF "gcc" \in r.flags THEN LoadInteger(a, r)
                 ELSE LoadWords(a, r))

receive_i386(a, r)        == Receiver(a, r, LoadInteger(a, r))
receive_mips(a, r)        == Receiver(a, r, LoadInteger(a, r))
receive_mipsn32(a, r)     == ReceiverMips(a, r)
receive_mips64(a, r)      == ReceiverMips(a, r)
receive_sparc64(a, r)     == Receiver(a, r, LoadWords(a, r))
receive_alpha(a, r)       == Receiver(a, r, LoadInteger(a, r))
receive_hppa(a, r)        == Receiver(a, r, LoadRight(a, r))
receive_hppa64(a, r)      == Receiver(a, r, LoadWords(a, r))
receive_armhf(a, r)       == Receiver(a, r, LoadArm(a, r))
receive_arm64(a, r)       == Receiver(a, r, LoadWords(a, r))
receive_powerpc(a, r)     == Receiver(a, r, LoadInteger(a, r))
receive_powerpc64(a, r)   == Receiver(a, r, LoadWords(a, r))
receive_ia64(a, r)        == Receiver(a, r, LoadWords(a, r))
receive_x86_64(a, r)      == Receiver(a, r, LoadWords(a, r))
receive_x86_64_ms(a, r)   == Receiver(a, r, LoadWords(a, r))
receive_s390(a, r)        == Receiver(a, r, LoadInteger(a, r))
receive_s390x(a, r)       == Receiver(a, r, <<>>)
receive_riscv32(a, r)     == Receiver(a, r, LoadWords(a, r))
receive_riscv64(a, r)     == Receiver(a, r, LoadWords(a, r))
receive_loongarch64(a, r) == Receiver(a, r, LoadWords(a, r))

receiver_return(a, r) ==
  CASE a.cpu = "i386"        -> receive_i386(a, r)
    [] a.cpu = "m68k"        -> receive_m68k(a, r)
    [] a.cpu = "mips"        -> receive_mips(a, r)
    [] a.cpu = "mipsn32"     -> receive_mipsn32(a, r)
    [] a.cpu = "mips64"      -> receive_mips64(a, r)
    [] a.cpu = "sparc"       -> receive_sparc(a, r)
    [] a.cpu = "sparc64"     -> receive_sparc64(a, r)
    [] a.cpu = "alpha"       -> receive_alpha(a, r)
    [] a.cpu = "hppa"        -> receive_hppa(a, r)
    [] a.cpu = "hppa64"      -> receive_hppa64(a, r)
    [] a.cpu = "arm"         -> receive_arm(a, r)
    [] a.cpu = "armhf"       -> receive_armhf(a, r)
    [] a.cpu \in Arm64       -> receive_arm64(a, r)
    [] a.cpu \in {"powerpc_aix", "powerpc_sysv4"} -> receive_powerpc(a, r)
    [] a.cpu \in PPC64       -> receive_powerpc64(a, r)
    [] a.cpu = "ia64"        -> receive_ia64(a, r)
    [] a.cpu \in SysV        -> receive_x86_64(a, r)
    [] a.cpu = "x86_64_ms"   -> receive_x86_64_ms(a, r)
    [] a.cpu = "s390"        -> receive_s390(a, r)
    [] a.cpu = "s390x"       -> receive_s390x(a, r)
    [] a.cpu = "riscv32"     -> receive_riscv32(a, r)
    [] a.cpu = "riscv64"     -> receive_riscv64(a, r)
    [] a.cpu = "loongarch64" -> receive_loongarch64(a, r)

-----------------------------------------------------------------------------
(* avcall_call stores the registers x at l->raddr, offset 0.               *)

Store(bytes) == Put(<<>>, 0, bytes)

(* `RETURN (T, iret)', for the T of n bytes.                               *)
StoreInteger(a, x, n) ==
  Store(IF a.order = "little" \/ n > R(a) THEN SubSeq(x.int, 1, n)
        ELSE SubSeq(x.int, R(a) - n + 1, R(a)))

StoreWords(a, x, n) == Store(SubSeq(x.int, 1, n))
StoreRight(a, x, n) ==
  LET gap == (-n) % 4 IN Store(SubSeq(x.int, gap + 1, gap + n))

(* arm: an int if it is not a char or a short.                             *)
StoreArm(a, x, n) == StoreInteger(a, x, IF n = 3 THEN 4 ELSE n)

(* ia64: whole words beyond two registers, and iret2 instead of iret4.     *)
StoreIa64(a, x, n) ==
  CASE n <= 16 -> StoreWords(a, x, n)
    [] n > 16 /\ n <= 24 -> StoreWords(a, x, 24)
    [] n > 24 -> Store(SubSeq(x.int, 1, 24) \o SubSeq(x.int, 9, 16))

StoreScalar(a, r, x) ==
  CASE r.kind = "void"                    -> <<>>
    [] r.kind \in {"int", "long", "ptr"}  -> StoreInteger(a, x, LibrarySize(a, r))
    [] r.kind = "longlong"                -> StoreWords(a, x, 8)
    [] r.kind = "float"                   -> Store(Single(a, x.flt))
    [] r.kind = "double"                  -> Store(Full(x.flt))

(* The caller's variable, `stored' being what is there after the function. *)
Caller(a, r, x, stored, struct) ==
  CASE r.kind # "struct"         -> StoreScalar(a, r, x)
    [] AvKind(a, r) = "register" -> struct
    [] AvKind(a, r) = "memory"   -> stored

StoreFromInt(a, r, x) ==
  CASE r.kind = "float" /\ "suncc_float" \in r.flags ->
         Store(Single(a, SubSeq(x.int, 1, 8)))
    [] OTHER -> StoreWords(a, x, r.size)

store_m68k(a, r, x, stored) ==
  IF r.kind \notin {"float", "double"} \/ "freg" \in r.flags
  THEN Caller(a, r, x, stored, StoreInteger(a, x, r.size))
  ELSE StoreFromInt(a, r, x)

store_arm(a, r, x, stored) ==
  IF r.kind \in {"float", "double"} THEN StoreWords(a, x, r.size)
  ELSE Caller(a, r, x, stored, StoreArm(a, x, r.size))

CallerMips(a, r, x, stored) ==
  Caller(a, r, x, stored,
         IF "gcc" \in r.flags THEN StoreInteger(a, x, r.size)
         ELSE StoreWords(a, x, r.size))

store_i386(a, r, x, m)    == Caller(a, r, x, m, StoreInteger(a, x, r.size))
store_mips(a, r, x, m)    == Caller(a, r, x, m, StoreInteger(a, x, r.size))
store_mipsn32(a, r, x, m) == CallerMips(a, r, x, m)
store_mips64(a, r, x, m)  == CallerMips(a, r, x, m)
store_sparc(a, r, x, m)   == Caller(a, r, x, m, StoreInteger(a, x, r.size))
store_sparc64(a, r, x, m) == Caller(a, r, x, m, StoreWords(a, x, r.size))
store_alpha(a, r, x, m)   == Caller(a, r, x, m, StoreInteger(a, x, r.size))
store_hppa(a, r, x, m)    == Caller(a, r, x, m, StoreRight(a, x, r.size))
store_hppa64(a, r, x, m)  == Caller(a, r, x, m, StoreWords(a, x, r.size))
store_armhf(a, r, x, m)   == Caller(a, r, x, m, StoreArm(a, x, r.size))
store_arm64(a, r, x, m)   == Caller(a, r, x, m, StoreWords(a, x, r.size))
store_powerpc(a, r, x, m) == Caller(a, r, x, m, StoreInteger(a, x, r.size))
store_powerpc64(a, r, x, m) == Caller(a, r, x, m, StoreWords(a, x, r.size))
store_ia64(a, r, x, m)    == Caller(a, r, x, m, StoreIa64(a, x, r.size))
store_x86_64(a, r, x, m)  == Caller(a, r, x, m, StoreWords(a, x, r.size))
store_x86_64_ms(a, r, x, m) == Caller(a, r, x, m, StoreWords(a, x, r.size))
store_s390(a, r, x, m)    == Caller(a, r, x, m, StoreInteger(a, x, r.size))
store_s390x(a, r, x, m)   == Caller(a, r, x, m, <<>>)
store_riscv32(a, r, x, m) == Caller(a, r, x, m, StoreWords(a, x, r.size))
store_riscv64(a, r, x, m) == Caller(a, r, x, m, StoreWords(a, x, r.size))
store_loongarch64(a, r, x, m) == Caller(a, r, x, m, StoreWords(a, x, r.size))

avcall_store(a, r, x, m) ==
  CASE a.cpu = "i386"        -> store_i386(a, r, x, m)
    [] a.cpu = "m68k"        -> store_m68k(a, r, x, m)
    [] a.cpu = "mips"        -> store_mips(a, r, x, m)
    [] a.cpu = "mipsn32"     -> store_mipsn32(a, r, x, m)
    [] a.cpu = "mips64"      -> store_mips64(a, r, x, m)
    [] a.cpu = "sparc"       -> store_sparc(a, r, x, m)
    [] a.cpu = "sparc64"     -> store_sparc64(a, r, x, m)
    [] a.cpu = "alpha"       -> store_alpha(a, r, x, m)
    [] a.cpu = "hppa"        -> store_hppa(a, r, x, m)
    [] a.cpu = "hppa64"      -> store_hppa64(a, r, x, m)
    [] a.cpu = "arm"         -> store_arm(a, r, x, m)
    [] a.cpu = "armhf"       -> store_armhf(a, r, x, m)
    [] a.cpu \in Arm64       -> store_arm64(a, r, x, m)
    [] a.cpu \in {"powerpc_aix", "powerpc_sysv4"} -> store_powerpc(a, r, x, m)
    [] a.cpu \in PPC64       -> store_powerpc64(a, r, x, m)
    [] a.cpu = "ia64"        -> store_ia64(a, r, x, m)
    [] a.cpu \in SysV        -> store_x86_64(a, r, x, m)
    [] a.cpu = "x86_64_ms"   -> store_x86_64_ms(a, r, x, m)
    [] a.cpu = "s390"        -> store_s390(a, r, x, m)
    [] a.cpu = "s390x"       -> store_s390x(a, r, x, m)
    [] a.cpu = "riscv32"     -> store_riscv32(a, r, x, m)
    [] a.cpu = "riscv64"     -> store_riscv64(a, r, x, m)
    [] a.cpu = "loongarch64" -> store_loongarch64(a, r, x, m)
=============================================================================
