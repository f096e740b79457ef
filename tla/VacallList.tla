----------------------------- MODULE VacallList -----------------------------
(***************************************************************************)
(* vacall's side of a call: the receiver vacall-<cpu>.c, which collects    *)
(* the stack frame and the registers into a va_alist, and the va_start and *)
(* va_arg macros of vacall-internal.h that read it.  callback's receivers  *)
(* are the same files compiled with REENTRANT.  Addresses are those of     *)
(* AvcallCall; a fetch returns the value's bytes and the list it leaves.   *)
(***************************************************************************)
EXTENDS CallABI

(* What a receiver finds.  `callers' is the memory pointers point to.      *)
Receive(call, callers, aptr) ==
  [mem |-> call.frame, iargs |-> call.iargs, fregs |-> call.fregs,
   structraddr |-> call.sret, callers |-> callers,
   aptr |-> aptr, memargptr |-> 0, anum |-> 0, ianum |-> 0, fanum |-> 0]

(* ... with the register words moved to their stack locations, below       *)
(* memargptr; the hppa's are above it.                                     *)
ReceiveMoved(call, callers, aptr, memargptr) ==
  [Receive(call, callers, aptr) EXCEPT !.memargptr = memargptr]

receive_i386(c, m)        == Receive(c, m, 0)
receive_m68k(c, m)        == Receive(c, m, 0)
receive_mips(c, m)        == ReceiveMoved(c, m, 0, 16)
receive_mipsn32(c, m)     == Receive(c, m, 0)
receive_mips64(c, m)      == Receive(c, m, 0)
receive_sparc(c, m)       == Receive(c, m, 0)
receive_sparc64(c, m)     == Receive(c, m, 0)
receive_alpha(c, m)       == ReceiveMoved(c, m, 0, 48)
receive_hppa(c, m, end)   == ReceiveMoved(c, m, end, end - 16)
receive_hppa64(c, m)      == ReceiveMoved(c, m, 0, 64)
receive_arm(c, m)         == Receive(c, m, 0)
receive_armhf(c, m)       == Receive(c, m, 16)
receive_arm64(c, m)       == Receive(c, m, 0)
receive_powerpc(c, m)     == Receive(c, m, 0)
receive_powerpc64(c, m)   == Receive(c, m, 0)
receive_ia64(c, m)        == Receive(c, m, 0)
receive_x86_64(c, m)      == Receive(c, m, 0)
receive_x86_64_ms(c, m)   == Receive(c, m, 0)
receive_s390(c, m)        == Receive(c, m, 0)
receive_s390x(c, m)       == Receive(c, m, 0)

(* The eight register words are copied to iarg[]; the last one is also     *)
(* just below the stack words.                                             *)
ReceiveRegisters(c, m, w) ==
  [Receive(c, m, 8 * w) EXCEPT !.mem   = From(@, 7 * w),
                               !.iargs = Below(c.frame, 8 * w)]
receive_riscv32(c, m)     == ReceiveRegisters(c, m, 4)
receive_riscv64(c, m)     == ReceiveRegisters(c, m, 8)
receive_loongarch64(c, m) == ReceiveRegisters(c, m, 8)

vacall_receiver(a, c, m, end) ==
  CASE a.cpu = "i386"        -> receive_i386(c, m)
    [] a.cpu = "m68k"        -> receive_m68k(c, m)
    [] a.cpu = "mips"        -> receive_mips(c, m)
    [] a.cpu = "mipsn32"     -> receive_mipsn32(c, m)
    [] a.cpu = "mips64"      -> receive_mips64(c, m)
    [] a.cpu = "sparc"       -> receive_sparc(c, m)
    [] a.cpu = "sparc64"     -> receive_sparc64(c, m)
    [] a.cpu = "alpha"       -> receive_alpha(c, m)
    [] a.cpu = "hppa"        -> receive_hppa(c, m, end)
    [] a.cpu = "hppa64"      -> receive_hppa64(c, m)
    [] a.cpu = "arm"         -> receive_arm(c, m)
    [] a.cpu = "armhf"       -> receive_armhf(c, m)
    [] a.cpu \in Arm64       -> receive_arm64(c, m)
    [] a.cpu \in {"powerpc_aix", "powerpc_sysv4"} -> receive_powerpc(c, m)
    [] a.cpu \in PPC64       -> receive_powerpc64(c, m)
    [] a.cpu = "ia64"        -> receive_ia64(c, m)
    [] a.cpu \in SysV        -> receive_x86_64(c, m)
    [] a.cpu = "x86_64_ms"   -> receive_x86_64_ms(c, m)
    [] a.cpu = "s390"        -> receive_s390(c, m)
    [] a.cpu = "s390x"       -> receive_s390x(c, m)
    [] a.cpu = "riscv32"     -> receive_riscv32(c, m)
    [] a.cpu = "riscv64"     -> receive_riscv64(c, m)
    [] a.cpu = "loongarch64" -> receive_loongarch64(c, m)

-----------------------------------------------------------------------------
(* One word or struct at a time.                                           *)

Fetched(va, bytes)  == [va |-> va, value |-> bytes]
FromMem(va, at, n)  == Fetched(va, Get(va.mem, at, n))
FromIarg(va, at, n) == Fetched(va, Get(va.iargs, at, n))
Freg(va, k) ==
  IF k \in DOMAIN va.fregs THEN va.fregs[k] ELSE [j \in 1..8 |-> Junk]

VaArgsize(a, n) == AlignUp(n, W(a))

(* __va_arg_leftadjusted and __va_arg_rightadjusted, by `side'.            *)
va_arg_at(a, va, n, side) ==
  LET size  == VaArgsize(a, n)
      words == size \div W(a)
      next  == va.ianum + words
      back  == IF side = "right" /\ n < W(a) THEN n ELSE size
      down  == IF n > 4 THEN AlignDown(va.aptr - size, 8) ELSE va.aptr - size
      start == CASE a.cpu = "hppa64" /\ n > 8         -> AlignUp(va.aptr, 16)
                 [] a.cpu = "armhf" /\ va.aptr = 16 -> 4 * va.ianum
                 [] OTHER                             -> va.aptr
      moved == [va EXCEPT !.aptr = start + size]
      plain == FromMem(moved, start + size - back, n)
  IN
  CASE a.cpu = "hppa" ->
         FromMem([va EXCEPT !.aptr = down],
                 down + (IF side = "right" THEN (-n) % 4 ELSE 0), n)
    [] a.cpu = "armhf" /\ next <= 4 ->
         FromMem([va EXCEPT !.ianum = next], 4 * next - back, n)
    [] a.cpu = "armhf" /\ next > 4 -> [plain EXCEPT !.va.ianum = 4]
    [] a.cpu = "powerpc_sysv4" /\ next <= 8 ->
         FromIarg([va EXCEPT !.ianum = next], 4 * next - back, n)
    [] a.cpu \in MipsWide \cup {"sparc64", "x86_64_ms"} ->
         [plain EXCEPT !.va.anum = @ + words]
    [] OTHER -> plain

Counted(r) == [r EXCEPT !.va.anum = @ + 1]

(* __va_arg_adjusted                                                       *)
va_arg_adjusted(a, va, n) ==
  LET words == CeilDiv(n, R(a))
      next  == va.ianum + words
      fits  == next <= IargNum(a)
      inReg == [va EXCEPT !.ianum = next]
      full  == [va EXCEPT !.ianum = IargNum(a)]
      side  == IF a.order = "little" THEN "left" ELSE "right"
  IN
  CASE a.cpu = "mips" -> Counted(va_arg_at(a, va, n, side))
    [] a.cpu \in Arm64 \cup RiscV /\ fits -> FromIarg(inReg, R(a) * va.ianum, n)
    [] a.cpu \in Arm64 /\ ~fits -> va_arg_at(a, full, n, "left")
    [] a.cpu \in RiscV /\ ~fits ->
         va_arg_at(a, [full EXCEPT !.aptr = @ - (8 - va.ianum) * W(a)],
                   n, "left")
    [] a.cpu \in SysV ->
         IF n <= 16 /\ fits THEN FromIarg(inReg, 8 * va.ianum, n)
         ELSE va_arg_at(a, va, n, "left")
    [] a.cpu \in S390 ->
         IF fits THEN FromIarg(inReg, R(a) * next - n, n)
         ELSE va_arg_at(a, full, n, "right")
    [] OTHER -> va_arg_at(a, va, n, side)

va_arg_longlong(a, va) ==
  CASE a.cpu \in {"mips", "arm"} ->
         va_arg_adjusted(a, [va EXCEPT !.aptr = AlignUp(@, 8)], 8)
    [] a.cpu = "hppa" ->
         va_arg_adjusted(a, [va EXCEPT !.aptr = AlignDown(@, 8)], 8)
    [] a.cpu \in {"armhf", "powerpc_sysv4"} ->
         va_arg_adjusted(a, IF va.ianum < IargNum(a)
                            THEN [va EXCEPT !.ianum = AlignUp(@, 2)]
                            ELSE [va EXCEPT !.aptr = AlignUp(@, 8)], 8)
    [] a.cpu = "sparc" -> FromMem([va EXCEPT !.aptr = @ + 8], va.aptr, 8)
    [] OTHER -> va_arg_adjusted(a, va, 8)

-----------------------------------------------------------------------------
(* Floating-point.                                                         *)

(* Mutant: no CPU aligns its doubles.                                      *)
AlignDoubleNever(a, va) == va

(* __va_align_double                                                       *)
AlignDouble(a, va) ==
  CASE a.cpu \in {"mips", "arm", "armhf"} -> [va EXCEPT !.aptr = AlignUp(@, 8)]
    [] a.cpu = "hppa" -> [va EXCEPT !.aptr = AlignDown(@, 8)]
    [] OTHER          -> va

(* The value of `own' bytes, from register k.                              *)
FromFreg(a, va, k, own) ==
  Fetched(va, IF own = 4 THEN Single(a, Freg(va, k)) ELSE Full(Freg(va, k)))

(* ... from the next register if there is one left, else from memory.      *)
FromNextFreg(a, va, own, size, at) ==
  IF va.fanum < FargNum(a)
  THEN FromFreg(a, [va EXCEPT !.fanum = @ + 1], va.fanum, own)
  ELSE FromMem([va EXCEPT !.aptr = @ + size], va.aptr + at, own)

(* ... and the argument takes its place in memory in either case.          *)
FromNextFregToo(a, va, own, size, at) ==
  [FromNextFreg(a, va, own, size, at) EXCEPT !.va.aptr = va.aptr + size]

(* Where the argument's place decides: its register is the k-th.           *)
ByPlace(a, va, in, k, at, own) ==
  IF in THEN FromFreg(a, va, k, own) ELSE FromMem(va, at, own)

(* mips: only floating-point arguments so far.                             *)
ByLeading(a, va, own) ==
  LET va1 == [va EXCEPT !.aptr = @ + own, !.anum = @ + 1, !.fanum = @ + 1]
  IN  ByPlace(a, va1, va1.anum = va1.fanum /\ va1.fanum <= 2, va1.fanum - 1,
              va.aptr, own)

va_arg_float(a, va) ==
  LET up   == [va EXCEPT !.aptr = @ + 8]
      down == [va EXCEPT !.aptr = @ - 4]
  IN
  CASE a.cpu = "alpha" ->
         ByPlace(a, up, up.aptr <= va.memargptr, va.aptr \div 8, va.aptr, 4)
    [] a.cpu = "hppa" ->
         ByPlace(a, down, down.aptr >= va.memargptr,
                 3 - (down.aptr - va.memargptr) \div 4, down.aptr, 4)
    [] a.cpu = "mips" -> ByLeading(a, va, 4)
    [] a.cpu \in MipsWide \cup {"x86_64_ms"} ->
         Counted(ByPlace(a, up, va.anum < FargNum(a), va.anum, va.aptr, 4))
    [] a.cpu = "sparc64" ->
         Counted(ByPlace(a, up, va.anum < 16, va.anum, va.aptr + 4, 4))
    [] a.cpu = "hppa64" ->
         ByPlace(a, up, up.aptr <= va.memargptr,
                 7 - (va.memargptr - up.aptr) \div 8, va.aptr + 4, 4)
    [] a.cpu = "armhf"              -> FromNextFreg(a, va, 4, 4, 0)
    [] a.cpu \in Arm64              -> FromNextFreg(a, va, 4, W(a), 0)
    [] a.cpu = "powerpc_sysv4"      -> FromNextFreg(a, va, 4, 4, 0)
    [] a.cpu \in SysV               -> FromNextFreg(a, va, 4, 8, 0)
    [] a.cpu \in S390               -> FromNextFreg(a, va, 4, W(a), W(a) - 4)
    [] a.cpu = "powerpc_aix"        -> FromNextFregToo(a, va, 4, 4, 0)
    [] a.cpu = "ia64"               -> FromNextFregToo(a, va, 4, 8, 0)
    [] a.cpu \in PPC64 ->
         FromNextFregToo(a, va, 4, 8,
           IF a.order = "little" \/ a.cc = "vendor" THEN 0 ELSE 4)
    [] a.cpu \in RiscV ->
         IF va.fanum < 8 THEN FromNextFreg(a, va, 4, 0, 0)
         ELSE va_arg_adjusted(a, va, 4)
    [] OTHER -> va_arg_adjusted(a, va, 4)

va_arg_double(a, va) ==
  LET va0  == AlignDouble(a, va)
      up   == [va0 EXCEPT !.aptr = @ + 8]
      down == [va0 EXCEPT !.aptr = @ - 8]
      even == [va EXCEPT !.fanum = AlignUp(@, 2)]
  IN
  CASE a.cpu = "sparc" -> FromMem(up, va.aptr, 8)
    [] a.cpu = "alpha" ->
         ByPlace(a, up, up.aptr <= va.memargptr, va.aptr \div 8, va.aptr, 8)
    [] a.cpu = "hppa" ->
         ByPlace(a, down, down.aptr >= va.memargptr,
                 3 - (down.aptr - va.memargptr) \div 4, down.aptr, 8)
    [] a.cpu = "mips" -> ByLeading(a, va0, 8)
    [] a.cpu \in MipsWide \cup {"x86_64_ms", "sparc64"} ->
         Counted(ByPlace(a, up, va.anum < FargNum(a), va.anum, va.aptr, 8))
    [] a.cpu = "hppa64" ->
         ByPlace(a, up, up.aptr <= va.memargptr,
                 7 - (va.memargptr - up.aptr) \div 8, va.aptr, 8)
    [] a.cpu = "armhf" ->
         IF even.fanum <= 14
         THEN FromFreg(a, [even EXCEPT !.fanum = @ + 2], even.fanum, 8)
         ELSE FromNextFreg(a, even, 8, 8, 0)
    [] a.cpu \in Arm64 \cup SysV \cup S390 \cup {"powerpc_sysv4"} ->
         FromNextFreg(a, va, 8, 8, 0)
    [] a.cpu \in PPC64 \cup {"powerpc_aix", "ia64"} ->
         FromNextFregToo(a, va, 8, 8, 0)
    [] a.cpu \in RiscV ->
         IF va.fanum < 8 THEN FromNextFreg(a, va, 8, 0, 0)
         ELSE va_arg_adjusted(a, va, 8)
    [] OTHER -> va_arg_adjusted(a, va0, 8)

-----------------------------------------------------------------------------
(* Structs.                                                                *)

va_arg_ptr(a, va) == va_arg_adjusted(a, va, P(a))

(* The n bytes that a pointer argument points to.                          *)
Pointed(a, va, n) ==
  LET r == va_arg_ptr(a, va)
      x == r.value[1][1]
  IN  [r EXCEPT !.value = IF @ = Address(x, P(a)) THEN Get(va.callers, x, n)
                          ELSE [k \in 1..n |-> Junk]]

va_arg_struct(a, va, t) ==
  LET n       == t.size
      aligned == [va EXCEPT !.aptr = AlignUp(@, t.align)]
      odd     == a.cc = "vendor" /\ n > 8 /\ (aligned.aptr \div 8) % 2 = 1
      byCC    == IF a.cc = "vendor" THEN "left" ELSE "right"
  IN
  CASE a.cpu \in {"i386", "m68k", "alpha", "arm", "armhf", "powerpc64"}
                 \cup SysV ->
         va_arg_adjusted(a, aligned, n)
    [] a.cpu = "mips" ->
         va_arg_at(a, aligned, n,
                   IF aligned.aptr < va.memargptr THEN "left" ELSE byCC)
    [] a.cpu \in MipsWide \cup {"powerpc_aix", "powerpc64_aix"} ->
         va_arg_at(a, aligned, n, byCC)
    [] a.cpu \in {"powerpc_sysv4", "sparc"} -> Pointed(a, va, n)
    [] a.cpu = "sparc64" ->
         IF n <= 16 THEN va_arg_at(a, aligned, n, "left") ELSE Pointed(a, va, n)
    [] a.cpu = "hppa64" -> va_arg_at(a, aligned, n, "left")
    [] a.cpu \in Arm64 \cup RiscV ->
         IF n <= 2 * R(a) THEN va_arg_adjusted(a, va, n) ELSE Pointed(a, va, n)
    [] a.cpu \in S390 \cup {"x86_64_ms"} ->
         IF n \in {1, 2, 4, 8} THEN va_arg_adjusted(a, va, n)
         ELSE Pointed(a, va, n)
    [] a.cpu = "hppa" ->
         IF n > 8 THEN Pointed(a, va, n) ELSE va_arg_at(a, va, n, "right")
    [] a.cpu = "ia64" ->
         va_arg_adjusted(a, IF odd THEN [aligned EXCEPT !.aptr = @ + 8]
                            ELSE aligned, n)

va_arg(a, va, t) ==
  CASE t.kind = "int"      -> va_arg_adjusted(a, va, t.size)
    [] t.kind = "ptr"      -> va_arg_ptr(a, va)
    [] t.kind = "longlong" -> va_arg_longlong(a, va)
    [] t.kind = "float"    -> va_arg_float(a, va)
    [] t.kind = "double"   -> va_arg_double(a, va)
    [] t.kind = "struct"   -> va_arg_struct(a, va, t)

-----------------------------------------------------------------------------
(* va_start_struct, for a struct returned in memory: where its address is. *)
(* raddr is the va_alist's own buffer for one returned in registers, and   *)
(* then only the mips moves on.                                            *)

va_start_struct2(a, va) ==
  CASE a.cpu \in {"i386", "alpha", "arm", "powerpc_aix"} \cup PPC64 ->
         FromMem([va EXCEPT !.aptr = @ + P(a)], va.aptr, P(a))
    [] a.cpu \in MipsWide \cup {"mips", "sparc64", "x86_64_ms"} ->
         Counted(FromMem([va EXCEPT !.aptr = @ + P(a)], va.aptr, P(a)))
    [] a.cpu = "armhf" -> FromMem([va EXCEPT !.ianum = @ + 1], 4 * va.ianum, 4)
    [] a.cpu \in SysV \cup S390 \cup RiscV \cup {"powerpc_sysv4"} ->
         LET low == IF a.order = "big" THEN R(a) - P(a) ELSE 0
         IN  FromIarg([va EXCEPT !.ianum = @ + 1], R(a) * va.ianum + low, P(a))
    [] a.cpu \in {"m68k", "sparc", "hppa", "hppa64", "ia64"} \cup Arm64 ->
         Fetched(va, va.structraddr)

va_start(a, va, ret) ==
  CASE ret = "memory" -> va_start_struct2(a, va)
    [] ret = "register" /\ a.cpu = "mips" ->
         Fetched([va EXCEPT !.anum = @ + 1], <<>>)
    [] OTHER -> Fetched(va, <<>>)
=============================================================================
