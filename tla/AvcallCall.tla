----------------------------- MODULE AvcallCall -----------------------------
(***************************************************************************)
(* avcall_call up to the call of the function: what each                   *)
(* avcall-<cpu>.c moves from the argument list into the stack frame and    *)
(* the registers that the function will see.                               *)
(*   frame  the argument words, at the addresses they have in args[]: the  *)
(*          stack, preceded by the words that go to integer registers      *)
(*   iargs  the integer registers that have an array of their own          *)
(*   fregs  the floating-point registers that are loaded                   *)
(*   sret   the register for the address of the struct to be returned      *)
(***************************************************************************)
EXTENDS AvcallList

(* (l->aptr - l->args) whole words, of args growing up                     *)
ArgLen(a, l) == l.aptr \div W(a)

AtLeast(m, n) == IF m > n THEN m ELSE n

(* The first n words are loaded into registers whether pushed or not.      *)
Pass(a, l, n) ==
  [frame |-> Below(l.args, W(a) * AtLeast(ArgLen(a, l), n)),
   iargs |-> l.iargs, fregs |-> l.fregs, sret |-> <<>>]

(* `sret = l->raddr', for any struct.                                      *)
WithSret(a, ret, call) ==
  IF ret = "none" THEN call
  ELSE [call EXCEPT !.sret = Bytes(0, "raddr", P(a))]

(* Words of args[] that are loaded into floating-point registers, too.     *)
WithDoubles(l, ks, call) ==
  [call EXCEPT !.fregs = Override(@, [k \in ks |-> Get(l.args, 8 * k, 8)])]


call_i386(a, l, ret)       == Pass(a, l, 0)
call_m68k(a, l, ret)       == WithSret(a, ret, Pass(a, l, 0))
call_mips(a, l, ret)       == Pass(a, l, 4)
call_mipsn32(a, l, ret)    == WithDoubles(l, l.dmask, Pass(a, l, 8))
call_mips64(a, l, ret)     == WithDoubles(l, l.dmask, Pass(a, l, 8))
call_sparc(a, l, ret)      == WithSret(a, ret, Pass(a, l, 6))
call_sparc64(a, l, ret)    == WithDoubles(l, l.dmask, Pass(a, l, 6))
call_alpha(a, l, ret)      == WithDoubles(l, 0..5, Pass(a, l, 6))
call_arm(a, l, ret)        == Pass(a, l, 4)
call_armhf(a, l, ret)      == Pass(a, l, 4)
call_arm64(a, l, ret)      == WithSret(a, ret, Pass(a, l, 0))
call_powerpc(a, l, ret)    == Pass(a, l, IF a.cpu = "powerpc_aix" THEN 8 ELSE 0)
call_powerpc64(a, l, ret)  == Pass(a, l, 8)
call_ia64(a, l, ret)       == WithSret(a, ret, Pass(a, l, 8))
call_x86_64(a, l, ret)     == Pass(a, l, 0)
call_x86_64_ms(a, l, ret)  == Pass(a, l, 4)
call_s390(a, l, ret)       == Pass(a, l, 0)
call_s390x(a, l, ret)      == Pass(a, l, 0)
call_riscv32(a, l, ret)    == Pass(a, l, 0)
call_riscv64(a, l, ret)    == Pass(a, l, 0)
call_loongarch64(a, l, ret) == Pass(a, l, 0)

(* The arguments grow down; the first four words are args_end[-1..-4].     *)
call_hppa(a, l, ret) ==
  LET arglen == (l.end - l.aptr) \div 4
      marked == {k \in 0..3 : k < arglen}
      at(k)  == l.end - 4 * (k + 1)
  IN  WithSret(a, ret,
        [frame |-> From(l.args, l.end - 4 * AtLeast(arglen, 4)),
         iargs |-> <<>>,
         fregs |-> Override([k \in marked \cap l.fmask |-> Get(l.args, at(k), 4)],
                            [k \in marked \cap l.dmask \cap {1, 3} |->
                               Get(l.args, at(k), 8)]),
         sret  |-> <<>>])

(* Each of the first eight words goes to one register only.                *)
call_hppa64(a, l, ret) ==
  LET first  == {k \in 0..7 : k < ArgLen(a, l)}
      floats == first \cap (l.dmask \cup l.fmask)
      pass   == Pass(a, l, 0)
  IN  WithSret(a, ret,
        [pass EXCEPT
           !.frame = [x \in {y \in DOMAIN @ : y \div 8 \notin floats} |-> @[x]],
           !.fregs = [k \in floats |->
                        IF k \in l.dmask THEN Get(l.args, 8 * k, 8)
                        ELSE Get(l.args, 8 * k + 4, 4)]])

avcall_call(a, l, ret) ==
  CASE a.cpu = "i386"        -> call_i386(a, l, ret)
    [] a.cpu = "m68k"        -> call_m68k(a, l, ret)
    [] a.cpu = "mips"        -> call_mips(a, l, ret)
    [] a.cpu = "mipsn32"     -> call_mipsn32(a, l, ret)
    [] a.cpu = "mips64"      -> call_mips64(a, l, ret)
    [] a.cpu = "sparc"       -> call_sparc(a, l, ret)
    [] a.cpu = "sparc64"     -> call_sparc64(a, l, ret)
    [] a.cpu = "alpha"       -> call_alpha(a, l, ret)
    [] a.cpu = "hppa"        -> call_hppa(a, l, ret)
    [] a.cpu = "hppa64"      -> call_hppa64(a, l, ret)
    [] a.cpu = "arm"         -> call_arm(a, l, ret)
    [] a.cpu = "armhf"       -> call_armhf(a, l, ret)
    [] a.cpu \in Arm64       -> call_arm64(a, l, ret)
    [] a.cpu \in {"powerpc_aix", "powerpc_sysv4"} -> call_powerpc(a, l, ret)
    [] a.cpu \in PPC64       -> call_powerpc64(a, l, ret)
    [] a.cpu = "ia64"        -> call_ia64(a, l, ret)
    [] a.cpu \in SysV        -> call_x86_64(a, l, ret)
    [] a.cpu = "x86_64_ms"   -> call_x86_64_ms(a, l, ret)
    [] a.cpu = "s390"        -> call_s390(a, l, ret)
    [] a.cpu = "s390x"       -> call_s390x(a, l, ret)
    [] a.cpu = "riscv32"     -> call_riscv32(a, l, ret)
    [] a.cpu = "riscv64"     -> call_riscv64(a, l, ret)
    [] a.cpu = "loongarch64" -> call_loongarch64(a, l, ret)
=============================================================================
