----------------------------- MODULE AvcallList -----------------------------
(***************************************************************************)
(* avcall's argument list: the av_start, av_<type> and av_struct macros of *)
(* avcall-internal.h.  Addresses are byte offsets from args[0], which has  *)
(* every alignment (avcall.h:302).  Each operator is one macro; its CASE   *)
(* arms are the macro's definitions under #if defined(__cpu__).  A push    *)
(* returns its C result and the list it leaves behind.                     *)
(***************************************************************************)
EXTENDS CallABI

(* The __av_alist that av_start makes for an array of `words' words.       *)
(*   fanum   also (LIST).faptr - (LIST).fargs                              *)
(*   fregs   the entries of fargs[] and dargs[] that are marked as values  *)
(*   fmask, dmask  the indexes of the words of args[] that are loaded into *)
(*           floating-point registers, too, as float or as double          *)
NewList(a, words) ==
  LET end == W(a) * words
  IN  [args  |-> <<>>, end |-> end,
       aptr  |-> CASE a.cpu = "hppa"  -> end
                   [] a.cpu = "armhf" -> 16
                   [] OTHER           -> 0,
       eptr  |-> IF a.cpu = "hppa" THEN 0 ELSE end,
       anum  |-> 0, ianum |-> 0, iargs |-> <<>>,
       fanum |-> 0, fregs |-> <<>>, fmask |-> {}, dmask |-> {}]

(* _av_overflown                                                           *)
Overflown(a, l) == IF a.cpu = "hppa" THEN l.aptr < l.eptr ELSE l.aptr > l.eptr

Done(l) == [res |-> 0, list |-> l]
Fail(l) == [res |-> -1, list |-> l]

(* Store `bytes' at `at', move aptr to `next'.                             *)
Stacked(l, next, at, bytes) ==
  Done([l EXCEPT !.aptr = next, !.args = Put(@, at, bytes)])

(* Mutant: aptr is checked before it is moved over the whole argument.     *)
EmbedChecksOld(l, end, bytes) ==
  IF l.aptr >= l.eptr THEN Fail(l)
  ELSE Stacked(l, end, end - Len(bytes), bytes)

(* ... when the new value of aptr, `end', is within the array              *)
Embed(l, end, bytes) ==
  IF end > l.eptr THEN Fail(l) ELSE Stacked(l, end, end - Len(bytes), bytes)

(* ... or when its old value is, whatever is stored.                       *)
Slot(l, size, at, bytes) ==
  IF l.aptr >= l.eptr THEN Fail(l) ELSE Stacked(l, l.aptr + size, at, bytes)

(* Mutant: the register is stored, but not counted.                        *)
InIargUncounted(a, l, bytes) ==
  Done([l EXCEPT !.iargs = Put(@, R(a) * l.ianum, bytes)])

InIarg(a, l, bytes) ==
  Done([l EXCEPT !.ianum = @ + 1, !.iargs = Put(@, R(a) * l.ianum, bytes)])

Marked(fregs, k, bytes) == Override(fregs, [i \in {k} |-> bytes])

InFreg(l, bytes, n) ==
  Done([l EXCEPT !.fanum = @ + n, !.fregs = Marked(@, l.fanum, bytes)])

Counted(r) == IF r.res = 0 THEN [r EXCEPT !.list.anum = @ + 1] ELSE r

(* What is also put into register k, or marked for it, when `in'.          *)
AlsoFreg(r, in, k, bytes) ==
  IF r.res = 0 /\ in THEN [r EXCEPT !.list.fregs = Marked(@, k, bytes)] ELSE r
AlsoNextFreg(a, r, bytes) ==
  LET l == r.list
  IN  IF r.res = 0 /\ l.fanum < FargNum(a)
      THEN [r EXCEPT !.list = InFreg(l, bytes, 1).list] ELSE r
AlsoFloatWord(r, in, k) ==
  IF r.res = 0 /\ in THEN [r EXCEPT !.list.fmask = @ \cup {k}] ELSE r
AlsoDoubleWord(r, in, k) ==
  IF r.res = 0 /\ in THEN [r EXCEPT !.list.dmask = @ \cup {k}] ELSE r

-----------------------------------------------------------------------------
(* Integers.                                                               *)

CountsArguments == MipsWide \cup {"mips", "sparc64", "x86_64_ms"}

av_word(a, l, word) ==
  CASE a.cpu = "hppa" ->
         IF l.aptr <= l.eptr THEN Fail(l)
         ELSE Stacked(l, l.aptr - 4, l.aptr - 4, word)
    [] a.cpu = "armhf" /\ l.ianum < IargNum(a) ->
         Done([l EXCEPT !.ianum = @ + 1, !.args = Put(@, 4 * l.ianum, word)])
    [] a.cpu \in CountsArguments -> Counted(Slot(l, W(a), l.aptr, word))
    [] OTHER                     -> Slot(l, W(a), l.aptr, word)

(* Mutant: one word too many for the registers.                            *)
IntOneMore(a, l, own) ==
  IF a.cpu \in HasIargs /\ l.ianum <= IargNum(a)
  THEN InIarg(a, l, Extended(a, own, R(a)))
  ELSE av_word(a, l, Extended(a, own, W(a)))

(* av_int and av_uint, av_char and av_short through them.                  *)
av_int(a, l, own) ==
  IF a.cpu \in HasIargs /\ l.ianum < IargNum(a)
  THEN InIarg(a, l, Extended(a, own, R(a)))
  ELSE av_word(a, l, Extended(a, own, W(a)))

(* av_long, av_ulong, av_ptr                                               *)
av_long(a, l, own) ==
  IF a.cpu = "arm64_apple" /\ l.ianum >= IargNum(a)
  THEN Embed(l, l.aptr + 8, own)
  ELSE av_int(a, l, own)

(* The bytes go to registers ianum.., of which the last is `next' - 1.     *)
InIargsUpTo(a, l, next, bytes) ==
  Done([l EXCEPT !.ianum = next,
                 !.iargs = Put(@, R(a) * next - Len(bytes), bytes)])

(* From here on no argument goes to an integer register.                   *)
NoMoreIargs(a, r) ==
  IF r.res = 0 THEN [r EXCEPT !.list.ianum = IargNum(a)] ELSE r

(* armhf: an argument that does not fit the registers starts in them when  *)
(* the stack is still empty (the "split case").                            *)
SplitStart(l) == IF l.aptr = 16 THEN 4 * l.ianum ELSE l.aptr

av_longlong(a, l, own) ==
  CASE a.cpu \in LongIs64 -> av_long(a, l, own)
    [] a.cpu \in {"mipsn32", "x86_64_ms"} -> av_word(a, l, own)
    [] a.cpu \in {"i386", "m68k", "powerpc_aix", "sparc"} ->
         Embed(l, l.aptr + 8, own)
    [] a.cpu = "mips" -> Counted(Embed(l, AlignUp(l.aptr + 8, 8), own))
    [] a.cpu = "arm"  -> Embed(l, AlignUp(l.aptr + 8, 8), own)
    [] a.cpu = "hppa" ->
         LET at == AlignDown(l.aptr, 8) - 8
         IN  IF at < l.eptr THEN Fail(l) ELSE Stacked(l, at, at, own)
    [] a.cpu = "armhf" ->
         LET even == AlignUp(l.ianum + 2, 2)
         IN  IF even <= IargNum(a)
             THEN Done([l EXCEPT !.ianum = even,
                                 !.args = Put(@, 4 * even - 8, own)])
             ELSE NoMoreIargs(a, Embed(l, AlignUp(SplitStart(l) + 8, 8), own))
    [] a.cpu = "powerpc_sysv4" ->
         LET even == AlignUp(l.ianum + 2, 2)
         IN  IF even <= IargNum(a) THEN InIargsUpTo(a, l, even, own)
             ELSE Embed([l EXCEPT !.ianum = IargNum(a)],
                        AlignUp(l.aptr + 8, 8), own)
    [] a.cpu = "x86_64_x32" -> av_int(a, l, own)
    [] a.cpu = "s390" ->
         IF l.ianum + 2 <= IargNum(a)
         THEN InIargsUpTo(a, l, l.ianum + 2, own)
         ELSE Embed([l EXCEPT !.ianum = IargNum(a)],
                    AlignUp(l.aptr + 8, 4), own)
    [] a.cpu = "riscv32" -> Embed(l, AlignUp(l.aptr + 8, 4), own)

-----------------------------------------------------------------------------
(* Floating-point.                                                         *)

(* mips: only floating-point arguments so far.                             *)
AlsoLeading(l, r, own) ==
  IF r.res = 0 /\ l.anum = l.fanum /\ l.fanum < 2
  THEN [r EXCEPT !.list = InFreg(@, own, 1).list] ELSE r

(* hppa: within the last four words of the array, and which word it is.    *)
AmongFirst4(l, at) == at >= l.end - 16
WordBelow(l, at)   == (l.end - at) \div 4 - 1

FloatsFillRegisters == Arm64 \cup RiscV \cup S390

av_float(a, l, own) ==
  LET dbl == AsDouble(own[1][1])
  IN
  CASE a.cpu \in {"i386", "m68k", "sparc", "arm"} -> Slot(l, 4, l.aptr, own)
    [] a.cpu = "mips" -> Counted(AlsoLeading(l, Slot(l, 4, l.aptr, own), own))
    [] a.cpu \in MipsWide \cup {"x86_64_ms"} ->
         Counted(AlsoFreg(Slot(l, 8, l.aptr, own),
                          l.anum < FargNum(a), l.anum, own))
    [] a.cpu = "sparc64" ->
         Counted(AlsoDoubleWord(Slot(l, 8, l.aptr + 4, own),
                                l.anum < 16, l.anum))
    [] a.cpu = "alpha" ->
         Slot(l, 8, l.aptr, IF l.aptr + 8 > 48 THEN own ELSE dbl)
    [] a.cpu = "hppa" ->
         LET at == l.aptr - 4
         IN  IF l.aptr <= l.eptr THEN Fail(l)
             ELSE AlsoFloatWord(Stacked(l, at, at, own),
                                AmongFirst4(l, at), WordBelow(l, at))
    [] a.cpu = "hppa64" ->
         AlsoFloatWord(Slot(l, 8, l.aptr + 4, own), l.aptr < 64, l.aptr \div 8)
    [] a.cpu = "armhf" ->
         IF l.fanum <= 15 THEN InFreg(l, own, 1) ELSE Slot(l, 4, l.aptr, own)
    [] a.cpu \in FloatsFillRegisters ->
         IF l.fanum < FargNum(a) THEN InFreg(l, own, 1)
         ELSE Slot(l, W(a), l.aptr + (IF a.cpu = "s390x" THEN 4 ELSE 0), own)
    [] a.cpu = "powerpc_sysv4" ->
         IF l.fanum < FargNum(a) THEN InFreg(l, dbl, 1)
         ELSE Slot(l, 4, l.aptr, own)
    [] a.cpu \in {"powerpc_aix", "ia64"} ->
         AlsoNextFreg(a, Slot(l, W(a), l.aptr, own), dbl)
    [] a.cpu \in PPC64 ->
         LET left == a.order = "little" \/ a.cc = "vendor"
         IN  AlsoNextFreg(a, Slot(l, 8, l.aptr + (IF left THEN 0 ELSE 4), own),
                          dbl)
    [] a.cpu \in SysV ->
         IF l.fanum < FargNum(a) THEN InFreg(l, Extended(a, own, 8), 1)
         ELSE Slot(l, 8, l.aptr, own)

av_double(a, l, own) ==
  CASE a.cpu \in {"i386", "m68k", "sparc"} -> Embed(l, l.aptr + 8, own)
    [] a.cpu = "mips" ->
         Counted(AlsoLeading(l, Embed(l, AlignUp(l.aptr + 8, 8), own), own))
    [] a.cpu = "arm" -> Embed(l, AlignUp(l.aptr + 8, 8), own)
    [] a.cpu \in MipsWide \cup {"sparc64"} ->
         Counted(AlsoDoubleWord(Slot(l, 8, l.aptr, own),
                                l.anum < FargNum(a), l.anum))
    [] a.cpu = "x86_64_ms" ->
         Counted(AlsoFreg(Slot(l, 8, l.aptr, own), l.anum < 4, l.anum, own))
    [] a.cpu = "alpha" -> Slot(l, 8, l.aptr, own)
    [] a.cpu = "hppa" ->
         LET at == AlignDown(l.aptr - 8, 8)
         IN  IF at < l.eptr THEN Fail(l)
             ELSE AlsoDoubleWord(Stacked(l, at, at, own),
                                 AmongFirst4(l, at), WordBelow(l, at))
    [] a.cpu = "hppa64" ->
         AlsoDoubleWord(Slot(l, 8, l.aptr, own), l.aptr < 64, l.aptr \div 8)
    [] a.cpu = "armhf" ->
         LET even == [l EXCEPT !.fanum = AlignUp(@, 2)]
         IN  IF even.fanum <= 14 THEN InFreg(even, own, 2)
             ELSE Embed(even, l.aptr + 8, own)
    [] a.cpu \in FloatsFillRegisters \cup SysV \cup {"powerpc_sysv4"} ->
         IF l.fanum < FargNum(a) THEN InFreg(l, own, 1)
         ELSE IF a.cpu \in {"s390", "riscv32", "powerpc_sysv4"}
              THEN Embed(l, l.aptr + 8, own)
              ELSE Slot(l, 8, l.aptr, own)
    [] a.cpu = "powerpc_aix" -> AlsoNextFreg(a, Embed(l, l.aptr + 8, own), own)
    [] a.cpu \in PPC64 \cup {"ia64"} ->
         AlsoNextFreg(a, Slot(l, 8, l.aptr, own), own)

-----------------------------------------------------------------------------
(* Structs.  The argument's bytes are `own', its type is t.                *)

(* The words a struct takes, of w bytes each.                              *)
StructWords(t, w) == CeilDiv(AlignUp(t.size, t.align), w)

(* Aligned, then filled up to a whole word.                                *)
LeftAdjusted(a, l, from, own, al) ==
  LET end == AlignUp(from + Len(own), al)
  IN  IF end > l.eptr THEN Fail(l)
      ELSE Stacked(l, AlignUp(end, W(a)), end - Len(own), own)

(* The struct ends where a word ends.                                      *)
RightAdjusted(a, l, from, own, al) ==
  Embed(l, AlignUp(AlignUp(from + Len(own), al), W(a)), own)

(* Mutant: the space of the copy is checked, but not taken.                *)
ByCopySameSpace(a, l, own) ==
  LET copy  == l.eptr - AlignUp(Len(own), 8)
      inReg == a.cpu \in HasIargs /\ l.ianum < IargNum(a)
      l1    == [l EXCEPT !.aptr = IF inReg THEN @ ELSE @ + P(a)]
      l2    == [l1 EXCEPT !.args = Put(@, copy, own)]
  IN  CASE l1.aptr > copy -> Fail(l1)
        [] l1.aptr <= copy /\ inReg  -> InIarg(a, l2, Address(copy, R(a)))
        [] l1.aptr <= copy /\ ~inReg ->
             Done([l2 EXCEPT !.args = Put(@, l.aptr, Address(copy, P(a)))])

(* A pointer to a copy at the end of the argument list space, 8-aligned.   *)
(* The check moves eptr, and aptr, whether or not it succeeds.             *)
ByCopy(a, l, own) ==
  LET copy  == l.eptr - AlignUp(Len(own), 8)
      inReg == a.cpu \in HasIargs /\ l.ianum < IargNum(a)
      l1    == [l EXCEPT !.eptr = copy,
                         !.aptr = IF inReg THEN @ ELSE @ + P(a)]
      l2    == [l1 EXCEPT !.args = Put(@, copy, own)]
  IN  CASE l1.aptr > copy -> Fail(l1)
        [] l1.aptr <= copy /\ inReg  -> InIarg(a, l2, Address(copy, R(a)))
        [] l1.aptr <= copy /\ ~inReg ->
             Done([l2 EXCEPT !.args = Put(@, l.aptr, Address(copy, P(a)))])

(* mipsn32, mips64, sparc64: the words of the struct are marked for the    *)
(* first n floating-point registers, too.                                  *)
AlsoStructWords(r, n, words) ==
  LET l     == r.list
      next  == l.anum + words
      marks == l.dmask \cup (IF l.anum < n THEN l.anum..(n - 1) ELSE {})
  IN  IF r.res = 0
      THEN [r EXCEPT !.list.anum = next,
                     !.list.dmask = {k \in marks : k < next}]
      ELSE r

(* ia64, GCC < 3: aptr is moved before it is checked.                      *)
OldGccStruct(l, own, al) ==
  LET end == AlignUp(l.aptr + Len(own), al)
      odd == Len(own) > 8 /\ (end \div 8) % 2 = 1
      l1  == [l EXCEPT !.aptr = IF odd THEN end + 8 ELSE end]
  IN  IF l1.aptr > l1.eptr THEN Fail(l1)
      ELSE Stacked(l1, AlignUp(l1.aptr, 8), l1.aptr - Len(own), own)

HppaStruct(l, own) ==
  LET n  == Len(own)
      l1 == [l EXCEPT !.aptr = @ - 4, !.eptr = @ + AlignUp(n, 8)]
      at == IF n > 4 THEN AlignDown(AlignDown(l.aptr, 8) - n, 8)
            ELSE AlignDown(l.aptr, 4) - n
  IN  CASE n > 8 /\ l1.aptr < l1.eptr  -> Fail(l1)
        [] n > 8 /\ l1.aptr >= l1.eptr ->
             Done([l1 EXCEPT !.args = Put(Put(@, l.eptr, own), l1.aptr,
                                          Address(l.eptr, 4))])
        [] n <= 8 /\ at < l.eptr  -> Fail(l)
        [] n <= 8 /\ at >= l.eptr -> Stacked(l, AlignDown(at, 4), at, own)

av_struct(a, l, own, t) ==
  LET n        == t.size
      left     == LeftAdjusted(a, l, l.aptr, own, t.align)
      right    == RightAdjusted(a, l, l.aptr, own, t.align)
      iargsEnd == AlignUp(R(a) * l.ianum + n, t.align)
      fits     == iargsEnd <= R(a) * IargNum(a)
      next     == l.ianum + StructWords(t, R(a))
      oneWord  == n \in {1, 2, 4, 8}
  IN
  CASE a.cpu \in {"i386", "alpha"} -> left
    [] a.cpu = "ia64" ->
         IF a.cc = "vendor" THEN OldGccStruct(l, own, t.align) ELSE left
    [] a.cpu = "arm" -> IF a.order = "little" THEN left ELSE right
    [] a.cpu = "mips" ->
         Counted(IF a.cc = "vendor" \/ l.aptr < 16 THEN left ELSE right)
    [] a.cpu \in MipsWide ->
         AlsoStructWords(IF a.cc = "vendor" THEN left ELSE right, 8,
                         StructWords(t, 8))
    [] a.cpu = "armhf" /\ fits ->
         Done([l EXCEPT !.ianum = next, !.args = Put(@, 4 * next - n, own)])
    [] a.cpu = "armhf" /\ ~fits ->
         NoMoreIargs(a,
           IF a.order = "little"
           THEN LeftAdjusted(a, l, SplitStart(l), own, t.align)
           ELSE RightAdjusted(a, l, SplitStart(l), own, t.align))
    [] a.cpu \in PPC64 \cup {"powerpc_aix"} ->
         IF a.cc = "vendor" \/ a.order = "little" THEN left ELSE right
    [] a.cpu = "hppa64" ->
         LeftAdjusted(a, l, l.aptr, own, IF n > 8 THEN 16 ELSE t.align)
    [] a.cpu = "m68k" -> Embed(l, AlignUp(l.aptr + n, 4), own)
    [] a.cpu \in {"sparc", "powerpc_sysv4"} -> ByCopy(a, l, own)
    [] a.cpu = "sparc64" ->
         IF n > 16 THEN ByCopy(a, l, own)
         ELSE AlsoStructWords(left, 16, StructWords(t, 8))
    [] a.cpu = "hppa" -> HppaStruct(l, own)
    [] a.cpu \in Arm64 ->
         IF n > 16 THEN ByCopy(a, l, own)
         ELSE IF fits
              THEN Done([l EXCEPT !.ianum = next,
                                  !.iargs = Put(@, R(a) * l.ianum, own)])
              ELSE NoMoreIargs(a, left)
    [] a.cpu \in SysV ->
         IF n <= 16 /\ l.ianum + CeilDiv(n, 8) <= IargNum(a)
         THEN Done([l EXCEPT !.ianum = @ + CeilDiv(n, 8),
                             !.iargs = Put(@, 8 * l.ianum, own)])
         ELSE LET end == l.aptr + AlignUp(n, t.align)
              IN  IF end > l.eptr THEN Fail(l)
                  ELSE Stacked(l, end, l.aptr, own)
    [] a.cpu = "x86_64_ms" ->
         IF oneWord
         THEN IF l.aptr + 8 > l.eptr THEN Fail(l)
              ELSE Stacked(l, l.aptr + 8, l.aptr, own)
         ELSE ByCopy(a, l, own)
    [] a.cpu \in S390 ->
         IF ~oneWord THEN ByCopy(a, l, own)
         ELSE IF fits THEN InIargsUpTo(a, l, next, own)
              ELSE NoMoreIargs(a, left)
    [] a.cpu \in RiscV ->
         IF n <= 2 * W(a) THEN left ELSE ByCopy(a, l, own)

-----------------------------------------------------------------------------
(* av_<type>, and av_start_struct.                                         *)

Push(a, l, i, t) ==
  LET own == Own(i, t.size)
  IN  CASE t.kind = "int"      -> av_int(a, l, own)
        [] t.kind = "ptr"      -> av_long(a, l, own)
        [] t.kind = "longlong" -> av_longlong(a, l, own)
        [] t.kind = "float"    -> av_float(a, l, own)
        [] t.kind = "double"   -> av_double(a, l, own)
        [] t.kind = "struct"   -> av_struct(a, l, own, t)

(* The return value: none, a struct returned in registers, or one that is  *)
(* returned in memory.  Where the address of that memory has no special    *)
(* register it is passed as the first argument, of which no check is made. *)
SpecialRegister == Arm64 \cup {"m68k", "sparc", "hppa", "hppa64", "ia64"}

av_start(a, words, ret) ==
  LET l    == NewList(a, words)
      word == Extended(a, Bytes(0, "raddr", P(a)), W(a))
  IN  CASE ret # "memory" \/ a.cpu \in SpecialRegister -> l
        [] ret = "memory" /\ a.cpu = "armhf" ->
             [l EXCEPT !.ianum = 1, !.args = Put(@, 0, word)]
        [] ret = "memory" /\ a.cpu \in HasIargs \ SpecialRegister ->
             InIarg(a, l, word).list
        [] ret = "memory" /\ a.cpu \in CountsArguments ->
             [l EXCEPT !.aptr = W(a), !.args = Put(@, 0, word), !.anum = 1]
        [] OTHER ->
             [l EXCEPT !.aptr = W(a), !.args = Put(@, 0, word)]
=============================================================================
