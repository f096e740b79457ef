---------------------------- MODULE MCArgPassing ----------------------------
EXTENDS ArgPassing

ABI(cpu, order, cc) == [cpu |-> cpu, order |-> order, cc |-> cc]

SysVABIs == {ABI("x86_64_sysv", "little", "gcc")}

MCTypes(a) ==
  {CChar, CPtr(a), CLongLong, CFloat, CDouble,
   Struct(1, 1), Struct(6, 2), Struct(8, 8), Struct(12, 4), Struct(16, 16), Struct(20, 4),
   Struct(24, 8)}

NoReturn    == Returning(Void, TRUE, {})
BigStruct   == Returning(Struct(40, 4), TRUE, {})
Rets        == {NoReturn, BigStruct}

StructSizes(a) == {1, 2, 3, 4, 8, 12, 16, 24, 28, 32, 40} \
                  (IF a.cpu = "m68k" THEN {1, 3} ELSE {})
Splits(n)      == IF n \in {8, 16} THEN BOOLEAN ELSE {TRUE}
StructFlags(a) == SUBSET ({"small", "gcc"} \cup
                          (IF a.cpu = "i386" THEN {"msvc"} ELSE {}))
FloatFlags(a)  == SUBSET (CASE a.cpu = "m68k"  -> {"freg", "suncc_float"}
                            [] a.cpu = "sparc" -> {"suncc_float"}
                            [] OTHER           -> {})
Returns(a) ==
  {Returning(t, TRUE, f) : t \in {CChar, CInt, CLong(a), CPtr(a), CLongLong,
                                  CFloat, CDouble}, f \in FloatFlags(a)}
  \cup UNION {{Returning(Struct(n, 4), split, f) :
                 split \in Splits(n), f \in StructFlags(a)} :
              n \in StructSizes(a)}

-----------------------------------------------------------------------------
(* The ints and doubles that come first in the interesting calls: none, as *)
(* many as registers can take, or one less.                                *)

IntRegisters(a) ==
  CASE a.cpu \in {"i386", "m68k"} -> 0
    [] a.cpu \in {"mips", "hppa", "arm", "armhf", "x86_64_ms"} -> 4
    [] a.cpu \in S390 -> 5
    [] a.cpu \in SysV \cup {"sparc", "sparc64", "alpha"} -> 6
    [] OTHER -> 8

Around(n) == {k \in {0, n - 1, n} : k >= 0}

Leading(a) ==
  LET n == IntRegisters(a)
      m == FargNum(a)
  IN  {p \in Around(n) \X Around(m) : /\ p[1] = n - 1 => p[2] >= m - 1
                                      /\ p[2] = m - 1 => p[1] = n - 1}

Prefix(n, m) == [i \in 1..(n + m) |-> IF i <= n THEN CInt ELSE CDouble]

(* A list of `words' words with the arguments ts on it.  (For TLC, which   *)
(* evaluates the elements of a set before it goes on: each push before the *)
(* next one.)                                                              *)
Built(a, words, r, ts) ==
  LET push[i \in 0..Len(ts)] ==
        IF i = 0 THEN av_start(a, words, r)
        ELSE CHOOSE l \in {Push(a, before, i, ts[i]).list :
                             before \in {push[i - 1]}} : TRUE
  IN  push[Len(ts)]

Used(l, a) == IF a.cpu = "hppa" THEN l.end - l.aptr ELSE l.aptr

(* The array ends 16-aligned, as one of __AV_ALIST_WORDS = 256 words does. *)
WordsFor(a, used, spare) == (AlignUp(used, 16) + spare) \div W(a)
Roomy == 64

(* A call of a function that returns r, with the arguments ts first and    *)
(* room for at most `spare' bytes more.                                    *)
Calling(a, r, ts, n, spare) ==
  LET used == Used(Built(a, Roomy, AvKind(a, r), ts), a)
  IN  [ret |-> r, first |-> ts, more |-> n, words |-> WordsFor(a, used, spare)]

CallsWith(a, n, spares) ==
  {Calling(a, r, Prefix(p[1], p[2]), n, s) : r \in Rets, p \in Leading(a), s \in spares}
CallsWithout(a) == {Calling(a, r, <<>>, 0, 64) : r \in Returns(a)}

MCCalls(a)      == CallsWith(a, 2, {8, 64}) \cup CallsWithout(a)
SysVCalls(a)    == CallsWith(a, 1, {64})
Sparc64Calls(a) == CallsWith(a, 0, {64}) \cup CallsWithout(a)

Sparc64ABIs == {ABI("sparc64", "big", "gcc")}
=============================================================================
