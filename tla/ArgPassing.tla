----------------------------- MODULE ArgPassing -----------------------------
(***************************************************************************)
(* One call through avcall of a function written with vacall (or, with     *)
(* the same receivers, callback): the caller builds an argument list, one  *)
(* av_<type> at a time, and av_calls it; the function takes its arguments  *)
(* off its va_alist, one va_arg_<type> at a time, in the same order, and   *)
(* returns a value with va_return_<type>.                                  *)
(***************************************************************************)
EXTENDS AvcallCall, ReturnValue

CONSTANTS
  ABIs,       \* the ABIs to consider
  Types(_),   \* the argument types of an ABI
  Calls(_)    \* what an ABI's callers have in mind, records
              \*   ret    how the function returns its value
              \*   first  the types of the arguments that come first
              \*   more   how many arguments of any type may follow
              \*   words  the size of the av_alist's array

(* The types C has on these CPUs.                                          *)
ArgumentType(a, t) ==
  \/ t.kind = "int" /\ t.size \in {1, 2, 4}
  \/ t.kind = "ptr" /\ t.size = P(a)
  \/ t.kind \in {"longlong", "double"} /\ t.size = 8
  \/ t.kind = "float" /\ t.size = 4
  \/ /\ t.kind = "struct" /\ t.size \in Nat \ {0}
     /\ t.align \in {1, 2, 4, 8, 16} /\ t.size % t.align = 0

ReturnType(a, r) ==
  \/ r.kind = "void" /\ r.size = 0
  \/ r.kind = "long" /\ r.size = CLong(a).size
  \/ r.kind = "struct" /\ r.size \in Nat \ {0}
  \/ r.kind # "struct" /\ ArgumentType(a, r)

(* Structs of an ABI are not aligned further than its scalars.             *)
MaxAlign(a) ==
  CASE a.cpu = "m68k" -> 2
    [] a.cpu = "i386" -> 4
    [] a.cpu \in (Cpus32 \ {"m68k", "i386"})
                 \cup {"mipsn32", "s390x", "x86_64_ms"} -> 8
    [] OTHER -> 16

CTypes(a) ==
  {t \in [kind : {"int", "ptr", "longlong", "float", "double", "struct"},
          size : Nat, align : Nat] :
     ArgumentType(a, t) /\ (t.kind = "struct" => t.align <= MaxAlign(a))}

PushableTypes(a) == Types(a) \cap CTypes(a)

ASSUME ABIsAssumption == ABIs \subseteq ABISet
(* The array of an av_alist consists of whole units of 8 bytes, and has    *)
(* room for the first of the words that go to registers.                   *)
ASSUME CallsAssumption ==
  \A a \in ABIs : \A c \in Calls(a) :
    /\ ReturnType(a, c.ret)
    /\ c.first \in Seq(CTypes(a))
    /\ c.more \in Nat
    /\ c.words \in Nat /\ (W(a) * c.words) % 8 = 0
    /\ W(a) * c.words >= IF a.cpu = "armhf" THEN 16 ELSE 8

VA == INSTANCE VacallList

VARIABLES
  abi, ret, first,
  list,       \* the caller's av_alist
  args,       \* the types of the arguments on it
  more,       \* how many more the caller may push, after the first
  phase,      \* "build", "full" (a push failed), "called", "running",
              \* "returned"
  va,         \* the function's va_alist
  raddr,      \* where va_start found the address for the returned struct
  received,   \* the values fetched so far
  result,     \* what the call stored into the variable for its value
  disputed    \* (no variable of the program) the arguments that were pushed
              \* where the two headers disagree, 0 for the whole call

vars == <<abi, ret, first, list, args, more, phase, va, raddr, received,
          result, disputed>>

-----------------------------------------------------------------------------
(* The pushes that avcall-internal.h and vacall-internal.h do not do alike: *)
(* this argument, or one after it, is looked for in another place than it  *)
(* was put.  The README goes through them.                                 *)

(* Where avcall lets a struct end where a word ends, vacall does so only   *)
(* for a struct of less than a word.                                       *)
RightAdjusts(a, l) ==
  CASE a.cpu = "mips" -> a.cc = "gcc" /\ l.aptr >= 16
    [] a.cpu \in MipsWide \cup {"powerpc_aix"} -> a.cc = "gcc"
    [] a.cpu \in PPC64           -> a.cc = "gcc" /\ a.order = "big"
    [] a.cpu \in {"arm", "armhf"} -> a.order = "big"
    [] OTHER                     -> a.cpu = "m68k"

DisputedStruct(a, l, t) ==
  LET n     == t.size
      wide  == t.align > W(a)
      off   == l.aptr % t.align # 0
      end   == AlignUp(R(a) * l.ianum + n, t.align)
      stack == end > R(a) * IargNum(a)
  IN
  \/ RightAdjusts(a, l) /\ n > W(a) /\ n % W(a) # 0
  \/ CASE a.cpu = "mips"         -> l.anum = l.fanum /\ l.fanum < 2
       [] a.cpu \in MipsWide     -> off
       [] a.cpu = "hppa"         -> n \in 5..7
       [] a.cpu = "hppa64"       -> n > 8 /\ n % 16 # 0
       [] a.cpu = "ia64"         -> a.cc = "vendor" /\ n > 8 /\ (n \div 8) % 2 = 1
       [] a.cpu = "sparc64"      -> off \/ n > 16
       [] a.cpu = "x86_64_ms"    -> TRUE
       [] a.cpu \in SysV         -> \/ off
                                    \/ /\ n % 8 # 0
                                       /\ n > 16 \/ l.ianum + CeilDiv(n, 8) > 6
       [] a.cpu \in Arm64        -> n <= 16 /\ stack /\ off
       [] a.cpu \in RiscV        -> n <= 2 * W(a) /\ off
       [] a.cpu \in S390         -> /\ n \in {1, 2, 4, 8} /\ stack
                                    /\ (n < W(a) \/ (wide /\ (off \/ l.ianum < 4)))
       [] a.cpu = "armhf"        -> IF stack
                                    THEN wide /\ l.aptr = 16 /\ l.ianum % 2 = 1
                                    ELSE \/ a.order = "little" /\ n % 4 # 0
                                         \/ wide /\ off
       [] OTHER                  -> FALSE

Disputed(a, l, t) ==
  \/ t.kind = "struct" /\ DisputedStruct(a, l, t)
  \/ /\ t.kind = "longlong" /\ a.cpu \in {"armhf", "powerpc_sysv4"}
     /\ l.ianum = IargNum(a) - 1 /\ l.aptr % 8 # 0

(* The check of aptr against eptr lets more be stored than there is room    *)
(* for: arm64_apple's av_double needs two words and checks for one, and    *)
(* SysV's av_struct leaves an aptr that is no multiple of a word.          *)
Overruns(a, l, t) ==
  \/ /\ a.cpu = "arm64_apple" /\ t.kind = "double" /\ l.fanum = FargNum(a)
     /\ l.eptr - l.aptr = 4
  \/ a.cpu \in SysV /\ l.eptr - l.aptr \in 1..7

(* The return values on which the headers and the CPU's files disagree.    *)
DisputedReturn(a, r) ==
  \/ r.kind = "long" /\ a.cpu = "x86_64_ms"
  \/ r.kind = "struct" /\ AvKind(a, r) = "register" /\
       CASE a.cpu \in {"arm", "armhf"} -> r.size = 3
         [] a.cpu = "sparc64"          -> r.size > RaddrOffset(a)
         [] a.cpu = "ia64"             -> r.size > 16 /\ r.size # 24
         [] OTHER                      -> FALSE

-----------------------------------------------------------------------------

Init ==
  /\ abi \in ABIs
  /\ \E c \in Calls(abi) :
       /\ ret = c.ret /\ first = c.first /\ more = c.more
       /\ list = av_start(abi, c.words, AvKind(abi, c.ret))
  /\ args = <<>> /\ phase = "build"
  /\ va = <<>> /\ raddr = <<>> /\ received = <<>> /\ result = <<>>
  /\ disputed = IF abi.cpu = "mipsn32" /\ AvKind(abi, ret) = "memory"
                THEN {0} ELSE {}

(* The types that the next argument may have.                              *)
NextTypes ==
  IF Len(args) < Len(first) THEN {first[Len(args) + 1]}
  ELSE IF more > 0 THEN PushableTypes(abi) ELSE {}

PushArg(t) ==
  LET i == Len(args) + 1
      r == Push(abi, list, i, t)
  IN  /\ phase = "build" /\ t \in NextTypes
      /\ more' = IF i <= Len(first) THEN more ELSE more - 1
      /\ list' = r.list
      /\ \/ r.res = 0  /\ args' = Append(args, t) /\ phase' = phase
         \/ r.res = -1 /\ args' = args /\ phase' = "full"
      /\ disputed' = disputed \cup
                     {k \in {0, i} : /\ r.res = 0
                                     /\ k = 0 => Overruns(abi, list, t)
                                     /\ k = i => Disputed(abi, list, t)}
      /\ UNCHANGED <<abi, ret, first, va, raddr, received, result>>

(* After a push that failed the caller may make do with the arguments it   *)
(* has, unless av_overflown.                                               *)
Call ==
  /\ phase = "full" \/ (phase = "build" /\ Len(args) >= Len(first))
  /\ ~Overflown(abi, list)
  /\ phase' = "called"
  /\ va' = VA!vacall_receiver(abi, avcall_call(abi, list, AvKind(abi, ret)),
                              list.args, list.end)
  /\ UNCHANGED <<abi, ret, first, list, args, more, raddr, received, result, disputed>>

Start ==
  LET r == VA!va_start(abi, va, VaKind(abi, ret))
  IN  /\ phase = "called"
      /\ phase' = "running"
      /\ va' = r.va
      /\ raddr' = r.value
      /\ UNCHANGED <<abi, ret, first, list, args, more, received, result, disputed>>

Fetch ==
  LET i == Len(received) + 1
      r == VA!va_arg(abi, va, args[i])
  IN  /\ phase = "running" /\ i <= Len(args)
      /\ va' = r.va
      /\ received' = Append(received, r.value)
      /\ UNCHANGED <<abi, ret, first, list, args, more, phase, raddr, result, disputed>>

(* va_return_<type>, the receiver's end, and av_call's.                    *)
Return ==
  LET stored == StructAtRaddr(abi, ret, raddr)
      x      == receiver_return(abi, ret)
  IN  /\ phase = "running" /\ Len(received) = Len(args)
      /\ phase' = "returned"
      /\ result' = avcall_store(abi, ret, x, stored)
      /\ UNCHANGED <<abi, ret, first, list, args, more, va, raddr, received, disputed>>

Next == Call \/ Start \/ Fetch \/ Return \/ \E t \in NextTypes : PushArg(t)
Spec == Init /\ [][Next]_vars

-----------------------------------------------------------------------------
TypeOK ==
  /\ abi \in ABIs
  /\ list.end = W(abi) * (list.end \div W(abi))
  /\ list.ianum \in 0..IargNum(abi) /\ list.fanum \in 0..FargNum(abi)
  /\ DOMAIN list.iargs \subseteq 0..(R(abi) * IargNum(abi) - 1)
  /\ DOMAIN list.fregs \subseteq 0..(FargNum(abi) - 1)
  /\ list.fmask \cup list.dmask \subseteq 0..15
  /\ more \in Nat
  /\ phase \in {"build", "full", "called", "running", "returned"}
  /\ Len(received) <= Len(args)
  /\ disputed \subseteq 0..Len(args)

(* What the function fetches with va_arg_<type> are the values that the    *)
(* caller passed with av_<type>, each in its turn, whatever registers,     *)
(* stack words and copies they travel in; also after a push that failed.   *)
(* Up to the first argument that the two headers are known to disagree on. *)
ArgumentsArrive ==
  \A i \in 1..Len(received) :
    (\A d \in disputed : i < d) => received[i] = Own(i, args[i].size)

(* va_start_struct finds the address of the struct to be returned where    *)
(* av_start_struct put it, though the arguments were pushed since, and     *)
(* some CPUs take it for the first of them.                                *)
StructAddressArrives ==
  phase \in {"running", "returned"} /\ 0 \notin disputed /\ VaKind(abi, ret) = "memory"
    => raddr = Bytes(0, "raddr", P(abi))

(* The same without the exception: va_arg_<type> "fetches the next         *)
(* argument from the argument list" (vacall.3:80).                         *)
NextArgumentFetched ==
  \A i \in 1..Len(received) : received[i] = Own(i, args[i].size)

(* The caller's variable is assigned the value the function returned, and  *)
(* nothing is stored next to it: the function and the caller agree on      *)
(* registers or memory, on the registers, and on which of their bytes.     *)
ReturnValueArrives ==
  phase = "returned" /\ 0 \notin disputed /\ ~DisputedReturn(abi, ret)
    => result = Store(Own(0, ret.size))

(* The same without the exception: va_return_<type> "specifies the return  *)
(* value" (vacall.3:83), and a struct of up to 32 bytes is returned in     *)
(* registers (vacall-sparc64.c:172).                                       *)
SpecifiedValueReturned ==
  phase = "returned" => result = Store(Own(0, ret.size))

(* Nothing is stored outside the array of __AV_ALIST_WORDS words that the  *)
(* av_alist ends with, be it an argument or the copy of a struct, from     *)
(* either end of it.                                                       *)
StoresInside ==
  0 \notin disputed => \A x \in DOMAIN list.args : 0 <= x /\ x < list.end

(* A push changes nothing that an earlier one stored: the arguments that   *)
(* grow up and the copies of structs that grow down never meet.            *)
PushedKept ==
  [][0 \notin disputed' =>
       \A x \in DOMAIN list.args : list'.args[x] = list.args[x]]_vars
=============================================================================
