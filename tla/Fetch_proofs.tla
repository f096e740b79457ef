---------------------------- MODULE Fetch_proofs ----------------------------
EXTENDS ReturnValue_proofs

(***************************************************************************)
(* ArgPassing: that va_arg_<type> fetches what av_<type> stored, for one   *)
(* argument of a scalar type.                                              *)
(*                                                                         *)
(* The function does not see the list of the caller but what av_call and   *)
(* the receiver made of it.  Sees(a, l, v) says that the va_alist v has    *)
(* all that the list l holds, though l was pushed to since; Match(a, l, v) *)
(* that v has fetched as many arguments as l has.  If l becomes m by a     *)
(* push, v Sees m and Matches l, then the fetch from v yields the value    *)
(* pushed and a va_alist that Matches m (Arrives).  There is a lemma for   *)
(* each way of passing an argument, with the push on one side and the      *)
(* fetch on the other, and one for each macro that goes through the        *)
(* branches of both.  ScalarArrives is all of them.                        *)
(***************************************************************************)
-----------------------------------------------------------------------------
(* The bytes in a memory from address at on.                               *)
HoldsAt(mem, at, bytes) ==
  \A k \in 1..Len(bytes) : at + k - 1 \in DOMAIN mem /\ mem[at + k - 1] = bytes[k]

LEMMA PutHoldsAt ==
  ASSUME NEW mem, NEW at \in Int, NEW bytes, Len(bytes) \in Nat
  PROVE  HoldsAt(Put(mem, at, bytes), at, bytes)
<1> DEFINE n == Len(bytes)
<1>1. SUFFICES ASSUME NEW k \in 1..n
               PROVE  /\ at + k - 1 \in DOMAIN Put(mem, at, bytes)
                      /\ Put(mem, at, bytes)[at + k - 1] = bytes[k]
  BY DEF HoldsAt
<1>2. at + k - 1 \in at..(at + n - 1) /\ (at + k - 1) - at + 1 = k
  OBVIOUS
<1> HIDE DEF n
<1>3. at..(at + n - 1) = at..(at + Len(bytes) - 1)
  BY DEF n
<1> QED
  BY <1>2, <1>3 DEF Put, Override

(* What a fetch of n bytes finds in a word, off bytes behind its start.    *)
PartAt(word, off, own, n) ==
  /\ off \in Nat /\ n \in Nat /\ off + n <= Len(word)
  /\ own = [k \in 1..n |-> own[k]]
  /\ \A k \in 1..n : word[off + k] = own[k]

LEMMA GetHeldAt ==
  ASSUME NEW mem, NEW at \in Int, NEW word, Len(word) \in Nat,
         HoldsAt(mem, at, word), NEW off, NEW own, NEW n, PartAt(word, off, own, n),
         NEW p, p = at + off
  PROVE  VA!Get(mem, p, n) = own /\ Get(mem, p, n) = own
<1>1. off \in Nat /\ n \in Nat /\ off + n <= Len(word)
  BY DEF PartAt
<1>2. ASSUME NEW k \in 1..n
      PROVE  p + k - 1 \in DOMAIN mem /\ mem[p + k - 1] = own[k]
  <2>1. off + k \in 1..Len(word) /\ p + k - 1 = at + (off + k) - 1
    BY <1>1
  <2> QED
    BY <2>1 DEF HoldsAt, PartAt
<1>3. Get(mem, p, n) = [k \in 1..n |-> own[k]]
  BY <1>2 DEF Get
<1> QED
  BY <1>3, SameGet DEF PartAt

(* Everything but the cursor stays.                                        *)
Moved(v, w) ==
  /\ IsVaList(w) /\ w.mem = v.mem /\ w.iargs = v.iargs /\ w.fregs = v.fregs
  /\ w.callers = v.callers /\ w.memargptr = v.memargptr

CountsPlaces == MipsWide \cup {"sparc64", "x86_64_ms"}

(* A fetch of value that leaves the cursor at aptr, anum and ianum.        *)
Took(v, f, value, aptr, anum, ianum) ==
  /\ DOMAIN f = {"va", "value"} /\ f.value = value /\ Moved(v, f.va)
  /\ f.va.aptr = aptr /\ f.va.anum = anum /\ f.va.ianum = ianum
  /\ f.va.fanum = v.fanum

(* The va_alist after a fetch from where the bytes are.                    *)
LEMMA TakesAt ==
  ASSUME NEW a, a.cpu \in Cpus,
         a.cpu \notin {"hppa", "armhf", "powerpc_sysv4"},
         NEW v, IsVaList(v), NEW n \in Nat, a.cpu = "hppa64" => n <= 8,
         NEW side, NEW size, size = AlignUp(n, W(a)),
         NEW p, p = IF side = "right" /\ n < W(a) THEN v.aptr + size - n
                    ELSE v.aptr + size - size
  PROVE  Took(v, VA!va_arg_at(a, v, n, side), VA!Get(v.mem, p, n), v.aptr + size,
              IF a.cpu \in CountsPlaces THEN v.anum + size \div W(a) ELSE v.anum,
              v.ianum)
<1> DEFINE plain == [va |-> [v EXCEPT !.aptr = v.aptr + size],
                     value |-> VA!Get(v.mem, p, n)]
           f == VA!va_arg_at(a, v, n, side)
<1>1. VA!W(a) = W(a) /\ VA!VaArgsize(a, n) = size
  BY SameSizes DEF VA!VaArgsize, VA!AlignUp, AlignUp
<1>2. ~(a.cpu = "hppa64" /\ n > 8)
  OBVIOUS
<1>3. plain = VA!FromMem([v EXCEPT !.aptr = v.aptr + size], p, n)
  BY DEF VA!FromMem, VA!Fetched, IsVaList
<1>4. f = IF a.cpu \in CountsPlaces
          THEN [plain EXCEPT !.va.anum = @ + size \div W(a)] ELSE plain
  BY <1>1, <1>2, <1>3 DEF VA!va_arg_at, VA!MipsWide, CountsPlaces, MipsWide
<1>5. /\ DOMAIN plain = {"va", "value"} /\ plain.value = VA!Get(v.mem, p, n)
      /\ IsVaList(plain.va) /\ plain.va.aptr = v.aptr + size
      /\ plain.va.mem = v.mem /\ plain.va.iargs = v.iargs /\ plain.va.fregs = v.fregs
      /\ plain.va.callers = v.callers /\ plain.va.memargptr = v.memargptr
      /\ plain.va.anum = v.anum /\ plain.va.ianum = v.ianum
      /\ plain.va.fanum = v.fanum
  BY DEF IsVaList
<1> HIDE DEF f, plain
<1>6. Took(v, f, VA!Get(v.mem, p, n), v.aptr + size,
           IF a.cpu \in CountsPlaces THEN v.anum + size \div W(a) ELSE v.anum,
           v.ianum)
  BY <1>4, <1>5 DEF Took, Moved, IsVaList
<1> QED
  BY <1>6 DEF f

-----------------------------------------------------------------------------
(* What the function can see of a list, and where it has got to.           *)

CountsFloats == FloatsFillRegisters \cup SysV \cup PPC64
                  \cup {"armhf", "powerpc_sysv4", "powerpc_aix", "ia64"}

Same(m, f, x) == x \in DOMAIN f /\ x \in DOMAIN m /\ f[x] = m[x]

(* The words of args[] that are on the stack, or next to it.               *)
Visible(a, l, x) ==
  IF a.cpu = "hppa" THEN x >= l.aptr
  ELSE /\ x < AlignDown(l.aptr, W(a))
       /\ a.cpu \in RiscV => x >= 7 * W(a)
       /\ a.cpu = "hppa64" => x \div 8 \notin l.fmask \cup l.dmask

SeesWords(a, l, v) ==
  /\ \A x \in DOMAIN l.args : Visible(a, l, x) => Same(v.mem, l.args, x)
  /\ \A x \in DOMAIN l.args : Same(v.callers, l.args, x)
  /\ a.cpu \in RiscV =>
       \A x \in DOMAIN l.args :
         x < 8 * W(a) /\ x < l.aptr => Same(v.iargs, l.args, x)
  /\ a.cpu \in HasIargs =>
       \A x \in DOMAIN l.iargs : x < R(a) * l.ianum => Same(v.iargs, l.iargs, x)

Loaded(v, k, bytes) == k \in DOMAIN v.fregs /\ v.fregs[k] = bytes

SeesFregs(a, l, v) ==
  CASE a.cpu = "alpha" -> \A k \in 0..5 : Loaded(v, k, Get(v.callers, 8 * k, 8))
    [] a.cpu = "hppa" ->
         \A k \in 0..3 :
           /\ k \in l.fmask \ (l.dmask \cap {1, 3}) =>
                Loaded(v, k, Get(v.callers, l.end - 4 * (k + 1), 4))
           /\ k \in l.dmask \cap {1, 3} =>
                Loaded(v, k, Get(v.callers, l.end - 4 * (k + 1), 8))
    [] a.cpu = "hppa64" ->
         \A k \in 0..7 :
           /\ k \in l.dmask => Loaded(v, k, Get(v.callers, 8 * k, 8))
           /\ k \in l.fmask \ l.dmask => Loaded(v, k, Get(v.callers, 8 * k + 4, 4))
    [] OTHER ->
         /\ \A k \in DOMAIN l.fregs \ l.dmask : Loaded(v, k, l.fregs[k])
         /\ \A k \in l.dmask : Loaded(v, k, Get(v.callers, 8 * k, 8))

EndOfRegisters(a, l) ==
  CASE a.cpu = "mips"   -> 16
    [] a.cpu = "alpha"  -> 48
    [] a.cpu = "hppa"   -> l.end - 16
    [] a.cpu = "hppa64" -> 64
    [] OTHER            -> 0

(* All that the list holds; the function may yet fetch it.                 *)
Sees(a, l, v) ==
  SeesWords(a, l, v) /\ SeesFregs(a, l, v) /\ v.memargptr = EndOfRegisters(a, l)

Cursor(v) ==
  IsVaList(v) /\ v.aptr \in Int /\ v.anum \in Nat /\ v.ianum \in Nat /\ v.fanum \in Nat

(* The cursor of the va_alist is where that of the list was. Not aptr on   *)
(* riscv, which goes to the stack only behind the eight words in           *)
(* registers.                                                              *)
Match(a, l, v) ==
  /\ Cursor(v)
  /\ l.aptr % W(a) = 0
  /\ a.cpu \notin RiscV => v.aptr = l.aptr
  /\ a.cpu \in RiscV =>
       IF l.aptr < 8 * W(a) THEN v.aptr = 8 * W(a) /\ l.aptr = W(a) * v.ianum
       ELSE v.aptr = l.aptr /\ v.ianum = 8
  /\ a.cpu \in HasIargs \cup {"armhf"} => v.ianum = l.ianum
  /\ a.cpu \in CountsFloats => v.fanum = l.fanum
  /\ a.cpu \in CountsPlaces => v.anum = l.anum /\ l.aptr = 8 * l.anum
  /\ a.cpu = "mips" =>
       /\ v.fanum <= v.anum
       /\ v.anum = v.fanum /\ v.fanum < 2 => l.anum = v.fanum /\ l.fanum = v.fanum

(* The place in the order of the arguments by which registers are marked.  *)
Pos(a, l) ==
  CASE a.cpu = "hppa"         -> (l.end - l.aptr) \div 4
    [] a.cpu = "hppa64"       -> l.aptr \div 8
    [] a.cpu \in CountsPlaces -> l.anum
    [] OTHER                  -> l.fanum

MarkInv(a, l) ==
  \A k \in DOMAIN l.fregs \cup l.fmask \cup l.dmask : k < Pos(a, l)

(* What a fetch needs to know of the list before the push.                 *)
Ready(a, l, v) == RegInv(a, l) /\ SpaceInv(a, l) /\ MarkInv(a, l) /\ Match(a, l, v)

(* What it comes to: the value, and the next Match.                        *)
Arrives(a, m, value, v, f) ==
  DOMAIN f = {"va", "value"} /\ f.value = value /\ Moved(v, f.va) /\ Match(a, m, f.va)

LEMMA Orders ==
  ASSUME NEW a, a \in ABISet
  PROVE  /\ a.cpu \in Cpus /\ a.order \in {"little", "big"}
         /\ a.cpu \in Arm64 \cup SysV \cup RiscV \cup
                      {"i386", "alpha", "ia64", "x86_64_ms"} => a.order = "little"
         /\ a.cpu \in S390 \cup {"hppa", "hppa64", "m68k", "sparc", "sparc64",
                       "powerpc_aix", "powerpc_sysv4", "powerpc64_aix"}
              => a.order = "big"
BY DEF ABISet, EitherOrder, OnlyLittle, Arm64, SysV, RiscV, S390

LEMMA CpuWords ==
  ASSUME NEW a, a.cpu \in Cpus
  PROVE  /\ a.cpu \in {"i386", "m68k", "mips", "sparc", "hppa", "arm", "armhf",
                        "powerpc_aix", "powerpc_sysv4", "s390", "riscv32"}
              => W(a) = 4 /\ R(a) = 4 /\ P(a) = 4
         /\ a.cpu = "arm64_apple" => W(a) = 4 /\ R(a) = 8 /\ P(a) = 8
         /\ a.cpu \in {"mips64", "sparc64", "alpha", "hppa64", "arm64", "ia64",
                        "x86_64_sysv", "x86_64_ms", "s390x", "riscv64",
                        "loongarch64"} \cup PPC64
              => W(a) = 8 /\ R(a) = 8 /\ P(a) = 8
         /\ a.cpu \in {"mipsn32", "x86_64_x32"} => W(a) = 8 /\ R(a) = 8 /\ P(a) = 4
BY DEF W, R, P, Cpus32, PPC64

-----------------------------------------------------------------------------
(* Bytes that a push stored, where the function looks for them.            *)
Unmarked(a, m, at) ==
  a.cpu = "hppa64" => \A k \in m.fmask \cup m.dmask : k \in Int /\ 8 * k + 8 <= at

LEMMA SeenOnStack ==
  ASSUME NEW a, a.cpu \in Cpus, a.cpu \notin RiscV, a.cpu # "hppa",
         NEW m, NEW v, Sees(a, m, v), m.aptr \in Int, m.aptr % W(a) = 0,
         NEW at \in Int, NEW bytes, Len(bytes) \in Nat, HoldsAt(m.args, at, bytes),
         at + Len(bytes) <= m.aptr, Unmarked(a, m, at)
  PROVE  HoldsAt(v.mem, at, bytes)
<1>1. AlignDown(m.aptr, W(a)) = m.aptr
  BY WordSizes DEF AlignDown
<1>2. \A x \in DOMAIN m.args :
        x \in Int /\ x < m.aptr /\ (a.cpu = "hppa64" => x \div 8 \notin m.fmask \cup m.dmask)
          => Same(v.mem, m.args, x)
  BY <1>1 DEF Sees, SeesWords, Visible
<1>3. ASSUME NEW k \in 1..Len(bytes)
      PROVE  at + k - 1 \in DOMAIN v.mem /\ v.mem[at + k - 1] = bytes[k]
  <2> DEFINE x == at + k - 1
  <2>1. x \in Int /\ x < m.aptr /\ x >= at
    OBVIOUS
  <2>2. x \in DOMAIN m.args /\ m.args[x] = bytes[k]
    BY DEF HoldsAt
  <2> HIDE DEF x
  <2>3. a.cpu = "hppa64" => x \div 8 \notin m.fmask \cup m.dmask
    BY <2>1 DEF Unmarked
  <2>4. x \in DOMAIN v.mem /\ v.mem[x] = bytes[k]
    BY <1>2, <2>1, <2>2, <2>3 DEF Same
  <2> QED
    BY <2>4 DEF x
<1> QED
  BY <1>3 DEF HoldsAt

LEMMA SeenByPointer ==
  ASSUME NEW a, NEW m, NEW v, Sees(a, m, v),
         NEW at \in Int, NEW bytes, Len(bytes) \in Nat, HoldsAt(m.args, at, bytes)
  PROVE  HoldsAt(v.callers, at, bytes)
<1>1. \A x \in DOMAIN m.args : Same(v.callers, m.args, x)
  BY DEF Sees, SeesWords
<1> QED
  BY <1>1 DEF HoldsAt, Same

LEMMA SeenOnHppa ==
  ASSUME NEW a, a.cpu = "hppa",
         NEW m, NEW v, Sees(a, m, v), m.aptr \in Int,
         NEW at \in Int, NEW bytes, Len(bytes) \in Nat, HoldsAt(m.args, at, bytes),
         m.aptr <= at
  PROVE  HoldsAt(v.mem, at, bytes)
<1>1. \A x \in DOMAIN m.args : x \in Int /\ x >= m.aptr => Same(v.mem, m.args, x)
  BY DEF Sees, SeesWords, Visible
<1>2. ASSUME NEW k \in 1..Len(bytes)
      PROVE  at + k - 1 \in DOMAIN v.mem /\ v.mem[at + k - 1] = bytes[k]
  <2> DEFINE x == at + k - 1
  <2>1. x \in Int /\ x >= m.aptr
    OBVIOUS
  <2>2. x \in DOMAIN m.args /\ m.args[x] = bytes[k]
    BY DEF HoldsAt
  <2> HIDE DEF x
  <2>3. x \in DOMAIN v.mem /\ v.mem[x] = bytes[k]
    BY <1>1, <2>1, <2>2 DEF Same
  <2> QED
    BY <2>3 DEF x
<1> QED
  BY <1>2 DEF HoldsAt

LEMMA SeenInIargs ==
  ASSUME NEW a, a.cpu \in Cpus, a.cpu \in HasIargs,
         NEW m, NEW v, Sees(a, m, v), m.ianum \in Int,
         NEW at \in Int, NEW bytes, Len(bytes) \in Nat, HoldsAt(m.iargs, at, bytes),
         NEW size, size = R(a), at + Len(bytes) <= size * m.ianum
  PROVE  HoldsAt(v.iargs, at, bytes)
<1>1. \A x \in DOMAIN m.iargs : x < R(a) * m.ianum => Same(v.iargs, m.iargs, x)
  BY DEF Sees, SeesWords
<1> DEFINE top == R(a) * m.ianum
<1>2. top \in Int /\ at + Len(bytes) <= top
  BY WordSizes
<1>3. \A x \in DOMAIN m.iargs : x < top => Same(v.iargs, m.iargs, x)
  BY <1>1
<1> HIDE DEF top
<1>4. ASSUME NEW k \in 1..Len(bytes)
      PROVE  at + k - 1 \in DOMAIN v.iargs /\ v.iargs[at + k - 1] = bytes[k]
  <2> DEFINE x == at + k - 1
  <2>1. x \in Int /\ x < top
    BY <1>2
  <2>2. x \in DOMAIN m.iargs /\ m.iargs[x] = bytes[k]
    BY DEF HoldsAt
  <2> HIDE DEF x
  <2>3. x \in DOMAIN v.iargs /\ v.iargs[x] = bytes[k]
    BY <1>3, <2>1, <2>2 DEF Same
  <2> QED
    BY <2>3 DEF x
<1> QED
  BY <1>4 DEF HoldsAt

(* A word is in the next register for words, or next on the stack.         *)
NextInIarg(a, l) == a.cpu \in HasIargs /\ l.ianum < IargNum(a)

WordPlaced(a, l, m, word) ==
  IF NextInIarg(a, l)
  THEN /\ HoldsAt(m.iargs, R(a) * l.ianum, word) /\ Len(word) = R(a)
       /\ m.ianum = l.ianum + 1 /\ m.aptr = l.aptr
  ELSE IF a.cpu = "armhf" /\ l.ianum < 4
  THEN /\ HoldsAt(m.args, 4 * l.ianum, word) /\ Len(word) = 4
       /\ m.ianum = l.ianum + 1 /\ m.aptr = l.aptr
  ELSE IF a.cpu = "hppa"
  THEN /\ HoldsAt(m.args, l.aptr - 4, word) /\ Len(word) = 4
       /\ m.ianum = l.ianum /\ m.aptr = l.aptr - 4
  ELSE /\ HoldsAt(m.args, l.aptr, word) /\ Len(word) = W(a)
       /\ m.ianum = l.ianum /\ m.aptr = l.aptr + W(a)

WordPushed(a, l, m, word) ==
  /\ WordPlaced(a, l, m, word)
  /\ m.anum = IF a.cpu \in CountsArguments THEN l.anum + 1 ELSE l.anum
  /\ m.fanum = l.fanum /\ m.fmask = l.fmask /\ m.dmask = l.dmask

LEMMA InIargPushed ==
  ASSUME NEW a, a.cpu \in Cpus, NEW l, RegInv(a, l), NextInIarg(a, l),
         NEW word, Len(word) = R(a), NEW m, m = InIarg(a, l, word).list
  PROVE  WordPushed(a, l, m, word)
<1> DEFINE at == R(a) * l.ianum
<1>1. /\ m.ianum = l.ianum + 1 /\ m.iargs = Put(l.iargs, at, word)
      /\ m.aptr = l.aptr /\ m.anum = l.anum /\ m.fanum = l.fanum
      /\ m.fmask = l.fmask /\ m.dmask = l.dmask
  BY DEF InIarg, Done, RegInv, IsList
<1>2. at \in Int /\ Len(word) \in Nat
  BY ListTypes, WordSizes
<1> HIDE DEF at
<1>3. HoldsAt(m.iargs, at, word)
  BY <1>1, <1>2, PutHoldsAt
<1>4. a.cpu \notin CountsArguments
  BY DEF NextInIarg, HasIargs, CountsArguments, MipsWide, Arm64, SysV, S390
<1> QED
  BY <1>1, <1>3, <1>4 DEF WordPushed, WordPlaced, at

LEMMA AvWordPushed ==
  ASSUME NEW a, a.cpu \in Cpus, NEW l, RegInv(a, l), ~NextInIarg(a, l),
         NEW word, Len(word) = W(a), NEW r, r = av_word(a, l, word), r.res = 0
  PROVE  WordPushed(a, l, r.list, word)
<1>1. IsList(l) /\ W(a) \in {4, 8} /\ l.aptr \in Int /\ l.ianum \in Nat
      /\ l.anum \in Nat
  BY ListTypes, WordSizes DEF RegInv
<1>2. CASE a.cpu = "hppa"
  <2> DEFINE at == l.aptr - 4
  <2>1. r = Stacked(l, at, at, word)
    BY <1>2 DEF av_word, Fail, CountsArguments, MipsWide
  <2>2. at \in Int /\ Len(word) \in Nat
    BY <1>1
  <2>3. Len(word) = 4
    BY <1>2 DEF W, Cpus32
  <2> HIDE DEF at
  <2>4. /\ r.list.aptr = at /\ r.list.args = Put(l.args, at, word)
        /\ r.list.anum = l.anum /\ r.list.ianum = l.ianum /\ r.list.fanum = l.fanum
        /\ r.list.fmask = l.fmask /\ r.list.dmask = l.dmask
    BY <1>1, <2>1, StackedList
  <2>5. HoldsAt(r.list.args, at, word)
    BY <2>2, <2>4, PutHoldsAt
  <2> QED
    BY <1>2, <2>3, <2>4, <2>5
       DEF WordPushed, WordPlaced, CountsArguments, MipsWide, at
<1>3. CASE a.cpu = "armhf" /\ l.ianum < 4
  <2> DEFINE at == 4 * l.ianum
  <2>1. /\ r.list.ianum = l.ianum + 1 /\ r.list.args = Put(l.args, at, word)
        /\ r.list.aptr = l.aptr /\ r.list.anum = l.anum /\ r.list.fanum = l.fanum
        /\ r.list.fmask = l.fmask /\ r.list.dmask = l.dmask
    BY <1>1, <1>3, RegisterCounts
       DEF av_word, Done, IsList, CountsArguments, MipsWide
  <2>2. at \in Int /\ Len(word) = 4
    BY <1>1, <1>3, RegisterCounts
  <2> HIDE DEF at
  <2>3. HoldsAt(r.list.args, at, word)
    BY <2>1, <2>2, PutHoldsAt
  <2> QED
    BY <1>3, <2>1, <2>2, <2>3
       DEF WordPushed, WordPlaced, CountsArguments, MipsWide, at
<1>4. CASE a.cpu # "hppa" /\ ~(a.cpu = "armhf" /\ l.ianum < 4)
  <2> DEFINE at == l.aptr
             s == Stacked(l, l.aptr + W(a), at, word)
  <2>1. /\ r.list.anum = IF a.cpu \in CountsArguments THEN s.list.anum + 1 ELSE s.list.anum
        /\ r.list.aptr = s.list.aptr /\ r.list.args = s.list.args
        /\ r.list.ianum = s.list.ianum /\ r.list.fanum = s.list.fanum
        /\ r.list.fmask = s.list.fmask /\ r.list.dmask = s.list.dmask
    <3>1. \/ a.cpu \in CountsArguments /\ r = Counted(Slot(l, W(a), l.aptr, word))
          \/ a.cpu \notin CountsArguments /\ r = Slot(l, W(a), l.aptr, word)
      BY <1>4, RegisterCounts DEF av_word, CountsArguments, MipsWide
    <3>2. IsResult(s) /\ s.res = 0
      BY <1>1, StackedList
    <3>3. Slot(l, W(a), l.aptr, word) = s \/ Slot(l, W(a), l.aptr, word) = Fail(l)
      BY DEF Slot
    <3> HIDE DEF s
    <3> QED
      BY <3>1, <3>2, <3>3 DEF Counted, Fail, IsResult, IsList
  <2>2. at \in Int /\ Len(word) \in Nat
    BY <1>1
  <2> HIDE DEF at
  <2>3. /\ s.list.aptr = l.aptr + W(a) /\ s.list.args = Put(l.args, at, word)
        /\ s.list.anum = l.anum /\ s.list.ianum = l.ianum /\ s.list.fanum = l.fanum
        /\ s.list.fmask = l.fmask /\ s.list.dmask = l.dmask
    BY <1>1, StackedList
  <2> HIDE DEF s
  <2>4. HoldsAt(r.list.args, at, word)
    BY <2>1, <2>2, <2>3, PutHoldsAt
  <2> QED
    BY <1>4, <2>1, <2>3, <2>4 DEF WordPushed, WordPlaced, at
<1> QED
  BY <1>2, <1>3, <1>4

(* The part of a word that an extended integer takes.                      *)
LEMMA Joined ==
  ASSUME NEW m \in Nat, NEW n \in Nat, NEW p, p = [k \in 1..m |-> p[k]],
         NEW q, q = [k \in 1..n |-> q[k]], NEW s, s = p \o q
  PROVE  /\ Len(s) = m + n
         /\ \A k \in 1..m : s[k] = p[k]
         /\ \A k \in 1..n : s[m + k] = q[k]
<1> DEFINE S == {p[k] : k \in 1..m}
           T == {q[k] : k \in 1..n}
           U == S \cup T
<1>1. p \in Seq(S) /\ q \in Seq(T) /\ Len(p) = m /\ Len(q) = n
  <2>1. p \in Seq({p[k] : k \in 1..m}) /\ Len(p) = m
    BY FiniteSequence
  <2>2. q \in Seq({q[k] : k \in 1..n}) /\ Len(q) = n
    BY FiniteSequence
  <2> QED
    BY <2>1, <2>2
<1> HIDE DEF S, T
<1>2. p \in Seq(U) /\ q \in Seq(U)
  BY <1>1, SeqDef
<1> HIDE DEF U
<1> QED
  BY <1>1, <1>2

LEMMA ExtendedPart ==
  ASSUME NEW a, NEW i, NEW n \in Nat, NEW w \in Nat, n <= w,
         NEW own, own = Own(i, n), NEW word, word = Extended(a, own, w),
         n >= 1, NEW off, off = IF a.order = "little" THEN 0 ELSE w - n
  PROVE  PartAt(word, off, own, n) /\ Len(word) = w
<1> DEFINE e == Bytes(i, "ext", w - n)
           d == w - n
           le == own \o e
           el == e \o own
<1>1. own = [k \in 1..n |-> own[k]] /\ e = [k \in 1..d |-> e[k]]
  BY DEF Own, Bytes
<1>2. Len(own) = n /\ own[1][1] = i /\ d \in Nat /\ n + d = w
  BY LengthOwn DEF Own, Bytes
<1>3. word = IF a.order = "little" THEN le ELSE el
  BY <1>2 DEF Extended
<1>4. off = IF a.order = "little" THEN 0 ELSE d
  OBVIOUS
<1> HIDE DEF e, d
<1>5. /\ Len(le) = n + d /\ \A k \in 1..n : le[k] = own[k]
      /\ Len(el) = d + n /\ \A k \in 1..n : el[d + k] = own[k]
  BY <1>1, <1>2, Joined
<1> HIDE DEF le, el
<1>6. Len(word) = w /\ \A k \in 1..n : word[off + k] = own[k]
  <2>1. CASE a.order = "little"
    <3>1. word = le /\ off = 0
      BY <1>3, <1>4, <2>1
    <3> QED
      BY <1>2, <1>5, <3>1
  <2>2. CASE a.order # "little"
    <3>1. word = el /\ off = d
      BY <1>3, <1>4, <2>2
    <3> QED
      BY <1>2, <1>5, <3>1
  <2> QED
    BY <2>1, <2>2
<1> QED
  BY <1>1, <1>2, <1>4, <1>6 DEF PartAt

LEMMA StaysUnmarked ==
  ASSUME NEW a, NEW l, RegInv(a, l), MarkInv(a, l), l.aptr % W(a) = 0, a.cpu \in Cpus,
         NEW m, m.fmask = l.fmask, m.dmask = l.dmask, NEW at \in Int, l.aptr <= at
  PROVE  Unmarked(a, m, at)
<1>1. SUFFICES ASSUME a.cpu = "hppa64", NEW k \in l.fmask \cup l.dmask
               PROVE  k \in Int /\ 8 * k + 8 <= at
  BY DEF Unmarked
<1>2. k \in 0..15 /\ k < l.aptr \div 8 /\ l.aptr \in Int
  BY <1>1, ListTypes DEF MarkInv, Pos, CountsPlaces, MipsWide, RegInv, Contents
<1> QED
  BY <1>2

OneWordCpus == {"i386", "m68k", "sparc", "alpha", "arm", "powerpc_aix", "ia64",
                "hppa64", "mips"} \cup PPC64 \cup CountsPlaces

LEMMA WordOnStack ==
  ASSUME NEW a, a \in ABISet, a.cpu \in OneWordCpus, NEW l, NEW v, Ready(a, l, v),
         NEW m, NEW word, WordPushed(a, l, m, word), Sees(a, m, v),
         NEW n \in Nat, 1 <= n, n <= W(a), NEW own,
         PartAt(word, IF a.order = "little" THEN 0 ELSE Len(word) - n, own, n)
  PROVE  Arrives(a, m, own, v, VA!va_arg_adjusted(a, v, n))
<1> DEFINE w == W(a)
           off == IF a.order = "little" THEN 0 ELSE w - n
           side == IF a.order = "little" THEN "left" ELSE "right"
           p == IF side = "right" /\ n < W(a) THEN v.aptr + w - n ELSE v.aptr + w - w
           f == VA!va_arg_adjusted(a, v, n)
           g == VA!va_arg_at(a, v, n, side)
<1>1. /\ a.cpu \in Cpus /\ a.cpu \notin HasIargs /\ a.cpu \notin RiscV
      /\ a.cpu \notin {"hppa", "armhf", "powerpc_sysv4"}
      /\ a.order \in {"little", "big"} /\ w \in {4, 8}
  BY Orders, WordSizes
     DEF OneWordCpus, PPC64, CountsPlaces, MipsWide, HasIargs, RiscV, Arm64, SysV, S390
<1>2. /\ HoldsAt(m.args, l.aptr, word) /\ Len(word) = w /\ m.aptr = l.aptr + w
      /\ m.fmask = l.fmask /\ m.dmask = l.dmask /\ m.fanum = l.fanum
      /\ m.anum = IF a.cpu \in CountsArguments THEN l.anum + 1 ELSE l.anum
  BY <1>1 DEF WordPushed, WordPlaced, NextInIarg
<1>3. /\ v.aptr = l.aptr /\ l.aptr \in Int /\ l.aptr % w = 0 /\ IsVaList(v)
      /\ v.anum \in Nat /\ v.ianum \in Nat /\ v.fanum \in Nat /\ l.anum \in Nat
  BY <1>1, ListTypes DEF Ready, Match, Cursor
<1>4. HoldsAt(v.mem, l.aptr, word)
  <2>1. m.aptr \in Int /\ m.aptr % W(a) = 0 /\ Len(word) \in Nat
        /\ l.aptr + Len(word) <= m.aptr
    <3>1. w \in {4, 8} /\ W(a) = w /\ Len(word) = w /\ m.aptr = l.aptr + w
          /\ l.aptr \in Int /\ l.aptr % w = 0
      BY <1>1, <1>2, <1>3
    <3> HIDE DEF w
    <3>2. CASE w = 4
      BY ONLY <3>1, <3>2
    <3>3. CASE w = 8
      BY ONLY <3>1, <3>3
    <3> QED
      BY <3>1, <3>2, <3>3
  <2>2. Unmarked(a, m, l.aptr)
    BY <1>1, <1>2, <1>3, StaysUnmarked DEF Ready
  <2> QED
    BY <1>1, <1>2, <1>3, <2>1, <2>2, SeenOnStack
<1>5. w = AlignUp(n, W(a)) /\ w \div W(a) = 1
  BY <1>1 DEF AlignUp
<1>6. PartAt(word, off, own, n)
  BY <1>2
<1>7. p = l.aptr + off
  BY <1>1, <1>3
<1>8. f = IF a.cpu = "mips" THEN [g EXCEPT !.va.anum = @ + 1] ELSE g
  BY <1>1 DEF VA!va_arg_adjusted, VA!Counted, VA!Arm64, VA!RiscV, VA!SysV, VA!S390,
              HasIargs, Arm64, RiscV, SysV, S390
<1> HIDE DEF w, off, p, f, g
<1>9. VA!Get(v.mem, p, n) = own
  BY <1>1, <1>2, <1>3, <1>4, <1>6, <1>7, GetHeldAt
<1>10. Took(v, g, own, v.aptr + w,
            IF a.cpu \in CountsPlaces THEN v.anum + 1 ELSE v.anum, v.ianum)
  <2>1. Took(v, g, VA!Get(v.mem, p, n), v.aptr + w,
             IF a.cpu \in CountsPlaces THEN v.anum + w \div W(a) ELSE v.anum, v.ianum)
    <3>1. a.cpu = "hppa64" => n <= 8
      BY CpuWords, <1>1
    <3> QED
      BY <1>1, <1>3, <1>5, <3>1, TakesAt DEF p, g
  <2> QED
    BY <1>5, <1>9, <2>1
<1>11. Took(v, f, own, v.aptr + w,
            IF a.cpu \in CountsArguments THEN v.anum + 1 ELSE v.anum, v.ianum)
  BY <1>8, <1>10 DEF Took, Moved, IsVaList, CountsArguments, CountsPlaces, MipsWide
<1>12. Match(a, m, f.va)
  <2>1. m.aptr % W(a) = 0
    BY <1>1, <1>2, <1>3 DEF w
  <2>2. a.cpu \in CountsPlaces => v.anum = l.anum /\ l.aptr = 8 * l.anum /\ w = 8
    BY CpuWords, <1>1 DEF Ready, Match, CountsPlaces, MipsWide, w
  <2>3. a.cpu = "mips" => v.fanum <= v.anum
    BY DEF Ready, Match
  <2>4. a.cpu \in CountsFloats => v.fanum = l.fanum
    BY DEF Ready, Match
  <2>5. Cursor(f.va)
    BY <1>1, <1>3, <1>11 DEF Took, Moved, Cursor
  <2>6. /\ a.cpu \in CountsPlaces => f.va.anum = m.anum /\ m.aptr = 8 * m.anum
        /\ a.cpu = "mips" => f.va.fanum < f.va.anum
    <3>1. CASE a.cpu \in CountsPlaces
      <4>1. a.cpu \in CountsArguments /\ a.cpu # "mips"
        BY <3>1 DEF CountsArguments, CountsPlaces, MipsWide
      <4>2. f.va.anum = l.anum + 1 /\ m.anum = l.anum + 1 /\ m.aptr = 8 * l.anum + 8
        BY <1>2, <1>11, <2>2, <3>1, <4>1 DEF Took
      <4>3. l.anum \in Nat
        BY <1>3
      <4>4. f.va.anum = m.anum /\ m.aptr = 8 * m.anum
        BY ONLY <4>2, <4>3
      <4> QED
        BY <4>1, <4>4
    <3>2. CASE a.cpu = "mips"
      <4>1. f.va.anum = v.anum + 1 /\ f.va.fanum = v.fanum
        BY <1>11, <3>2 DEF Took, CountsArguments
      <4> QED
        BY <1>3, <2>3, <3>2, <4>1 DEF CountsPlaces, MipsWide
    <3> QED
      BY <3>1, <3>2
  <2>7. f.va.aptr = m.aptr /\ (a.cpu \in CountsFloats => f.va.fanum = m.fanum)
    BY <1>2, <1>3, <1>11, <2>4 DEF Took
  <2> QED
    BY <1>1, <1>3, <1>11, <2>1, <2>5, <2>6, <2>7 DEF Match, Took
<1>13. Arrives(a, m, own, v, f)
  BY <1>11, <1>12 DEF Arrives, Took
<1> QED
  BY <1>13 DEF f

Reads(v, f, value, aptr) ==
  /\ DOMAIN f = {"va", "value"} /\ f.value = value /\ Moved(v, f.va)
  /\ f.va.aptr = aptr

(* The counts, as far as the function and the caller both keep them.       *)
Counts(a, m, v) ==
  /\ v.anum \in Nat /\ v.ianum \in Nat /\ v.fanum \in Nat
  /\ a.cpu \in HasIargs \cup {"armhf"} => v.ianum = m.ianum
  /\ a.cpu \in CountsFloats => v.fanum = m.fanum
  /\ a.cpu \in CountsPlaces => v.anum = m.anum /\ m.aptr = 8 * m.anum
  /\ a.cpu = "mips" =>
       /\ v.fanum <= v.anum
       /\ v.anum = v.fanum /\ v.fanum < 2 => m.anum = v.fanum /\ m.fanum = v.fanum

(* Words of hppa64 that are also in a register are not on the stack.       *)
NotMarked(a, l, m) == a.cpu = "hppa64" => m.fmask = l.fmask /\ m.dmask = l.dmask

Whole(a, m) == m.aptr \in Int /\ m.aptr % W(a) = 0

LEMMA StackArrives ==
  ASSUME NEW a, a.cpu \in Cpus, a.cpu \notin RiscV, a.cpu # "hppa",
         NEW l, NEW v, Ready(a, l, v), NEW m, Sees(a, m, v), NotMarked(a, l, m),
         Whole(a, m), NEW at \in Int, a.cpu = "hppa64" => l.aptr <= at,
         NEW bytes, Len(bytes) \in Nat, HoldsAt(m.args, at, bytes),
         at + Len(bytes) <= m.aptr,
         NEW off, NEW own, NEW n, PartAt(bytes, off, own, n),
         NEW p, p = at + off,
         NEW f, Reads(v, f, VA!Get(v.mem, p, n), m.aptr),
         Counts(a, m, f.va)
  PROVE  Arrives(a, m, own, v, f)
<1>1. Unmarked(a, m, at)
  <2>1. CASE a.cpu = "hppa64"
    BY <2>1, StaysUnmarked DEF NotMarked, Ready, Match
  <2> QED
    BY <2>1 DEF Unmarked
<1>2. HoldsAt(v.mem, at, bytes)
  BY <1>1, SeenOnStack DEF Whole
<1>3. VA!Get(v.mem, p, n) = own
  BY <1>2, GetHeldAt
<1>4. DOMAIN f = {"va", "value"} /\ f.value = own /\ Moved(v, f.va) /\ f.va.aptr = m.aptr
  BY <1>3 DEF Reads
<1>5. Match(a, m, f.va)
  BY <1>4 DEF Match, Cursor, Counts, Whole, Moved
<1> QED
  BY <1>4, <1>5 DEF Arrives

(* What a push leaves as it was, but for the array.                        *)
Stays(l, m) ==
  /\ m.anum = l.anum /\ m.ianum = l.ianum /\ m.fanum = l.fanum
  /\ m.fregs = l.fregs /\ m.fmask = l.fmask /\ m.dmask = l.dmask

LEMMA StackedEffect ==
  ASSUME NEW l, IsList(l), NEW next, NEW at \in Int, NEW bytes, Len(bytes) \in Nat,
         NEW r, r = Stacked(l, next, at, bytes)
  PROVE  /\ IsResult(r) /\ r.res = 0 /\ HoldsAt(r.list.args, at, bytes)
         /\ r.list.aptr = next /\ Stays(l, r.list)
BY StackedList, PutHoldsAt DEF Stays

LEMMA SlotEffect ==
  ASSUME NEW l, IsList(l), NEW size, NEW at \in Int, NEW bytes, Len(bytes) \in Nat,
         NEW r, r = Slot(l, size, at, bytes)
  PROVE  /\ IsResult(r) /\ r.res \in {0, -1}
         /\ r.res = 0 => /\ HoldsAt(r.list.args, at, bytes)
                         /\ r.list.aptr = l.aptr + size /\ Stays(l, r.list)
<1> DEFINE next == l.aptr + size
<1>1. CASE r = Fail(l)
  BY <1>1 DEF Fail, IsResult
<1>2. CASE r = Stacked(l, next, at, bytes)
  <2> HIDE DEF next
  <2>1. /\ IsResult(r) /\ r.res = 0 /\ HoldsAt(r.list.args, at, bytes)
        /\ r.list.aptr = next /\ Stays(l, r.list)
    BY <1>2, StackedEffect
  <2> QED
    BY <2>1 DEF next
<1> QED
  BY <1>1, <1>2 DEF Slot

LEMMA EmbedEffect ==
  ASSUME NEW l, IsList(l), NEW end \in Int, NEW bytes, Len(bytes) \in Nat,
         NEW r, r = Embed(l, end, bytes)
  PROVE  /\ IsResult(r) /\ r.res \in {0, -1}
         /\ r.res = 0 => /\ HoldsAt(r.list.args, end - Len(bytes), bytes)
                         /\ r.list.aptr = end /\ Stays(l, r.list)
<1> DEFINE at == end - Len(bytes)
<1>1. CASE r = Fail(l)
  BY <1>1 DEF Fail, IsResult
<1>2. CASE r = Stacked(l, end, at, bytes)
  <2>1. at \in Int
    OBVIOUS
  <2> HIDE DEF at
  <2>2. /\ IsResult(r) /\ r.res = 0 /\ HoldsAt(r.list.args, at, bytes)
        /\ r.list.aptr = end /\ Stays(l, r.list)
    BY <1>2, <2>1, StackedEffect
  <2> QED
    BY <2>2 DEF at
<1> QED
  BY <1>1, <1>2 DEF Embed

(* An argument that is all of what was stored.                             *)
LEMMA WholePart ==
  ASSUME NEW i, NEW n \in Nat, NEW own, own = Own(i, n)
  PROVE  PartAt(own, 0, own, n) /\ Len(own) = n
BY LengthOwn DEF PartAt, Own, Bytes

LEMMA CountedEffect ==
  ASSUME NEW r, IsResult(r), r.res \in {0, -1}, NEW q, q = Counted(r)
  PROVE  /\ IsResult(q) /\ q.res = r.res
         /\ r.res = 0 => /\ q.list.args = r.list.args /\ q.list.aptr = r.list.aptr
                         /\ q.list.anum = r.list.anum + 1
                         /\ q.list.ianum = r.list.ianum /\ q.list.fanum = r.list.fanum
                         /\ q.list.fregs = r.list.fregs /\ q.list.fmask = r.list.fmask
                         /\ q.list.dmask = r.list.dmask
BY DEF Counted, IsResult, IsList

LEMMA IargArrives ==
  ASSUME NEW a, a.cpu \in Cpus, a.cpu \in HasIargs,
         NEW l, NEW v, Ready(a, l, v), NEW m, Sees(a, m, v),
         m.ianum \in Int, m.aptr = l.aptr, NEW at \in Int,
         NEW bytes, Len(bytes) \in Nat, HoldsAt(m.iargs, at, bytes),
         NEW size, size = R(a), at + Len(bytes) <= size * m.ianum,
         NEW off, NEW own, NEW n, PartAt(bytes, off, own, n),
         NEW p, p = at + off,
         NEW f, Reads(v, f, VA!Get(v.iargs, p, n), v.aptr), Counts(a, m, f.va)
  PROVE  Arrives(a, m, own, v, f)
<1>1. HoldsAt(v.iargs, at, bytes)
  BY SeenInIargs
<1>2. VA!Get(v.iargs, p, n) = own
  BY <1>1, GetHeldAt
<1>3. DOMAIN f = {"va", "value"} /\ f.value = own /\ Moved(v, f.va) /\ f.va.aptr = v.aptr
  BY <1>2 DEF Reads
<1>4. a.cpu \notin RiscV
  BY DEF HasIargs, RiscV, Arm64, SysV, S390
<1>5. l.aptr \in Int
  BY ListTypes DEF Ready
<1>6. Match(a, m, f.va)
  BY <1>3, <1>4, <1>5 DEF Match, Cursor, Counts, Ready, Moved
<1> QED
  BY <1>3, <1>6 DEF Arrives

Side(a) == IF a.order = "little" THEN "left" ELSE "right"
Offset(a, w, n) == IF a.order = "little" THEN 0 ELSE w - n

LEMMA IntPushed ==
  ASSUME NEW a, a.cpu \in Cpus, NEW l, RegInv(a, l), NEW i, NEW n \in Nat, 1 <= n,
         n <= W(a) \/ (NextInIarg(a, l) /\ n <= R(a)),
         NEW own, own = Own(i, n), NEW r, r = av_int(a, l, own), r.res = 0
  PROVE  \E word : /\ WordPushed(a, l, r.list, word)
                   /\ Len(word) = IF NextInIarg(a, l) THEN R(a) ELSE W(a)
                   /\ PartAt(word, Offset(a, Len(word), n), own, n)
<1>1. W(a) \in Nat /\ R(a) \in Nat
  BY WordSizes
<1>2. CASE NextInIarg(a, l)
  <2> DEFINE word == Extended(a, own, R(a))
             off == Offset(a, R(a), n)
  <2>1. r = InIarg(a, l, word)
    BY <1>2 DEF av_int, NextInIarg
  <2>2. n <= R(a)
    BY WordSizes
  <2>3. off = IF a.order = "little" THEN 0 ELSE R(a) - n
    BY DEF Offset
  <2> HIDE DEF off
  <2> HIDE DEF word
  <2>4. PartAt(word, off, own, n) /\ Len(word) = R(a)
    BY <1>1, <2>2, <2>3, ExtendedPart DEF word
  <2>5. WordPushed(a, l, r.list, word)
    BY <1>2, <2>1, <2>4, InIargPushed
  <2> QED
    BY <1>2, <2>4, <2>5 DEF off
<1>3. CASE ~NextInIarg(a, l)
  <2> DEFINE word == Extended(a, own, W(a))
             off == Offset(a, W(a), n)
  <2>1. r = av_word(a, l, word)
    BY <1>3 DEF av_int, NextInIarg
  <2>2. n <= W(a)
    BY <1>3
  <2>3. off = IF a.order = "little" THEN 0 ELSE W(a) - n
    BY DEF Offset
  <2> HIDE DEF off, word
  <2>4. PartAt(word, off, own, n) /\ Len(word) = W(a)
    BY <1>1, <2>2, <2>3, ExtendedPart DEF word
  <2>5. WordPushed(a, l, r.list, word)
    BY <1>3, <2>1, <2>4, AvWordPushed
  <2> QED
    BY <1>3, <2>4, <2>5 DEF off
<1> QED
  BY <1>2, <1>3

(* Words in the integer registers.                                         *)
LEMMA WordInIarg ==
  ASSUME NEW a, a \in ABISet, NEW l, NEW v, Ready(a, l, v), NextInIarg(a, l),
         NEW m, NEW word, WordPushed(a, l, m, word), Sees(a, m, v),
         NEW n \in Nat, 1 <= n, n <= R(a), NEW own,
         PartAt(word, Offset(a, R(a), n), own, n)
  PROVE  Arrives(a, m, own, v, VA!va_arg_adjusted(a, v, n))
<1> DEFINE w == R(a)
           off == Offset(a, w, n)
           at == w * l.ianum
           p == at + off
           f == VA!va_arg_adjusted(a, v, n)
<1>1. /\ a.cpu \in Cpus /\ a.cpu \in HasIargs /\ a.order \in {"little", "big"}
      /\ w \in {4, 8} /\ l.ianum < IargNum(a) /\ IargNum(a) \in Nat
  BY Orders, WordSizes DEF NextInIarg
<1>2. /\ HoldsAt(m.iargs, at, word) /\ Len(word) = w /\ m.aptr = l.aptr
      /\ m.ianum = l.ianum + 1 /\ m.fanum = l.fanum /\ m.anum = l.anum
  BY <1>1 DEF WordPushed, WordPlaced, CountsArguments, HasIargs, MipsWide, Arm64, SysV, S390
<1>3. /\ v.ianum = l.ianum /\ l.ianum \in Nat /\ IsVaList(v) /\ Counts(a, l, v)
      /\ v.aptr = l.aptr /\ v.anum \in Nat /\ v.fanum \in Nat
  <2>1. a.cpu \notin RiscV
    BY <1>1 DEF HasIargs, RiscV, Arm64, SysV, S390
  <2> QED
    BY <1>1, <2>1, ListTypes DEF Ready, Match, Cursor, Counts
<1>4. VA!CeilDiv(n, VA!R(a)) = 1 /\ VA!IargNum(a) = IargNum(a) /\ VA!R(a) = w
  BY <1>1, SameSizes DEF VA!CeilDiv, VA!IargNum, IargNum, VA!Arm64, VA!RiscV, VA!SysV, VA!S390,
     Arm64, RiscV, SysV, S390
<1>5. at \in Int /\ at + w <= w * m.ianum /\ off \in Int
      /\ w * (l.ianum + 1) = at + w
  <2>1. off \in Int
    BY <1>1 DEF Offset
  <2>2. l.ianum \in Nat /\ m.ianum = l.ianum + 1 /\ w \in {4, 8} /\ at = w * l.ianum
    BY <1>1, <1>2, <1>3
  <2> HIDE DEF w, off, at
  <2>3. CASE w = 4
    BY ONLY <2>1, <2>2, <2>3
  <2>4. CASE w = 8
    BY ONLY <2>1, <2>2, <2>4
  <2> QED
    BY <2>2, <2>3, <2>4
<1>6. Reads(v, f, VA!Get(v.iargs, p, n), v.aptr) /\ f.va.ianum = v.ianum + 1
      /\ f.va.anum = v.anum /\ f.va.fanum = v.fanum
  <2> DEFINE g == VA!FromIarg([v EXCEPT !.ianum = v.ianum + 1], p, n)
  <2>1. CASE a.cpu \in Arm64 \cup SysV
    <3>1. a.order = "little" /\ off = 0 /\ p = w * v.ianum
      BY <1>3, <1>5, <2>1, Orders DEF Offset
    <3>2. n <= 16
      BY <1>1
    <3>3. a.cpu \in SysV => w = 8
      BY <1>1, CpuWords DEF SysV
    <3> HIDE DEF p
    <3>4. f = g
      BY <1>1, <1>3, <1>4, <2>1, <3>1, <3>2, <3>3
         DEF VA!va_arg_adjusted, VA!Arm64, VA!RiscV, VA!SysV, VA!S390, Arm64, SysV
    <3> HIDE DEF f
    <3> QED
      BY <1>3, <3>4 DEF Reads, Moved, VA!FromIarg, VA!Fetched, IsVaList
  <2>2. CASE a.cpu \in S390
    <3>1. p = w * (v.ianum + 1) - n
      BY <1>1, <1>3, <1>5, <2>2, Orders DEF Offset
    <3> HIDE DEF p
    <3>2. f = g
      BY <1>1, <1>3, <1>4, <2>2, <3>1
         DEF VA!va_arg_adjusted, VA!Arm64, VA!RiscV, VA!SysV, VA!S390, S390
    <3> HIDE DEF f
    <3> QED
      BY <1>3, <3>2 DEF Reads, Moved, VA!FromIarg, VA!Fetched, IsVaList
  <2>3. CASE a.cpu = "powerpc_sysv4"
    <3>1. a.order = "big" /\ W(a) = 4 /\ w = 4 /\ IargNum(a) = 8
      BY <1>1, <2>3, Orders, CpuWords, RegisterCounts
    <3>2. p = 4 * (v.ianum + 1) - n
      BY <1>1, <1>3, <1>5, <3>1 DEF Offset
    <3> HIDE DEF p
    <3>3. VA!VaArgsize(a, n) = 4 /\ VA!W(a) = 4
      BY <3>1, SameSizes DEF VA!VaArgsize, VA!AlignUp
    <3>4. f = VA!va_arg_at(a, v, n, "right")
      BY <2>3, <3>1 DEF VA!va_arg_adjusted, VA!Arm64, VA!RiscV, VA!SysV, VA!S390
    <3>5. f = VA!FromIarg([v EXCEPT !.ianum = v.ianum + 1],
                          4 * (v.ianum + 1) - (IF n < 4 THEN n ELSE 4), n)
      <4> HIDE DEF f
      <4> QED
        BY <1>1, <1>3, <2>3, <3>1, <3>3, <3>4 DEF VA!va_arg_at, VA!MipsWide
    <3> HIDE DEF f
    <3>6. f = g
      BY <3>1, <3>2, <3>5
    <3> QED
      BY <1>3, <3>6 DEF Reads, Moved, VA!FromIarg, VA!Fetched, IsVaList
  <2> QED
    BY <1>1, <2>1, <2>2, <2>3 DEF HasIargs
<1> HIDE DEF f
<1>7. Counts(a, m, f.va)
  BY <1>1, <1>2, <1>3, <1>6
     DEF Counts, HasIargs, CountsPlaces, MipsWide, Arm64, SysV, S390
<1>8. at + Len(word) <= w * m.ianum /\ m.ianum \in Int /\ Len(word) \in Nat
      /\ p = at + off /\ PartAt(word, off, own, n)
  BY <1>1, <1>2, <1>3, <1>5
<1> HIDE DEF w, off, at, p
<1>9. Arrives(a, m, own, v, f)
  BY <1>1, <1>2, <1>5, <1>6, <1>7, <1>8, IargArrives DEF w
<1> QED
  BY <1>9 DEF f

(* Words on the stack, where the others are in integer registers.          *)
LEMMA PlainTaken ==
  ASSUME NEW a, a.cpu \in Cpus, NEW v, IsVaList(v), NEW n \in Nat, NEW side,
         v.ianum \in Nat,
         \/ a.cpu = "powerpc_sysv4" /\ v.ianum + AlignUp(n, 4) \div 4 > 8
         \/ a.cpu = "armhf" /\ v.ianum + AlignUp(n, 4) \div 4 > 4,
         NEW size, size = AlignUp(n, 4),
         NEW start, start = IF a.cpu = "armhf" /\ v.aptr = 16 THEN 4 * v.ianum ELSE v.aptr,
         NEW p, p = IF side = "right" /\ n < 4 THEN start + size - n
                    ELSE start + size - size,
         NEW f, f = VA!va_arg_at(a, v, n, side)
  PROVE  /\ Reads(v, f, VA!Get(v.mem, p, n), start + size)
         /\ f.va.ianum = IF a.cpu = "armhf" THEN 4 ELSE v.ianum
         /\ f.va.anum = v.anum /\ f.va.fanum = v.fanum
<1>1. W(a) = 4 /\ VA!W(a) = 4 /\ VA!VaArgsize(a, n) = size
  BY CpuWords, SameSizes DEF VA!VaArgsize, VA!AlignUp, AlignUp
<1> DEFINE plain == [va |-> [v EXCEPT !.aptr = start + size],
                     value |-> VA!Get(v.mem, p, n)]
<1>2. plain = VA!FromMem([v EXCEPT !.aptr = start + size], p, n)
  BY DEF VA!FromMem, VA!Fetched, IsVaList
<1>3. f = IF a.cpu = "armhf" THEN [plain EXCEPT !.va.ianum = 4] ELSE plain
  <2>1. size = AlignUp(n, 4) /\ size \div 4 = AlignUp(n, 4) \div 4
    OBVIOUS
  <2> DEFINE words == size \div 4
  <2> HIDE DEF plain, words
  <2>2. CASE a.cpu = "armhf"
    <3>1. v.ianum + words > 4
      BY <2>1, <2>2 DEF words
    <3>2. ~(v.ianum + words <= 4)
      BY <2>2, <3>1 DEF words, AlignUp
    <3> QED
      BY <1>1, <1>2, <2>2, <3>1, <3>2 DEF VA!va_arg_at, VA!MipsWide, words
  <2>3. CASE a.cpu = "powerpc_sysv4"
    <3>1. v.ianum + words > 8
      BY <2>1, <2>3 DEF words
    <3>2. ~(v.ianum + words <= 8)
      BY <2>3, <3>1 DEF words, AlignUp
    <3> QED
      BY <1>1, <1>2, <2>3, <3>1, <3>2 DEF VA!va_arg_at, VA!MipsWide, words
  <2> QED
    BY <2>2, <2>3
<1>4. /\ DOMAIN plain = {"va", "value"} /\ plain.value = VA!Get(v.mem, p, n)
      /\ IsVaList(plain.va) /\ plain.va.aptr = start + size
      /\ plain.va.mem = v.mem /\ plain.va.iargs = v.iargs /\ plain.va.fregs = v.fregs
      /\ plain.va.callers = v.callers /\ plain.va.memargptr = v.memargptr
      /\ plain.va.anum = v.anum /\ plain.va.ianum = v.ianum
      /\ plain.va.fanum = v.fanum
  BY DEF IsVaList
<1> HIDE DEF plain
<1> QED
  BY <1>3, <1>4 DEF Reads, Moved, IsVaList

LEMMA WordBehindIargs ==
  ASSUME NEW a, a \in ABISet, a.cpu \in HasIargs \cup {"armhf"},
         NEW l, NEW v, Ready(a, l, v), ~NextInIarg(a, l),
         a.cpu = "armhf" => ~(l.ianum < 4),
         NEW m, NEW word, WordPushed(a, l, m, word), Sees(a, m, v),
         NEW n \in Nat, 1 <= n, n <= W(a), NEW own,
         PartAt(word, Offset(a, W(a), n), own, n)
  PROVE  Arrives(a, m, own, v, VA!va_arg_adjusted(a, v, n))
<1> DEFINE w == W(a)
           off == Offset(a, w, n)
           p == v.aptr + off
           f == VA!va_arg_adjusted(a, v, n)
<1>1. /\ a.cpu \in Cpus /\ a.order \in {"little", "big"}
      /\ w \in {4, 8} /\ IargNum(a) \in Nat
      /\ a.cpu \notin RiscV /\ a.cpu \notin {"hppa", "hppa64"}
  BY Orders, WordSizes DEF HasIargs, RiscV, Arm64, SysV, S390
<1>2. /\ HoldsAt(m.args, l.aptr, word) /\ Len(word) = w /\ m.aptr = l.aptr + w
      /\ m.ianum = l.ianum /\ m.fanum = l.fanum
  BY <1>1 DEF WordPushed, WordPlaced
<1>3. /\ v.ianum = l.ianum /\ v.ianum = IargNum(a) /\ IsVaList(v)
      /\ a.cpu \in CountsFloats /\ v.fanum = l.fanum
      /\ v.aptr = l.aptr /\ v.anum \in Nat /\ v.fanum \in Nat /\ v.ianum \in Nat
      /\ l.aptr \in Int /\ l.aptr % w = 0
  <2>1. l.ianum \in 0..IargNum(a) /\ ~(l.ianum < IargNum(a))
    BY <1>1, RegisterCounts DEF Ready, RegInv, Registers, NextInIarg
  <2>2. a.cpu \in CountsFloats
    BY DEF HasIargs, CountsFloats, FloatsFillRegisters
  <2> QED
    BY <1>1, <2>1, <2>2, ListTypes DEF Ready, Match, Cursor
<1>4. AlignUp(n, w) = w /\ (w = 4 => AlignUp(n, 4) = 4 /\ AlignUp(n, 4) \div 4 = 1)
  BY <1>1 DEF AlignUp
<1>5. off = IF a.order = "little" THEN 0 ELSE w - n
  BY DEF Offset
<1>6. /\ Reads(v, f, VA!Get(v.mem, p, n), v.aptr + w)
      /\ f.va.ianum = v.ianum /\ f.va.anum = v.anum /\ f.va.fanum = v.fanum
  <2>1. CASE a.cpu \in {"armhf", "powerpc_sysv4"}
    <3> DEFINE side == IF a.order = "little" THEN "left" ELSE "right"
               start == IF a.cpu = "armhf" /\ v.aptr = 16 THEN 4 * v.ianum ELSE v.aptr
    <3>1. w = 4 /\ IargNum(a) = IF a.cpu = "armhf" THEN 4 ELSE 8
      BY <1>1, <2>1, RegisterCounts
    <3>2. start = v.aptr
      BY <1>3, <3>1
    <3>3. f = VA!va_arg_at(a, v, n, side)
      BY <2>1 DEF VA!va_arg_adjusted, VA!Arm64, VA!RiscV, VA!SysV, VA!S390
    <3> DEFINE size == AlignUp(n, 4)
    <3>4. size = 4 /\ size \div 4 = 1
      BY <1>4, <3>1
    <3>5. p = IF side = "right" /\ n < 4 THEN start + size - n ELSE start + size - size
      BY <1>1, <1>3, <1>5, <3>1, <3>2, <3>4
    <3>6. \/ a.cpu = "powerpc_sysv4" /\ v.ianum + size \div 4 > 8
          \/ a.cpu = "armhf" /\ v.ianum + size \div 4 > 4
      BY <1>3, <2>1, <3>1, <3>4
    <3> HIDE DEF f, side, p
    <3>7. /\ Reads(v, f, VA!Get(v.mem, p, n), start + size)
          /\ f.va.ianum = IF a.cpu = "armhf" THEN 4 ELSE v.ianum
          /\ f.va.anum = v.anum /\ f.va.fanum = v.fanum
      <4> HIDE DEF start
      <4>1. start = IF a.cpu = "armhf" /\ v.aptr = 16 THEN 4 * v.ianum ELSE v.aptr
        BY DEF start
      <4> QED
        BY <1>1, <1>3, <3>3, <3>5, <3>6, <4>1, PlainTaken
    <3> QED
      BY <1>3, <3>1, <3>2, <3>4, <3>7
  <2>2. CASE a.cpu \notin {"armhf", "powerpc_sysv4"}
    <3> DEFINE full == [v EXCEPT !.ianum = IargNum(a)]
               side == IF a.cpu \in S390 THEN "right" ELSE "left"
    <3>1. /\ IsVaList(full) /\ full.aptr = v.aptr /\ full.anum = v.anum
          /\ full.ianum = v.ianum /\ full.fanum = v.fanum /\ Moved(v, full)
          /\ full.mem = v.mem
      BY <1>3 DEF IsVaList, Moved
    <3>2. /\ VA!CeilDiv(n, VA!R(a)) = 1 /\ VA!IargNum(a) = IargNum(a)
      <4>1. R(a) \in {4, 8} /\ w <= R(a)
        BY <1>1, WordSizes
      <4> QED
        BY <1>1, <4>1, SameSizes DEF VA!CeilDiv, VA!IargNum, IargNum, VA!Arm64, VA!RiscV, VA!SysV,
           VA!S390, Arm64, RiscV, SysV, S390
    <3>3. \E x \in {v, full} : f = VA!va_arg_at(a, x, n, side)
      <4>1. CASE a.cpu \in Arm64
        BY <1>3, <3>2, <4>1 DEF VA!va_arg_adjusted, VA!Arm64, VA!RiscV, VA!SysV, VA!S390, Arm64, S390
      <4>2. CASE a.cpu \in SysV
        BY <1>3, <3>2, <4>2 DEF VA!va_arg_adjusted, VA!Arm64, VA!RiscV, VA!SysV, VA!S390, SysV, S390
      <4>3. CASE a.cpu \in S390
        BY <1>3, <3>2, <4>3 DEF VA!va_arg_adjusted, VA!Arm64, VA!RiscV, VA!SysV, VA!S390, S390
      <4> QED
        BY <2>2, <4>1, <4>2, <4>3 DEF HasIargs
    <3> HIDE DEF full
    <3>4. PICK x \in {v, full} : f = VA!va_arg_at(a, x, n, side)
      BY <3>3
    <3>5. /\ IsVaList(x) /\ x.aptr = v.aptr /\ x.anum = v.anum
          /\ x.ianum = v.ianum /\ x.fanum = v.fanum /\ Moved(v, x) /\ x.mem = v.mem
      BY <1>3, <3>1 DEF Moved
    <3> DEFINE size == AlignUp(n, W(a))
    <3>6. size = w
      BY <1>4
    <3>7. p = IF side = "right" /\ n < W(a) THEN x.aptr + size - n ELSE x.aptr + size - size
      <4>1. a.order = IF a.cpu \in S390 THEN "big" ELSE "little"
        BY <1>1, <2>2, Orders DEF HasIargs, Arm64, SysV, S390
      <4>2. CASE a.cpu \in S390
        BY <1>1, <1>3, <1>5, <3>5, <3>6, <4>1, <4>2
      <4>3. CASE a.cpu \notin S390
        BY <1>1, <1>3, <1>5, <3>5, <3>6, <4>1, <4>3
      <4> QED
        BY <4>2, <4>3
    <3> HIDE DEF side, p, f, size
    <3>8. Took(x, f, VA!Get(x.mem, p, n), x.aptr + size,
               IF a.cpu \in CountsPlaces THEN x.anum + size \div W(a) ELSE x.anum,
               x.ianum)
      BY <1>1, <2>2, <3>4, <3>5, <3>7, TakesAt DEF size
    <3>9. a.cpu \notin CountsPlaces
      BY <2>2 DEF CountsPlaces, MipsWide, HasIargs, Arm64, SysV, S390
    <3> QED
      BY <3>5, <3>6, <3>8, <3>9 DEF Took, Reads, Moved
  <2> QED
    BY <2>1, <2>2
<1> HIDE DEF f, p
<1>7. Counts(a, m, f.va)
  BY <1>1, <1>2, <1>3, <1>6
     DEF Counts, HasIargs, CountsPlaces, MipsWide, Arm64, SysV, S390
<1>8. /\ Whole(a, m) /\ l.aptr + Len(word) <= m.aptr /\ NotMarked(a, l, m)
      /\ p = l.aptr + off /\ Len(word) \in Nat /\ PartAt(word, off, own, n)
      /\ Reads(v, f, VA!Get(v.mem, p, n), m.aptr)
  <2>1. /\ w \in {4, 8} /\ W(a) = w /\ l.aptr \in Int /\ l.aptr % w = 0
        /\ v.aptr = l.aptr /\ m.aptr = l.aptr + w /\ Len(word) = w
    BY <1>1, <1>2, <1>3
  <2>2. p = l.aptr + off
    BY <2>1 DEF p
  <2>3. Reads(v, f, VA!Get(v.mem, p, n), m.aptr)
    BY <1>6, <2>1
  <2>4. NotMarked(a, l, m)
    BY <1>1 DEF NotMarked
  <2>5. PartAt(word, off, own, n)
    OBVIOUS
  <2> HIDE DEF w, off
  <2>6. m.aptr \in Int /\ m.aptr % w = 0
    <3>1. CASE w = 4
      BY ONLY <2>1, <3>1
    <3>2. CASE w = 8
      BY ONLY <2>1, <3>2
    <3> QED
      BY <2>1, <3>1, <3>2
  <2>7. Whole(a, m)
    BY <2>1, <2>6 DEF Whole
  <2> QED
    BY <2>1, <2>2, <2>3, <2>4, <2>5, <2>7
<1> HIDE DEF off, w
<1>9. Arrives(a, m, own, v, f)
  BY <1>1, <1>2, <1>3, <1>7, <1>8, StackArrives
<1> QED
  BY <1>9 DEF f

LEMMA HppaArrives ==
  ASSUME NEW a, a.cpu = "hppa", NEW l, NEW v, Ready(a, l, v), NEW m, Sees(a, m, v),
         Whole(a, m), NEW at \in Int, m.aptr <= at,
         NEW bytes, Len(bytes) \in Nat, HoldsAt(m.args, at, bytes),
         NEW off, NEW own, NEW n, PartAt(bytes, off, own, n),
         NEW p, p = at + off,
         NEW f, Reads(v, f, VA!Get(v.mem, p, n), m.aptr), Counts(a, m, f.va)
  PROVE  Arrives(a, m, own, v, f)
<1>1. HoldsAt(v.mem, at, bytes)
  BY SeenOnHppa DEF Whole
<1>2. VA!Get(v.mem, p, n) = own
  BY <1>1, GetHeldAt
<1>3. DOMAIN f = {"va", "value"} /\ f.value = own /\ Moved(v, f.va) /\ f.va.aptr = m.aptr
  BY <1>2 DEF Reads
<1>4. a.cpu \notin RiscV
  BY DEF RiscV
<1>5. Match(a, m, f.va)
  BY <1>3, <1>4 DEF Match, Cursor, Counts, Whole, Moved
<1> QED
  BY <1>3, <1>5 DEF Arrives

LEMMA CoreTaken ==
  ASSUME NEW a, a.cpu = "armhf", NEW v, v.ianum \in Nat, NEW n \in Nat, NEW side,
         NEW size, size = AlignUp(n, 4), NEW words, words = size \div 4,
         v.ianum + words <= 4, NEW back, back = IF side = "right" /\ n < 4 THEN n ELSE size
  PROVE  VA!va_arg_at(a, v, n, side)
           = VA!FromMem([v EXCEPT !.ianum = v.ianum + words],
                        4 * (v.ianum + words) - back, n)
<1>1. VA!VaArgsize(a, n) = size /\ VA!W(a) = 4
  <2>1. VA!W(a) = 4
    BY DEF VA!W, VA!Cpus32
  <2> QED
    BY <2>1 DEF VA!VaArgsize, VA!AlignUp, AlignUp
<1>2. words \in Int /\ ~(v.ianum + words > 4)
  BY DEF AlignUp
<1> QED
  BY <1>1, <1>2 DEF VA!va_arg_at, VA!MipsWide

LEMMA WordInCoreRegister ==
  ASSUME NEW a, a \in ABISet, a.cpu = "armhf",
         NEW l, NEW v, Ready(a, l, v), l.ianum < 4,
         NEW m, NEW word, WordPushed(a, l, m, word), Sees(a, m, v),
         NEW n \in Nat, 1 <= n, n <= 4, NEW own,
         PartAt(word, Offset(a, 4, n), own, n)
  PROVE  Arrives(a, m, own, v, VA!va_arg_adjusted(a, v, n))
<1> DEFINE off == Offset(a, 4, n)
           at == 4 * l.ianum
           p == at + off
           f == VA!va_arg_adjusted(a, v, n)
           back == IF a.order # "little" /\ n < 4 THEN n ELSE 4
           q == 4 * (v.ianum + 1) - back
           g == VA!FromMem([v EXCEPT !.ianum = v.ianum + 1], q, n)
<1>1. /\ a.cpu \in Cpus /\ a.order \in {"little", "big"}
      /\ W(a) = 4 /\ IargNum(a) = 4 /\ a.cpu \notin RiscV
  BY Orders, RegisterCounts DEF RiscV
<1>2. /\ HoldsAt(m.args, at, word) /\ Len(word) = 4 /\ m.aptr = l.aptr
      /\ m.ianum = l.ianum + 1 /\ m.fanum = l.fanum
  BY <1>1 DEF WordPushed, WordPlaced, NextInIarg, HasIargs, Arm64, SysV, S390
<1>3. /\ v.ianum = l.ianum /\ l.ianum \in 0..3 /\ IsVaList(v) /\ v.fanum = l.fanum
      /\ v.aptr = l.aptr /\ v.anum \in Nat /\ v.fanum \in Nat /\ l.aptr \in Int
      /\ l.aptr >= 16 /\ l.aptr % 4 = 0
  BY <1>1, ListTypes DEF Ready, Match, Cursor, CountsFloats
<1>4. p = q /\ at \in Int /\ off \in Int
  <2>1. q = 4 * (l.ianum + 1) - back /\ l.ianum \in Int
    BY <1>3
  <2>2. off = 4 - back /\ back \in Int
    BY <1>1 DEF Offset
  <2> HIDE DEF off, q, back
  <2> QED
    BY <2>1, <2>2
<1>5. VA!VaArgsize(a, n) = 4 /\ VA!W(a) = 4
  BY <1>1, SameSizes DEF VA!VaArgsize, VA!AlignUp
<1> HIDE DEF q, p
<1>6. f = g
  <2>1. f = VA!va_arg_at(a, v, n, IF a.order = "little" THEN "left" ELSE "right")
    BY DEF VA!va_arg_adjusted, VA!Arm64, VA!RiscV, VA!SysV, VA!S390
  <2> DEFINE side == IF a.order = "little" THEN "left" ELSE "right"
             size == AlignUp(n, 4)
             words == size \div 4
  <2>2. size = 4 /\ words = 1 /\ v.ianum + 1 <= 4 /\ v.ianum \in Nat
    BY <1>3 DEF AlignUp
  <2>3. back = IF side = "right" /\ n < 4 THEN n ELSE size
    BY <2>2
  <2> HIDE DEF f, back, side, words, size
  <2>4. f = VA!FromMem([v EXCEPT !.ianum = v.ianum + words], 4 * (v.ianum + words) - back, n)
    BY <2>1, <2>2, <2>3, CoreTaken DEF side, words, size
  <2> QED
    BY <2>2, <2>4 DEF q
<1> HIDE DEF f
<1>7. Reads(v, f, VA!Get(v.mem, p, n), v.aptr) /\ f.va.ianum = v.ianum + 1
      /\ f.va.anum = v.anum /\ f.va.fanum = v.fanum
  BY <1>3, <1>4, <1>6 DEF Reads, Moved, VA!FromMem, VA!Fetched, IsVaList
<1>8. Counts(a, m, f.va)
  BY <1>1, <1>2, <1>3, <1>7 DEF Counts, CountsPlaces, MipsWide
<1>9. /\ Whole(a, m) /\ at + Len(word) <= m.aptr /\ NotMarked(a, l, m)
      /\ p = at + off /\ Len(word) \in Nat /\ PartAt(word, off, own, n)
      /\ Reads(v, f, VA!Get(v.mem, p, n), m.aptr)
  BY <1>1, <1>2, <1>3, <1>7 DEF Whole, NotMarked, p
<1> HIDE DEF off, at
<1>10. Arrives(a, m, own, v, f)
  BY <1>1, <1>2, <1>4, <1>8, <1>9, StackArrives
<1> QED
  BY <1>10 DEF f

LEMMA WordDown ==
  ASSUME NEW a, a \in ABISet, a.cpu = "hppa",
         NEW l, NEW v, Ready(a, l, v),
         NEW m, NEW word, WordPushed(a, l, m, word), Sees(a, m, v),
         NEW n \in Nat, 1 <= n, n <= 4, NEW own,
         PartAt(word, Offset(a, 4, n), own, n)
  PROVE  Arrives(a, m, own, v, VA!va_arg_adjusted(a, v, n))
<1> DEFINE off == Offset(a, 4, n)
           down == v.aptr - 4
           at == l.aptr - 4
           p == at + off
           f == VA!va_arg_adjusted(a, v, n)
           g == VA!FromMem([v EXCEPT !.aptr = down], down + ((-n) % 4), n)
<1>1. /\ a.cpu \in Cpus /\ a.order = "big" /\ W(a) = 4
  BY Orders, CpuWords
<1>2. HoldsAt(m.args, at, word) /\ Len(word) = 4 /\ m.aptr = at
  BY <1>1 DEF WordPushed, WordPlaced, NextInIarg, HasIargs, Arm64, SysV, S390
<1>3. /\ v.aptr = l.aptr /\ v.anum \in Nat /\ v.fanum \in Nat /\ l.aptr \in Int
      /\ l.aptr % 4 = 0 /\ v.ianum \in Nat /\ IsVaList(v)
  BY <1>1, ListTypes DEF Ready, Match, Cursor, RiscV
<1>4. VA!VaArgsize(a, n) = 4 /\ VA!W(a) = 4
  BY <1>1, SameSizes DEF VA!VaArgsize, VA!AlignUp
<1>5. off = 4 - n /\ down = at /\ at \in Int /\ at % 4 = 0
      /\ off = (-n) % 4
  BY <1>1, <1>3 DEF Offset
<1>6. f = g
  <2>1. f = VA!va_arg_at(a, v, n, "right")
    BY <1>1 DEF VA!va_arg_adjusted, VA!Arm64, VA!RiscV, VA!SysV, VA!S390
  <2>2. ~(n > 4)
    OBVIOUS
  <2> HIDE DEF f
  <2> QED
    BY <1>1, <1>4, <2>1, <2>2 DEF VA!va_arg_at, VA!MipsWide
<1>7. p = down + ((-n) % 4)
  BY <1>5
<1> HIDE DEF f, p, down
<1>8. /\ Reads(v, f, VA!Get(v.mem, p, n), at)
      /\ f.va.anum = v.anum /\ f.va.fanum = v.fanum /\ f.va.ianum = v.ianum
  BY <1>3, <1>5, <1>6, <1>7 DEF Reads, Moved, VA!FromMem, VA!Fetched, IsVaList
<1>9. Counts(a, m, f.va)
  BY <1>1, <1>3, <1>8 DEF Counts, CountsPlaces, CountsFloats, MipsWide, HasIargs,
     Arm64, SysV, S390, FloatsFillRegisters, RiscV, PPC64
<1>10. /\ Whole(a, m) /\ m.aptr <= at
       /\ p = at + off /\ Len(word) \in Nat /\ PartAt(word, off, own, n)
       /\ Reads(v, f, VA!Get(v.mem, p, n), m.aptr)
  BY <1>1, <1>2, <1>5, <1>8 DEF Whole, p
<1> HIDE DEF off, at
<1>11. Arrives(a, m, own, v, f)
  BY <1>1, <1>2, <1>5, <1>9, <1>10, HppaArrives
<1> QED
  BY <1>11 DEF f

LEMMA IntArrives ==
  ASSUME NEW a, a \in ABISet, a.cpu \notin RiscV, NEW l, NEW v, Ready(a, l, v),
         NEW i, NEW n \in Nat, 1 <= n,
         n <= W(a) \/ (NextInIarg(a, l) /\ n <= R(a)),
         NEW own, own = Own(i, n), NEW r, r = av_int(a, l, own), r.res = 0,
         NEW m, m = r.list, Sees(a, m, v)
  PROVE  Arrives(a, m, own, v, VA!va_arg_adjusted(a, v, n))
<1>1. a.cpu \in Cpus /\ RegInv(a, l)
  BY Orders DEF Ready
<1>2. PICK word : /\ WordPushed(a, l, m, word)
                  /\ Len(word) = IF NextInIarg(a, l) THEN R(a) ELSE W(a)
                  /\ PartAt(word, Offset(a, Len(word), n), own, n)
  BY <1>1, IntPushed
<1>3. CASE NextInIarg(a, l)
  BY <1>2, <1>3, WordInIarg, WordSizes, <1>1
<1>4. CASE ~NextInIarg(a, l)
  <2>1. Len(word) = W(a) /\ n <= W(a) /\ PartAt(word, Offset(a, W(a), n), own, n)
    BY <1>2, <1>4
  <2>2. CASE a.cpu = "armhf" /\ l.ianum < 4
    <3>1. W(a) = 4
      BY <1>1, <2>2, CpuWords
    <3>2. PartAt(word, Offset(a, 4, n), own, n) /\ n <= 4
      BY <2>1, <3>1
    <3> QED
      BY <1>2, <2>2, <3>2, WordInCoreRegister
  <2>3. CASE a.cpu = "hppa"
    <3>1. W(a) = 4
      BY <1>1, <2>3, CpuWords
    <3>2. PartAt(word, Offset(a, 4, n), own, n) /\ n <= 4
      BY <2>1, <3>1
    <3> QED
      BY <1>2, <2>3, <3>2, WordDown
  <2>4. CASE a.cpu \in HasIargs \cup {"armhf"} /\ ~(a.cpu = "armhf" /\ l.ianum < 4)
    BY <1>2, <1>4, <2>1, <2>4, WordBehindIargs
  <2>5. CASE a.cpu \in OneWordCpus
    BY <1>2, <2>1, <2>5, WordOnStack DEF Offset
  <2> QED
    BY <1>1, <2>2, <2>3, <2>4, <2>5
       DEF Cpus, Cpus32, LongIs64, OneWordCpus, HasIargs, PPC64, CountsPlaces, MipsWide,
           Arm64, SysV, S390, RiscV
<1> QED
  BY <1>3, <1>4

-----------------------------------------------------------------------------
(* CPUs whose va_arg macros keep no count of anything.                      *)
PlainCpus == {"i386", "m68k", "sparc", "alpha", "arm", "powerpc_aix", "ia64"} \cup PPC64

SameCounts(v, w) == w.anum = v.anum /\ w.ianum = v.ianum /\ w.fanum = v.fanum

LEMMA KeepsCounts ==
  ASSUME NEW a, NEW l, NEW v, Ready(a, l, v), NEW m, Stays(l, m),
         a.cpu \notin CountsPlaces \cup {"mips"}, NEW w, SameCounts(v, w)
  PROVE  Counts(a, m, w)
BY DEF Ready, Match, Cursor, Stays, SameCounts, Counts

LEMMA AdjustedTook ==
  ASSUME NEW a, a \in ABISet, a.cpu \in PlainCpus, NEW v, IsVaList(v), NEW n \in Nat,
         NEW size, size = AlignUp(n, W(a)),
         NEW p, p = IF a.order = "big" /\ n < W(a) THEN v.aptr + size - n
                    ELSE v.aptr + size - size
  PROVE  Took(v, VA!va_arg_adjusted(a, v, n), VA!Get(v.mem, p, n), v.aptr + size,
              v.anum, v.ianum)
<1> DEFINE side == IF a.order = "little" THEN "left" ELSE "right"
           f == VA!va_arg_at(a, v, n, side)
<1>1. /\ a.cpu \in Cpus /\ a.order \in {"little", "big"}
      /\ a.cpu \notin {"hppa", "armhf", "powerpc_sysv4", "hppa64", "mips"}
      /\ a.cpu \notin CountsPlaces \cup Arm64 \cup RiscV \cup SysV \cup S390
  BY Orders DEF PlainCpus, PPC64, CountsPlaces, MipsWide, Arm64, RiscV, SysV, S390
<1>2. VA!va_arg_adjusted(a, v, n) = f
  BY <1>1 DEF VA!va_arg_adjusted, VA!Arm64, VA!RiscV, VA!SysV, VA!S390, Arm64, RiscV, SysV, S390
<1>3. p = IF side = "right" /\ n < W(a) THEN v.aptr + size - n ELSE v.aptr + size - size
  BY <1>1
<1> HIDE DEF side
<1>4. Took(v, f, VA!Get(v.mem, p, n), v.aptr + size,
           IF a.cpu \in CountsPlaces THEN v.anum + size \div W(a) ELSE v.anum, v.ianum)
  BY <1>1, <1>3, TakesAt
<1> HIDE DEF f
<1> QED
  BY <1>1, <1>2, <1>4

(* Eight bytes where words have four.                                      *)
PairCpus == {"i386", "m68k", "sparc", "powerpc_aix", "arm"}
PairAt(a, x) == IF a.cpu = "arm" THEN AlignUp(x, 8) ELSE x

PairRead(a, v, f) ==
  /\ Reads(v, f, VA!Get(v.mem, PairAt(a, v.aptr), 8), PairAt(a, v.aptr) + 8)
  /\ SameCounts(v, f.va)

LEMMA OwnPart ==
  ASSUME NEW i, NEW n \in Nat, NEW own, own = Own(i, n), NEW off, off = 0
  PROVE  PartAt(own, off, own, n) /\ Len(own) = n /\ i = i
BY WholePart

LEMMA PairArrives ==
  ASSUME NEW a, a.cpu \in PairCpus, NEW l, NEW v, Ready(a, l, v),
         NEW i, NEW own, own = Own(i, 8), NEW r, r = Embed(l, PairAt(a, l.aptr + 8), own),
         r.res = 0, NEW m, m = r.list, Sees(a, m, v), NEW f, PairRead(a, v, f)
  PROVE  Arrives(a, m, own, v, f)
<1> DEFINE end == PairAt(a, l.aptr + 8)
           n == 8
           off == 0
           len == Len(own)
           at == end - len
<1>1. /\ a.cpu \in Cpus /\ a.cpu \notin RiscV \cup CountsPlaces
      /\ a.cpu \notin {"hppa", "hppa64", "mips"} /\ W(a) = 4
  <2>1. a.cpu \in Cpus
    BY DEF PairCpus, Cpus, Cpus32
  <2> QED
    BY <2>1, CpuWords DEF PairCpus, RiscV, CountsPlaces, MipsWide
<1>2. /\ IsList(l) /\ l.aptr \in Int /\ l.aptr % 4 = 0 /\ v.aptr = l.aptr
  BY <1>1, ListTypes DEF Ready, Match, RegInv
<1>3. len = 8 /\ PartAt(own, off, own, n)
  <2>1. n \in Nat /\ own = Own(i, n) /\ n = 8 /\ off = 0
    OBVIOUS
  <2> HIDE DEF n, off
  <2>2. PartAt(own, off, own, n)
    BY ONLY <2>1, OwnPart
  <2>3. Len(own) = n
    BY ONLY <2>1, OwnPart
  <2> QED
    BY <2>1, <2>2, <2>3
<1>4. end \in Int /\ end % 4 = 0 /\ end = PairAt(a, v.aptr) + 8
  BY <1>2 DEF PairAt, AlignUp
<1> HIDE DEF end
<1>5. HoldsAt(m.args, at, own) /\ m.aptr = end /\ Stays(l, m)
  BY <1>2, <1>3, <1>4, EmbedEffect DEF end
<1> HIDE DEF len
<1>6. at \in Int /\ at + len <= m.aptr /\ at = PairAt(a, v.aptr)
  <2> DEFINE x == PairAt(a, v.aptr)
  <2>1. x \in Int
    BY <1>2 DEF PairAt, AlignUp
  <2>2. end \in Int /\ end = x + 8 /\ m.aptr = end
    BY <1>4, <1>5
  <2> HIDE DEF x
  <2>3. at = x /\ at \in Int /\ at + len <= m.aptr
    BY <1>3, <2>1, <2>2
  <2> QED
    BY <2>3 DEF x
<1> HIDE DEF at
<1> DEFINE p == at + off
<1>7. Reads(v, f, VA!Get(v.mem, p, n), m.aptr)
  <2>1. p = at
    BY <1>6
  <2> HIDE DEF p
  <2> QED
    BY <1>4, <1>5, <1>6, <2>1 DEF PairRead
<1> HIDE DEF p
<1>8. Counts(a, m, f.va)
  BY <1>1, <1>5, KeepsCounts DEF PairRead
<1>9. Whole(a, m) /\ NotMarked(a, l, m) /\ Len(own) \in Nat /\ p = at + off
      /\ at + Len(own) <= m.aptr
  BY <1>1, <1>3, <1>4, <1>5, <1>6 DEF Whole, NotMarked, p, len
<1> HIDE DEF off, n
<1> QED
  BY <1>1, <1>3, <1>5, <1>6, <1>7, <1>8, <1>9, StackArrives

(* va_arg_longlong, and va_arg_double.                                     *)
LEMMA PairTaken ==
  ASSUME NEW a, a \in ABISet, a.cpu \in PairCpus, NEW v, IsVaList(v), v.aptr \in Int
  PROVE  /\ PairRead(a, v, VA!va_arg_longlong(a, v))
         /\ a.cpu # "powerpc_aix" => PairRead(a, v, VA!va_arg_double(a, v))
<1> DEFINE x == PairAt(a, v.aptr)
           v0 == IF a.cpu = "arm" THEN [v EXCEPT !.aptr = x] ELSE v
           f == VA!va_arg_adjusted(a, v0, 8)
           g == VA!FromMem([v EXCEPT !.aptr = v.aptr + 8], v.aptr, 8)
<1>1. x \in Int /\ W(a) = 4
  <2>1. W(a) = 4
    BY DEF PairCpus, W, Cpus32
  <2> QED
    BY <2>1 DEF PairAt, AlignUp
<1>2. /\ IsVaList(v0) /\ v0.aptr = x /\ SameCounts(v, v0) /\ Moved(v, v0) /\ v0.mem = v.mem
  BY DEF IsVaList, SameCounts, Moved, PairAt
<1>3. CASE a.cpu = "sparc"
  <2>1. PairRead(a, v, g)
    BY <1>1, <1>3 DEF PairRead, PairAt, Reads, Moved, SameCounts, IsVaList, VA!FromMem, VA!Fetched
  <2>2. VA!va_arg_longlong(a, v) = g
    BY <1>3 DEF VA!va_arg_longlong
  <2>3. VA!va_arg_double(a, v) = g
    BY <1>3 DEF VA!va_arg_double, VA!AlignDouble, VA!MipsWide, VA!Arm64, VA!SysV, VA!S390,
                VA!PPC64, VA!RiscV
  <2> HIDE DEF g
  <2> QED
    BY <2>1, <2>2, <2>3
<1>4. CASE a.cpu # "sparc"
  <2> DEFINE n == 8
             size == AlignUp(n, W(a))
             p == v0.aptr + size - size
  <2>1. size = 8 /\ p = x /\ ~(n < W(a))
    BY <1>1, <1>2 DEF AlignUp
  <2>2. a.cpu \in PlainCpus
    BY DEF PlainCpus, PairCpus
  <2> HIDE DEF v0, f, x
  <2>3. Took(v0, f, VA!Get(v0.mem, p, n), v0.aptr + size, v0.anum, v0.ianum)
    <3>1. p = IF a.order = "big" /\ n < W(a) THEN v0.aptr + size - n ELSE v0.aptr + size - size
      BY <2>1
    <3> HIDE DEF n, size, p
    <3>2. Took(v0, VA!va_arg_adjusted(a, v0, n), VA!Get(v0.mem, p, n), v0.aptr + size, v0.anum, v0.ianum)
      BY <1>2, <2>2, <3>1, AdjustedTook DEF size, n
    <3> QED
      BY <3>2 DEF f, n
  <2>4. PairRead(a, v, f)
    BY <1>2, <2>1, <2>3 DEF Took, PairRead, Reads, Moved, SameCounts, x
  <2>5. VA!va_arg_longlong(a, v) = f
    <3>1. v0 = IF a.cpu = "arm" THEN [v EXCEPT !.aptr = VA!AlignUp(v.aptr, 8)] ELSE v
      BY DEF v0, x, PairAt, VA!AlignUp, AlignUp
    <3> QED
      BY <1>4, <3>1 DEF VA!va_arg_longlong, f, PairCpus
  <2>6. a.cpu # "powerpc_aix" => VA!va_arg_double(a, v) = f
    <3>1. v0 = VA!AlignDouble(a, v)
      BY DEF v0, x, PairAt, VA!AlignUp, AlignUp, VA!AlignDouble, PairCpus
    <3> HIDE DEF v0
    <3> QED
      BY <1>4, <3>1 DEF VA!va_arg_double, f, PairCpus, VA!MipsWide, VA!Arm64, VA!SysV, VA!S390,
         VA!PPC64, VA!RiscV
  <2> QED
    BY <2>4, <2>5, <2>6
<1> QED
  BY <1>3, <1>4

-----------------------------------------------------------------------------
(* The fetch of any number of words, in registers or behind them.          *)
IargCpus == Arm64 \cup S390 \cup SysV

LEMMA IargTypes ==
  ASSUME NEW a, a \in ABISet, a.cpu \in IargCpus
  PROVE  /\ a.cpu \in Cpus /\ a.cpu \in HasIargs /\ W(a) \in {4, 8} /\ R(a) \in {4, 8}
         /\ a.order = IF a.cpu \in S390 THEN "big" ELSE "little"
         /\ IargNum(a) \in Nat /\ VA!IargNum(a) = IargNum(a) /\ VA!R(a) = R(a)
         /\ a.cpu \in SysV => R(a) = 8 /\ W(a) = 8 /\ IargNum(a) = 6
         /\ a.cpu \in CountsFloats
         /\ a.cpu \notin CountsPlaces \cup RiscV \cup PPC64
         /\ a.cpu \notin {"hppa", "hppa64", "armhf", "mips", "powerpc_sysv4"}
         /\ a.cpu \in S390 => a.cpu \notin Arm64 \cup SysV
         /\ a.cpu \in SysV => a.cpu \notin Arm64 \cup S390
<1>1. a.cpu \in Cpus /\ a.cpu \in HasIargs
  BY Orders DEF IargCpus, HasIargs
<1>2. a.order = IF a.cpu \in S390 THEN "big" ELSE "little"
  BY <1>1, Orders DEF IargCpus, Arm64, SysV, S390
<1>3. VA!IargNum(a) = IargNum(a) /\ VA!R(a) = R(a)
  BY SameSizes DEF VA!IargNum, IargNum, VA!Arm64, VA!RiscV, VA!SysV, VA!S390, Arm64, RiscV, SysV, S390
<1>4. /\ W(a) \in {4, 8} /\ R(a) \in {4, 8} /\ IargNum(a) \in Nat
      /\ a.cpu \in SysV => R(a) = 8 /\ W(a) = 8 /\ IargNum(a) = 6
  BY <1>1, WordSizes, CpuWords, RegisterCounts DEF SysV
<1> QED
  BY <1>1, <1>2, <1>3, <1>4
     DEF IargCpus, CountsPlaces, MipsWide, RiscV, PPC64, Arm64, SysV, S390, CountsFloats,
         FloatsFillRegisters

LEMMA RegistersTaken ==
  ASSUME NEW a, a \in ABISet, a.cpu \in IargCpus, NEW v, IsVaList(v), v.ianum \in Nat,
         NEW n \in Nat, NEW words \in Nat, words = CeilDiv(n, R(a)),
         NEW next, next = v.ianum + words, next <= IargNum(a),
         a.cpu \in SysV => n <= 16,
         NEW p, p = IF a.cpu \in S390 THEN R(a) * next - n ELSE R(a) * v.ianum,
         NEW f, f = VA!va_arg_adjusted(a, v, n)
  PROVE  /\ Reads(v, f, VA!Get(v.iargs, p, n), v.aptr)
         /\ f.va.ianum = next /\ f.va.anum = v.anum /\ f.va.fanum = v.fanum
<1> DEFINE g == VA!FromIarg([v EXCEPT !.ianum = next], p, n)
<1>1. /\ VA!IargNum(a) = IargNum(a) /\ VA!R(a) = R(a)
      /\ VA!CeilDiv(n, VA!R(a)) = words
      /\ a.cpu \in SysV => R(a) = 8
      /\ a.cpu # "mips"
  BY IargTypes, SameSizes DEF VA!CeilDiv, CeilDiv
<1>2. f = g
  <2>1. CASE a.cpu \in Arm64
    BY <1>1, <2>1 DEF VA!va_arg_adjusted, VA!Arm64, VA!RiscV, VA!SysV, VA!S390, Arm64, S390
  <2>2. CASE a.cpu \in SysV
    BY <1>1, <2>2 DEF VA!va_arg_adjusted, VA!Arm64, VA!RiscV, VA!SysV, VA!S390, SysV, S390
  <2>3. CASE a.cpu \in S390
    BY <1>1, <2>3 DEF VA!va_arg_adjusted, VA!Arm64, VA!RiscV, VA!SysV, VA!S390, S390
  <2> QED
    BY <2>1, <2>2, <2>3 DEF IargCpus
<1> QED
  BY <1>2 DEF Reads, Moved, VA!FromIarg, VA!Fetched, IsVaList

LEMMA BehindTaken ==
  ASSUME NEW a, a \in ABISet, a.cpu \in IargCpus, NEW v, IsVaList(v), v.ianum \in Nat,
         NEW n \in Nat, NEW words \in Nat, words = CeilDiv(n, R(a)),
         a.cpu \notin SysV => v.ianum + words > IargNum(a),
         a.cpu \in SysV => n > 16 \/ v.ianum + words > 6,
         NEW size, size = AlignUp(n, W(a)),
         NEW p, p = IF a.cpu \in S390 /\ n < W(a) THEN v.aptr + size - n
                    ELSE v.aptr + size - size,
         NEW f, f = VA!va_arg_adjusted(a, v, n)
  PROVE  /\ Reads(v, f, VA!Get(v.mem, p, n), v.aptr + size)
         /\ f.va.ianum = IF a.cpu \in SysV THEN v.ianum ELSE IargNum(a)
         /\ f.va.anum = v.anum /\ f.va.fanum = v.fanum
<1> DEFINE full == IF a.cpu \in SysV THEN v ELSE [v EXCEPT !.ianum = IargNum(a)]
           side == IF a.cpu \in S390 THEN "right" ELSE "left"
<1>1. /\ VA!IargNum(a) = IargNum(a) /\ VA!R(a) = R(a) /\ IargNum(a) \in Nat
      /\ VA!CeilDiv(n, VA!R(a)) = words
      /\ a.cpu \in SysV => R(a) = 8 /\ IargNum(a) = 6
      /\ a.cpu \in Cpus /\ a.cpu \notin CountsPlaces
      /\ a.cpu \notin {"hppa", "hppa64", "armhf", "mips", "powerpc_sysv4"}
  BY IargTypes, SameSizes DEF VA!CeilDiv, CeilDiv
<1>2. /\ IsVaList(full) /\ full.aptr = v.aptr /\ full.anum = v.anum
      /\ full.ianum = (IF a.cpu \in SysV THEN v.ianum ELSE IargNum(a))
      /\ full.fanum = v.fanum /\ Moved(v, full) /\ full.mem = v.mem
  BY DEF IsVaList, Moved
<1>3. f = VA!va_arg_at(a, full, n, side)
  <2>1. CASE a.cpu \in Arm64
    <3>1. ~(v.ianum + words <= IargNum(a)) /\ a.cpu \notin SysV \cup S390 \cup RiscV
      BY <1>1, <2>1 DEF Arm64, SysV, S390, RiscV
    <3> QED
      BY <1>1, <2>1, <3>1
         DEF VA!va_arg_adjusted, VA!Arm64, VA!RiscV, VA!SysV, VA!S390, Arm64, S390, RiscV, SysV
  <2>2. CASE a.cpu \in SysV
    <3>1. ~(n <= 16 /\ v.ianum + words <= IargNum(a)) /\ a.cpu \notin Arm64 \cup S390 \cup RiscV
      BY <1>1, <2>2 DEF Arm64, SysV, S390, RiscV
    <3> QED
      BY <1>1, <2>2, <3>1
         DEF VA!va_arg_adjusted, VA!Arm64, VA!RiscV, VA!SysV, VA!S390, Arm64, S390, RiscV, SysV
  <2>3. CASE a.cpu \in S390
    <3>1. ~(v.ianum + words <= IargNum(a)) /\ a.cpu \notin SysV \cup Arm64 \cup RiscV
      BY <1>1, <2>3 DEF Arm64, SysV, S390, RiscV
    <3> QED
      BY <1>1, <2>3, <3>1
         DEF VA!va_arg_adjusted, VA!Arm64, VA!RiscV, VA!SysV, VA!S390, Arm64, S390, RiscV, SysV
  <2> QED
    BY <2>1, <2>2, <2>3 DEF IargCpus
<1>4. p = IF side = "right" /\ n < W(a) THEN full.aptr + size - n ELSE full.aptr + size - size
  BY <1>2
<1> HIDE DEF full, side
<1>5. Took(full, f, VA!Get(full.mem, p, n), full.aptr + size,
           IF a.cpu \in CountsPlaces THEN full.anum + size \div W(a) ELSE full.anum,
           full.ianum)
  BY <1>1, <1>2, <1>3, <1>4, TakesAt
<1> QED
  BY <1>1, <1>2, <1>5 DEF Took, Reads, Moved

(* The CPUs of the theorems. The others have conventions of their own:     *)
(* registers marked by place (hppa, hppa64, mips), pairs of float          *)
(* registers and core registers that split an argument (armhf), words in   *)
(* pairs of registers (powerpc sysv4), or one sequence of words of which   *)
(* the first are registers (riscv, loongarch64).                           *)
FetchedCpus == Cpus \ ({"mips", "hppa", "hppa64", "armhf", "powerpc_sysv4"} \cup RiscV)

(* av_long of a full register's width.                                     *)
LEMMA LongArrives ==
  ASSUME NEW a, a \in ABISet, a.cpu \in FetchedCpus, NEW l, NEW v, Ready(a, l, v),
         NEW i, NEW n \in Nat, 1 <= n, n <= W(a) \/ (a.cpu = "arm64_apple" /\ n = 8),
         NEW own, own = Own(i, n), NEW r, r = av_long(a, l, own), r.res = 0,
         NEW m, m = r.list, Sees(a, m, v), a.cpu = "arm64_apple" => n = 8
  PROVE  Arrives(a, m, own, v, VA!va_arg_adjusted(a, v, n))
<1>1. a.cpu \in Cpus /\ a.cpu \notin RiscV /\ RegInv(a, l)
  BY DEF FetchedCpus, Ready
<1>2. CASE ~(a.cpu = "arm64_apple" /\ l.ianum >= IargNum(a))
  <2>1. r = av_int(a, l, own)
    BY <1>2 DEF av_long
  <2>2. n <= W(a) \/ (NextInIarg(a, l) /\ n <= R(a))
    <3>1. CASE a.cpu = "arm64_apple"
      <4>1. l.ianum < IargNum(a) /\ R(a) = 8
        BY <1>1, <1>2, <3>1, CpuWords, ListTypes, WordSizes
      <4> QED
        BY <3>1, <4>1 DEF NextInIarg, HasIargs, Arm64
    <3> QED
      BY <3>1
  <2> QED
    BY <1>1, <2>1, <2>2, IntArrives
<1>3. CASE a.cpu = "arm64_apple" /\ l.ianum >= IargNum(a)
  <2> DEFINE end == l.aptr + 8
             len == Len(own)
             at == end - len
             off == 0
             words == CeilDiv(n, R(a))
             size == AlignUp(n, W(a))
             p == at + off
             f == VA!va_arg_adjusted(a, v, n)
  <2>1. /\ W(a) = 4 /\ R(a) = 8 /\ a.cpu \in IargCpus /\ IsList(l) /\ l.aptr \in Int
        /\ l.aptr % 4 = 0 /\ v.aptr = l.aptr /\ IargNum(a) = 8 /\ l.ianum = 8
        /\ v.ianum = 8 /\ v.fanum = l.fanum /\ a.cpu \in HasIargs
        /\ IsVaList(v) /\ v.anum \in Nat /\ v.fanum \in Nat
    <3>1. /\ W(a) = 4 /\ R(a) = 8 /\ a.cpu \in IargCpus /\ IargNum(a) = 8
          /\ a.cpu \in HasIargs /\ a.cpu \in CountsFloats
      BY <1>1, <1>3, CpuWords
         DEF IargCpus, Arm64, RiscV, SysV, S390, IargNum, HasIargs, CountsFloats,
             FloatsFillRegisters
    <3>2. l.ianum \in 0..8
      BY <1>1, <3>1 DEF RegInv, Registers
    <3> QED
      BY <1>1, <1>3, <3>1, <3>2, ListTypes DEF Ready, Match, RegInv, Cursor
  <2>2. n = 8
    BY <1>3
  <2>3. r = Embed(l, end, own)
    BY <1>3 DEF av_long
  <2>4. PartAt(own, off, own, n)
    BY OwnPart
  <2>5. Len(own) = n
    BY LengthOwn
  <2>6. words = 1 /\ words \in Nat /\ size = 8 /\ off = 0
    BY <2>1, <2>2 DEF CeilDiv, AlignUp
  <2>7. end \in Int /\ len = 8
    BY <2>1, <2>2, <2>5
  <2> HIDE DEF words, size, f, off
  <2>8. HoldsAt(m.args, at, own) /\ m.aptr = end /\ Stays(l, m)
    <3> HIDE DEF end, len
    <3>1. Len(own) \in Nat /\ end - len = end - Len(own)
      BY <2>7 DEF len
    <3>2. IsList(l) /\ end \in Int
      BY <2>1, <2>7
    <3>3. /\ HoldsAt(r.list.args, end - Len(own), own)
          /\ r.list.aptr = end /\ Stays(l, r.list)
      BY <2>3, <3>1, <3>2, EmbedEffect
    <3> QED
      BY <3>1, <3>3
  <2> HIDE DEF len
  <2>9. at = l.aptr /\ at \in Int /\ p = v.aptr /\ p = v.aptr + size - size
        /\ at + len <= m.aptr /\ m.aptr = v.aptr + size
    BY <2>1, <2>6, <2>7, <2>8
  <2> HIDE DEF at, end
  <2>10. /\ Reads(v, f, VA!Get(v.mem, p, n), v.aptr + size)
         /\ f.va.ianum = 8 /\ f.va.anum = v.anum /\ f.va.fanum = v.fanum
    <3>1. a.cpu \notin SysV \cup S390
      BY <1>3 DEF SysV, S390
    <3>2. v.ianum \in Nat /\ v.ianum + words > IargNum(a)
      BY <2>1, <2>6
    <3>3. /\ words = CeilDiv(n, R(a)) /\ size = AlignUp(n, W(a))
          /\ f = VA!va_arg_adjusted(a, v, n) /\ words \in Nat
          /\ p = IF a.cpu \in S390 /\ n < W(a) THEN v.aptr + size - n
                ELSE v.aptr + size - size
      BY <2>6, <2>9, <3>1 DEF words, size, f
    <3> HIDE DEF p
    <3>4. /\ Reads(v, f, VA!Get(v.mem, p, n), v.aptr + size)
          /\ f.va.ianum = IF a.cpu \in SysV THEN v.ianum ELSE IargNum(a)
          /\ f.va.anum = v.anum /\ f.va.fanum = v.fanum
      BY <2>1, <3>1, <3>2, <3>3, BehindTaken
    <3> QED
      BY <2>1, <3>1, <3>4
  <2>11. Counts(a, m, f.va)
    BY <1>3, <2>1, <2>8, <2>10 DEF Counts, Stays, CountsPlaces, MipsWide
  <2>12. Whole(a, m) /\ NotMarked(a, l, m) /\ Len(own) \in Nat /\ at + Len(own) <= m.aptr
         /\ p = at + off
    BY <1>3, <2>1, <2>7, <2>8, <2>9 DEF Whole, NotMarked, end, len
  <2> HIDE DEF p
  <2>13. a.cpu # "hppa" /\ a.cpu # "hppa64"
    BY <1>3
  <2>14. Arrives(a, m, own, v, f)
    <3>1. /\ a.cpu \in Cpus /\ a.cpu \notin RiscV /\ a.cpu # "hppa"
          /\ a.cpu = "hppa64" => l.aptr <= at
      BY <1>1, <2>13
    <3>2. /\ HoldsAt(m.args, at, own) /\ at \in Int
          /\ Reads(v, f, VA!Get(v.mem, p, n), m.aptr)
      BY <2>8, <2>9, <2>10
    <3> QED
      BY <2>4, <2>11, <2>12, <3>1, <3>2, StackArrives
  <2> QED
    BY <2>14 DEF f
<1> QED
  BY <1>2, <1>3

(* Arguments that are stored as they are.                                  *)
LEMMA OwnOnStack ==
  ASSUME NEW a, a.cpu \in Cpus, a.cpu \notin RiscV, a.cpu # "hppa",
         NEW l, NEW v, Ready(a, l, v), NEW m, Sees(a, m, v), NotMarked(a, l, m),
         Whole(a, m), NEW p \in Int, a.cpu = "hppa64" => l.aptr <= p,
         NEW i, NEW n \in Nat, NEW own, own = Own(i, n), HoldsAt(m.args, p, own),
         p + n <= m.aptr, NEW f, Reads(v, f, VA!Get(v.mem, p, n), m.aptr),
         Counts(a, m, f.va)
  PROVE  Arrives(a, m, own, v, f) /\ i = i
<1> DEFINE off == 0
<1>1. off = 0 /\ p = p + off
  OBVIOUS
<1> HIDE DEF off
<1>2. PartAt(own, off, own, n)
  BY <1>1, OwnPart
<1>3. Len(own) = n
  BY LengthOwn
<1>4. p + Len(own) <= m.aptr /\ Len(own) \in Nat
  BY <1>3
<1> QED
  BY <1>1, <1>2, <1>4, StackArrives

LEMMA OwnInIarg ==
  ASSUME NEW a, a.cpu \in Cpus, a.cpu \in HasIargs,
         NEW l, NEW v, Ready(a, l, v), NEW m, Sees(a, m, v),
         m.ianum \in Int, m.aptr = l.aptr, NEW p \in Int,
         NEW i, NEW n \in Nat, NEW own, own = Own(i, n), HoldsAt(m.iargs, p, own),
         NEW size, size = R(a), p + n <= size * m.ianum,
         NEW f, Reads(v, f, VA!Get(v.iargs, p, n), v.aptr), Counts(a, m, f.va)
  PROVE  Arrives(a, m, own, v, f) /\ i = i
<1> DEFINE off == 0
           top == size * m.ianum
<1>1. off = 0 /\ p = p + off
  OBVIOUS
<1> HIDE DEF off, top
<1>2. PartAt(own, off, own, n)
  BY <1>1, OwnPart
<1>3. Len(own) = n
  BY LengthOwn
<1>4. p + n <= top
  BY DEF top
<1>5. p + Len(own) <= top /\ Len(own) \in Nat
  BY <1>3, <1>4
<1>6. p + Len(own) <= size * m.ianum
  BY <1>5 DEF top
<1> QED
  BY <1>1, <1>2, <1>5, <1>6, IargArrives

LEMMA OwnEmbedded ==
  ASSUME NEW l, IsList(l), NEW end \in Int, NEW i, NEW n \in Nat, NEW own, own = Own(i, n),
         NEW r, r = Embed(l, end, own), r.res = 0, NEW at, at = end - n,
         NEW m, m = r.list
  PROVE  HoldsAt(m.args, at, own) /\ m.aptr = end /\ Stays(l, m) /\ at \in Int /\ i = i
<1>1. Len(own) = n
  BY LengthOwn
<1>2. at = end - Len(own) /\ Len(own) \in Nat /\ at \in Int
  BY <1>1
<1>3. /\ HoldsAt(r.list.args, end - Len(own), own)
      /\ r.list.aptr = end /\ Stays(l, r.list)
  BY <1>2, EmbedEffect
<1> QED
  BY <1>2, <1>3

LEMMA OwnInIargs ==
  ASSUME NEW a, NEW l, IsList(l), NEW next, NEW i, NEW n \in Nat, NEW own, own = Own(i, n),
         NEW r, r = InIargsUpTo(a, l, next, own), NEW at \in Int, at = R(a) * next - n,
         NEW m, m = r.list
  PROVE  /\ HoldsAt(m.iargs, at, own) /\ m.ianum = next /\ m.aptr = l.aptr
         /\ m.anum = l.anum /\ m.fanum = l.fanum /\ i = i
<1> DEFINE top == R(a) * next
<1>1. Len(own) = n
  BY LengthOwn
<1>2. at = top - Len(own) /\ Len(own) \in Nat
  BY <1>1
<1>3. /\ m.ianum = next /\ m.iargs = Put(l.iargs, top - Len(own), own) /\ m.aptr = l.aptr
      /\ m.anum = l.anum /\ m.fanum = l.fanum
  BY DEF InIargsUpTo, Done, IsList
<1> HIDE DEF top
<1>4. m.iargs = Put(l.iargs, at, own)
  BY <1>2, <1>3
<1> QED
  BY <1>2, <1>3, <1>4, PutHoldsAt

(* s390: two registers, or the stack.                                      *)
LEMMA TwoWordsArrive ==
  ASSUME NEW a, a \in ABISet, a.cpu = "s390", NEW l, NEW v, Ready(a, l, v),
         NEW i, NEW n, n = 8, NEW own, own = Own(i, n),
         NEW r, r = av_longlong(a, l, own), r.res = 0, NEW m, m = r.list, Sees(a, m, v)
  PROVE  Arrives(a, m, own, v, VA!va_arg_adjusted(a, v, n))
<1> DEFINE words == CeilDiv(n, R(a))
           size == AlignUp(n, W(a))
           next == v.ianum + words
           f == VA!va_arg_adjusted(a, v, n)
<1>1. /\ W(a) = 4 /\ R(a) = 4 /\ a.cpu \in IargCpus /\ IsList(l) /\ l.aptr \in Int
      /\ l.aptr % 4 = 0 /\ v.aptr = l.aptr /\ IargNum(a) = 5 /\ l.ianum \in 0..5
      /\ v.ianum = l.ianum /\ v.fanum = l.fanum /\ a.cpu \in HasIargs
      /\ a.cpu \in CountsFloats /\ IsVaList(v) /\ v.anum \in Nat /\ v.fanum \in Nat
      /\ a.cpu \in S390 /\ a.cpu \notin SysV /\ a.cpu \in Cpus /\ a.cpu \notin RiscV
      /\ a.cpu \notin CountsPlaces /\ RegInv(a, l) /\ v.ianum \in Nat
  <2>1. /\ W(a) = 4 /\ R(a) = 4 /\ a.cpu \in IargCpus /\ IargNum(a) = 5
        /\ a.cpu \in HasIargs /\ a.cpu \in CountsFloats /\ a.cpu \in Cpus
        /\ a.cpu \in S390 /\ a.cpu \notin SysV /\ a.cpu \notin RiscV
        /\ a.cpu \notin CountsPlaces
    BY CpuWords
       DEF Cpus, Cpus32, IargCpus, Arm64, RiscV, SysV, S390, IargNum, HasIargs, CountsFloats,
           FloatsFillRegisters, CountsPlaces, MipsWide
  <2>2. l.ianum \in 0..5
    BY <2>1 DEF Ready, RegInv, Registers
  <2> QED
    BY <2>1, <2>2, ListTypes DEF Ready, Match, RegInv, Cursor
<1>2. words = 2 /\ size = 8 /\ n \in Nat /\ words \in Nat
  BY <1>1 DEF CeilDiv, AlignUp
<1>3. words = CeilDiv(n, R(a)) /\ size = AlignUp(n, W(a)) /\ f = VA!va_arg_adjusted(a, v, n)
  OBVIOUS
<1> HIDE DEF words, size, f
<1>4. CASE l.ianum + 2 <= 5
  <2> DEFINE p == R(a) * next - n
             z == R(a)
  <2>1. next = l.ianum + 2 /\ next \in Int /\ next <= IargNum(a) /\ next = v.ianum + words
    BY <1>1, <1>2, <1>4
  <2>2. p \in Int /\ p + n <= z * next
    BY <1>1, <2>1
  <2>3. r = InIargsUpTo(a, l, l.ianum + 2, own)
    BY <1>1, <1>4 DEF av_longlong, LongIs64
  <2>4. p = (IF a.cpu \in S390 THEN R(a) * next - n ELSE R(a) * v.ianum)
    BY <1>1
  <2> HIDE DEF next
  <2>5. /\ HoldsAt(m.iargs, p, own) /\ m.ianum = next /\ m.aptr = l.aptr
        /\ m.anum = l.anum /\ m.fanum = l.fanum
    <3>1. r = InIargsUpTo(a, l, next, own) /\ p = R(a) * next - n
      BY <2>1, <2>3
    <3> HIDE DEF p
    <3> QED
      BY <1>1, <1>2, <2>2, <3>1, OwnInIargs
  <2>6. /\ Reads(v, f, VA!Get(v.iargs, p, n), v.aptr)
        /\ f.va.ianum = next /\ f.va.anum = v.anum /\ f.va.fanum = v.fanum
    <3> HIDE DEF p
    <3> QED
      BY <1>1, <1>2, <1>3, <2>1, <2>4, RegistersTaken
  <2> HIDE DEF p
  <2>7. Counts(a, m, f.va)
    BY <1>1, <2>1, <2>5, <2>6 DEF Counts, CountsPlaces, MipsWide
  <2>8. m.ianum \in Int /\ p + n <= z * m.ianum /\ z = R(a)
    BY <2>1, <2>2, <2>5
  <2> HIDE DEF z
  <2> QED
    BY <1>1, <1>2, <1>3, <2>2, <2>5, <2>6, <2>7, <2>8, OwnInIarg
<1>5. CASE ~(l.ianum + 2 <= 5)
  <2> DEFINE l0 == [l EXCEPT !.ianum = 5]
             end == l.aptr + 8
             p == end - n
  <2>1. r = Embed(l0, end, own)
    <3>1. AlignUp(l.aptr + 8, 4) = l.aptr + 8
      BY <1>1 DEF AlignUp
    <3>2. AlignUp(l.aptr + 8, 4) = end
      BY <3>1
    <3> HIDE DEF end
    <3> QED
      BY <1>1, <1>5, <3>2 DEF av_longlong, LongIs64
  <2>2. IsList(l0) /\ l0.ianum = 5 /\ l0.aptr = l.aptr /\ l0.fanum = l.fanum
    BY <1>1 DEF IsList
  <2>3. end \in Int /\ p \in Int /\ p + n = end /\ end = v.aptr + size
        /\ p = v.aptr + size - size
    BY <1>1, <1>2
  <2> HIDE DEF l0
  <2>4. HoldsAt(m.args, p, own) /\ m.aptr = end /\ Stays(l0, m)
    <3>1. p = end - n
      OBVIOUS
    <3> HIDE DEF end, p
    <3> QED
      BY <1>2, <2>1, <2>2, <2>3, <3>1, OwnEmbedded
  <2>5. /\ Reads(v, f, VA!Get(v.mem, p, n), v.aptr + size)
        /\ f.va.ianum = 5 /\ f.va.anum = v.anum /\ f.va.fanum = v.fanum
    <3>1. v.ianum + words > IargNum(a)
      BY <1>1, <1>2, <1>5
    <3>2. p = IF a.cpu \in S390 /\ n < W(a) THEN v.aptr + size - n
              ELSE v.aptr + size - size
      BY <1>1, <2>3
    <3>3. /\ IsVaList(v) /\ v.ianum \in Nat /\ a.cpu \in IargCpus /\ a.cpu \notin SysV
          /\ n \in Nat /\ words \in Nat
      BY <1>1, <1>2
    <3> HIDE DEF p, next, end
    <3>4. /\ Reads(v, f, VA!Get(v.mem, p, n), v.aptr + size)
          /\ f.va.ianum = IF a.cpu \in SysV THEN v.ianum ELSE IargNum(a)
          /\ f.va.anum = v.anum /\ f.va.fanum = v.fanum
      BY <1>3, <3>1, <3>2, <3>3, BehindTaken
    <3> QED
      BY <1>1, <3>4
  <2> HIDE DEF p
  <2>6. Counts(a, m, f.va)
    BY <1>1, <2>2, <2>4, <2>5 DEF Counts, Stays, CountsPlaces, MipsWide
  <2>7. /\ Whole(a, m) /\ NotMarked(a, l, m) /\ p + n <= m.aptr
    BY <1>1, <2>3, <2>4 DEF Whole, NotMarked, end
  <2> HIDE DEF end
  <2>8. Reads(v, f, VA!Get(v.mem, p, n), m.aptr) /\ a.cpu # "hppa" /\ a.cpu # "hppa64"
    BY <2>3, <2>4, <2>5
  <2>9. Arrives(a, m, own, v, f)
    BY <1>1, <1>2, <2>3, <2>4, <2>6, <2>7, <2>8, OwnOnStack
  <2> QED
    BY <2>9 DEF f
<1> QED
  BY <1>4, <1>5

LEMMA LonglongArrives ==
  ASSUME NEW a, a \in ABISet, a.cpu \in FetchedCpus, NEW l, NEW v, Ready(a, l, v),
         NEW i, NEW own, own = Own(i, 8), NEW r, r = av_longlong(a, l, own), r.res = 0,
         NEW m, m = r.list, Sees(a, m, v)
  PROVE  Arrives(a, m, own, v, VA!va_arg_longlong(a, v))
<1> DEFINE n == 8
           f == VA!va_arg_adjusted(a, v, n)
<1>1. a.cpu \in Cpus /\ a.cpu \notin RiscV /\ RegInv(a, l) /\ n \in Nat /\ own = Own(i, n)
      /\ 1 <= n /\ n = 8
  BY DEF FetchedCpus, Ready
<1>2. a.cpu \notin PairCpus => VA!va_arg_longlong(a, v) = f
  BY DEF VA!va_arg_longlong, PairCpus, FetchedCpus
<1>3. CASE a.cpu \in PairCpus
  <2>1. PairRead(a, v, VA!va_arg_longlong(a, v))
    BY <1>1, <1>3, PairTaken, ListTypes DEF Ready, Match, Cursor
  <2>2. r = Embed(l, PairAt(a, l.aptr + 8), own)
    BY <1>3 DEF av_longlong, PairCpus, LongIs64, PairAt
  <2> QED
    BY <1>3, <2>1, <2>2, PairArrives
<1>4. CASE a.cpu \in LongIs64
  <2>1. r = av_long(a, l, own)
    BY <1>4 DEF av_longlong, LongIs64
  <2>2. /\ n <= W(a) \/ (a.cpu = "arm64_apple" /\ n = 8)
        /\ a.cpu \notin PairCpus
    BY <1>1, <1>4, CpuWords DEF LongIs64, PairCpus, PPC64
  <2> HIDE DEF n
  <2>3. Arrives(a, m, own, v, VA!va_arg_adjusted(a, v, n))
    BY <1>1, <2>1, <2>2, LongArrives
  <2> QED
    BY <1>2, <2>2, <2>3
<1>5. CASE a.cpu \in {"mipsn32", "x86_64_ms"}
  <2>1. r = av_word(a, l, own) /\ W(a) = 8 /\ a.cpu \notin PairCpus /\ a.cpu \in OneWordCpus
        /\ a.cpu \notin HasIargs
    BY <1>1, <1>5, CpuWords
       DEF av_longlong, LongIs64, PairCpus, OneWordCpus, CountsPlaces, MipsWide, HasIargs,
           Arm64, SysV, S390
  <2>2. Len(own) = W(a)
    BY <2>1, LengthOwn
  <2>3. WordPushed(a, l, m, own)
    BY <1>1, <2>1, <2>2, AvWordPushed DEF NextInIarg
  <2> DEFINE off == IF a.order = "little" THEN 0 ELSE Len(own) - n
  <2>4. off = 0
    BY <2>1, <2>2
  <2> HIDE DEF off, n
  <2>5. PartAt(own, off, own, n)
    BY <1>1, <2>4, OwnPart
  <2>6. Arrives(a, m, own, v, VA!va_arg_adjusted(a, v, n))
    <3>1. PartAt(own, IF a.order = "little" THEN 0 ELSE Len(own) - n, own, n)
      BY <2>5 DEF off
    <3>2. n <= W(a)
      BY <1>1, <2>1
    <3> QED
      BY <1>1, <2>1, <2>3, <3>1, <3>2, WordOnStack
  <2> QED
    BY <1>2, <2>1, <2>6
<1>6. CASE a.cpu = "x86_64_x32"
  <2>1. r = av_int(a, l, own) /\ W(a) = 8 /\ a.cpu \notin PairCpus
    BY <1>1, <1>6, CpuWords DEF av_longlong, LongIs64, PairCpus
  <2>2. n <= W(a)
    BY <2>1
  <2> HIDE DEF n
  <2>3. Arrives(a, m, own, v, VA!va_arg_adjusted(a, v, n))
    BY <1>1, <2>1, <2>2, IntArrives
  <2> QED
    BY <1>2, <2>1, <2>3
<1>7. CASE a.cpu = "s390"
  <2>1. a.cpu \notin PairCpus
    BY <1>7 DEF PairCpus
  <2> HIDE DEF n
  <2>2. Arrives(a, m, own, v, VA!va_arg_adjusted(a, v, n))
    BY <1>1, <1>7, TwoWordsArrive
  <2> QED
    BY <1>2, <2>1, <2>2
<1> QED
  BY <1>1, <1>3, <1>4, <1>5, <1>6, <1>7
     DEF FetchedCpus, Cpus, Cpus32, LongIs64, PairCpus, RiscV

-----------------------------------------------------------------------------
(* What a register holds, taken for a float or for a double.               *)
Decoded(a, n, reg) == IF n = 4 THEN Single(a, reg) ELSE Full(reg)

LEMMA SameRegisters ==
  ASSUME NEW a
  PROVE  /\ VA!FargNum(a) = FargNum(a)
         /\ \A reg : VA!Single(a, reg) = Single(a, reg) /\ VA!Full(reg) = Full(reg)
<1>1. VA!FargNum(a) = FargNum(a)
  BY DEF VA!FargNum, FargNum, VA!Arm64, VA!RiscV, VA!SysV, VA!S390, VA!MipsWide, VA!PPC64,
         Arm64, RiscV, SysV, S390, MipsWide, PPC64
<1>2. ASSUME NEW reg PROVE VA!Single(a, reg) = Single(a, reg) /\ VA!Full(reg) = Full(reg)
  BY DEF VA!Single, Single, VA!Full, Full, VA!SysV, SysV, VA!AsDouble, AsDouble, VA!Own, Own,
         VA!Bytes, Bytes, VA!Junk, Junk
<1> QED
  BY <1>1, <1>2

LEMMA PlainDecoded ==
  ASSUME NEW a, NEW i, NEW n \in {4, 8}, NEW own, own = Own(i, n)
  PROVE  Decoded(a, n, own) = own /\ i = i
<1>1. Len(own) = n
  BY LengthOwn
<1> QED
  BY <1>1 DEF Decoded, Single, Full

LEMMA DoubleDecoded ==
  ASSUME NEW a, a.cpu \notin SysV \cup {"sparc64"}, NEW i, NEW own, own = Own(i, 4),
         NEW reg, reg = AsDouble(i)
  PROVE  Decoded(a, 4, reg) = own /\ Len(reg) = 8
<1>1. Len(reg) = 8 /\ reg[1][1] = i
  BY LengthOfBytes DEF AsDouble, Bytes
<1> QED
  BY <1>1 DEF Decoded, Single

LEMMA ExtendedLength ==
  ASSUME NEW a, NEW i, NEW n \in Nat, NEW w \in Nat, n <= w,
         NEW own, own = Own(i, n), NEW reg, reg = Extended(a, own, w)
  PROVE  Len(reg) = w /\ i = i
<1>1. Len(Extended(a, Bytes(i, "own", n), w)) = w
  BY LengthExtended
<1> QED
  BY <1>1 DEF Own

LEMMA ExtendedFront ==
  ASSUME NEW a, a.order = "little", NEW i, NEW n \in Nat, NEW w \in Nat, 1 <= n, n <= w,
         NEW own, own = Own(i, n), NEW reg, reg = Extended(a, own, w)
  PROVE  SubSeq(reg, 1, n) = own /\ i = i /\ w = w
<1> DEFINE off == IF a.order = "little" THEN 0 ELSE w - n
<1>1. off = 0 /\ off = IF a.order = "little" THEN 0 ELSE w - n
  OBVIOUS
<1> HIDE DEF off
<1>2. PartAt(reg, off, own, n)
  BY <1>1, ExtendedPart
<1>3. \A k \in 1..n : reg[k] = own[k]
  <2>1. \A k \in 1..n : reg[off + k] = own[k]
    BY <1>2 DEF PartAt
  <2>2. \A k \in 1..n : off + k = k
    BY <1>1
  <2> QED
    BY <2>1, <2>2
<1>4. own = [k \in 1..n |-> own[k]]
  BY DEF Own, Bytes
<1>5. SubSeq(reg, 1, n) = [k \in 1..n |-> reg[k]]
  OBVIOUS
<1> QED
  BY <1>3, <1>4, <1>5

LEMMA ExtendedDecoded ==
  ASSUME NEW a, a.cpu \in SysV, a.order = "little", NEW i,
         NEW own, own = Own(i, 4), NEW reg, reg = Extended(a, own, 8)
  PROVE  Decoded(a, 4, reg) = own /\ i = i
<1> DEFINE n == 4
           w == 8
<1>1. n \in Nat /\ w \in Nat /\ 1 <= n /\ n <= w /\ w # 4
  OBVIOUS
<1>2. own = Own(i, n) /\ reg = Extended(a, own, w)
  OBVIOUS
<1>3. SubSeq(reg, 1, 4) = SubSeq(reg, 1, n) /\ Decoded(a, 4, reg) = Single(a, reg)
  BY DEF Decoded
<1>4. ASSUME Len(reg) # 4 PROVE Single(a, reg) = SubSeq(reg, 1, n)
  BY <1>4 DEF Single, SysV
<1> HIDE DEF n, w
<1>5. SubSeq(reg, 1, n) = own
  BY <1>1, <1>2, ExtendedFront
<1>6. Len(reg) = w
  BY <1>1, <1>2, ExtendedLength
<1> QED
  BY <1>1, <1>3, <1>4, <1>5, <1>6

(* An argument in a floating-point register.                               *)
LEMMA FregSeen ==
  ASSUME NEW a, a.cpu \notin {"alpha", "hppa", "hppa64"}, NEW m, NEW v, Sees(a, m, v),
         NEW k
  PROVE  /\ k \in DOMAIN m.fregs /\ k \notin m.dmask => VA!Freg(v, k) = m.fregs[k]
         /\ k \in m.dmask => VA!Freg(v, k) = Get(v.callers, 8 * k, 8)
<1>1. /\ \A j \in DOMAIN m.fregs \ m.dmask : Loaded(v, j, m.fregs[j])
      /\ \A j \in m.dmask : Loaded(v, j, Get(v.callers, 8 * j, 8))
  BY DEF Sees, SeesFregs
<1> QED
  BY <1>1 DEF Loaded, VA!Freg

(* What a fetch from a register takes and leaves.                          *)
LEMMA FromFregTaken ==
  ASSUME NEW a, NEW v, NEW w, Moved(v, w), NEW k, NEW n
  PROVE  LET f == VA!FromFreg(a, w, k, n)
         IN  /\ DOMAIN f = {"va", "value"} /\ f.va = w
             /\ f.value = Decoded(a, n, VA!Freg(v, k))
<1>1. VA!Freg(w, k) = VA!Freg(v, k)
  BY DEF VA!Freg, Moved, VA!Junk
<1> QED
  BY <1>1, SameRegisters DEF VA!FromFreg, VA!Fetched, Decoded

LEMMA ValueArrives ==
  ASSUME NEW a, a.cpu \notin RiscV, NEW v, NEW m, Whole(a, m), NEW own, NEW f,
         DOMAIN f = {"va", "value"}, f.value = own, Moved(v, f.va), f.va.aptr = m.aptr,
         Counts(a, m, f.va)
  PROVE  Arrives(a, m, own, v, f)
BY DEF Arrives, Match, Cursor, Counts, Whole, Moved

LEMMA InFregEffect ==
  ASSUME NEW l, IsList(l), NEW bytes, NEW r, r = InFreg(l, bytes, 1), NEW m, m = r.list
  PROVE  /\ IsList(m) /\ r.res = 0 /\ m.fanum = l.fanum + 1
         /\ l.fanum \in DOMAIN m.fregs /\ m.fregs[l.fanum] = bytes
         /\ m.aptr = l.aptr /\ m.anum = l.anum /\ m.ianum = l.ianum /\ m.args = l.args
         /\ m.fmask = l.fmask /\ m.dmask = l.dmask
<1> DEFINE fregs == Marked(l.fregs, l.fanum, bytes)
           x == [l EXCEPT !.fanum = @ + 1, !.fregs = fregs]
<1>1. r = [res |-> 0, list |-> x]
  BY DEF InFreg, Done
<1>2. l.fanum \in DOMAIN fregs /\ fregs[l.fanum] = bytes
  BY DEF Marked, Override
<1> HIDE DEF fregs
<1>3. /\ IsList(x) /\ x.fanum = l.fanum + 1 /\ x.fregs = fregs
      /\ x.aptr = l.aptr /\ x.anum = l.anum /\ x.ianum = l.ianum /\ x.args = l.args
      /\ x.fmask = l.fmask /\ x.dmask = l.dmask
  BY DEF IsList
<1> HIDE DEF x
<1> QED
  BY <1>1, <1>2, <1>3

(* The next register if there is one left, else the stack.                 *)
LEMMA NextFregArrives ==
  ASSUME NEW a, a \in ABISet, a.cpu \in IargCpus, NEW l, NEW v, Ready(a, l, v),
         NEW i, NEW n \in {4, 8}, NEW own, own = Own(i, n), NEW bytes,
         Decoded(a, n, bytes) = own, NEW size \in Nat, size % W(a) = 0,
         NEW at \in Nat, at + n <= size, NEW r, NEW p, p = l.aptr + at,
         l.fanum < FargNum(a) => r = InFreg(l, bytes, 1),
         ~(l.fanum < FargNum(a))
           => HoldsAt(r.list.args, p, own) /\ r.list.aptr = l.aptr + size /\ Stays(l, r.list),
         NEW m, m = r.list, Sees(a, m, v)
  PROVE  Arrives(a, m, own, v, VA!FromNextFreg(a, v, n, size, at)) /\ i = i
<1> DEFINE f == VA!FromNextFreg(a, v, n, size, at)
<1>1. /\ a.cpu \in Cpus /\ a.cpu \in HasIargs /\ W(a) \in {4, 8} /\ a.cpu \in CountsFloats
      /\ a.cpu \notin CountsPlaces \cup RiscV
      /\ a.cpu \notin {"hppa", "hppa64", "armhf", "mips", "alpha"}
  BY IargTypes DEF IargCpus, Arm64, SysV, S390
<1>2. /\ IsList(l) /\ l.aptr \in Int /\ l.aptr % W(a) = 0 /\ v.aptr = l.aptr
      /\ v.ianum = l.ianum /\ v.fanum = l.fanum /\ IsVaList(v) /\ v.anum \in Nat
      /\ v.ianum \in Nat /\ v.fanum \in Nat /\ FargNum(a) \in Nat
  BY <1>1, ListTypes, WordSizes DEF Ready, Match, RegInv, Cursor
<1>3. CASE l.fanum < FargNum(a)
  <2> DEFINE w == [v EXCEPT !.fanum = v.fanum + 1]
  <2>1. f = VA!FromFreg(a, w, v.fanum, n)
    BY <1>2, <1>3, SameRegisters DEF VA!FromNextFreg
  <2>2. Moved(v, w) /\ w.aptr = v.aptr /\ w.ianum = v.ianum /\ w.anum = v.anum
        /\ w.fanum = v.fanum + 1
    BY <1>2 DEF Moved, IsVaList
  <2> HIDE DEF w, f
  <2>3. /\ DOMAIN f = {"va", "value"} /\ f.va = w
        /\ f.value = Decoded(a, n, VA!Freg(v, v.fanum))
    BY <2>1, <2>2, FromFregTaken
  <2>4. /\ m.fanum = l.fanum + 1 /\ l.fanum \in DOMAIN m.fregs
        /\ m.fregs[l.fanum] = bytes /\ m.aptr = l.aptr /\ m.ianum = l.ianum
        /\ m.dmask = l.dmask
    BY <1>2, <1>3, InFregEffect
  <2>5. l.fanum \notin m.dmask
    <3>1. \A k \in l.dmask : k < l.fanum
      BY <1>1 DEF Ready, MarkInv, Pos
    <3> QED
      BY <1>2, <2>4, <3>1
  <2>6. VA!Freg(v, v.fanum) = bytes
    <3>1. l.fanum \in DOMAIN m.fregs /\ l.fanum \notin m.dmask
      BY <2>4, <2>5
    <3>2. VA!Freg(v, l.fanum) = m.fregs[l.fanum]
      BY <1>1, <3>1, FregSeen
    <3> QED
      BY <1>2, <2>4, <3>2
  <2>7. f.value = own /\ Moved(v, f.va) /\ f.va.aptr = m.aptr /\ Whole(a, m)
        /\ Counts(a, m, f.va)
    BY <1>1, <1>2, <2>2, <2>3, <2>4, <2>6 DEF Whole, Counts
  <2>8. Arrives(a, m, own, v, f)
    BY <1>1, <2>3, <2>7, ValueArrives
  <2> QED
    BY <2>8 DEF f
<1>4. CASE ~(l.fanum < FargNum(a))
  <2> DEFINE w == [v EXCEPT !.aptr = v.aptr + size]
  <2>1. p \in Int /\ p = v.aptr + at /\ p + n <= l.aptr + size
        /\ (l.aptr + size) % W(a) = 0 /\ l.aptr + size \in Int /\ n \in Nat
    BY <1>1, <1>2
  <2>2. f = VA!FromMem(w, p, n)
    <3> HIDE DEF w
    <3> QED
      BY <1>2, <1>4, <2>1, SameRegisters DEF VA!FromNextFreg, w
  <2> DEFINE next == l.aptr + size
  <2>3. /\ Reads(v, f, VA!Get(v.mem, p, n), next)
        /\ f.va.ianum = v.ianum /\ f.va.anum = v.anum /\ f.va.fanum = v.fanum
    <3> HIDE DEF f
    <3> QED
      BY <1>2, <2>2 DEF Reads, Moved, VA!FromMem, VA!Fetched, IsVaList
  <2> HIDE DEF f
  <2>4. HoldsAt(m.args, p, own) /\ m.aptr = next /\ Stays(l, m)
    BY <1>4
  <2>5. Counts(a, m, f.va)
    BY <1>1, <1>2, <2>3, <2>4 DEF Counts, Stays
  <2>6. Whole(a, m) /\ NotMarked(a, l, m) /\ p + n <= m.aptr
    BY <1>1, <2>1, <2>4 DEF Whole, NotMarked
  <2> HIDE DEF next
  <2>7. Arrives(a, m, own, v, f)
    BY <1>1, <2>1, <2>3, <2>4, <2>5, <2>6, OwnOnStack
  <2> QED
    BY <2>7 DEF f
<1> QED
  BY <1>3, <1>4

-----------------------------------------------------------------------------
(* The next register if there is one left, and a place on the stack.       *)
TooCpus == PPC64 \cup {"powerpc_aix", "ia64"}

LEMMA TooTypes ==
  ASSUME NEW a, a \in ABISet, a.cpu \in TooCpus
  PROVE  /\ a.cpu \in Cpus /\ W(a) \in {4, 8} /\ a.cpu \in CountsFloats
         /\ W(a) = IF a.cpu = "powerpc_aix" THEN 4 ELSE 8
         /\ a.cpu \notin CountsPlaces \cup RiscV \cup HasIargs \cup SysV
         /\ a.cpu \notin {"hppa", "hppa64", "armhf", "mips", "alpha", "sparc64"}
BY Orders, CpuWords
   DEF TooCpus, PPC64, CountsFloats, FloatsFillRegisters, Arm64, S390, SysV, RiscV,
       CountsPlaces, MipsWide, HasIargs

LEMMA TooEffect ==
  ASSUME NEW a, NEW l, NEW s, IsResult(s), s.res = 0, NEW bytes,
         NEW r, r = AlsoNextFreg(a, s, bytes)
  PROVE  /\ r.res = 0
         /\ ~(s.list.fanum < FargNum(a)) => r = s
         /\ s.list.fanum < FargNum(a) => r.list = InFreg(s.list, bytes, 1).list
BY DEF AlsoNextFreg, IsResult

LEMMA NextFregTooArrives ==
  ASSUME NEW a, a \in ABISet, a.cpu \in TooCpus, NEW l, NEW v, Ready(a, l, v),
         NEW i, NEW n \in {4, 8}, NEW own, own = Own(i, n), NEW bytes,
         Decoded(a, n, bytes) = own, NEW size \in Nat, size % W(a) = 0,
         NEW at \in Nat, at + n <= size, NEW p, p = l.aptr + at,
         NEW s, IsResult(s),
         s.res = 0 => /\ HoldsAt(s.list.args, p, own)
                      /\ s.list.aptr = l.aptr + size /\ Stays(l, s.list),
         NEW r, r = AlsoNextFreg(a, s, bytes), r.res = 0,
         NEW m, m = r.list, Sees(a, m, v)
  PROVE  Arrives(a, m, own, v, VA!FromNextFregToo(a, v, n, size, at)) /\ i = i
<1> DEFINE f == VA!FromNextFregToo(a, v, n, size, at)
           g == VA!FromNextFreg(a, v, n, size, at)
           next == l.aptr + size
<1>1. /\ a.cpu \in Cpus /\ W(a) \in {4, 8} /\ a.cpu \in CountsFloats
      /\ a.cpu \notin CountsPlaces \cup RiscV \cup HasIargs
      /\ a.cpu \notin {"hppa", "hppa64", "armhf", "mips", "alpha"}
  BY TooTypes
<1>2. /\ IsList(l) /\ l.aptr \in Int /\ l.aptr % W(a) = 0 /\ v.aptr = l.aptr
      /\ v.fanum = l.fanum /\ IsVaList(v) /\ v.anum \in Nat
      /\ v.ianum \in Nat /\ v.fanum \in Nat /\ FargNum(a) \in Nat
  BY <1>1, ListTypes, WordSizes DEF Ready, Match, RegInv, Cursor
<1>3. s.res = 0
  BY DEF AlsoNextFreg, IsResult
<1>4. /\ IsList(s.list) /\ s.list.aptr = next /\ s.list.fanum = l.fanum
      /\ s.list.dmask = l.dmask /\ HoldsAt(s.list.args, p, own) /\ Stays(l, s.list)
  BY <1>3 DEF IsResult, Stays
<1>5. f = [g EXCEPT !.va.aptr = next]
  BY <1>2 DEF VA!FromNextFregToo
<1>6. p \in Int /\ p = v.aptr + at /\ p + n <= next /\ next % W(a) = 0 /\ next \in Int
      /\ n \in Nat /\ next = v.aptr + size
  BY <1>1, <1>2
<1> HIDE DEF f, next
<1>7. CASE l.fanum < FargNum(a)
  <2> DEFINE w == [v EXCEPT !.fanum = v.fanum + 1]
  <2>1. g = VA!FromFreg(a, w, v.fanum, n)
    BY <1>2, <1>7, SameRegisters DEF VA!FromNextFreg
  <2>2. Moved(v, w) /\ w.fanum = v.fanum + 1 /\ w.anum = v.anum /\ w.ianum = v.ianum
    BY <1>2 DEF Moved, IsVaList
  <2> HIDE DEF w, g
  <2>3. /\ DOMAIN g = {"va", "value"} /\ g.va = w
        /\ g.value = Decoded(a, n, VA!Freg(v, v.fanum))
    BY <2>1, <2>2, FromFregTaken
  <2>4. /\ DOMAIN f = {"va", "value"} /\ f.value = g.value /\ Moved(v, f.va)
        /\ f.va.aptr = next /\ f.va.fanum = v.fanum + 1 /\ f.va.anum = v.anum
        /\ f.va.ianum = v.ianum
    BY <1>5, <2>2, <2>3 DEF Moved, IsVaList
  <2>5. m = InFreg(s.list, bytes, 1).list
    BY <1>3, <1>4, <1>7, TooEffect
  <2>6. /\ m.fanum = l.fanum + 1 /\ l.fanum \in DOMAIN m.fregs
        /\ m.fregs[l.fanum] = bytes /\ m.aptr = next /\ m.dmask = l.dmask
    BY <1>4, <2>5, InFregEffect
  <2>7. l.fanum \notin m.dmask
    <3>1. \A k \in l.dmask : k < l.fanum
      BY <1>1 DEF Ready, MarkInv, Pos
    <3> QED
      BY <1>2, <2>6, <3>1
  <2>8. VA!Freg(v, v.fanum) = bytes
    <3>1. l.fanum \in DOMAIN m.fregs /\ l.fanum \notin m.dmask
      BY <2>6, <2>7
    <3>2. VA!Freg(v, l.fanum) = m.fregs[l.fanum]
      BY <1>1, <3>1, FregSeen
    <3> QED
      BY <1>2, <2>6, <3>2
  <2>9. f.value = own /\ f.va.aptr = m.aptr /\ Whole(a, m) /\ Counts(a, m, f.va)
    BY <1>1, <1>2, <1>6, <2>3, <2>4, <2>6, <2>8 DEF Whole, Counts
  <2>10. Arrives(a, m, own, v, f)
    BY <1>1, <2>4, <2>9, ValueArrives
  <2> QED
    BY <2>10 DEF f
<1>8. CASE ~(l.fanum < FargNum(a))
  <2> DEFINE w == [v EXCEPT !.aptr = v.aptr + size]
  <2>1. g = VA!FromMem(w, p, n)
    <3> HIDE DEF w
    <3> QED
      BY <1>2, <1>6, <1>8, SameRegisters DEF VA!FromNextFreg, w
  <2>2. m = s.list
    BY <1>3, <1>4, <1>8, TooEffect
  <2>3. g = [va |-> w, value |-> VA!Get(v.mem, p, n)]
    BY <1>2, <2>1 DEF VA!FromMem, VA!Fetched, IsVaList
  <2> HIDE DEF g
  <2>4. /\ Reads(v, f, VA!Get(v.mem, p, n), next)
        /\ f.va.ianum = v.ianum /\ f.va.anum = v.anum /\ f.va.fanum = v.fanum
    BY <1>2, <1>5, <2>3 DEF Reads, Moved, IsVaList
  <2>5. Counts(a, m, f.va)
    BY <1>1, <1>2, <1>4, <2>2, <2>4 DEF Counts, Stays
  <2>6. Whole(a, m) /\ NotMarked(a, l, m) /\ p + n <= m.aptr
    BY <1>1, <1>4, <1>6, <2>2 DEF Whole, NotMarked
  <2>7. Arrives(a, m, own, v, f)
    BY <1>1, <1>4, <1>6, <2>2, <2>4, <2>5, <2>6, OwnOnStack
  <2> QED
    BY <2>7 DEF f
<1> QED
  BY <1>7, <1>8

LEMMA OwnInSlot ==
  ASSUME NEW l, IsList(l), NEW size, NEW at \in Int, NEW i, NEW n \in Nat, NEW own,
         own = Own(i, n), NEW r, r = Slot(l, size, at, own)
  PROVE  /\ IsResult(r) /\ r.res \in {0, -1}
         /\ r.res = 0 => /\ HoldsAt(r.list.args, at, own)
                         /\ r.list.aptr = l.aptr + size /\ Stays(l, r.list)
         /\ i = i /\ n = n
<1>1. Len(own) \in Nat
  BY LengthOwn
<1> QED
  BY <1>1, SlotEffect

-----------------------------------------------------------------------------
(* Floats and doubles that are passed like integers.                       *)
LEMMA WordFloatArrives ==
  ASSUME NEW a, a \in ABISet, a.cpu \in {"i386", "m68k", "sparc", "arm"},
         NEW l, NEW v, Ready(a, l, v), NEW i, NEW own, own = Own(i, 4),
         NEW r, r = av_float(a, l, own), r.res = 0, NEW m, m = r.list, Sees(a, m, v)
  PROVE  Arrives(a, m, own, v, VA!va_arg_float(a, v)) /\ i = i
<1> DEFINE n == 4
<1>1. /\ a.cpu \in Cpus /\ W(a) = n /\ RegInv(a, l) /\ a.cpu \in OneWordCpus
      /\ ~NextInIarg(a, l) /\ n \in Nat /\ 1 <= n
  BY Orders, CpuWords
     DEF OneWordCpus, NextInIarg, HasIargs, Arm64, SysV, S390, Ready
<1>2. r = av_word(a, l, own)
  BY <1>1 DEF av_float, av_word, CountsArguments, MipsWide, PPC64, SysV,
              FloatsFillRegisters, Arm64, RiscV, S390
<1>3. VA!va_arg_float(a, v) = VA!va_arg_adjusted(a, v, n)
  BY DEF VA!va_arg_float, VA!MipsWide, VA!Arm64, VA!SysV, VA!S390, VA!PPC64, VA!RiscV
<1>4. own = Own(i, n)
  OBVIOUS
<1> HIDE DEF n
<1>5. Len(own) = n
  BY <1>1, <1>4, LengthOwn
<1>6. WordPushed(a, l, m, own)
  BY <1>1, <1>2, <1>5, AvWordPushed
<1> DEFINE off == IF a.order = "little" THEN 0 ELSE Len(own) - n
<1>7. off = 0
  BY <1>1, <1>5
<1> HIDE DEF off
<1>8. PartAt(own, off, own, n)
  BY <1>1, <1>4, <1>7, OwnPart
<1>9. PartAt(own, IF a.order = "little" THEN 0 ELSE Len(own) - n, own, n) /\ n <= W(a)
  BY <1>1, <1>8 DEF off
<1>10. Arrives(a, m, own, v, VA!va_arg_adjusted(a, v, n))
  BY <1>1, <1>6, <1>9, WordOnStack
<1> QED
  BY <1>3, <1>10

IsEight(bytes) == Len(bytes) = 8 /\ bytes = [k \in 1..8 |-> bytes[k]]

(* alpha: the first six words of the stack are loaded from.                *)
LEMMA AlphaArrives ==
  ASSUME NEW a, a \in ABISet, a.cpu = "alpha", NEW l, NEW v, Ready(a, l, v),
         NEW i, NEW n \in {4, 8}, NEW own, own = Own(i, n), NEW bytes,
         l.aptr + 8 <= 48 => IsEight(bytes) /\ Decoded(a, n, bytes) = own,
         ~(l.aptr + 8 <= 48) => bytes = own,
         NEW size, size = 8, NEW at \in Int, at = l.aptr,
         NEW r, r = Slot(l, size, at, bytes), r.res = 0, NEW m, m = r.list, Sees(a, m, v),
         NEW up, up = [v EXCEPT !.aptr = v.aptr + 8], NEW f,
         f = VA!ByPlace(a, up, up.aptr <= v.memargptr, v.aptr \div 8, v.aptr, n)
  PROVE  Arrives(a, m, own, v, f) /\ i = i
<1>1. /\ a.cpu \in Cpus /\ W(a) = 8 /\ a.cpu \notin RiscV /\ a.cpu \notin HasIargs
      /\ a.cpu \notin CountsPlaces /\ a.cpu \notin CountsFloats
  BY Orders, CpuWords
     DEF RiscV, HasIargs, Arm64, SysV, S390, CountsPlaces, MipsWide, CountsFloats,
         FloatsFillRegisters, PPC64
<1>2. /\ IsList(l) /\ l.aptr \in Int /\ l.aptr % 8 = 0 /\ v.aptr = l.aptr /\ l.aptr >= 0
      /\ IsVaList(v) /\ v.anum \in Nat /\ v.ianum \in Nat /\ v.fanum \in Nat
  BY <1>1, ListTypes DEF Ready, Match, RegInv, Cursor
<1>3. /\ v.memargptr = 48 /\ \A k \in 0..5 : Loaded(v, k, Get(v.callers, 8 * k, 8))
  BY DEF Sees, SeesFregs, EndOfRegisters
<1>4. /\ IsVaList(up) /\ Moved(v, up) /\ up.aptr = v.aptr + 8 /\ up.anum = v.anum
      /\ up.ianum = v.ianum /\ up.fanum = v.fanum
  BY <1>2 DEF Moved, IsVaList
<1>5. Len(own) = n
  BY LengthOwn
<1>6. Len(bytes) \in Nat
  BY <1>2, <1>5 DEF IsEight
<1>7. /\ HoldsAt(m.args, l.aptr, bytes) /\ m.aptr = l.aptr + 8 /\ Stays(l, m)
  <2>1. IsList(l) /\ at \in Int /\ Len(bytes) \in Nat /\ r = Slot(l, size, at, bytes)
        /\ r.res = 0
    BY <1>2, <1>6
  <2>2. /\ HoldsAt(r.list.args, at, bytes) /\ r.list.aptr = l.aptr + size
        /\ Stays(l, r.list)
    BY ONLY <2>1, SlotEffect
  <2> QED
    BY <2>2
<1>8. /\ Whole(a, m) /\ Counts(a, m, up) /\ NotMarked(a, l, m)
  BY <1>1, <1>2, <1>4, <1>7 DEF Whole, Counts, NotMarked
<1>9. CASE l.aptr + 8 <= 48
  <2> DEFINE j == v.aptr \div 8
             p == 8 * j
             off == 0
             w == 8
  <2>1. j \in 0..5 /\ p = l.aptr /\ p \in Int
    BY <1>2, <1>9
  <2>2. f = VA!FromFreg(a, up, j, n)
    BY <1>2, <1>3, <1>4, <1>9 DEF VA!ByPlace
  <2>3. PartAt(bytes, off, bytes, w) /\ p = at + off /\ at \in Int
    <3>1. /\ bytes = [x \in 1..8 |-> bytes[x]] /\ Len(bytes) = 8
          /\ \A x \in 1..8 : 0 + x = x
      BY <1>2, <1>9 DEF IsEight
    <3> HIDE DEF p, j
    <3>2. p = l.aptr + 0
      BY ONLY <2>1
    <3> HIDE DEF p
    <3> QED
      BY <1>2, <3>1, <3>2 DEF PartAt
  <2>4. HoldsAt(v.callers, at, bytes)
    <3>1. HoldsAt(m.args, at, bytes)
      BY <1>7
    <3> QED
      BY <1>6, <3>1, SeenByPointer
  <2>5. Loaded(v, j, Get(v.callers, p, w))
    BY <1>3, <2>1
  <2> HIDE DEF j, p, off, w
  <2>6. Get(v.callers, p, w) = bytes
    BY ONLY <1>6, <2>3, <2>4, GetHeldAt
  <2>7. VA!Freg(v, j) = bytes
    BY <2>5, <2>6 DEF Loaded, VA!Freg
  <2>8. /\ DOMAIN f = {"va", "value"} /\ f.va = up
        /\ f.value = Decoded(a, n, VA!Freg(v, j))
    BY <1>4, <2>2, FromFregTaken
  <2>9. f.value = own /\ Moved(v, f.va) /\ f.va.aptr = m.aptr /\ Counts(a, m, f.va)
    BY <1>2, <1>4, <1>7, <1>8, <1>9, <2>7, <2>8
  <2> QED
    BY <1>1, <1>8, <2>8, <2>9, ValueArrives
<1>10. CASE ~(l.aptr + 8 <= 48)
  <2>1. f = VA!FromMem(up, v.aptr, n)
    BY <1>2, <1>3, <1>4, <1>10 DEF VA!ByPlace
  <2>2. Reads(v, f, VA!Get(v.mem, v.aptr, n), m.aptr) /\ f.va = up
    <3>1. DOMAIN f = {"va", "value"} /\ f.va = up /\ f.value = VA!Get(up.mem, v.aptr, n)
      BY <2>1 DEF VA!FromMem, VA!Fetched
    <3>2. up.mem = v.mem /\ up.aptr = m.aptr /\ Moved(v, up)
      BY <1>2, <1>4, <1>7 DEF Moved
    <3> QED
      BY <3>1, <3>2 DEF Reads
  <2>3. /\ n \in Nat /\ v.aptr \in Int /\ v.aptr + n <= m.aptr /\ Counts(a, m, f.va)
        /\ HoldsAt(m.args, v.aptr, own)
    BY <1>2, <1>7, <1>8, <1>10, <2>2
  <2> DEFINE p == v.aptr
  <2> HIDE DEF p
  <2>4. /\ Reads(v, f, VA!Get(v.mem, p, n), m.aptr) /\ p \in Int /\ p + n <= m.aptr
        /\ HoldsAt(m.args, p, own)
    BY <2>2, <2>3 DEF p
  <2>5. n \in Nat /\ a.cpu # "hppa" /\ a.cpu # "hppa64"
    OBVIOUS
  <2> QED
    BY <1>1, <1>8, <2>3, <2>4, <2>5, OwnOnStack
<1> QED
  BY <1>9, <1>10

LEMMA IargFetches ==
  ASSUME NEW a, a.cpu \in IargCpus, NEW v
  PROVE  /\ a.cpu \in Arm64 => VA!va_arg_float(a, v) = VA!FromNextFreg(a, v, 4, VA!W(a), 0)
         /\ a.cpu \in SysV => VA!va_arg_float(a, v) = VA!FromNextFreg(a, v, 4, 8, 0)
         /\ a.cpu \in S390
              => VA!va_arg_float(a, v) = VA!FromNextFreg(a, v, 4, VA!W(a), VA!W(a) - 4)
         /\ VA!va_arg_double(a, v) = VA!FromNextFreg(a, v, 8, 8, 0)
BY DEF IargCpus, VA!va_arg_float, VA!va_arg_double, VA!Arm64, VA!MipsWide, VA!SysV, VA!S390,
       VA!PPC64, VA!RiscV, Arm64, SysV, S390

LEMMA IargFloatArrives ==
  ASSUME NEW a, a \in ABISet, a.cpu \in IargCpus, NEW l, NEW v, Ready(a, l, v),
         NEW i, NEW n, n = 4, NEW own, own = Own(i, n),
         NEW r, r = av_float(a, l, own), r.res = 0, NEW m, m = r.list, Sees(a, m, v)
  PROVE  Arrives(a, m, own, v, VA!va_arg_float(a, v)) /\ i = i
<1> DEFINE bytes == IF a.cpu \in SysV THEN Extended(a, own, 8) ELSE own
           size  == W(a)
           at    == IF a.cpu = "s390x" THEN 4 ELSE 0
           p     == l.aptr + at
<1>1. /\ a.cpu \in Cpus /\ IsList(l) /\ l.aptr \in Int /\ W(a) \in {4, 8} /\ n \in {4, 8}
      /\ n \in Nat /\ a.order = IF a.cpu \in S390 THEN "big" ELSE "little"
  BY IargTypes, ListTypes DEF Ready, RegInv
<1>2. at = (IF a.cpu \in S390 THEN W(a) - 4 ELSE 0) /\ W(a) \in {4, 8}
      /\ (a.cpu \in S390 => W(a) = IF a.cpu = "s390x" THEN 8 ELSE 4)
      /\ (a.cpu = "s390x" => a.cpu \in S390)
  BY <1>1, CpuWords DEF S390
<1>3. /\ size \in Nat /\ size % W(a) = 0 /\ at \in Nat /\ at + n <= size /\ p \in Int
      /\ p = l.aptr + at
  BY <1>1, <1>2
<1>4. Decoded(a, n, bytes) = own
  <2>1. CASE a.cpu \in SysV
    <3>1. a.order = "little"
      BY <1>1, <2>1 DEF SysV, S390
    <3>2. Decoded(a, 4, Extended(a, own, 8)) = own
      BY <2>1, <3>1, ExtendedDecoded
    <3> QED
      BY <2>1, <3>2
  <2>2. CASE a.cpu \notin SysV
    <3>1. Decoded(a, n, own) = own
      BY ONLY <1>1, PlainDecoded, own = Own(i, n)
    <3> QED
      BY <2>2, <3>1
  <2> QED
    BY <2>1, <2>2
<1>5. VA!va_arg_float(a, v) = VA!FromNextFreg(a, v, n, size, at)
  <2>1. VA!W(a) = W(a)
    BY SameSizes
  <2>2. /\ a.cpu \in Arm64 => a.cpu \notin S390 \cup SysV
        /\ a.cpu \in SysV => a.cpu \notin S390 /\ W(a) = 8
    BY <1>1, CpuWords DEF Arm64, SysV, S390
  <2>3. a.cpu \in Arm64 \cup S390 \cup SysV
    BY DEF IargCpus
  <2> QED
    BY <1>2, <2>1, <2>2, <2>3, IargFetches
<1> DEFINE s == Slot(l, size, p, own)
<1>6. r = IF l.fanum < FargNum(a) THEN InFreg(l, bytes, 1) ELSE s
  <2>1. CASE a.cpu \in Arm64 \cup S390
    <3>1. a.cpu \notin SysV /\ a.cpu \in FloatsFillRegisters
          /\ a.cpu \notin {"i386", "m68k", "sparc", "arm", "mips", "sparc64", "alpha",
                           "hppa", "hppa64", "armhf", "x86_64_ms"} \cup MipsWide
      BY <2>1 DEF Arm64, S390, SysV, FloatsFillRegisters, MipsWide
    <3>2. av_float(a, l, own) = IF l.fanum < FargNum(a) THEN InFreg(l, own, 1)
                                ELSE Slot(l, W(a), l.aptr + at, own)
      BY <2>1, <3>1
         DEF av_float, PPC64, SysV, FloatsFillRegisters, Arm64, S390, RiscV, MipsWide
    <3> QED
      BY <3>1, <3>2
  <2>2. CASE a.cpu \in SysV
    <3>1. size = 8 /\ p = l.aptr
      BY <1>1, <1>2, <2>2, CpuWords DEF SysV, S390
    <3>2. av_float(a, l, own) = IF l.fanum < FargNum(a) THEN InFreg(l, Extended(a, own, 8), 1)
                                ELSE Slot(l, 8, l.aptr, own)
      BY <2>2 DEF av_float, PPC64, SysV, FloatsFillRegisters, Arm64, S390, RiscV, MipsWide
    <3> QED
      BY <2>2, <3>1, <3>2
  <2> QED
    BY <2>1, <2>2 DEF IargCpus
<1>7. s.res = 0 => HoldsAt(s.list.args, p, own) /\ s.list.aptr = l.aptr + size /\ Stays(l, s.list)
  <2>1. s = Slot(l, size, p, own) /\ own = Own(i, n)
    OBVIOUS
  <2> HIDE DEF s, p, size
  <2> QED
    BY ONLY <1>1, <1>3, <2>1, OwnInSlot
<1> HIDE DEF s, p, size, at, bytes
<1>8. /\ l.fanum < FargNum(a) => r = InFreg(l, bytes, 1)
      /\ ~(l.fanum < FargNum(a)) => HoldsAt(r.list.args, p, own) /\ r.list.aptr = l.aptr + size
                                    /\ Stays(l, r.list)
  BY <1>6, <1>7
<1>9. /\ a \in ABISet /\ a.cpu \in IargCpus /\ Ready(a, l, v) /\ own = Own(i, n) /\ m = r.list
      /\ Sees(a, m, v)
  OBVIOUS
<1>10. Arrives(a, m, own, v, VA!FromNextFreg(a, v, n, size, at))
  BY ONLY <1>1, <1>3, <1>4, <1>8, <1>9, NextFregArrives
<1> QED
  BY <1>5, <1>10

LEMMA IargDoubleArrives ==
  ASSUME NEW a, a \in ABISet, a.cpu \in IargCpus, NEW l, NEW v, Ready(a, l, v),
         NEW i, NEW n, n = 8, NEW own, own = Own(i, n),
         NEW r, r = av_double(a, l, own), r.res = 0, NEW m, m = r.list, Sees(a, m, v)
  PROVE  Arrives(a, m, own, v, VA!va_arg_double(a, v)) /\ i = i
<1> DEFINE size == 8
           at   == 0
           p    == l.aptr + at
           end  == l.aptr + size
           s    == Slot(l, size, p, own)
           e    == Embed(l, end, own)
<1>1. /\ a.cpu \in Cpus /\ IsList(l) /\ l.aptr \in Int /\ W(a) \in {4, 8} /\ n \in {4, 8}
      /\ n \in Nat
  BY IargTypes, ListTypes DEF Ready, RegInv
<1>2. /\ size \in Nat /\ size % W(a) = 0 /\ at \in Nat /\ at + n <= size /\ p \in Int
      /\ p = l.aptr + at /\ end \in Int /\ p = end - n /\ end = l.aptr + size
  BY <1>1
<1>3. Decoded(a, n, own) = own
  BY ONLY <1>1, PlainDecoded, own = Own(i, n)
<1>4. VA!va_arg_double(a, v) = VA!FromNextFreg(a, v, n, size, at)
  BY IargFetches
<1>5. r = IF l.fanum < FargNum(a) THEN InFreg(l, own, 1) ELSE IF a.cpu = "s390" THEN e ELSE s
  <2>1. av_double(a, l, own) = IF l.fanum < FargNum(a) THEN InFreg(l, own, 1)
                               ELSE IF a.cpu = "s390" THEN Embed(l, l.aptr + 8, own)
                               ELSE Slot(l, 8, l.aptr, own)
    BY DEF av_double, IargCpus, FloatsFillRegisters, Arm64, S390, RiscV, SysV, MipsWide, PPC64
  <2>2. p = l.aptr
    BY <1>1
  <2> QED
    BY <2>1, <2>2
<1>6. s.res = 0 => HoldsAt(s.list.args, p, own) /\ s.list.aptr = l.aptr + size /\ Stays(l, s.list)
  <2>1. s = Slot(l, size, p, own) /\ own = Own(i, n)
    OBVIOUS
  <2>2. IsList(l) /\ p \in Int /\ n \in Nat
    BY <1>1, <1>2
  <2> HIDE DEF s, p, size, at, end
  <2> QED
    BY ONLY <1>1, <1>2, <2>1, <2>2, OwnInSlot
<1>7. e.res = 0 => HoldsAt(e.list.args, p, own) /\ e.list.aptr = end /\ Stays(l, e.list)
  <2>1. e = Embed(l, end, own) /\ own = Own(i, n)
    OBVIOUS
  <2> HIDE DEF e, p, end
  <2> QED
    BY ONLY <1>1, <1>2, <2>1, OwnEmbedded
<1> HIDE DEF s, e, p, size, at, end
<1>8. /\ l.fanum < FargNum(a) => r = InFreg(l, own, 1)
      /\ ~(l.fanum < FargNum(a)) => HoldsAt(r.list.args, p, own) /\ r.list.aptr = l.aptr + size
                                    /\ Stays(l, r.list)
  BY <1>2, <1>5, <1>6, <1>7
<1>9. /\ a \in ABISet /\ a.cpu \in IargCpus /\ Ready(a, l, v) /\ own = Own(i, n) /\ m = r.list
      /\ Sees(a, m, v)
  OBVIOUS
<1>10. Arrives(a, m, own, v, VA!FromNextFreg(a, v, n, size, at))
  BY ONLY <1>1, <1>2, <1>3, <1>8, <1>9, NextFregArrives
<1> QED
  BY <1>4, <1>10

(* Where a float lies in its word of the stack.                            *)
FloatAt(a) ==
  IF a.cpu \in PPC64 /\ ~(a.order = "little" \/ a.cc = "vendor") THEN 4 ELSE 0

LEMMA TooFetches ==
  ASSUME NEW a, a.cpu \in TooCpus, NEW v
  PROVE  /\ VA!va_arg_float(a, v)
              = VA!FromNextFregToo(a, v, 4, IF a.cpu = "powerpc_aix" THEN 4 ELSE 8, FloatAt(a))
         /\ VA!va_arg_double(a, v) = VA!FromNextFregToo(a, v, 8, 8, 0)
<1>1. VA!va_arg_double(a, v) = VA!FromNextFregToo(a, v, 8, 8, 0)
  BY DEF TooCpus, VA!va_arg_double, VA!Arm64, VA!MipsWide, VA!SysV, VA!S390,
         VA!PPC64, VA!RiscV, PPC64
<1>2. CASE a.cpu = "powerpc_aix"
  BY <1>1, <1>2 DEF FloatAt, VA!va_arg_float, VA!Arm64, VA!MipsWide, VA!SysV, VA!S390,
         VA!PPC64, VA!RiscV, PPC64
<1>3. CASE a.cpu = "ia64"
  BY <1>1, <1>3 DEF FloatAt, VA!va_arg_float, VA!Arm64, VA!MipsWide, VA!SysV, VA!S390,
         VA!PPC64, VA!RiscV, PPC64
<1>4. CASE a.cpu \in PPC64
  BY <1>1, <1>4 DEF FloatAt, VA!va_arg_float, VA!Arm64, VA!MipsWide, VA!SysV, VA!S390,
         VA!PPC64, VA!RiscV, PPC64
<1> QED
  BY <1>2, <1>3, <1>4 DEF TooCpus

LEMMA TooPushes ==
  ASSUME NEW a, a.cpu \in TooCpus, NEW l, NEW own
  PROVE  /\ av_float(a, l, own)
              = AlsoNextFreg(a, Slot(l, IF a.cpu = "powerpc_aix" THEN W(a) ELSE
                                        IF a.cpu = "ia64" THEN W(a) ELSE 8,
                                     IF a.cpu \in PPC64 THEN l.aptr + FloatAt(a) ELSE l.aptr,
                                     own),
                             AsDouble(own[1][1]))
         /\ av_double(a, l, own)
              = AlsoNextFreg(a, IF a.cpu = "powerpc_aix" THEN Embed(l, l.aptr + 8, own)
                                ELSE Slot(l, 8, l.aptr, own), own)
<1>1. CASE a.cpu = "powerpc_aix"
  BY <1>1 DEF av_float, av_double, FloatsFillRegisters, Arm64, S390, RiscV, SysV, MipsWide, PPC64
<1>2. CASE a.cpu = "ia64"
  BY <1>2 DEF av_float, av_double, FloatsFillRegisters, Arm64, S390, RiscV, SysV, MipsWide, PPC64
<1>3. CASE a.cpu \in PPC64
  <2>1. a.cpu \notin {"powerpc_aix", "ia64"}
    BY <1>3 DEF PPC64
  <2>2. av_float(a, l, own)
          = AlsoNextFreg(a, Slot(l, 8, l.aptr + (IF a.order = "little" \/ a.cc = "vendor"
                                                 THEN 0 ELSE 4), own),
                         AsDouble(own[1][1]))
    BY <1>3 DEF av_float, FloatsFillRegisters, Arm64, S390, RiscV, SysV, MipsWide, PPC64
  <2>3. FloatAt(a) = IF a.order = "little" \/ a.cc = "vendor" THEN 0 ELSE 4
    BY <1>3 DEF FloatAt
  <2>4. av_double(a, l, own) = AlsoNextFreg(a, Slot(l, 8, l.aptr, own), own)
    BY <1>3 DEF av_double, FloatsFillRegisters, Arm64, S390, RiscV, SysV, MipsWide, PPC64
  <2> QED
    BY <1>3, <2>1, <2>2, <2>3, <2>4
<1> QED
  BY <1>1, <1>2, <1>3 DEF TooCpus

LEMMA TooFloatArrives ==
  ASSUME NEW a, a \in ABISet, a.cpu \in TooCpus, NEW l, NEW v, Ready(a, l, v),
         NEW i, NEW n, n = 4, NEW own, own = Own(i, n),
         NEW r, r = av_float(a, l, own), r.res = 0, NEW m, m = r.list, Sees(a, m, v)
  PROVE  Arrives(a, m, own, v, VA!va_arg_float(a, v)) /\ i = i
<1> DEFINE bytes == AsDouble(own[1][1])
           size  == IF a.cpu = "powerpc_aix" THEN 4 ELSE 8
           at    == FloatAt(a)
           p     == l.aptr + at
           s     == Slot(l, size, p, own)
<1>1. /\ a.cpu \in Cpus /\ IsList(l) /\ l.aptr \in Int /\ n \in {4, 8} /\ n \in Nat
      /\ W(a) = size /\ a.cpu \notin SysV \cup {"sparc64"}
  BY TooTypes, ListTypes DEF Ready, RegInv
<1>2. at \in {0, 4} /\ (a.cpu = "powerpc_aix" => at = 0) /\ (a.cpu \notin PPC64 => at = 0)
  BY DEF FloatAt, PPC64
<1>3. /\ size \in Nat /\ size % W(a) = 0 /\ at \in Nat /\ at + n <= size /\ p \in Int
      /\ p = l.aptr + at
  BY <1>1, <1>2
<1>4. Decoded(a, n, bytes) = own
  <2>1. own[1][1] = i
    BY DEF Own, Bytes
  <2> QED
    BY <1>1, <2>1, DoubleDecoded
<1>5. VA!va_arg_float(a, v) = VA!FromNextFregToo(a, v, n, size, at)
  BY TooFetches
<1>6. r = AlsoNextFreg(a, s, bytes)
  <2>1. (IF a.cpu = "powerpc_aix" THEN W(a) ELSE IF a.cpu = "ia64" THEN W(a) ELSE 8) = size
    BY <1>1
  <2>2. (IF a.cpu \in PPC64 THEN l.aptr + FloatAt(a) ELSE l.aptr) = p
    BY <1>1, <1>2
  <2> QED
    BY <2>1, <2>2, TooPushes
<1>7. /\ IsResult(s)
      /\ s.res = 0 => HoldsAt(s.list.args, p, own) /\ s.list.aptr = l.aptr + size
                      /\ Stays(l, s.list)
  <2>1. s = Slot(l, size, p, own) /\ own = Own(i, n)
    OBVIOUS
  <2>2. IsList(l) /\ p \in Int /\ n \in Nat
    BY <1>1, <1>3
  <2> HIDE DEF s, p, size, at
  <2> QED
    BY ONLY <2>1, <2>2, OwnInSlot
<1> HIDE DEF s, p, size, at, bytes
<1>8. /\ a \in ABISet /\ a.cpu \in TooCpus /\ Ready(a, l, v) /\ own = Own(i, n) /\ m = r.list
      /\ Sees(a, m, v) /\ r.res = 0
  OBVIOUS
<1>9. Arrives(a, m, own, v, VA!FromNextFregToo(a, v, n, size, at))
  BY ONLY <1>1, <1>3, <1>4, <1>6, <1>7, <1>8, NextFregTooArrives
<1> QED
  BY <1>5, <1>9

LEMMA TooDoubleArrives ==
  ASSUME NEW a, a \in ABISet, a.cpu \in TooCpus, NEW l, NEW v, Ready(a, l, v),
         NEW i, NEW n, n = 8, NEW own, own = Own(i, n),
         NEW r, r = av_double(a, l, own), r.res = 0, NEW m, m = r.list, Sees(a, m, v)
  PROVE  Arrives(a, m, own, v, VA!va_arg_double(a, v)) /\ i = i
<1> DEFINE size == 8
           at   == 0
           p    == l.aptr + at
           end  == l.aptr + size
           e    == Embed(l, end, own)
           o    == Slot(l, size, p, own)
           s    == IF a.cpu = "powerpc_aix" THEN e ELSE o
<1>1. /\ a.cpu \in Cpus /\ IsList(l) /\ l.aptr \in Int /\ n \in {4, 8} /\ n \in Nat
      /\ W(a) \in {4, 8}
  BY TooTypes, ListTypes DEF Ready, RegInv
<1>2. /\ size \in Nat /\ size % W(a) = 0 /\ at \in Nat /\ at + n <= size /\ p \in Int
      /\ p = l.aptr + at /\ end \in Int /\ p = end - n /\ end = l.aptr + size /\ p = l.aptr
  BY <1>1
<1>3. Decoded(a, n, own) = own
  BY ONLY <1>1, PlainDecoded, own = Own(i, n)
<1>4. VA!va_arg_double(a, v) = VA!FromNextFregToo(a, v, n, size, at)
  BY TooFetches
<1>5. r = AlsoNextFreg(a, s, own)
  BY <1>2, TooPushes
<1>6. /\ IsResult(o)
      /\ o.res = 0 => HoldsAt(o.list.args, p, own) /\ o.list.aptr = l.aptr + size
                      /\ Stays(l, o.list)
  <2>1. o = Slot(l, size, p, own) /\ own = Own(i, n)
    OBVIOUS
  <2>2. IsList(l) /\ p \in Int /\ n \in Nat
    BY <1>1, <1>2
  <2> HIDE DEF s, p, size, at, e, o, end
  <2> QED
    BY ONLY <2>1, <2>2, OwnInSlot
<1>7. /\ IsResult(e)
      /\ e.res = 0 => HoldsAt(e.list.args, p, own) /\ e.list.aptr = end /\ Stays(l, e.list)
  <2>1. e = Embed(l, end, own) /\ own = Own(i, n)
    OBVIOUS
  <2>2. IsList(l) /\ end \in Int /\ n \in Nat /\ p = end - n
    BY <1>1, <1>2
  <2>3. Len(own) = n
    BY <1>1, LengthOwn
  <2>4. Len(own) \in Nat
    BY <1>1, <2>3
  <2> HIDE DEF s, p, size, at, e, o, end
  <2>5. IsResult(e)
    BY ONLY <2>1, <2>2, <2>4, EmbedEffect
  <2>6. e.res = 0 => HoldsAt(e.list.args, p, own) /\ e.list.aptr = end /\ Stays(l, e.list)
    BY ONLY <2>1, <2>2, OwnEmbedded
  <2> QED
    BY <2>5, <2>6
<1>8. /\ IsResult(s)
      /\ s.res = 0 => HoldsAt(s.list.args, p, own) /\ s.list.aptr = l.aptr + size
                      /\ Stays(l, s.list)
  <2> HIDE DEF e, o, size, at, p
  <2> QED
    BY <1>2, <1>6, <1>7
<1> HIDE DEF s, p, size, at, e, o, end
<1>9. /\ a \in ABISet /\ a.cpu \in TooCpus /\ Ready(a, l, v) /\ own = Own(i, n) /\ m = r.list
      /\ Sees(a, m, v) /\ r.res = 0
  OBVIOUS
<1>10. Arrives(a, m, own, v, VA!FromNextFregToo(a, v, n, size, at))
  BY ONLY <1>1, <1>2, <1>3, <1>5, <1>8, <1>9, NextFregTooArrives
<1> QED
  BY <1>4, <1>10

-----------------------------------------------------------------------------
(* The place of an argument decides whether it has a register.             *)
LEMMA PlaceTypes ==
  ASSUME NEW a, a \in ABISet, a.cpu \in CountsPlaces
  PROVE  /\ a.cpu \in Cpus /\ W(a) = 8
         /\ a.cpu \notin RiscV \cup HasIargs \cup CountsFloats
         /\ a.cpu \notin {"hppa", "hppa64", "armhf", "mips", "alpha"}
         /\ FargNum(a) = IF a.cpu = "sparc64" THEN 16 ELSE IF a.cpu = "x86_64_ms" THEN 4 ELSE 8
BY Orders, CpuWords
   DEF CountsPlaces, MipsWide, PPC64, CountsFloats, FloatsFillRegisters, Arm64, S390, SysV,
       RiscV, HasIargs, FargNum

LEMMA AlsoFregEffect ==
  ASSUME NEW s, IsResult(s), s.res \in {0, -1}, NEW c \in BOOLEAN, NEW k, NEW bytes,
         NEW q, q = AlsoFreg(s, c, k, bytes)
  PROVE  /\ IsResult(q) /\ q.res = s.res
         /\ q.list.args = s.list.args /\ q.list.aptr = s.list.aptr
         /\ q.list.anum = s.list.anum /\ q.list.ianum = s.list.ianum
         /\ q.list.fanum = s.list.fanum
         /\ q.list.fmask = s.list.fmask /\ q.list.dmask = s.list.dmask
         /\ c /\ s.res = 0 => k \in DOMAIN q.list.fregs /\ q.list.fregs[k] = bytes
<1> DEFINE fregs == Marked(s.list.fregs, k, bytes)
<1>1. k \in DOMAIN fregs /\ fregs[k] = bytes
  BY DEF Marked, Override
<1>2. q = IF s.res = 0 /\ c THEN [s EXCEPT !.list.fregs = fregs] ELSE s
  BY DEF AlsoFreg
<1> HIDE DEF fregs
<1> QED
  BY <1>1, <1>2 DEF IsResult, IsList

LEMMA AlsoDoubleWordEffect ==
  ASSUME NEW s, IsResult(s), s.res \in {0, -1}, NEW c \in BOOLEAN, NEW k,
         NEW q, q = AlsoDoubleWord(s, c, k)
  PROVE  /\ IsResult(q) /\ q.res = s.res
         /\ q.list.args = s.list.args /\ q.list.aptr = s.list.aptr
         /\ q.list.anum = s.list.anum /\ q.list.ianum = s.list.ianum
         /\ q.list.fanum = s.list.fanum
         /\ q.list.fmask = s.list.fmask /\ q.list.fregs = s.list.fregs
         /\ c /\ s.res = 0 => k \in q.list.dmask
BY DEF AlsoDoubleWord, IsResult, IsList

(* The word is stored, the register marked as far as c.                    *)
PlacePushed(l, m, p, own) ==
  /\ HoldsAt(m.args, p, own) /\ m.aptr = l.aptr + 8 /\ m.anum = l.anum + 1

LEMMA PlaceArrives ==
  ASSUME NEW a, a \in ABISet, a.cpu \in CountsPlaces, NEW l, NEW v, Ready(a, l, v),
         NEW i, NEW n \in {4, 8}, NEW own, own = Own(i, n), NEW at \in Nat, at + n <= 8,
         NEW p, p = v.aptr + at, NEW m, PlacePushed(l, m, p, own), Sees(a, m, v),
         NEW c \in BOOLEAN, c => Decoded(a, n, VA!Freg(v, v.anum)) = own,
         NEW up, up = [v EXCEPT !.aptr = v.aptr + 8],
         NEW f, f = VA!Counted(VA!ByPlace(a, up, c, v.anum, p, n))
  PROVE  Arrives(a, m, own, v, f) /\ i = i
<1> DEFINE g == VA!ByPlace(a, up, c, v.anum, p, n)
<1>1. /\ a.cpu \in Cpus /\ W(a) = 8
      /\ a.cpu \notin RiscV \cup HasIargs \cup CountsFloats
      /\ a.cpu \notin {"hppa", "hppa64", "armhf", "mips", "alpha"}
  BY PlaceTypes
<1>2. /\ l.aptr \in Int /\ l.aptr % 8 = 0 /\ v.aptr = l.aptr /\ v.anum = l.anum
      /\ l.aptr = 8 * l.anum /\ IsVaList(v) /\ v.anum \in Nat /\ v.ianum \in Nat
      /\ v.fanum \in Nat
  BY <1>1, ListTypes DEF Ready, Match, RegInv, Cursor
<1>3. /\ Moved(v, up) /\ up.aptr = v.aptr + 8 /\ up.anum = v.anum
      /\ up.ianum = v.ianum /\ up.fanum = v.fanum /\ IsVaList(up)
  BY <1>2 DEF Moved, IsVaList
<1>4. f = [g EXCEPT !.va.anum = g.va.anum + 1]
  BY DEF VA!Counted
<1>5. /\ DOMAIN g = {"va", "value"} /\ g.va = up
      /\ g.value = IF c THEN own ELSE VA!Get(v.mem, p, n)
  <2>1. CASE c
    <3>1. g = VA!FromFreg(a, up, v.anum, n)
      BY <2>1 DEF VA!ByPlace
    <3> HIDE DEF g
    <3>2. /\ DOMAIN g = {"va", "value"} /\ g.va = up
          /\ g.value = Decoded(a, n, VA!Freg(v, v.anum))
      BY <1>3, <3>1, FromFregTaken
    <3> QED
      BY <2>1, <3>2
  <2>2. CASE ~c
    <3>1. g = VA!FromMem(up, p, n)
      BY <2>2 DEF VA!ByPlace
    <3> HIDE DEF g
    <3> QED
      BY <1>3, <2>2, <3>1 DEF VA!FromMem, VA!Fetched, Moved
  <2> QED
    BY <2>1, <2>2
<1> HIDE DEF g
<1>6. /\ DOMAIN f = {"va", "value"} /\ f.value = g.value /\ Moved(v, f.va)
      /\ f.va.aptr = v.aptr + 8 /\ f.va.anum = v.anum + 1
      /\ f.va.ianum = v.ianum /\ f.va.fanum = v.fanum
  <2>1. /\ DOMAIN f = {"va", "value"} /\ f.value = g.value
        /\ f.va = [up EXCEPT !.anum = up.anum + 1]
    BY <1>4, <1>5
  <2>2. /\ IsVaList(f.va) /\ f.va.mem = up.mem /\ f.va.iargs = up.iargs
        /\ f.va.fregs = up.fregs /\ f.va.callers = up.callers
        /\ f.va.memargptr = up.memargptr /\ f.va.aptr = up.aptr
        /\ f.va.anum = up.anum + 1 /\ f.va.ianum = up.ianum /\ f.va.fanum = up.fanum
    BY ONLY <1>3, <2>1 DEF IsVaList
  <2>3. Moved(v, f.va)
    BY ONLY <1>3, <2>2 DEF Moved
  <2> QED
    BY <1>3, <2>1, <2>2, <2>3
<1>7. /\ m.aptr = l.aptr + 8 /\ m.anum = l.anum + 1 /\ HoldsAt(m.args, p, own)
  BY DEF PlacePushed
<1>8. Counts(a, m, f.va) /\ Whole(a, m) /\ NotMarked(a, l, m) /\ f.va.aptr = m.aptr
  <2>1. f.va.aptr = m.aptr /\ Whole(a, m)
    BY <1>1, <1>2, <1>6, <1>7 DEF Whole
  <2>2. f.va.anum = m.anum /\ m.aptr = 8 * m.anum
    BY <1>2, <1>6, <1>7
  <2>3. f.va.anum \in Nat /\ f.va.ianum \in Nat /\ f.va.fanum \in Nat
    BY <1>2, <1>6
  <2>4. Counts(a, m, f.va) /\ NotMarked(a, l, m)
    BY ONLY <1>1, <2>2, <2>3 DEF Counts, NotMarked
  <2> QED
    BY <2>1, <2>4
<1>9. CASE c
  <2>1. f.value = own
    BY <1>5, <1>6, <1>9
  <2> QED
    BY ONLY <1>1, <1>6, <1>8, <2>1, ValueArrives
<1>10. CASE ~c
  <2>1. Reads(v, f, VA!Get(v.mem, p, n), m.aptr)
    BY <1>5, <1>6, <1>8, <1>10 DEF Reads
  <2>2. p \in Int /\ p + n <= m.aptr /\ n \in Nat /\ a.cpu # "hppa" /\ a.cpu # "hppa64"
        /\ a.cpu \notin RiscV
    <3>1. v.aptr \in Int /\ at \in Nat /\ n \in Nat /\ at + n <= 8 /\ p = v.aptr + at
          /\ m.aptr = v.aptr + 8
      BY <1>2, <1>7
    <3>2. p \in Int /\ p + n <= m.aptr
      BY ONLY <3>1
    <3> QED
      BY <1>1, <3>1, <3>2
  <2>3. Ready(a, l, v) /\ Sees(a, m, v) /\ own = Own(i, n)
    OBVIOUS
  <2> QED
    BY ONLY <1>1, <1>7, <1>8, <2>1, <2>2, <2>3, OwnOnStack
<1> QED
  BY <1>9, <1>10

LEMMA PlaceFregPushed ==
  ASSUME NEW a, a \in ABISet, a.cpu \in CountsPlaces, NEW l, NEW v, Ready(a, l, v),
         NEW i, NEW n \in {4, 8}, NEW own, own = Own(i, n), NEW size, size = 8, NEW p \in Int,
         NEW c \in BOOLEAN, NEW k, k = l.anum,
         NEW r, r = Counted(AlsoFreg(Slot(l, size, p, own), c, k, own)),
         r.res = 0, NEW m, m = r.list, Sees(a, m, v)
  PROVE  PlacePushed(l, m, p, own) /\ (c => Decoded(a, n, VA!Freg(v, v.anum)) = own) /\ i = i
<1> DEFINE s == Slot(l, size, p, own)
           q == AlsoFreg(s, c, k, own)
<1>1. /\ IsList(l) /\ n \in Nat /\ v.anum = l.anum /\ l.anum \in Nat
      /\ a.cpu \notin {"hppa", "hppa64", "alpha"}
  <2>1. a.cpu \in Cpus /\ a.cpu \notin {"hppa", "hppa64", "alpha"}
    BY PlaceTypes
  <2>2. RegInv(a, l) /\ Match(a, l, v)
    BY DEF Ready
  <2>3. l.anum \in Nat /\ IsList(l)
    BY ONLY <2>1, <2>2, ListTypes DEF RegInv
  <2>4. v.anum = l.anum /\ l.aptr = 8 * l.anum
    BY <2>2 DEF Match
  <2> QED
    BY <2>1, <2>3, <2>4
<1>2. s = Slot(l, size, p, own) /\ q = AlsoFreg(s, c, k, own) /\ r = Counted(q)
      /\ p \in Int /\ own = Own(i, n) /\ c \in BOOLEAN /\ r.res = 0 /\ m = r.list
      /\ n \in {4, 8} /\ Sees(a, m, v) /\ size = 8 /\ k = l.anum
  OBVIOUS
<1> HIDE DEF s, q
<1>3. /\ IsResult(s) /\ s.res \in {0, -1}
      /\ s.res = 0 => /\ HoldsAt(s.list.args, p, own)
                      /\ s.list.aptr = l.aptr + size /\ Stays(l, s.list)
  <2>1. IsList(l) /\ p \in Int /\ n \in Nat /\ own = Own(i, n) /\ s = Slot(l, size, p, own)
    BY <1>1, <1>2
  <2>2. IsResult(s) /\ s.res \in {0, -1}
    BY ONLY <2>1, OwnInSlot
  <2>3. s.res = 0 => /\ HoldsAt(s.list.args, p, own)
                     /\ s.list.aptr = l.aptr + size /\ Stays(l, s.list)
    BY ONLY <2>1, OwnInSlot
  <2> QED
    BY ONLY <2>2, <2>3
<1>4. /\ IsResult(q) /\ q.res = s.res
      /\ q.list.args = s.list.args /\ q.list.aptr = s.list.aptr
      /\ q.list.anum = s.list.anum /\ q.list.dmask = s.list.dmask
      /\ c /\ s.res = 0 => k \in DOMAIN q.list.fregs /\ q.list.fregs[k] = own
  BY ONLY <1>2, <1>3, AlsoFregEffect
<1>5. /\ IsResult(r) /\ r.res = q.res
      /\ q.res = 0 => /\ r.list.args = q.list.args /\ r.list.aptr = q.list.aptr
                      /\ r.list.anum = q.list.anum + 1
                      /\ r.list.fregs = q.list.fregs /\ r.list.dmask = q.list.dmask
  BY ONLY <1>2, <1>3, <1>4, CountedEffect
<1>6. s.res = 0 /\ q.res = 0
  BY ONLY <1>2, <1>4, <1>5
<1>7. PlacePushed(l, m, p, own) /\ m.fregs = q.list.fregs /\ m.dmask = l.dmask
  BY ONLY <1>2, <1>3, <1>4, <1>5, <1>6 DEF PlacePushed, Stays
<1>8. ASSUME c PROVE Decoded(a, n, VA!Freg(v, v.anum)) = own
  <2>1. k \in DOMAIN m.fregs /\ m.fregs[k] = own
    BY <1>4, <1>6, <1>7, <1>8
  <2>2. k \notin m.dmask
    <3>1. \A j \in l.dmask : j < l.anum
      BY <1>1 DEF Ready, MarkInv, Pos
    <3> QED
      BY ONLY <1>1, <1>2, <1>7, <3>1
  <2>3. VA!Freg(v, k) = m.fregs[k]
    BY ONLY <1>1, <1>2, <2>1, <2>2, FregSeen
  <2>4. Decoded(a, n, own) = own
    BY ONLY <1>2, PlainDecoded
  <2> QED
    BY ONLY <1>1, <1>2, <2>1, <2>3, <2>4
<1> QED
  BY <1>7, <1>8

(* What is loaded from the word in which own is stored.                    *)
LEMMA WordDecoded ==
  ASSUME NEW a, NEW i, NEW n \in {4, 8}, NEW own, own = Own(i, n), NEW at,
         (n = 8 /\ at = 0) \/ (n = 4 /\ at = 4 /\ a.cpu = "sparc64"), NEW mem, NEW x \in Int,
         NEW p, p = x + at, HoldsAt(mem, p, own)
  PROVE  Decoded(a, n, Get(mem, x, 8)) = own /\ i = i
<1>1. Len(own) = n /\ own = [k \in 1..n |-> own[k]]
  BY LengthOwn DEF Own, Bytes
<1>2. \A k \in 1..n : p + k - 1 \in DOMAIN mem /\ mem[p + k - 1] = own[k]
  BY <1>1 DEF HoldsAt
<1> DEFINE w == Get(mem, x, 8)
<1>3. w = [k \in 1..8 |-> w[k]]
  BY DEF Get
<1>4. \A k \in 1..8 : w[k] = IF x + k - 1 \in DOMAIN mem THEN mem[x + k - 1] ELSE Junk
  BY DEF Get
<1> HIDE DEF w
<1>5. Len(w) = 8
  BY <1>3, FiniteSequence
<1>6. CASE n = 8 /\ at = 0
  <2>1. \A k \in 1..8 : w[k] = own[k]
    BY <1>2, <1>4, <1>6
  <2>2. w = own
    BY <1>1, <1>3, <1>6, <2>1
  <2> QED
    BY <1>5, <1>6, <2>2 DEF Decoded, Full, w
<1>7. CASE n = 4 /\ at = 4 /\ a.cpu = "sparc64"
  <2>1. SubSeq(w, 5, 8) = [k \in 1..4 |-> w[k + 4]]
    <3>1. SubSeq(w, 5, 8) = [k \in 1..4 |-> w[k + 5 - 1]]
      OBVIOUS
    <3>2. \A k \in 1..4 : k + 5 - 1 = k + 4
      OBVIOUS
    <3> QED
      BY <3>1, <3>2
  <2>2. \A k \in 1..4 : w[k + 4] = own[k]
    <3>1. ASSUME NEW k \in 1..4 PROVE w[k + 4] = own[k]
      <4>1. k + 4 \in 1..8 /\ x + (k + 4) - 1 = p + k - 1
        BY <1>7
      <4> QED
        BY <1>2, <1>4, <1>7, <4>1
    <3> QED
      BY <3>1
  <2>3. SubSeq(w, 5, 8) = own
    BY <1>1, <1>7, <2>1, <2>2
  <2>4. Single(a, w) = own
    BY <1>5, <1>7, <2>3 DEF Single, SysV
  <2> QED
    BY <1>7, <2>4 DEF Decoded, w
<1> QED
  BY <1>6, <1>7

LEMMA PlaceWordPushed ==
  ASSUME NEW a, a \in ABISet, a.cpu \in CountsPlaces, NEW l, NEW v, Ready(a, l, v),
         NEW i, NEW n \in {4, 8}, NEW own, own = Own(i, n), NEW size, size = 8, NEW at,
         (n = 8 /\ at = 0) \/ (n = 4 /\ at = 4 /\ a.cpu = "sparc64"), NEW p, p = l.aptr + at,
         NEW c \in BOOLEAN, NEW k, k = l.anum,
         NEW r, r = Counted(AlsoDoubleWord(Slot(l, size, p, own), c, k)),
         r.res = 0, NEW m, m = r.list, Sees(a, m, v)
  PROVE  PlacePushed(l, m, p, own) /\ (c => Decoded(a, n, VA!Freg(v, v.anum)) = own) /\ i = i
<1> DEFINE s == Slot(l, size, p, own)
           q == AlsoDoubleWord(s, c, k)
           x == 8 * k
<1>1. /\ IsList(l) /\ n \in Nat /\ v.anum = l.anum /\ l.anum \in Nat /\ l.aptr = 8 * l.anum
      /\ a.cpu \notin {"hppa", "hppa64", "alpha"}
  <2>1. a.cpu \in Cpus /\ a.cpu \notin {"hppa", "hppa64", "alpha"}
    BY PlaceTypes
  <2>2. RegInv(a, l) /\ Match(a, l, v)
    BY DEF Ready
  <2>3. l.anum \in Nat /\ IsList(l)
    BY ONLY <2>1, <2>2, ListTypes DEF RegInv
  <2>4. v.anum = l.anum /\ l.aptr = 8 * l.anum
    BY <2>2 DEF Match
  <2> QED
    BY <2>1, <2>3, <2>4
<1>2. s = Slot(l, size, p, own) /\ q = AlsoDoubleWord(s, c, k) /\ r = Counted(q)
      /\ p \in Int /\ own = Own(i, n) /\ c \in BOOLEAN /\ r.res = 0 /\ m = r.list
      /\ n \in {4, 8} /\ Sees(a, m, v) /\ size = 8 /\ k = l.anum /\ x \in Int /\ p = x + at
      /\ ((n = 8 /\ at = 0) \/ (n = 4 /\ at = 4 /\ a.cpu = "sparc64")) /\ x = 8 * k
  BY <1>1
<1> HIDE DEF s, q, x
<1>3. /\ IsResult(s) /\ s.res \in {0, -1}
      /\ s.res = 0 => /\ HoldsAt(s.list.args, p, own)
                      /\ s.list.aptr = l.aptr + size /\ Stays(l, s.list)
  <2>1. IsList(l) /\ p \in Int /\ n \in Nat /\ own = Own(i, n) /\ s = Slot(l, size, p, own)
    BY <1>1, <1>2
  <2>2. IsResult(s) /\ s.res \in {0, -1}
    BY ONLY <2>1, OwnInSlot
  <2>3. s.res = 0 => /\ HoldsAt(s.list.args, p, own)
                     /\ s.list.aptr = l.aptr + size /\ Stays(l, s.list)
    BY ONLY <2>1, OwnInSlot
  <2> QED
    BY ONLY <2>2, <2>3
<1>4. /\ IsResult(q) /\ q.res = s.res
      /\ q.list.args = s.list.args /\ q.list.aptr = s.list.aptr
      /\ q.list.anum = s.list.anum
      /\ c /\ s.res = 0 => k \in q.list.dmask
  BY ONLY <1>2, <1>3, AlsoDoubleWordEffect
<1>5. /\ IsResult(r) /\ r.res = q.res
      /\ q.res = 0 => /\ r.list.args = q.list.args /\ r.list.aptr = q.list.aptr
                      /\ r.list.anum = q.list.anum + 1 /\ r.list.dmask = q.list.dmask
  BY ONLY <1>2, <1>3, <1>4, CountedEffect
<1>6. s.res = 0 /\ q.res = 0
  BY ONLY <1>2, <1>4, <1>5
<1>7. PlacePushed(l, m, p, own)
  BY ONLY <1>2, <1>3, <1>4, <1>5, <1>6 DEF PlacePushed, Stays
<1>8. ASSUME c PROVE Decoded(a, n, VA!Freg(v, v.anum)) = own
  <2>1. k \in m.dmask
    BY ONLY <1>2, <1>4, <1>5, <1>6, <1>8
  <2>2. VA!Freg(v, k) = Get(v.callers, 8 * k, 8)
    BY ONLY <1>1, <1>2, <2>1, FregSeen
  <2>3. Len(own) = n
    BY ONLY <1>1, <1>2, LengthOwn
  <2>4. Len(own) \in Nat /\ HoldsAt(m.args, p, own)
    BY ONLY <1>1, <1>7, <2>3 DEF PlacePushed
  <2>5. HoldsAt(v.callers, p, own)
    BY ONLY <1>2, <2>4, SeenByPointer
  <2>6. Decoded(a, n, Get(v.callers, x, 8)) = own
    <3>1. /\ n \in {4, 8} /\ own = Own(i, n) /\ x \in Int /\ p = x + at
          /\ ((n = 8 /\ at = 0) \/ (n = 4 /\ at = 4 /\ a.cpu = "sparc64"))
      BY <1>2
    <3> DEFINE mem == v.callers
    <3>2. HoldsAt(mem, p, own)
      BY <2>5
    <3> HIDE DEF mem
    <3>3. Decoded(a, n, Get(mem, x, 8)) = own
      BY ONLY <3>1, <3>2, WordDecoded
    <3> QED
      BY <3>3 DEF mem
  <2> QED
    BY ONLY <1>1, <1>2, <2>2, <2>6
<1> QED
  BY <1>7, <1>8

LEMMA PlaceFetches ==
  ASSUME NEW a, a.cpu \in CountsPlaces, NEW v, NEW up, up = [v EXCEPT !.aptr = v.aptr + 8]
  PROVE  /\ VA!va_arg_float(a, v)
              = VA!Counted(VA!ByPlace(a, up, v.anum < (IF a.cpu = "sparc64" THEN 16 ELSE FargNum(a)),
                                      v.anum, IF a.cpu = "sparc64" THEN v.aptr + 4 ELSE v.aptr, 4))
         /\ VA!va_arg_double(a, v)
              = VA!Counted(VA!ByPlace(a, up, v.anum < FargNum(a), v.anum, v.aptr, 8))
<1>1. VA!FargNum(a) = FargNum(a)
  BY SameRegisters
<1>2. VA!AlignDouble(a, v) = v
  BY DEF CountsPlaces, MipsWide, VA!AlignDouble
<1>3. VA!va_arg_double(a, v)
        = VA!Counted(VA!ByPlace(a, up, v.anum < FargNum(a), v.anum, v.aptr, 8))
  BY <1>1, <1>2 DEF CountsPlaces, MipsWide, VA!va_arg_double, VA!Arm64, VA!MipsWide, VA!SysV,
                    VA!S390, VA!PPC64, VA!RiscV
<1>4. CASE a.cpu = "sparc64"
  BY <1>3, <1>4 DEF VA!va_arg_float, VA!Arm64, VA!MipsWide, VA!SysV, VA!S390, VA!PPC64, VA!RiscV
<1>5. CASE a.cpu \in MipsWide \cup {"x86_64_ms"}
  <2>1. a.cpu # "sparc64"
    BY <1>5 DEF MipsWide
  <2>2. VA!va_arg_float(a, v)
          = VA!Counted(VA!ByPlace(a, up, v.anum < FargNum(a), v.anum, v.aptr, 4))
    BY <1>1, <1>5 DEF MipsWide, VA!va_arg_float, VA!Arm64, VA!MipsWide, VA!SysV, VA!S390,
                      VA!PPC64, VA!RiscV
  <2> QED
    BY <1>3, <2>1, <2>2
<1> QED
  BY <1>4, <1>5 DEF CountsPlaces

LEMMA PlacePushes ==
  ASSUME NEW a, a.cpu \in CountsPlaces, NEW l, NEW own
  PROVE  /\ a.cpu # "sparc64" => av_float(a, l, own)
              = Counted(AlsoFreg(Slot(l, 8, l.aptr, own), l.anum < FargNum(a), l.anum, own))
         /\ a.cpu = "sparc64" => av_float(a, l, own)
              = Counted(AlsoDoubleWord(Slot(l, 8, l.aptr + 4, own), l.anum < 16, l.anum))
         /\ a.cpu # "x86_64_ms" => av_double(a, l, own)
              = Counted(AlsoDoubleWord(Slot(l, 8, l.aptr, own), l.anum < FargNum(a), l.anum))
         /\ a.cpu = "x86_64_ms" => av_double(a, l, own)
              = Counted(AlsoFreg(Slot(l, 8, l.aptr, own), l.anum < 4, l.anum, own))
<1>1. CASE a.cpu = "sparc64"
  BY <1>1 DEF av_float, av_double, FloatsFillRegisters, Arm64, S390, RiscV, SysV, MipsWide, PPC64
<1>2. CASE a.cpu = "x86_64_ms"
  BY <1>2 DEF av_float, av_double, FloatsFillRegisters, Arm64, S390, RiscV, SysV, MipsWide, PPC64
<1>3. CASE a.cpu \in MipsWide
  <2>1. a.cpu # "sparc64" /\ a.cpu # "x86_64_ms"
    BY <1>3 DEF MipsWide
  <2>2. av_float(a, l, own)
          = Counted(AlsoFreg(Slot(l, 8, l.aptr, own), l.anum < FargNum(a), l.anum, own))
    BY <1>3 DEF av_float, FloatsFillRegisters, Arm64, S390, RiscV, SysV, MipsWide, PPC64
  <2>3. av_double(a, l, own)
          = Counted(AlsoDoubleWord(Slot(l, 8, l.aptr, own), l.anum < FargNum(a), l.anum))
    BY <1>3 DEF av_double, FloatsFillRegisters, Arm64, S390, RiscV, SysV, MipsWide, PPC64
  <2> QED
    BY <2>1, <2>2, <2>3
<1> QED
  BY <1>1, <1>2, <1>3 DEF CountsPlaces

LEMMA PlaceCursor ==
  ASSUME NEW a, a \in ABISet, a.cpu \in CountsPlaces, NEW l, NEW v, Ready(a, l, v)
  PROVE  l.aptr \in Int /\ v.aptr = l.aptr /\ v.anum = l.anum /\ v.anum \in Nat
<1>1. a.cpu \in Cpus /\ a.cpu \notin RiscV
  BY PlaceTypes
<1> QED
  BY <1>1, ListTypes DEF Ready, Match, Cursor

LEMMA PlaceFloatArrives ==
  ASSUME NEW a, a \in ABISet, a.cpu \in CountsPlaces, NEW l, NEW v, Ready(a, l, v),
         NEW i, NEW n, n = 4, NEW own, own = Own(i, n),
         NEW r, r = av_float(a, l, own), r.res = 0, NEW m, m = r.list, Sees(a, m, v)
  PROVE  Arrives(a, m, own, v, VA!va_arg_float(a, v)) /\ i = i
<1> DEFINE top == FargNum(a)
           c   == l.anum < top
           at  == IF a.cpu = "sparc64" THEN 4 ELSE 0
           p   == l.aptr + at
           k   == l.anum
           size == 8
           up  == [v EXCEPT !.aptr = v.aptr + 8]
           f   == VA!va_arg_float(a, v)
<1>1. l.aptr \in Int /\ v.aptr = l.aptr /\ v.anum = l.anum /\ (a.cpu = "sparc64" => top = 16)
  BY PlaceCursor, PlaceTypes
<1>2. /\ p \in Int /\ p = v.aptr + at /\ p = l.aptr + at /\ at \in Nat /\ at + n <= 8
      /\ c \in BOOLEAN /\ k = l.anum /\ size = 8 /\ n \in {4, 8} /\ own = Own(i, n)
      /\ (IF a.cpu = "sparc64" THEN l.aptr + 4 ELSE l.aptr) = p /\ up = [v EXCEPT !.aptr = v.aptr + 8]
      /\ a \in ABISet /\ a.cpu \in CountsPlaces /\ Ready(a, l, v) /\ Sees(a, m, v) /\ m = r.list
      /\ r.res = 0 /\ (a.cpu = "sparc64" => n = 4 /\ at = 4)
  BY <1>1
<1>3. f = VA!Counted(VA!ByPlace(a, up, c, v.anum, p, n))
  <2>1. /\ (v.anum < (IF a.cpu = "sparc64" THEN 16 ELSE FargNum(a))) = c
        /\ (IF a.cpu = "sparc64" THEN v.aptr + 4 ELSE v.aptr) = p
    BY <1>1
  <2> QED
    BY <2>1, PlaceFetches
<1>4. /\ a.cpu # "sparc64" => r = Counted(AlsoFreg(Slot(l, size, p, own), c, k, own))
      /\ a.cpu = "sparc64" => r = Counted(AlsoDoubleWord(Slot(l, size, p, own), c, k))
  <2>1. a.cpu # "sparc64" => p = l.aptr
    BY <1>1
  <2>2. a.cpu = "sparc64" => p = l.aptr + 4 /\ c = (l.anum < 16)
    BY <1>1
  <2> QED
    BY <2>1, <2>2, PlacePushes
<1> HIDE DEF top, c, at, p, k, size, up, f
<1>5. PlacePushed(l, m, p, own) /\ (c => Decoded(a, n, VA!Freg(v, v.anum)) = own)
  <2>1. CASE a.cpu # "sparc64"
    <3>1. r = Counted(AlsoFreg(Slot(l, size, p, own), c, k, own))
      BY <1>4, <2>1
    <3> QED
      BY ONLY <1>2, <3>1, PlaceFregPushed
  <2>2. CASE a.cpu = "sparc64"
    <3>1. /\ r = Counted(AlsoDoubleWord(Slot(l, size, p, own), c, k))
          /\ (n = 8 /\ at = 0) \/ (n = 4 /\ at = 4 /\ a.cpu = "sparc64")
      BY <1>2, <1>4, <2>2
    <3> QED
      BY ONLY <1>2, <3>1, PlaceWordPushed
  <2> QED
    BY <2>1, <2>2
<1>6. Arrives(a, m, own, v, f)
  BY ONLY <1>2, <1>3, <1>5, PlaceArrives
<1> QED
  BY <1>6 DEF f

LEMMA PlaceDoubleArrives ==
  ASSUME NEW a, a \in ABISet, a.cpu \in CountsPlaces, NEW l, NEW v, Ready(a, l, v),
         NEW i, NEW n, n = 8, NEW own, own = Own(i, n),
         NEW r, r = av_double(a, l, own), r.res = 0, NEW m, m = r.list, Sees(a, m, v)
  PROVE  Arrives(a, m, own, v, VA!va_arg_double(a, v)) /\ i = i
<1> DEFINE top == FargNum(a)
           c   == l.anum < top
           at  == 0
           p   == l.aptr + at
           k   == l.anum
           size == 8
           up  == [v EXCEPT !.aptr = v.aptr + 8]
           f   == VA!va_arg_double(a, v)
<1>1. l.aptr \in Int /\ v.aptr = l.aptr /\ v.anum = l.anum /\ (a.cpu = "x86_64_ms" => top = 4)
  BY PlaceCursor, PlaceTypes
<1>2. /\ p \in Int /\ p = v.aptr + at /\ p = l.aptr + at /\ at \in Nat /\ at + n <= 8
      /\ c \in BOOLEAN /\ k = l.anum /\ size = 8 /\ n \in {4, 8} /\ own = Own(i, n)
      /\ p = l.aptr /\ up = [v EXCEPT !.aptr = v.aptr + 8]
      /\ a \in ABISet /\ a.cpu \in CountsPlaces /\ Ready(a, l, v) /\ Sees(a, m, v) /\ m = r.list
      /\ r.res = 0 /\ n = 8 /\ at = 0
  BY <1>1
<1>3. f = VA!Counted(VA!ByPlace(a, up, c, v.anum, p, n))
  BY <1>1, <1>2, PlaceFetches
<1>4. /\ a.cpu = "x86_64_ms" => r = Counted(AlsoFreg(Slot(l, size, p, own), c, k, own))
      /\ a.cpu # "x86_64_ms" => r = Counted(AlsoDoubleWord(Slot(l, size, p, own), c, k))
  BY <1>1, <1>2, PlacePushes
<1> HIDE DEF top, c, at, p, k, size, up, f
<1>5. PlacePushed(l, m, p, own) /\ (c => Decoded(a, n, VA!Freg(v, v.anum)) = own)
  <2>1. CASE a.cpu = "x86_64_ms"
    <3>1. r = Counted(AlsoFreg(Slot(l, size, p, own), c, k, own))
      BY <1>4, <2>1
    <3> QED
      BY ONLY <1>2, <3>1, PlaceFregPushed
  <2>2. CASE a.cpu # "x86_64_ms"
    <3>1. /\ r = Counted(AlsoDoubleWord(Slot(l, size, p, own), c, k))
          /\ (n = 8 /\ at = 0) \/ (n = 4 /\ at = 4 /\ a.cpu = "sparc64")
      BY <1>2, <1>4, <2>2
    <3> QED
      BY ONLY <1>2, <3>1, PlaceWordPushed
  <2> QED
    BY <2>1, <2>2
<1>6. Arrives(a, m, own, v, f)
  BY ONLY <1>2, <1>3, <1>5, PlaceArrives
<1> QED
  BY <1>6 DEF f

LEMMA FetchedGroups ==
  ASSUME NEW a, a.cpu \in FetchedCpus
  PROVE  \/ a.cpu \in {"i386", "m68k", "sparc", "arm"} \/ a.cpu = "alpha"
         \/ a.cpu \in IargCpus \/ a.cpu \in TooCpus \/ a.cpu \in CountsPlaces
BY DEF FetchedCpus, Cpus, Cpus32, LongIs64, RiscV, IargCpus, TooCpus, CountsPlaces, MipsWide,
       Arm64, S390, SysV, PPC64

LEMMA AlphaFloatArrives ==
  ASSUME NEW a, a \in ABISet, a.cpu = "alpha", NEW l, NEW v, Ready(a, l, v),
         NEW i, NEW n, n = 4, NEW own, own = Own(i, n),
         NEW r, r = av_float(a, l, own), r.res = 0, NEW m, m = r.list, Sees(a, m, v)
  PROVE  Arrives(a, m, own, v, VA!va_arg_float(a, v)) /\ i = i
<1> DEFINE dbl   == AsDouble(own[1][1])
           bytes == IF l.aptr + 8 > 48 THEN own ELSE dbl
           size  == 8
           at    == l.aptr
           up    == [v EXCEPT !.aptr = v.aptr + 8]
           f     == VA!va_arg_float(a, v)
<1>1. RegInv(a, l) /\ a.cpu \in Cpus
  BY Orders DEF Ready
<1>2. at \in Int /\ at = l.aptr /\ size = 8 /\ n \in {4, 8} /\ up = [v EXCEPT !.aptr = v.aptr + 8]
  BY <1>1, ListTypes
<1>3. r = Slot(l, size, at, bytes)
  BY DEF av_float, MipsWide, FloatsFillRegisters, Arm64, S390, RiscV, SysV, PPC64
<1>4. f = VA!ByPlace(a, up, up.aptr <= v.memargptr, v.aptr \div 8, v.aptr, n)
  BY DEF VA!va_arg_float, VA!Arm64, VA!MipsWide, VA!SysV, VA!S390, VA!PPC64, VA!RiscV
<1>5. l.aptr + 8 <= 48 => IsEight(bytes) /\ Decoded(a, n, bytes) = own
  <2>1. own[1][1] = i
    BY DEF Own, Bytes
  <2>2. Decoded(a, n, dbl) = own
    BY <2>1, DoubleDecoded DEF SysV
  <2>3. Len(dbl) = 8 /\ dbl = [k \in 1..8 |-> dbl[k]]
    BY LengthOfBytes DEF AsDouble, Bytes
  <2>4. IsEight(dbl)
    BY <2>3 DEF IsEight
  <2> QED
    BY <1>2, <2>2, <2>4
<1>6. ~(l.aptr + 8 <= 48) => bytes = own
  BY <1>2
<1>7. /\ a \in ABISet /\ a.cpu = "alpha" /\ Ready(a, l, v) /\ own = Own(i, n) /\ r.res = 0
      /\ m = r.list /\ Sees(a, m, v)
  OBVIOUS
<1> HIDE DEF dbl, bytes, size, at, up, f
<1>8. Arrives(a, m, own, v, f)
  BY ONLY <1>2, <1>3, <1>4, <1>5, <1>6, <1>7, AlphaArrives
<1> QED
  BY <1>8 DEF f

LEMMA AlphaDoubleArrives ==
  ASSUME NEW a, a \in ABISet, a.cpu = "alpha", NEW l, NEW v, Ready(a, l, v),
         NEW i, NEW n, n = 8, NEW own, own = Own(i, n),
         NEW r, r = av_double(a, l, own), r.res = 0, NEW m, m = r.list, Sees(a, m, v)
  PROVE  Arrives(a, m, own, v, VA!va_arg_double(a, v)) /\ i = i
<1> DEFINE size  == 8
           at    == l.aptr
           up    == [v EXCEPT !.aptr = v.aptr + 8]
           f     == VA!va_arg_double(a, v)
<1>1. RegInv(a, l) /\ a.cpu \in Cpus
  BY Orders DEF Ready
<1>2. at \in Int /\ at = l.aptr /\ size = 8 /\ n \in {4, 8} /\ up = [v EXCEPT !.aptr = v.aptr + 8]
  BY <1>1, ListTypes
<1>3. r = Slot(l, size, at, own)
  BY DEF av_double, MipsWide, FloatsFillRegisters, Arm64, S390, RiscV, SysV, PPC64
<1>4. f = VA!ByPlace(a, up, up.aptr <= v.memargptr, v.aptr \div 8, v.aptr, n)
  BY DEF VA!va_arg_double, VA!AlignDouble, VA!Arm64, VA!MipsWide, VA!SysV, VA!S390, VA!PPC64, VA!RiscV
<1>5. l.aptr + 8 <= 48 => IsEight(own) /\ Decoded(a, n, own) = own
  <2>1. Decoded(a, n, own) = own
    BY PlainDecoded
  <2>2. Len(own) = 8 /\ own = [k \in 1..8 |-> own[k]]
    BY LengthOwn DEF Own, Bytes
  <2> QED
    BY <2>1, <2>2 DEF IsEight
<1>6. ~(l.aptr + 8 <= 48) => own = own
  OBVIOUS
<1>7. /\ a \in ABISet /\ a.cpu = "alpha" /\ Ready(a, l, v) /\ own = Own(i, n) /\ r.res = 0
      /\ m = r.list /\ Sees(a, m, v)
  OBVIOUS
<1> HIDE DEF size, at, up, f
<1>8. Arrives(a, m, own, v, f)
  BY ONLY <1>2, <1>3, <1>4, <1>5, <1>6, <1>7, AlphaArrives
<1> QED
  BY <1>8 DEF f

LEMMA FloatArrives ==
  ASSUME NEW a, a \in ABISet, a.cpu \in FetchedCpus, NEW l, NEW v, Ready(a, l, v),
         NEW i, NEW own, own = Own(i, 4), NEW r, r = av_float(a, l, own), r.res = 0,
         NEW m, m = r.list, Sees(a, m, v)
  PROVE  Arrives(a, m, own, v, VA!va_arg_float(a, v)) /\ i = i
<1> DEFINE n == 4
<1>1. /\ a \in ABISet /\ Ready(a, l, v) /\ own = Own(i, n) /\ r = av_float(a, l, own)
      /\ r.res = 0 /\ m = r.list /\ Sees(a, m, v) /\ n = 4 /\ own = Own(i, 4)
  OBVIOUS
<1> HIDE DEF n
<1>2. ASSUME a.cpu \in {"i386", "m68k", "sparc", "arm"}
      PROVE  Arrives(a, m, own, v, VA!va_arg_float(a, v))
  BY ONLY <1>1, <1>2, WordFloatArrives
<1>3. ASSUME a.cpu = "alpha" PROVE Arrives(a, m, own, v, VA!va_arg_float(a, v))
  BY ONLY <1>1, <1>3, AlphaFloatArrives
<1>4. ASSUME a.cpu \in IargCpus PROVE Arrives(a, m, own, v, VA!va_arg_float(a, v))
  BY ONLY <1>1, <1>4, IargFloatArrives
<1>5. ASSUME a.cpu \in TooCpus PROVE Arrives(a, m, own, v, VA!va_arg_float(a, v))
  BY ONLY <1>1, <1>5, TooFloatArrives
<1>6. ASSUME a.cpu \in CountsPlaces PROVE Arrives(a, m, own, v, VA!va_arg_float(a, v))
  BY ONLY <1>1, <1>6, PlaceFloatArrives
<1> QED
  BY <1>2, <1>3, <1>4, <1>5, <1>6, FetchedGroups

LEMMA DoubleArrives ==
  ASSUME NEW a, a \in ABISet, a.cpu \in FetchedCpus, NEW l, NEW v, Ready(a, l, v),
         NEW i, NEW own, own = Own(i, 8), NEW r, r = av_double(a, l, own), r.res = 0,
         NEW m, m = r.list, Sees(a, m, v)
  PROVE  Arrives(a, m, own, v, VA!va_arg_double(a, v)) /\ i = i
<1> DEFINE n == 8
           f == VA!va_arg_double(a, v)
<1>1. /\ a \in ABISet /\ Ready(a, l, v) /\ own = Own(i, n) /\ r = av_double(a, l, own)
      /\ r.res = 0 /\ m = r.list /\ Sees(a, m, v) /\ n = 8 /\ own = Own(i, 8)
  OBVIOUS
<1>2. ASSUME a.cpu \in {"i386", "m68k", "sparc", "arm"} PROVE Arrives(a, m, own, v, f)
  <2>1. a.cpu \in PairCpus /\ a.cpu # "powerpc_aix" /\ IsVaList(v) /\ v.aptr \in Int
    BY <1>2 DEF PairCpus, Ready, Match, Cursor
  <2>2. PairRead(a, v, f)
    BY <2>1, PairTaken
  <2>3. r = Embed(l, PairAt(a, l.aptr + 8), own)
    BY <1>2 DEF av_double, PairAt, MipsWide, FloatsFillRegisters, Arm64, S390, RiscV, SysV, PPC64
  <2> HIDE DEF n, f
  <2> QED
    BY ONLY <1>1, <2>1, <2>2, <2>3, PairArrives
<1> HIDE DEF n, f
<1>3. ASSUME a.cpu = "alpha" PROVE Arrives(a, m, own, v, VA!va_arg_double(a, v))
  BY ONLY <1>1, <1>3, AlphaDoubleArrives
<1>4. ASSUME a.cpu \in IargCpus PROVE Arrives(a, m, own, v, VA!va_arg_double(a, v))
  BY ONLY <1>1, <1>4, IargDoubleArrives
<1>5. ASSUME a.cpu \in TooCpus PROVE Arrives(a, m, own, v, VA!va_arg_double(a, v))
  BY ONLY <1>1, <1>5, TooDoubleArrives
<1>6. ASSUME a.cpu \in CountsPlaces PROVE Arrives(a, m, own, v, VA!va_arg_double(a, v))
  BY ONLY <1>1, <1>6, PlaceDoubleArrives
<1> QED
  BY <1>2, <1>3, <1>4, <1>5, <1>6, FetchedGroups DEF f

(* av_<type> and va_arg_<type>, for the types that are not structs.        *)
LEMMA ScalarArrives ==
  ASSUME NEW a, a \in ABISet, a.cpu \in FetchedCpus, NEW l, NEW v, Ready(a, l, v),
         NEW t \in CTypes(a), t.kind # "struct",
         NEW i, NEW own, own = Own(i, t.size), NEW r, r = Push(a, l, i, t), r.res = 0,
         NEW m, m = r.list, Sees(a, m, v)
  PROVE  Arrives(a, m, own, v, VA!va_arg(a, v, t))
<1> DEFINE n == t.size
           f == VA!va_arg(a, v, t)
<1>1. /\ a \in ABISet /\ a.cpu \in FetchedCpus /\ Ready(a, l, v) /\ own = Own(i, n)
      /\ r.res = 0 /\ m = r.list /\ Sees(a, m, v)
  OBVIOUS
<1>2. ArgumentType(a, t)
  BY DEF CTypes
<1>3. /\ a.cpu \in Cpus /\ a.cpu \notin RiscV /\ W(a) \in {4, 8} /\ P(a) \in {4, 8}
      /\ P(a) <= W(a) \/ (a.cpu = "arm64_apple" /\ P(a) = 8)
      /\ a.cpu = "arm64_apple" => P(a) = 8
  <2>1. a.cpu \in Cpus /\ a.cpu \notin RiscV
    BY DEF FetchedCpus
  <2>2. a.cpu = "arm64_apple" => P(a) = 8
    BY <2>1, CpuWords
  <2>3. a.cpu # "arm64_apple" => P(a) <= W(a)
    BY DEF P, W
  <2> QED
    BY <2>1, <2>2, <2>3, WordSizes
<1>4. CASE t.kind = "int"
  <2>1. n \in Nat /\ 1 <= n /\ n <= W(a)
    BY <1>2, <1>3, <1>4 DEF ArgumentType
  <2>2. r = av_int(a, l, own)
    BY <1>4 DEF Push
  <2>3. f = VA!va_arg_adjusted(a, v, n)
    BY <1>4 DEF VA!va_arg
  <2> HIDE DEF f, n
  <2>4. Arrives(a, m, own, v, VA!va_arg_adjusted(a, v, n))
    BY ONLY <1>1, <1>3, <2>1, <2>2, IntArrives
  <2> QED
    BY <2>3, <2>4 DEF f
<1>5. CASE t.kind = "ptr"
  <2>1. n \in Nat /\ 1 <= n /\ (n <= W(a) \/ (a.cpu = "arm64_apple" /\ n = 8))
        /\ (a.cpu = "arm64_apple" => n = 8)
    BY <1>2, <1>3, <1>5 DEF ArgumentType
  <2>2. r = av_long(a, l, own)
    BY <1>5 DEF Push
  <2>3. f = VA!va_arg_adjusted(a, v, n)
    BY <1>2, <1>5, SameSizes DEF VA!va_arg, VA!va_arg_ptr, ArgumentType
  <2> HIDE DEF f, n
  <2>4. Arrives(a, m, own, v, VA!va_arg_adjusted(a, v, n))
    BY ONLY <1>1, <2>1, <2>2, LongArrives
  <2> QED
    BY <2>3, <2>4 DEF f
<1>6. CASE t.kind = "longlong"
  <2>1. n = 8 /\ own = Own(i, 8)
    BY <1>2, <1>6 DEF ArgumentType
  <2>2. r = av_longlong(a, l, own)
    BY <1>6 DEF Push
  <2>3. f = VA!va_arg_longlong(a, v)
    BY <1>6 DEF VA!va_arg
  <2> HIDE DEF f, n
  <2>4. Arrives(a, m, own, v, VA!va_arg_longlong(a, v))
    BY ONLY <1>1, <2>1, <2>2, LonglongArrives
  <2> QED
    BY <2>3, <2>4 DEF f
<1>7. CASE t.kind = "float"
  <2>1. n = 4 /\ own = Own(i, 4)
    BY <1>2, <1>7 DEF ArgumentType
  <2>2. r = av_float(a, l, own)
    BY <1>7 DEF Push
  <2>3. f = VA!va_arg_float(a, v)
    BY <1>7 DEF VA!va_arg
  <2> HIDE DEF f, n
  <2>4. Arrives(a, m, own, v, VA!va_arg_float(a, v)) /\ i = i
    BY ONLY <1>1, <2>1, <2>2, FloatArrives
  <2> QED
    BY <2>3, <2>4 DEF f
<1>8. CASE t.kind = "double"
  <2>1. n = 8 /\ own = Own(i, 8)
    BY <1>2, <1>8 DEF ArgumentType
  <2>2. r = av_double(a, l, own)
    BY <1>8 DEF Push
  <2>3. f = VA!va_arg_double(a, v)
    BY <1>8 DEF VA!va_arg
  <2> HIDE DEF f, n
  <2>4. Arrives(a, m, own, v, VA!va_arg_double(a, v)) /\ i = i
    BY ONLY <1>1, <2>1, <2>2, DoubleArrives
  <2> QED
    BY <2>3, <2>4 DEF f
<1> QED
  BY <1>2, <1>4, <1>5, <1>6, <1>7, <1>8 DEF ArgumentType

=============================================================================
