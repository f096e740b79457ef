------------------------- MODULE AvcallList_proofs -------------------------
(***************************************************************************)
(* Proofs about the macros av_<type> of AvcallList, on every CPU: what a   *)
(* push does to the argument list (PushGood).                              *)
(*                                                                         *)
(* An av_alist has one array for two purposes.  Arguments fill it from one *)
(* end, copies of structs that are passed by reference from the other, and *)
(* what lies between aptr and eptr is free.  A push stores nothing outside *)
(* the array and nothing over an earlier argument, because it first checks *)
(* that what it is going to store lies in the free part, which shrinks by  *)
(* that much (StackedGood, StackedDownGood, CopySpace).  The check is for  *)
(* whole words, so that it is right only while aptr is a multiple of a     *)
(* word; and armhf's four core registers are words of the array as well,   *)
(* below aptr, filled as far as ianum says.  SpaceInv says all this, Good  *)
(* that a push keeps it, and there is a lemma for each way in which a      *)
(* macro stores an argument, and for each macro.                           *)
(***************************************************************************)
EXTENDS ArgPassing, SequenceTheorems, TLAPS

-----------------------------------------------------------------------------
(* Lengths and alignments.                                                 *)

LEMMA FiniteSequence ==
  ASSUME NEW n \in Nat, NEW s, s = [k \in 1..n |-> s[k]]
  PROVE  s \in Seq({s[k] : k \in 1..n}) /\ Len(s) = n
<1> DEFINE S == {s[k] : k \in 1..n}
<1>1. s \in [1..n -> S]
  OBVIOUS
<1> HIDE DEF S
<1>2. s \in Seq(S)
  BY <1>1, SeqDef
<1>3. Len(s) \in Nat /\ 1..Len(s) = 1..n
  BY <1>1, <1>2, LenProperties
<1>4. Len(s) = n
  BY <1>3
<1> QED
  BY <1>2, <1>4 DEF S

LEMMA LengthOfBytes ==
  ASSUME NEW i, NEW form, NEW n \in Nat
  PROVE  Len(Bytes(i, form, n)) = n
<1> DEFINE b == Bytes(i, form, n)
<1>1. b = [k \in 1..n |-> b[k]]
  BY DEF Bytes
<1> HIDE DEF b
<1>2. Len(b) = n
  BY <1>1, FiniteSequence
<1> QED
  BY <1>2 DEF b

LEMMA LengthExtended ==
  ASSUME NEW a, NEW i, NEW form, NEW n \in Nat, NEW w \in Nat, n <= w
  PROVE  Len(Extended(a, Bytes(i, form, n), w)) = w
<1> DEFINE b == Bytes(i, form, n)
           e == Bytes(b[1][1], "ext", w - Len(b))
           S == {b[k] : k \in 1..n}
           T == {e[k] : k \in 1..(w - n)}
<1>1. w - n \in Nat /\ Len(b) = n /\ Len(e) = w - n
  BY LengthOfBytes
<1>2. b = [k \in 1..n |-> b[k]] /\ e = [k \in 1..(w - n) |-> e[k]]
  BY <1>1 DEF Bytes
<1> HIDE DEF b, e
<1>3. b \in Seq(S) /\ e \in Seq(T)
  <2>1. b \in Seq({b[k] : k \in 1..n})
    BY <1>2, FiniteSequence
  <2>2. e \in Seq({e[k] : k \in 1..(w - n)})
    BY <1>1, <1>2, FiniteSequence
  <2> QED
    BY <2>1, <2>2
<1> HIDE DEF S, T
<1>4. b \in Seq(S \cup T) /\ e \in Seq(S \cup T)
  BY <1>3, SeqDef
<1> QED
  BY <1>1, <1>4 DEF Extended, b, e

Alignments == {1, 2, 4, 8, 16}

LEMMA AlignedUp ==
  ASSUME NEW x \in Int, NEW n \in Alignments
  PROVE  /\ AlignUp(x, n) \in Int /\ x <= AlignUp(x, n) /\ AlignUp(x, n) < x + n
         /\ AlignUp(x, n) % n = 0
<1>1. CASE n = 1
  BY <1>1 DEF AlignUp
<1>2. CASE n = 2
  BY <1>2 DEF AlignUp
<1>3. CASE n = 4
  BY <1>3 DEF AlignUp
<1>4. CASE n = 8
  BY <1>4 DEF AlignUp
<1>5. CASE n = 16
  BY <1>5 DEF AlignUp
<1> QED
  BY <1>1, <1>2, <1>3, <1>4, <1>5 DEF Alignments

LEMMA WordSizes ==
  ASSUME NEW a, a.cpu \in Cpus
  PROVE  /\ W(a) \in {4, 8} /\ R(a) \in {4, 8} /\ P(a) \in {4, 8}
         /\ W(a) <= R(a) /\ P(a) <= R(a)
         /\ IargNum(a) \in 0..8 /\ FargNum(a) \in 0..16
BY DEF W, R, P, IargNum, FargNum, Cpus, Cpus32, LongIs64, Arm64, SysV, S390,
       RiscV, MipsWide, PPC64

LEMMA RegisterCounts ==
  ASSUME NEW a, a.cpu \in Cpus
  PROVE  /\ a.cpu = "armhf" => IargNum(a) = 4 /\ FargNum(a) = 16 /\ W(a) = 4
         /\ a.cpu \in Arm64 => IargNum(a) = 8 /\ FargNum(a) = 8 /\ R(a) = 8 /\ P(a) = 8
         /\ a.cpu = "powerpc_sysv4" => IargNum(a) = 8 /\ FargNum(a) = 8 /\ W(a) = 4
         /\ a.cpu \in SysV => IargNum(a) = 6 /\ FargNum(a) = 8 /\ W(a) = 8 /\ R(a) = 8
         /\ a.cpu \in S390 => IargNum(a) = 5
         /\ a.cpu = "mips" => FargNum(a) = 2 /\ W(a) = 4
         /\ a.cpu \in MipsWide => FargNum(a) = 8 /\ W(a) = 8
         /\ a.cpu = "sparc64" => FargNum(a) = 16 /\ W(a) = 8
         /\ a.cpu = "x86_64_ms" => FargNum(a) = 4 /\ W(a) = 8
<1>1. /\ a.cpu = "armhf" => IargNum(a) = 4 /\ FargNum(a) = 16 /\ W(a) = 4
      /\ a.cpu \in Arm64 => IargNum(a) = 8 /\ FargNum(a) = 8 /\ R(a) = 8 /\ P(a) = 8
      /\ a.cpu = "powerpc_sysv4" => IargNum(a) = 8 /\ FargNum(a) = 8 /\ W(a) = 4
  BY DEF W, R, P, IargNum, FargNum, Cpus32, Arm64, SysV, S390, RiscV,
         MipsWide, PPC64
<1>2. /\ a.cpu \in SysV => IargNum(a) = 6 /\ FargNum(a) = 8 /\ W(a) = 8 /\ R(a) = 8
      /\ a.cpu \in S390 => IargNum(a) = 5
      /\ a.cpu = "mips" => FargNum(a) = 2 /\ W(a) = 4
  BY DEF W, R, IargNum, FargNum, Cpus32, Arm64, SysV, S390, RiscV,
         MipsWide, PPC64
<1>3. /\ a.cpu \in MipsWide => FargNum(a) = 8 /\ W(a) = 8
      /\ a.cpu = "sparc64" => FargNum(a) = 16 /\ W(a) = 8
      /\ a.cpu = "x86_64_ms" => FargNum(a) = 4 /\ W(a) = 8
  BY DEF W, FargNum, Cpus32, Arm64, SysV, S390, RiscV, MipsWide, PPC64
<1> QED
  BY <1>1, <1>2, <1>3

-----------------------------------------------------------------------------
(* Lists.                                                                  *)

(* An av_alist, and what a push returns, a record of the fields that       *)
(* avcall-alist.h declares.                                                *)
IsList(l) ==
  DOMAIN l = {"args", "end", "aptr", "eptr", "anum", "ianum", "iargs", "fanum",
              "fregs", "fmask", "dmask"}
IsResult(r) == DOMAIN r = {"res", "list"} /\ IsList(r.list)

Registers(a, anum, ianum, fanum) ==
  anum \in Nat /\ ianum \in 0..IargNum(a) /\ fanum \in 0..FargNum(a)

Contents(a, iargs, fregs, marks) ==
  /\ DOMAIN iargs \subseteq 0..(R(a) * IargNum(a) - 1)
  /\ DOMAIN fregs \subseteq 0..(FargNum(a) - 1)
  /\ marks \subseteq 0..15

Pointers(a, aptr, eptr, end) ==
  /\ aptr \in Int /\ eptr \in Int /\ end \in Int /\ end % 8 = 0
  /\ IF a.cpu = "hppa" THEN aptr <= end ELSE aptr >= 0
  /\ a.cpu = "armhf" => aptr >= 16

RegInv(a, l) ==
  /\ IsList(l)
  /\ Registers(a, l.anum, l.ianum, l.fanum)
  /\ Contents(a, l.iargs, l.fregs, l.fmask \cup l.dmask)
  /\ Pointers(a, l.aptr, l.eptr, l.end)

LEMMA ListTypes ==
  ASSUME NEW a, a.cpu \in Cpus, NEW l, RegInv(a, l)
  PROVE  /\ l.anum \in Nat /\ l.ianum \in Nat /\ l.fanum \in Nat
         /\ l.aptr \in Int /\ l.eptr \in Int /\ l.end \in Int
         /\ a.cpu # "hppa" => l.aptr >= 0
         /\ a.cpu = "armhf" => l.aptr >= 16
BY DEF RegInv, Registers, Pointers

(* The free part of the array is from Low to High: on hppa arguments grow   *)
(* down from its end and copies up from its beginning.                     *)
Low(a, l)  == IF a.cpu = "hppa" THEN l.eptr ELSE l.aptr
High(a, l) == IF a.cpu = "hppa" THEN l.aptr ELSE l.eptr

Stored(a, l, x) ==
  /\ x \in Int /\ 0 <= x /\ x < l.end
  /\ x < Low(a, l) \/ High(a, l) <= x
  /\ a.cpu = "armhf" /\ x < 16 => x < 4 * l.ianum

(* What has been stored lies in the array, and outside its free part.      *)
SpaceInv(a, l) ==
  /\ 0 <= Low(a, l) /\ Low(a, l) <= High(a, l) /\ High(a, l) <= l.end
  /\ l.eptr % 8 = 0
  /\ a.cpu \notin SysV => l.aptr % W(a) = 0
  /\ \A x \in DOMAIN l.args : Stored(a, l, x)

(* What l has in the array is still there in m.                            *)
Kept(l, m) ==
  \A x \in DOMAIN l.args : x \in DOMAIN m.args /\ m.args[x] = l.args[x]

(* Registers and words that are taken are not given back.                  *)
Grown(a, l, m) ==
  /\ a.cpu # "hppa" => l.aptr <= m.aptr
  /\ l.ianum \in Nat /\ l.ianum <= m.ianum
  /\ \A x \in DOMAIN l.iargs :
       x < R(a) * l.ianum => x \in DOMAIN m.iargs /\ m.iargs[x] = l.iargs[x]

(* What a push of an argument of type t onto l returns, be it 0 or -1.     *)
Good(a, l, t, r) ==
  /\ IsResult(r) /\ r.res \in {0, -1}
  /\ RegInv(a, r.list) /\ r.list.end = l.end /\ Grown(a, l, r.list)
  /\ r.res = -1 => /\ r.list.args = l.args
                   /\ t.kind # "struct" /\ SpaceInv(a, l) => SpaceInv(a, r.list)
  /\ r.res = 0 /\ SpaceInv(a, l) /\ ~Overruns(a, l, t)
       => SpaceInv(a, r.list) /\ Kept(l, r.list)

LEMMA PutFacts ==
  ASSUME NEW mem, NEW at, NEW bytes
  PROVE  /\ DOMAIN Put(mem, at, bytes) = DOMAIN mem \cup at..(at + Len(bytes) - 1)
         /\ \A x \in DOMAIN mem :
              x \notin at..(at + Len(bytes) - 1) => Put(mem, at, bytes)[x] = mem[x]
BY DEF Put, Override

LEMMA StackedList ==
  ASSUME NEW l, IsList(l), NEW next, NEW at, NEW bytes, NEW r,
         r = Stacked(l, next, at, bytes)
  PROVE  /\ IsResult(r) /\ r.res = 0
         /\ r.list.aptr = next /\ r.list.args = Put(l.args, at, bytes)
         /\ r.list.eptr = l.eptr /\ r.list.end = l.end /\ r.list.anum = l.anum
         /\ r.list.ianum = l.ianum /\ r.list.iargs = l.iargs
         /\ r.list.fanum = l.fanum /\ r.list.fregs = l.fregs
         /\ r.list.fmask = l.fmask /\ r.list.dmask = l.dmask
<1> DEFINE mem == Put(l.args, at, bytes)
           m == [l EXCEPT !.aptr = next, !.args = mem]
<1>1. r = [res |-> 0, list |-> m]
  BY DEF Stacked, Done
<1> HIDE DEF mem
<1>2. /\ IsList(m) /\ m.aptr = next /\ m.args = mem /\ m.eptr = l.eptr
      /\ m.end = l.end /\ m.anum = l.anum /\ m.ianum = l.ianum
      /\ m.iargs = l.iargs /\ m.fanum = l.fanum /\ m.fregs = l.fregs
      /\ m.fmask = l.fmask /\ m.dmask = l.dmask
  BY DEF IsList
<1> HIDE DEF m
<1> QED
  BY <1>1, <1>2 DEF IsResult, mem

(* A store into the free part, which then excludes it.                     *)
LEMMA StoreInFree ==
  ASSUME NEW a, a.cpu \in Cpus, NEW l, NEW m, RegInv(a, l), SpaceInv(a, l),
         m.end = l.end, m.ianum \in Int, l.ianum <= m.ianum,
         NEW at \in Int, NEW bytes, Len(bytes) \in Nat,
         m.args = Put(l.args, at, bytes),
         m.aptr \in Int, m.eptr \in Int,
         Low(a, l) <= at, at + Len(bytes) <= High(a, l),
         at + Len(bytes) <= Low(a, m) \/ High(a, m) <= at,
         Low(a, l) <= Low(a, m), Low(a, m) <= High(a, m), High(a, m) <= High(a, l)
  PROVE  Kept(l, m) /\ \A x \in DOMAIN m.args : Stored(a, m, x)
<1> DEFINE n   == Len(bytes)
           new == at..(at + n - 1)
           mem == Put(l.args, at, bytes)
           lo  == Low(a, l)
           hi  == High(a, l)
           lo2 == Low(a, m)
           hi2 == High(a, m)
<1>1. /\ DOMAIN mem = DOMAIN l.args \cup new
      /\ \A x \in DOMAIN l.args : x \notin new => mem[x] = l.args[x]
  BY PutFacts
<1>2. /\ l.end \in Int /\ l.ianum \in Int /\ l.aptr \in Int /\ l.eptr \in Int
      /\ a.cpu = "armhf" => lo >= 16
  BY ListTypes DEF Low
<1>3. lo \in Int /\ hi \in Int /\ lo2 \in Int /\ hi2 \in Int
  BY <1>2 DEF Low, High
<1>4. \A x \in new : x \in Int /\ at <= x /\ x < at + n
  OBVIOUS
<1>5. lo <= at /\ at + n <= hi /\ (at + n <= lo2 \/ hi2 <= at) /\ lo <= lo2 /\ hi2 <= hi
  OBVIOUS
<1>6. 0 <= lo /\ hi <= l.end /\ \A x \in DOMAIN l.args : Stored(a, l, x)
  BY DEF SpaceInv
<1>7. mem = m.args
  OBVIOUS
<1>8. n \in Nat
  OBVIOUS
<1> HIDE DEF n, new, mem, lo, hi, lo2, hi2
<1>9. Kept(l, m)
  <2> SUFFICES ASSUME NEW x \in DOMAIN l.args PROVE x \notin new
    BY <1>1, <1>7 DEF Kept
  <2>1. x \in Int /\ (x < lo \/ hi <= x)
    BY <1>6 DEF Stored, lo, hi
  <2> QED
    BY <2>1, <1>3, <1>4, <1>5, <1>8
<1>10. ASSUME NEW x \in DOMAIN l.args PROVE Stored(a, m, x)
  <2>1. /\ x \in Int /\ 0 <= x /\ x < l.end /\ (x < lo \/ hi <= x)
        /\ a.cpu = "armhf" /\ x < 16 => x < 4 * l.ianum
    BY <1>6 DEF Stored, lo, hi
  <2>2. x < lo2 \/ hi2 <= x
    BY <2>1, <1>3, <1>5
  <2>3. a.cpu = "armhf" /\ x < 16 => x < 4 * m.ianum
    BY SMTT(60), <2>1, <1>2
  <2> QED
    BY <2>1, <2>2, <2>3 DEF Stored, lo2, hi2
<1>11. ASSUME NEW x \in new PROVE Stored(a, m, x)
  <2>1. /\ x \in Int /\ 0 <= x /\ x < l.end /\ (x < lo2 \/ hi2 <= x)
        /\ lo <= x
    BY SMTT(60), <1>2, <1>3, <1>4, <1>5, <1>6, <1>8
  <2>2. a.cpu = "armhf" => ~(x < 16)
    BY <2>1, <1>2, <1>3
  <2> QED
    BY <2>1, <2>2 DEF Stored, lo2, hi2
<1> QED
  BY <1>1, <1>7, <1>9, <1>10, <1>11

LEMMA FailGood ==
  ASSUME NEW a, NEW l, RegInv(a, l), NEW t, NEW r, r = Fail(l)
  PROVE  Good(a, l, t, r) /\ r.list.fanum = l.fanum
BY DEF Fail, Good, Grown, IsResult, RegInv, Registers, Pointers

(* A push that does not use the integer registers.                         *)
LEMMA SameIargs ==
  ASSUME NEW a, a.cpu \in Cpus, NEW l, RegInv(a, l), NEW m, m.iargs = l.iargs,
         m.ianum = l.ianum \/ (m.ianum \in Int /\ l.ianum <= m.ianum),
         a.cpu # "hppa" => l.aptr <= m.aptr
  PROVE  Grown(a, l, m)
BY ListTypes DEF Grown

(* What a push needs to know of where it stores, on CPUs whose arguments   *)
(* grow up.                                                                *)
Fits(a, l, t, next, at, n) ==
  SpaceInv(a, l) /\ ~Overruns(a, l, t)
    => /\ l.aptr <= at /\ at + n <= next /\ next <= l.eptr
       /\ a.cpu \notin SysV => next % W(a) = 0

LEMMA StackedGood ==
  ASSUME NEW a, a.cpu \in Cpus, a.cpu # "hppa", NEW l, RegInv(a, l), NEW t,
         NEW next \in Int, NEW at \in Int, NEW bytes, Len(bytes) \in Nat,
         l.aptr <= next, Fits(a, l, t, next, at, Len(bytes))
  PROVE  /\ Good(a, l, t, Stacked(l, next, at, bytes))
         /\ Stacked(l, next, at, bytes).list.fanum = l.fanum
<1> DEFINE r == Stacked(l, next, at, bytes)
           m == r.list
<1>1. /\ IsResult(r) /\ r.res = 0 /\ IsList(m)
      /\ m.aptr = next /\ m.args = Put(l.args, at, bytes)
      /\ m.eptr = l.eptr /\ m.end = l.end /\ m.anum = l.anum
      /\ m.ianum = l.ianum /\ m.iargs = l.iargs
      /\ m.fanum = l.fanum /\ m.fregs = l.fregs
      /\ m.fmask = l.fmask /\ m.dmask = l.dmask
  BY StackedList DEF RegInv, IsResult
<1> HIDE DEF r, m
<1>2. l.aptr \in Int /\ l.eptr \in Int /\ l.ianum \in Int /\ l.end \in Int
  BY ListTypes
<1>3. RegInv(a, m)
  <2>1. Pointers(a, next, l.eptr, l.end)
    BY <1>2 DEF RegInv, Pointers
  <2> QED
    BY <1>1, <2>1 DEF RegInv
<1>4. ASSUME SpaceInv(a, l), ~Overruns(a, l, t)
      PROVE  SpaceInv(a, m) /\ Kept(l, m)
  <2>1. /\ l.aptr <= at /\ at + Len(bytes) <= next /\ next <= l.eptr
        /\ a.cpu \notin SysV => next % W(a) = 0
    BY <1>4 DEF Fits
  <2>2. /\ Low(a, l) = l.aptr /\ High(a, l) = l.eptr
        /\ Low(a, m) = next /\ High(a, m) = l.eptr
    BY <1>1 DEF Low, High
  <2>3. /\ m.end = l.end /\ m.ianum \in Int /\ l.ianum <= m.ianum
        /\ m.aptr \in Int /\ m.eptr \in Int
    BY <1>1, <1>2
  <2>4. /\ Low(a, l) <= at /\ at + Len(bytes) <= High(a, l)
        /\ at + Len(bytes) <= Low(a, m)
        /\ Low(a, l) <= Low(a, m) /\ Low(a, m) <= High(a, m)
        /\ High(a, m) <= High(a, l)
    BY <1>2, <2>1, <2>2
  <2>5. Kept(l, m) /\ \A x \in DOMAIN m.args : Stored(a, m, x)
    BY <1>1, <1>4, <2>3, <2>4, StoreInFree
  <2>6. 0 <= l.aptr /\ l.eptr <= l.end /\ l.eptr % 8 = 0
    BY <1>4, <2>2 DEF SpaceInv
  <2> QED
    BY <1>1, <1>2, <2>1, <2>2, <2>5, <2>6 DEF SpaceInv
<1>5. Grown(a, l, m)
  BY <1>1, <1>2, SameIargs
<1> QED
  BY <1>1, <1>3, <1>4, <1>5 DEF Good, m, r

LEMMA WordFits ==
  ASSUME NEW a, a.cpu \in Cpus, a.cpu # "hppa", NEW l, RegInv(a, l), NEW t,
         SpaceInv(a, l), ~Overruns(a, l, t), l.aptr < l.eptr
  PROVE  /\ l.aptr + W(a) <= l.eptr
         /\ a.cpu \notin SysV => (l.aptr + W(a)) % W(a) = 0
<1>1. l.aptr \in Int /\ l.eptr \in Int /\ l.eptr % 8 = 0
  BY ListTypes DEF SpaceInv
<1>2. CASE a.cpu \in SysV
  <2>1. l.eptr - l.aptr \notin 1..7 /\ W(a) = 8
    BY <1>2 DEF Overruns, W, SysV, Cpus32
  <2> QED
    BY <1>1, <1>2, <2>1
<1>3. CASE a.cpu \notin SysV /\ W(a) = 8
  <2>1. l.aptr % 8 = 0
    BY <1>3 DEF SpaceInv
  <2> QED
    BY <1>1, <1>3, <2>1
<1>4. CASE a.cpu \notin SysV /\ W(a) = 4
  <2>1. l.aptr % 4 = 0
    BY <1>4 DEF SpaceInv
  <2> QED
    BY <1>1, <1>4, <2>1
<1> QED
  BY <1>2, <1>3, <1>4, WordSizes

LEMMA SlotGood ==
  ASSUME NEW a, a.cpu \in Cpus, a.cpu # "hppa", NEW l, RegInv(a, l), NEW t,
         NEW at \in Int, NEW bytes, Len(bytes) \in Nat,
         l.aptr <= at, at + Len(bytes) <= l.aptr + W(a)
  PROVE  /\ Good(a, l, t, Slot(l, W(a), at, bytes))
         /\ Slot(l, W(a), at, bytes).list.fanum = l.fanum
<1> DEFINE r == Slot(l, W(a), at, bytes)
<1>1. l.aptr \in Int /\ l.eptr \in Int /\ W(a) \in {4, 8}
  BY WordSizes, ListTypes
<1>2. CASE l.aptr >= l.eptr
  BY <1>2, FailGood DEF Slot
<1>3. CASE ~(l.aptr >= l.eptr)
  <2> DEFINE next == l.aptr + W(a)
  <2>1. r = Stacked(l, next, at, bytes) /\ next \in Int
    BY <1>1, <1>3 DEF Slot
  <2>2. l.aptr <= next
    BY <1>1
  <2>3. Fits(a, l, t, next, at, Len(bytes))
    BY <1>1, <1>3, WordFits DEF Fits
  <2> HIDE DEF next
  <2> QED
    BY <2>1, <2>2, <2>3, StackedGood
<1> QED
  BY <1>2, <1>3

WholeWords(a, l, end) ==
  SpaceInv(a, l) /\ a.cpu \notin SysV => end % W(a) = 0

LEMMA EmbedGood ==
  ASSUME NEW a, a.cpu \in Cpus, a.cpu # "hppa", NEW l, RegInv(a, l), NEW t,
         NEW end \in Int, NEW bytes, Len(bytes) \in Nat, l.aptr + Len(bytes) <= end,
         WholeWords(a, l, end)
  PROVE  /\ Good(a, l, t, Embed(l, end, bytes))
         /\ Embed(l, end, bytes).list.fanum = l.fanum
<1> DEFINE r == Embed(l, end, bytes)
<1>1. l.aptr \in Int /\ l.eptr \in Int
  BY ListTypes
<1>2. CASE end > l.eptr
  BY <1>2, FailGood DEF Embed
<1>3. CASE ~(end > l.eptr)
  <2> DEFINE at == end - Len(bytes)
  <2>1. r = Stacked(l, end, at, bytes) /\ at \in Int
    BY <1>3 DEF Embed
  <2>2. l.aptr <= end
    BY <1>1
  <2>3. Fits(a, l, t, end, at, Len(bytes))
    BY <1>1, <1>3 DEF Fits, WholeWords
  <2> HIDE DEF at
  <2> QED
    BY <2>1, <2>2, <2>3, StackedGood
<1> QED
  BY <1>2, <1>3

-----------------------------------------------------------------------------
(* Registers.                                                              *)

LEMMA PutInIargs ==
  ASSUME NEW a, a.cpu \in Cpus, NEW iargs, NEW fregs, NEW marks,
         Contents(a, iargs, fregs, marks), NEW at \in Nat, NEW bytes,
         Len(bytes) \in Nat, at + Len(bytes) <= R(a) * IargNum(a)
  PROVE  Contents(a, Put(iargs, at, bytes), fregs, marks)
<1> DEFINE n   == R(a) * IargNum(a)
           mem == Put(iargs, at, bytes)
<1>1. DOMAIN mem = DOMAIN iargs \cup at..(at + Len(bytes) - 1)
  BY PutFacts
<1>2. n \in Int
  BY WordSizes
<1> HIDE DEF mem, n
<1>3. at..(at + Len(bytes) - 1) \subseteq 0..(n - 1)
  BY <1>2 DEF n
<1> QED
  BY <1>1, <1>3 DEF Contents, mem, n

LEMMA PutInFregs ==
  ASSUME NEW a, NEW iargs, NEW fregs, NEW marks,
         Contents(a, iargs, fregs, marks), NEW k \in 0..(FargNum(a) - 1), NEW bytes
  PROVE  Contents(a, iargs, Marked(fregs, k, bytes), marks)
<1>1. DOMAIN Marked(fregs, k, bytes) = DOMAIN fregs \cup {k}
  BY DEF Marked, Override
<1> QED
  BY <1>1 DEF Contents

(* A push that only touches registers.                                     *)
LEMMA InRegisters ==
  ASSUME NEW a, a.cpu \in Cpus, NEW l, RegInv(a, l), NEW t, NEW r, IsResult(r),
         r.res = 0, r.list.args = l.args, r.list.aptr = l.aptr,
         r.list.eptr = l.eptr, r.list.end = l.end, l.ianum <= r.list.ianum,
         Grown(a, l, r.list), Registers(a, r.list.anum, r.list.ianum, r.list.fanum),
         Contents(a, r.list.iargs, r.list.fregs, r.list.fmask \cup r.list.dmask)
  PROVE  Good(a, l, t, r)
<1> DEFINE m == r.list
<1>1. IsList(m) /\ RegInv(a, m)
  BY DEF IsResult, RegInv
<1>2. m.ianum \in Nat /\ l.ianum \in Nat
  BY <1>1, ListTypes
<1>3. Low(a, m) = Low(a, l) /\ High(a, m) = High(a, l)
  BY DEF Low, High
<1>4. ASSUME SpaceInv(a, l) PROVE SpaceInv(a, m)
  <2>1. ASSUME NEW x \in DOMAIN m.args PROVE Stored(a, m, x)
    <3>1. Stored(a, l, x)
      BY <1>4 DEF SpaceInv
    <3> QED
      BY <3>1, <1>2, <1>3 DEF Stored
  <2> QED
    BY <1>3, <1>4, <2>1 DEF SpaceInv
<1>5. Kept(l, m)
  BY DEF Kept
<1> HIDE DEF m
<1> QED
  BY <1>1, <1>4, <1>5 DEF Good, m

(* The registers before those that an argument goes to.                    *)
LEMMA PutAbove ==
  ASSUME NEW a, a.cpu \in Cpus, NEW l, RegInv(a, l), NEW m, NEW at \in Int, NEW bytes,
         m.iargs = Put(l.iargs, at, bytes), R(a) * l.ianum <= at,
         m.ianum \in Int, l.ianum <= m.ianum, m.aptr = l.aptr
  PROVE  Grown(a, l, m)
<1> DEFINE k == R(a) * l.ianum
<1>1. l.ianum \in Nat /\ R(a) \in {4, 8} /\ (a.cpu # "hppa" => l.aptr \in Int)
  BY ListTypes, WordSizes
<1>2. k \in Int
  BY <1>1
<1>3. \A x \in DOMAIN l.iargs : x \in Int
  BY DEF RegInv, Contents
<1> HIDE DEF k
<1>4. ASSUME NEW x \in DOMAIN l.iargs, x < k
      PROVE  x \in DOMAIN m.iargs /\ m.iargs[x] = l.iargs[x]
  <2>1. x \notin at..(at + Len(bytes) - 1)
    BY <1>2, <1>3, <1>4 DEF k
  <2> DEFINE mem == l.iargs
             new == Put(mem, at, bytes)
  <2>2. x \in DOMAIN mem /\ new = m.iargs /\ mem = l.iargs
    BY <1>4
  <2>3. /\ DOMAIN new = DOMAIN mem \cup at..(at + Len(bytes) - 1)
        /\ \A y \in DOMAIN mem : y \notin at..(at + Len(bytes) - 1) => new[y] = mem[y]
    BY ZenonT(60), PutFacts
  <2> HIDE DEF mem, new
  <2>4. x \in DOMAIN new /\ new[x] = mem[x]
    BY ONLY <2>1, <2>2, <2>3
  <2> QED
    BY <2>2, <2>4
<1> QED
  BY <1>1, <1>4 DEF Grown, k

LEMMA InIargGood ==
  ASSUME NEW a, a.cpu \in Cpus, NEW l, RegInv(a, l), NEW t, NEW bytes,
         Len(bytes) \in Nat, l.ianum < IargNum(a), Len(bytes) <= R(a)
  PROVE  Good(a, l, t, InIarg(a, l, bytes))
<1> DEFINE r  == InIarg(a, l, bytes)
           at == R(a) * l.ianum
           m  == [l EXCEPT !.ianum = @ + 1, !.iargs = Put(@, at, bytes)]
<1>1. r = [res |-> 0, list |-> m]
  BY DEF InIarg, Done
<1>2. /\ IsList(m) /\ m.args = l.args /\ m.aptr = l.aptr /\ m.eptr = l.eptr
      /\ m.end = l.end /\ m.anum = l.anum /\ m.ianum = l.ianum + 1
      /\ m.fanum = l.fanum /\ m.fregs = l.fregs
      /\ m.fmask = l.fmask /\ m.dmask = l.dmask
  BY DEF IsList, RegInv
<1>3. m.iargs = Put(l.iargs, at, bytes)
  BY DEF IsList, RegInv
<1> HIDE DEF m
<1>4. l.ianum \in Nat /\ IargNum(a) \in Nat /\ R(a) \in {4, 8}
  BY ListTypes, WordSizes
<1>5. at \in Nat /\ at + Len(bytes) <= R(a) * IargNum(a)
  BY <1>4
<1>6. Contents(a, m.iargs, m.fregs, m.fmask \cup m.dmask)
  BY <1>2, <1>3, <1>5, PutInIargs DEF RegInv
<1>7. Registers(a, m.anum, m.ianum, m.fanum) /\ l.ianum <= m.ianum
  BY <1>2, <1>4 DEF RegInv, Registers
<1> HIDE DEF r
<1>8. IsResult(r) /\ r.res = 0 /\ r.list = m
  BY <1>1, <1>2 DEF IsResult
<1>9. Grown(a, l, m)
  <2>1. at \in Int /\ R(a) * l.ianum <= at
    BY <1>4
  <2> HIDE DEF at
  <2>2. m.ianum \in Int /\ l.ianum <= m.ianum
    BY <1>2, <1>4
  <2>3. at \in Int /\ R(a) * l.ianum <= at
    BY <2>1
  <2> QED
    BY ONLY a.cpu \in Cpus, RegInv(a, l), <1>2, <1>3, <2>2, <2>3, PutAbove
<1>10. Good(a, l, t, r)
  BY <1>2, <1>6, <1>7, <1>8, <1>9, InRegisters
<1> QED
  BY <1>10 DEF r

LEMMA InIargsAtGood ==
  ASSUME NEW a, a.cpu \in Cpus, NEW l, RegInv(a, l), NEW t, NEW bytes,
         Len(bytes) \in Nat, NEW next \in 0..IargNum(a), l.ianum <= next,
         NEW at \in Nat, R(a) * l.ianum <= at,
         at + Len(bytes) <= R(a) * IargNum(a)
  PROVE  Good(a, l, t, Done([l EXCEPT !.ianum = next, !.iargs = Put(@, at, bytes)]))
<1> DEFINE m  == [l EXCEPT !.ianum = next, !.iargs = Put(@, at, bytes)]
           r  == Done(m)
<1>1. r = [res |-> 0, list |-> m]
  BY DEF Done
<1>2. /\ IsList(m) /\ m.args = l.args /\ m.aptr = l.aptr /\ m.eptr = l.eptr
      /\ m.end = l.end /\ m.anum = l.anum /\ m.ianum = next
      /\ m.fanum = l.fanum /\ m.fregs = l.fregs
      /\ m.fmask = l.fmask /\ m.dmask = l.dmask
  BY DEF IsList, RegInv
<1>3. m.iargs = Put(l.iargs, at, bytes)
  BY DEF IsList, RegInv
<1> HIDE DEF m
<1>4. next \in Nat /\ next <= IargNum(a) /\ IargNum(a) \in Nat /\ R(a) \in {4, 8}
  BY SMTT(60), WordSizes
<1>6. Contents(a, m.iargs, m.fregs, m.fmask \cup m.dmask)
  BY <1>2, <1>3, PutInIargs DEF RegInv
<1>7. Registers(a, m.anum, m.ianum, m.fanum) /\ l.ianum <= m.ianum
  BY <1>2, <1>4 DEF RegInv, Registers
<1> HIDE DEF r
<1>8. IsResult(r) /\ r.res = 0 /\ r.list = m
  BY <1>1, <1>2 DEF IsResult
<1>9. Grown(a, l, m)
  <2>1. m.ianum \in Int /\ l.ianum <= m.ianum
    BY <1>2, <1>4, <1>7
  <2>2. at \in Int /\ R(a) * l.ianum <= at
    OBVIOUS
  <2> QED
    BY ONLY a.cpu \in Cpus, RegInv(a, l), <2>2, <1>2, <1>3, <2>1, PutAbove
<1>10. Good(a, l, t, r)
  BY <1>2, <1>6, <1>7, <1>8, <1>9, InRegisters
<1> QED
  BY <1>10 DEF r, m

LEMMA InIargsUpToGood ==
  ASSUME NEW a, a.cpu \in Cpus, NEW l, RegInv(a, l), NEW t, NEW bytes,
         Len(bytes) \in Nat, NEW next \in 0..IargNum(a), l.ianum <= next,
         R(a) * l.ianum + Len(bytes) <= R(a) * next
  PROVE  Good(a, l, t, InIargsUpTo(a, l, next, bytes))
<1> DEFINE at == R(a) * next - Len(bytes)
<1>1. next \in Nat /\ next <= IargNum(a) /\ IargNum(a) \in Nat /\ R(a) \in {4, 8}
  BY WordSizes
<1>2. /\ at \in Nat /\ R(a) * l.ianum <= at
      /\ at + Len(bytes) <= R(a) * IargNum(a)
  BY SMTT(60), <1>1, ListTypes
<1> HIDE DEF at
<1>3. Good(a, l, t, Done([l EXCEPT !.ianum = next, !.iargs = Put(@, at, bytes)]))
  BY <1>2, InIargsAtGood
<1> QED
  BY <1>3 DEF InIargsUpTo, at

LEMMA InFregFields ==
  ASSUME NEW l, IsList(l), NEW bytes, NEW n, NEW m, m = InFreg(l, bytes, n).list
  PROVE  /\ IsResult(InFreg(l, bytes, n)) /\ InFreg(l, bytes, n).res = 0
         /\ IsList(m) /\ m.args = l.args /\ m.aptr = l.aptr /\ m.eptr = l.eptr
         /\ m.end = l.end /\ m.anum = l.anum /\ m.ianum = l.ianum
         /\ m.iargs = l.iargs /\ m.fanum = l.fanum + n
         /\ m.fregs = Marked(l.fregs, l.fanum, bytes)
         /\ m.fmask = l.fmask /\ m.dmask = l.dmask
<1> DEFINE q == [l EXCEPT !.fanum = @ + n, !.fregs = Marked(@, l.fanum, bytes)]
<1>1. InFreg(l, bytes, n) = [res |-> 0, list |-> q]
  BY DEF InFreg, Done
<1>2. /\ IsList(q) /\ q.args = l.args /\ q.aptr = l.aptr /\ q.eptr = l.eptr
      /\ q.end = l.end /\ q.anum = l.anum /\ q.ianum = l.ianum
      /\ q.iargs = l.iargs /\ q.fanum = l.fanum + n
      /\ q.fregs = Marked(l.fregs, l.fanum, bytes)
      /\ q.fmask = l.fmask /\ q.dmask = l.dmask
  BY DEF IsList
<1> HIDE DEF q
<1> QED
  BY <1>1, <1>2 DEF IsResult

LEMMA InFregGood ==
  ASSUME NEW a, a.cpu \in Cpus, NEW l, RegInv(a, l), NEW t, NEW bytes,
         NEW n \in {1, 2}, l.fanum + n <= FargNum(a)
  PROVE  /\ Good(a, l, t, InFreg(l, bytes, n)) /\ RegInv(a, InFreg(l, bytes, n).list)
         /\ InFreg(l, bytes, n).list.fanum = l.fanum + n
<1> DEFINE r == InFreg(l, bytes, n)
           m == r.list
<1>1. /\ IsResult(r) /\ r.res = 0
      /\ IsList(m) /\ m.args = l.args /\ m.aptr = l.aptr /\ m.eptr = l.eptr
      /\ m.end = l.end /\ m.anum = l.anum /\ m.ianum = l.ianum
      /\ m.iargs = l.iargs /\ m.fanum = l.fanum + n
      /\ m.fregs = Marked(l.fregs, l.fanum, bytes)
      /\ m.fmask = l.fmask /\ m.dmask = l.dmask
  BY InFregFields DEF RegInv
<1> HIDE DEF r
<1>2. l.fanum \in Nat /\ l.ianum \in Nat /\ FargNum(a) \in Nat
  BY ListTypes, WordSizes
<1>3. l.fanum \in 0..(FargNum(a) - 1)
  BY <1>2
<1>4. Contents(a, m.iargs, m.fregs, m.fmask \cup m.dmask)
  BY <1>1, <1>3, PutInFregs DEF RegInv
<1>5. Registers(a, m.anum, m.ianum, m.fanum) /\ l.ianum <= m.ianum
  BY <1>1, <1>2 DEF RegInv, Registers
<1>6. Grown(a, l, m)
  <2>1. a.cpu # "hppa" => l.aptr <= m.aptr
    BY <1>1, ListTypes
  <2> QED
    BY <1>1, <2>1, SameIargs
<1>7. Good(a, l, t, r)
  BY <1>1, <1>4, <1>5, <1>6, InRegisters
<1> QED
  BY <1>1, <1>7 DEF Good, r

(* What is put into registers along with a push.                           *)
SameSpace(r, q) ==
  /\ q.res = r.res /\ q.list.args = r.list.args /\ q.list.aptr = r.list.aptr
  /\ q.list.eptr = r.list.eptr /\ q.list.end = r.list.end
  /\ q.list.iargs = r.list.iargs

LEMMA Along ==
  ASSUME NEW a, a.cpu \in Cpus, NEW l, NEW t, NEW r, Good(a, l, t, r),
         NEW q, IsResult(q), r.res = 0, SameSpace(r, q),
         r.list.ianum <= q.list.ianum,
         Registers(a, q.list.anum, q.list.ianum, q.list.fanum),
         Contents(a, q.list.iargs, q.list.fregs, q.list.fmask \cup q.list.dmask)
  PROVE  Good(a, l, t, q)
<1> DEFINE m == r.list
           k == q.list
<1>1. RegInv(a, m) /\ IsList(k)
  BY DEF Good, IsResult
<1>2. /\ q.res = 0 /\ k.args = m.args /\ k.aptr = m.aptr /\ k.eptr = m.eptr
      /\ k.end = m.end
  BY DEF SameSpace
<1>3. RegInv(a, k)
  BY <1>1, <1>2 DEF RegInv
<1>4. m.ianum \in Nat /\ k.ianum \in Nat
  BY <1>1, <1>3, ListTypes
<1>5. Low(a, m) = Low(a, k) /\ High(a, m) = High(a, k)
  BY <1>2 DEF Low, High
<1>6. ASSUME SpaceInv(a, m) PROVE SpaceInv(a, k)
  <2>1. ASSUME NEW x \in DOMAIN k.args PROVE Stored(a, k, x)
    <3>1. Stored(a, m, x)
      BY <1>2, <1>6 DEF SpaceInv
    <3> QED
      BY <3>1, <1>2, <1>4, <1>5 DEF Stored
  <2> QED
    BY <1>2, <1>5, <1>6, <2>1 DEF SpaceInv
<1>7. Kept(l, m) => Kept(l, k)
  BY <1>2 DEF Kept
<1>8. Grown(a, l, k)
  <2>1. Grown(a, l, m) /\ k.iargs = m.iargs
    BY DEF Good, SameSpace
  <2>2. l.ianum \in Nat /\ l.ianum <= m.ianum
    BY <2>1 DEF Grown
  <2>3. l.ianum <= k.ianum
    BY <1>4, <2>2
  <2> QED
    BY <1>2, <2>1, <2>2, <2>3 DEF Grown
<1> QED
  BY <1>2, <1>3, <1>6, <1>7, <1>8 DEF Good

LEMMA GoodFacts ==
  ASSUME NEW a, a.cpu \in Cpus, NEW l, NEW t, NEW r, Good(a, l, t, r)
  PROVE  /\ IsResult(r) /\ IsList(r.list) /\ r.res \in {0, -1}
         /\ Registers(a, r.list.anum, r.list.ianum, r.list.fanum)
         /\ Contents(a, r.list.iargs, r.list.fregs, r.list.fmask \cup r.list.dmask)
         /\ r.list.anum \in Nat /\ r.list.ianum \in Nat /\ r.list.fanum \in Nat
BY ListTypes DEF Good, RegInv

LEMMA CountedGood ==
  ASSUME NEW a, a.cpu \in Cpus, NEW l, NEW t, NEW r, Good(a, l, t, r)
  PROVE  Good(a, l, t, Counted(r))
<1> DEFINE q == Counted(r)
<1>1. CASE r.res # 0
  BY <1>1 DEF Counted
<1>2. CASE r.res = 0
  <2>0. /\ IsResult(r) /\ IsList(r.list) /\ r.list.ianum \in Nat
        /\ r.list.anum \in Nat /\ r.list.fanum \in Nat
        /\ Registers(a, r.list.anum, r.list.ianum, r.list.fanum)
        /\ Contents(a, r.list.iargs, r.list.fregs, r.list.fmask \cup r.list.dmask)
    BY GoodFacts
  <2>1. /\ IsResult(q) /\ SameSpace(r, q) /\ q.list.anum = r.list.anum + 1
        /\ q.list.ianum = r.list.ianum /\ q.list.fanum = r.list.fanum
        /\ q.list.iargs = r.list.iargs /\ q.list.fregs = r.list.fregs
        /\ q.list.fmask = r.list.fmask /\ q.list.dmask = r.list.dmask
    BY <1>2, <2>0 DEF Counted, IsResult, IsList, SameSpace
  <2> HIDE DEF q
  <2>2. Registers(a, q.list.anum, q.list.ianum, q.list.fanum)
    BY <2>0, <2>1 DEF Registers
  <2>3. r.list.ianum <= q.list.ianum
    BY <2>0, <2>1
  <2>4. Good(a, l, t, q)
    BY <1>2, <2>1, <2>2, <2>3, <2>0, Along
  <2> QED
    BY <2>4 DEF q
<1> QED
  BY <1>1, <1>2

LEMMA AlsoFregGood ==
  ASSUME NEW a, a.cpu \in Cpus, NEW l, NEW t, NEW r, Good(a, l, t, r),
         NEW in, NEW k \in Nat, in => k < FargNum(a), NEW bytes
  PROVE  Good(a, l, t, AlsoFreg(r, in, k, bytes))
<1> DEFINE q == AlsoFreg(r, in, k, bytes)
<1>1. CASE ~(r.res = 0 /\ in)
  BY <1>1 DEF AlsoFreg
<1>2. CASE r.res = 0 /\ in
  <2>0. /\ IsResult(r) /\ IsList(r.list) /\ r.list.ianum \in Nat
        /\ r.list.anum \in Nat /\ r.list.fanum \in Nat
        /\ Registers(a, r.list.anum, r.list.ianum, r.list.fanum)
        /\ Contents(a, r.list.iargs, r.list.fregs, r.list.fmask \cup r.list.dmask)
    BY GoodFacts
  <2>1. /\ IsResult(q) /\ SameSpace(r, q) /\ q.list.anum = r.list.anum
        /\ q.list.ianum = r.list.ianum /\ q.list.fanum = r.list.fanum
        /\ q.list.iargs = r.list.iargs
        /\ q.list.fregs = Marked(r.list.fregs, k, bytes)
        /\ q.list.fmask = r.list.fmask /\ q.list.dmask = r.list.dmask
    BY <1>2, <2>0 DEF AlsoFreg, IsResult, IsList, SameSpace
  <2> HIDE DEF q
  <2>2. k \in 0..(FargNum(a) - 1)
    BY <1>2, WordSizes
  <2>3. Contents(a, q.list.iargs, q.list.fregs, q.list.fmask \cup q.list.dmask)
    BY <2>1, <2>0, <2>2, PutInFregs
  <2>4. r.list.ianum <= q.list.ianum
    BY <2>0, <2>1
  <2>5. Good(a, l, t, q)
    BY <1>2, <2>1, <2>3, <2>4, <2>0, Along
  <2> QED
    BY <2>5 DEF q
<1> QED
  BY <1>1, <1>2

LEMMA AlsoFloatWordGood ==
  ASSUME NEW a, a.cpu \in Cpus, NEW l, NEW t, NEW r, Good(a, l, t, r),
         NEW in, NEW k, in => k \in 0..15
  PROVE  Good(a, l, t, AlsoFloatWord(r, in, k))
<1> DEFINE q == AlsoFloatWord(r, in, k)
<1>1. CASE ~(r.res = 0 /\ in)
  BY <1>1 DEF AlsoFloatWord
<1>2. CASE r.res = 0 /\ in
  <2>0. /\ IsResult(r) /\ IsList(r.list) /\ r.list.ianum \in Nat
        /\ r.list.anum \in Nat /\ r.list.fanum \in Nat
        /\ Registers(a, r.list.anum, r.list.ianum, r.list.fanum)
        /\ Contents(a, r.list.iargs, r.list.fregs, r.list.fmask \cup r.list.dmask)
    BY GoodFacts
  <2>1. /\ IsResult(q) /\ SameSpace(r, q) /\ q.list.anum = r.list.anum
        /\ q.list.ianum = r.list.ianum /\ q.list.fanum = r.list.fanum
        /\ q.list.iargs = r.list.iargs /\ q.list.fregs = r.list.fregs
        /\ q.list.fmask = r.list.fmask \cup {k} /\ q.list.dmask = r.list.dmask
    BY <1>2, <2>0 DEF AlsoFloatWord, IsResult, IsList, SameSpace
  <2> HIDE DEF q
  <2>2. Contents(a, q.list.iargs, q.list.fregs, q.list.fmask \cup q.list.dmask)
    BY <1>2, <2>0, <2>1 DEF Contents
  <2>3. r.list.ianum <= q.list.ianum
    BY <2>0, <2>1
  <2>4. Good(a, l, t, q)
    BY <1>2, <2>1, <2>2, <2>3, <2>0, Along
  <2> QED
    BY <2>4 DEF q
<1> QED
  BY <1>1, <1>2

LEMMA AlsoDoubleWordGood ==
  ASSUME NEW a, a.cpu \in Cpus, NEW l, NEW t, NEW r, Good(a, l, t, r),
         NEW in, NEW k, in => k \in 0..15
  PROVE  Good(a, l, t, AlsoDoubleWord(r, in, k))
<1> DEFINE q == AlsoDoubleWord(r, in, k)
<1>1. CASE ~(r.res = 0 /\ in)
  BY <1>1 DEF AlsoDoubleWord
<1>2. CASE r.res = 0 /\ in
  <2>0. /\ IsResult(r) /\ IsList(r.list) /\ r.list.ianum \in Nat
        /\ r.list.anum \in Nat /\ r.list.fanum \in Nat
        /\ Registers(a, r.list.anum, r.list.ianum, r.list.fanum)
        /\ Contents(a, r.list.iargs, r.list.fregs, r.list.fmask \cup r.list.dmask)
    BY GoodFacts
  <2>1. /\ IsResult(q) /\ SameSpace(r, q) /\ q.list.anum = r.list.anum
        /\ q.list.ianum = r.list.ianum /\ q.list.fanum = r.list.fanum
        /\ q.list.iargs = r.list.iargs /\ q.list.fregs = r.list.fregs
        /\ q.list.fmask = r.list.fmask /\ q.list.dmask = r.list.dmask \cup {k}
    BY <1>2, <2>0 DEF AlsoDoubleWord, IsResult, IsList, SameSpace
  <2> HIDE DEF q
  <2>2. Contents(a, q.list.iargs, q.list.fregs, q.list.fmask \cup q.list.dmask)
    BY <1>2, <2>0, <2>1 DEF Contents
  <2>3. r.list.ianum <= q.list.ianum
    BY <2>0, <2>1
  <2>4. Good(a, l, t, q)
    BY <1>2, <2>1, <2>2, <2>3, <2>0, Along
  <2> QED
    BY <2>4 DEF q
<1> QED
  BY <1>1, <1>2

LEMMA NoMoreIargsGood ==
  ASSUME NEW a, a.cpu \in Cpus, NEW l, NEW t, NEW r, Good(a, l, t, r)
  PROVE  Good(a, l, t, NoMoreIargs(a, r))
<1> DEFINE q == NoMoreIargs(a, r)
<1>1. CASE r.res # 0
  BY <1>1 DEF NoMoreIargs
<1>2. CASE r.res = 0
  <2>0. /\ IsResult(r) /\ IsList(r.list) /\ r.list.ianum \in Nat
        /\ r.list.anum \in Nat /\ r.list.fanum \in Nat
        /\ Registers(a, r.list.anum, r.list.ianum, r.list.fanum)
        /\ Contents(a, r.list.iargs, r.list.fregs, r.list.fmask \cup r.list.dmask)
    BY GoodFacts
  <2>1. /\ IsResult(q) /\ SameSpace(r, q) /\ q.list.anum = r.list.anum
        /\ q.list.ianum = IargNum(a) /\ q.list.fanum = r.list.fanum
        /\ q.list.iargs = r.list.iargs /\ q.list.fregs = r.list.fregs
        /\ q.list.fmask = r.list.fmask /\ q.list.dmask = r.list.dmask
    BY <1>2, <2>0 DEF NoMoreIargs, IsResult, IsList, SameSpace
  <2> HIDE DEF q
  <2>2. /\ Registers(a, q.list.anum, q.list.ianum, q.list.fanum)
        /\ r.list.ianum <= q.list.ianum
    BY <2>0, <2>1, WordSizes DEF Registers
  <2>3. Good(a, l, t, q)
    BY <1>2, <2>1, <2>2, <2>0, Along
  <2> QED
    BY <2>3 DEF q
<1> QED
  BY <1>1, <1>2

LEMMA AlsoInFreg ==
  ASSUME NEW a, a.cpu \in Cpus, NEW l, NEW t, NEW r, Good(a, l, t, r),
         r.res = 0, r.list.fanum < FargNum(a), NEW bytes
  PROVE  Good(a, l, t, [r EXCEPT !.list = InFreg(r.list, bytes, 1).list])
<1> DEFINE k == InFreg(r.list, bytes, 1).list
           q == [r EXCEPT !.list = k]
<1>1. /\ IsResult(r) /\ IsList(r.list) /\ r.list.ianum \in Nat /\ r.list.fanum \in Nat
      /\ Registers(a, r.list.anum, r.list.ianum, r.list.fanum)
      /\ Contents(a, r.list.iargs, r.list.fregs, r.list.fmask \cup r.list.dmask)
  BY GoodFacts
<1>2. /\ IsList(k) /\ k.args = r.list.args /\ k.aptr = r.list.aptr
      /\ k.eptr = r.list.eptr /\ k.end = r.list.end /\ k.anum = r.list.anum
      /\ k.ianum = r.list.ianum /\ k.iargs = r.list.iargs
      /\ k.fanum = r.list.fanum + 1
      /\ k.fregs = Marked(r.list.fregs, r.list.fanum, bytes)
      /\ k.fmask = r.list.fmask /\ k.dmask = r.list.dmask
  BY <1>1, InFregFields
<1> HIDE DEF k
<1>3. IsResult(q) /\ q.res = r.res /\ q.list = k
  BY <1>1, <1>2 DEF IsResult
<1> HIDE DEF q
<1>4. SameSpace(r, q) /\ r.list.ianum <= q.list.ianum
  BY <1>1, <1>2, <1>3 DEF SameSpace
<1>5. r.list.fanum \in 0..(FargNum(a) - 1)
  BY <1>1, WordSizes
<1>6. Contents(a, q.list.iargs, q.list.fregs, q.list.fmask \cup q.list.dmask)
  <2>1. Contents(a, r.list.iargs, Marked(r.list.fregs, r.list.fanum, bytes),
                 r.list.fmask \cup r.list.dmask)
    BY <1>1, <1>5, PutInFregs
  <2> QED
    BY <2>1, <1>2, <1>3
<1>7. Registers(a, q.list.anum, q.list.ianum, q.list.fanum)
  BY <1>1, <1>2, <1>3, <1>5, WordSizes DEF Registers
<1>8. Good(a, l, t, q)
  BY <1>3, <1>4, <1>6, <1>7, Along
<1> QED
  BY <1>8 DEF q, k

LEMMA AlsoNextFregGood ==
  ASSUME NEW a, a.cpu \in Cpus, NEW l, NEW t, NEW r, Good(a, l, t, r), NEW bytes
  PROVE  Good(a, l, t, AlsoNextFreg(a, r, bytes))
BY AlsoInFreg DEF AlsoNextFreg

LEMMA AlsoLeadingGood ==
  ASSUME NEW a, a.cpu = "mips", NEW l, NEW t, NEW r, Good(a, l, t, r),
         r.list.fanum = l.fanum, NEW bytes
  PROVE  Good(a, l, t, AlsoLeading(l, r, bytes))
<1>1. a.cpu \in Cpus
  BY DEF Cpus, Cpus32
<1>2. FargNum(a) = 2
  BY <1>1, RegisterCounts
<1> QED
  BY <1>1, <1>2, AlsoInFreg DEF AlsoLeading

LEMMA AlsoStructWordsGood ==
  ASSUME NEW a, a.cpu \in Cpus, NEW l, NEW t, NEW r, Good(a, l, t, r),
         NEW n \in 0..16, NEW words \in Nat
  PROVE  Good(a, l, t, AlsoStructWords(r, n, words))
<1> DEFINE q     == AlsoStructWords(r, n, words)
           next  == r.list.anum + words
           marks == r.list.dmask \cup
                      (IF r.list.anum < n THEN r.list.anum..(n - 1) ELSE {})
<1>1. CASE r.res # 0
  BY <1>1 DEF AlsoStructWords
<1>2. CASE r.res = 0
  <2>0. /\ IsResult(r) /\ IsList(r.list) /\ r.list.ianum \in Nat
        /\ r.list.anum \in Nat /\ r.list.fanum \in Nat
        /\ Registers(a, r.list.anum, r.list.ianum, r.list.fanum)
        /\ Contents(a, r.list.iargs, r.list.fregs, r.list.fmask \cup r.list.dmask)
    BY GoodFacts
  <2>1. q = [r EXCEPT !.list.anum = next, !.list.dmask = {k \in marks : k < next}]
    BY <1>2 DEF AlsoStructWords
  <2>2. next \in Nat /\ marks \subseteq r.list.dmask \cup 0..15
    BY <2>0
  <2> HIDE DEF marks, next
  <2> DEFINE kept == {k \in marks : k < next}
  <2>3. kept \subseteq r.list.dmask \cup 0..15
    BY <2>2
  <2> HIDE DEF kept
  <2> DEFINE k == [r.list EXCEPT !.anum = next, !.dmask = kept]
  <2>4. q = [r EXCEPT !.list = k]
    BY <2>0, <2>1 DEF kept, IsResult, IsList
  <2>5. /\ IsList(k) /\ k.args = r.list.args /\ k.aptr = r.list.aptr
        /\ k.eptr = r.list.eptr /\ k.end = r.list.end /\ k.anum = next
        /\ k.ianum = r.list.ianum /\ k.iargs = r.list.iargs
        /\ k.fanum = r.list.fanum /\ k.fregs = r.list.fregs
        /\ k.fmask = r.list.fmask /\ k.dmask = kept
    BY <2>0 DEF IsList
  <2> HIDE DEF k, q
  <2>6. IsResult(q) /\ q.res = r.res /\ q.list = k
    BY <2>0, <2>4, <2>5 DEF IsResult
  <2>7. SameSpace(r, q) /\ r.list.ianum <= q.list.ianum
    BY <2>0, <2>5, <2>6 DEF SameSpace
  <2>8. Registers(a, q.list.anum, q.list.ianum, q.list.fanum)
    BY <2>0, <2>2, <2>5, <2>6 DEF Registers
  <2>9. Contents(a, q.list.iargs, q.list.fregs, q.list.fmask \cup q.list.dmask)
    BY <2>0, <2>3, <2>5, <2>6 DEF Contents
  <2>10. Good(a, l, t, q)
    BY <1>2, <2>6, <2>7, <2>8, <2>9, Along
  <2> QED
    BY <2>10 DEF q
<1> QED
  BY <1>1, <1>2, GoodFacts

-----------------------------------------------------------------------------
(* hppa, where arguments grow down.                                        *)

LEMMA StackedDownGood ==
  ASSUME NEW a, a.cpu = "hppa", NEW l, RegInv(a, l), NEW t,
         NEW next \in Int, NEW at \in Int, NEW bytes, Len(bytes) \in Nat,
         next <= l.aptr, next <= at, at + Len(bytes) <= l.aptr,
         SpaceInv(a, l) => l.eptr <= next /\ next % 4 = 0
  PROVE  Good(a, l, t, Stacked(l, next, at, bytes))
<1> DEFINE r == Stacked(l, next, at, bytes)
           m == r.list
<1>0. a.cpu \in Cpus /\ a.cpu \notin SysV /\ W(a) = 4
  BY DEF Cpus, Cpus32, SysV, W
<1>1. /\ IsResult(r) /\ r.res = 0 /\ IsList(m)
      /\ m.aptr = next /\ m.args = Put(l.args, at, bytes)
      /\ m.eptr = l.eptr /\ m.end = l.end /\ m.anum = l.anum
      /\ m.ianum = l.ianum /\ m.iargs = l.iargs
      /\ m.fanum = l.fanum /\ m.fregs = l.fregs
      /\ m.fmask = l.fmask /\ m.dmask = l.dmask
  BY StackedList DEF RegInv, IsResult
<1> HIDE DEF r, m
<1>2. l.aptr \in Int /\ l.eptr \in Int /\ l.ianum \in Int /\ l.end \in Int
  BY <1>0, ListTypes
<1>3. RegInv(a, m)
  <2>1. Pointers(a, next, l.eptr, l.end)
    BY <1>2 DEF RegInv, Pointers
  <2> QED
    BY <1>1, <2>1 DEF RegInv
<1>4. ASSUME SpaceInv(a, l) PROVE SpaceInv(a, m) /\ Kept(l, m)
  <2>1. l.eptr <= next /\ next % 4 = 0
    BY <1>4
  <2>2. /\ Low(a, l) = l.eptr /\ High(a, l) = l.aptr
        /\ Low(a, m) = l.eptr /\ High(a, m) = next
    BY <1>1 DEF Low, High
  <2>3. /\ m.end = l.end /\ m.ianum \in Int /\ l.ianum <= m.ianum
        /\ m.aptr \in Int /\ m.eptr \in Int
    BY <1>1, <1>2
  <2>4. /\ Low(a, l) <= at /\ at + Len(bytes) <= High(a, l)
        /\ High(a, m) <= at
        /\ Low(a, l) <= Low(a, m) /\ Low(a, m) <= High(a, m)
        /\ High(a, m) <= High(a, l)
    BY <1>2, <2>1, <2>2
  <2>5. Kept(l, m) /\ \A x \in DOMAIN m.args : Stored(a, m, x)
    BY <1>0, <1>1, <1>4, <2>3, <2>4, StoreInFree
  <2>6. 0 <= l.eptr /\ l.aptr <= l.end /\ l.eptr % 8 = 0
    BY <1>4, <2>2 DEF SpaceInv
  <2> QED
    BY SMTT(60), <1>0, <1>1, <1>2, <2>1, <2>2, <2>5, <2>6 DEF SpaceInv
<1>5. Grown(a, l, m)
  BY <1>0, <1>1, <1>2, SameIargs
<1> QED
  BY <1>1, <1>3, <1>4, <1>5 DEF Good, m, r

-----------------------------------------------------------------------------
(* armhf, where the integer registers are the first words of args[].       *)

LEMMA CoreRegistersGood ==
  ASSUME NEW a, a.cpu = "armhf", NEW l, RegInv(a, l), NEW t,
         NEW next \in 0..4, NEW at \in Int, NEW bytes, Len(bytes) \in Nat,
         4 * l.ianum <= at, at + Len(bytes) <= 4 * next
  PROVE  Good(a, l, t, Done([l EXCEPT !.ianum = next, !.args = Put(@, at, bytes)]))
<1> DEFINE m == [l EXCEPT !.ianum = next, !.args = Put(@, at, bytes)]
           r == Done(m)
           n == Len(bytes)
           mem == Put(l.args, at, bytes)
<1>1. a.cpu \in Cpus /\ IargNum(a) = 4 /\ a.cpu # "hppa"
  <2>1. a.cpu \in Cpus
    BY DEF Cpus, Cpus32
  <2> QED
    BY <2>1, RegisterCounts
<1>2. /\ IsList(m) /\ m.aptr = l.aptr /\ m.eptr = l.eptr
      /\ m.end = l.end /\ m.anum = l.anum /\ m.ianum = next
      /\ m.iargs = l.iargs /\ m.fanum = l.fanum /\ m.fregs = l.fregs
      /\ m.fmask = l.fmask /\ m.dmask = l.dmask
  BY DEF RegInv, IsList
<1>3. m.args = mem
  BY DEF RegInv, IsList
<1> HIDE DEF m
<1>4. /\ DOMAIN mem = DOMAIN l.args \cup at..(at + n - 1)
      /\ \A x \in DOMAIN l.args : x \notin at..(at + n - 1) => mem[x] = l.args[x]
  BY ZenonT(60), PutFacts
<1> HIDE DEF mem
<1>5. IsResult(r) /\ r.res = 0 /\ r.list = m
  BY <1>2 DEF IsResult, Done
<1> HIDE DEF r
<1>6. l.ianum \in Nat /\ l.aptr \in Int /\ l.eptr \in Int /\ l.end \in Int /\ l.aptr >= 16
  BY <1>1, ListTypes
<1>7. RegInv(a, m)
  BY <1>1, <1>2 DEF RegInv, Registers
<1>8. /\ DOMAIN m.args = DOMAIN l.args \cup at..(at + n - 1)
      /\ \A x \in DOMAIN l.args : x \notin at..(at + n - 1) => m.args[x] = l.args[x]
  BY <1>3, <1>4
<1> HIDE DEF n
<1>9. ASSUME SpaceInv(a, l) PROVE SpaceInv(a, m) /\ Kept(l, m)
  <2>1. /\ Low(a, l) = l.aptr /\ High(a, l) = l.eptr
        /\ Low(a, m) = l.aptr /\ High(a, m) = l.eptr
    BY <1>1, <1>2 DEF Low, High
  <2>2. /\ l.aptr <= l.eptr /\ l.eptr <= l.end
        /\ \A x \in DOMAIN l.args : Stored(a, l, x)
    BY <1>9, <2>1 DEF SpaceInv
  <2>3. ASSUME NEW x \in DOMAIN l.args
        PROVE  Stored(a, m, x) /\ x \notin at..(at + n - 1)
    <3>1. /\ x \in Int /\ 0 <= x /\ x < l.end /\ (x < l.aptr \/ l.eptr <= x)
          /\ x < 16 => x < 4 * l.ianum
      BY <2>1, <2>2 DEF Stored
    <3>2. n \in Nat /\ at + n <= 16 /\ l.ianum <= next
      BY SMTT(60), <1>6 DEF n
    <3> QED
      BY SMTT(60), <1>2, <1>6, <2>1, <3>1, <3>2 DEF Stored, n
  <2>4. ASSUME NEW x \in at..(at + n - 1) PROVE Stored(a, m, x)
    <3>1. x \in Int /\ 0 <= x /\ x < 4 * next /\ x < 16
      BY <1>6 DEF n
    <3> QED
      BY SMTT(60), <1>2, <1>6, <2>1, <2>2, <3>1 DEF Stored
  <2>5. Kept(l, m)
    BY <1>8, <2>3 DEF Kept
  <2>6. \A x \in DOMAIN m.args : Stored(a, m, x)
    BY <1>8, <2>3, <2>4
  <2> QED
    BY <1>2, <1>9, <2>1, <2>5, <2>6 DEF SpaceInv
<1>10. Grown(a, l, m)
  <2>1. l.ianum <= m.ianum /\ m.ianum \in Int
    BY <1>2, <1>6 DEF n
  <2> QED
    BY SMTT(60), <1>1, <1>2, <1>6, <2>1, SameIargs
<1>11. Good(a, l, t, r)
  BY <1>2, <1>5, <1>7, <1>9, <1>10 DEF Good
<1> QED
  BY <1>11 DEF r, m

(* An argument that lies partly in the last core registers and partly on   *)
(* the stack, which is still empty.                                        *)
LEMMA SplitGood ==
  ASSUME NEW a, a.cpu = "armhf", NEW l, RegInv(a, l), NEW t, l.aptr = 16,
         NEW next \in Int, NEW at \in Int, NEW bytes, Len(bytes) \in Nat,
         4 * l.ianum <= at, at + Len(bytes) <= next, 16 <= next, next % 4 = 0,
         SpaceInv(a, l) => next <= l.eptr
  PROVE  Good(a, l, t, NoMoreIargs(a, Stacked(l, next, at, bytes)))
<1> DEFINE s == Stacked(l, next, at, bytes)
           r == NoMoreIargs(a, s)
           m == r.list
           n == Len(bytes)
<1>1. a.cpu \in Cpus
  BY DEF Cpus, Cpus32
<1>2. /\ a.cpu # "hppa" /\ IargNum(a) = 4 /\ W(a) = 4 /\ a.cpu \notin SysV
  BY <1>1, RegisterCounts DEF SysV
<1>3. /\ IsResult(s) /\ s.res = 0 /\ IsList(s.list)
      /\ s.list.aptr = next /\ s.list.args = Put(l.args, at, bytes)
      /\ s.list.eptr = l.eptr /\ s.list.end = l.end /\ s.list.anum = l.anum
      /\ s.list.iargs = l.iargs
      /\ s.list.fanum = l.fanum /\ s.list.fregs = l.fregs
      /\ s.list.fmask = l.fmask /\ s.list.dmask = l.dmask
  BY StackedList DEF RegInv, IsResult
<1> HIDE DEF s
<1>4. /\ IsResult(r) /\ r.res = 0 /\ IsList(m)
      /\ m.aptr = next /\ m.args = Put(l.args, at, bytes)
      /\ m.eptr = l.eptr /\ m.end = l.end /\ m.anum = l.anum
      /\ m.ianum = 4 /\ m.iargs = l.iargs
      /\ m.fanum = l.fanum /\ m.fregs = l.fregs
      /\ m.fmask = l.fmask /\ m.dmask = l.dmask
  BY <1>2, <1>3 DEF NoMoreIargs, IsResult, IsList
<1> HIDE DEF r, m
<1>5. l.ianum \in Nat /\ l.ianum <= 4 /\ l.eptr \in Int /\ l.end \in Int
  <2>1. l.ianum \in 0..IargNum(a)
    BY DEF RegInv, Registers
  <2> QED
    BY SMTT(60), <1>1, <1>2, <2>1, ListTypes
<1>6. RegInv(a, m)
  <2>1. Pointers(a, next, l.eptr, l.end)
    BY <1>2, <1>5 DEF RegInv, Pointers
  <2>2. Registers(a, l.anum, 4, l.fanum)
    BY <1>2 DEF RegInv, Registers
  <2> QED
    BY <1>4, <2>1, <2>2 DEF RegInv
<1> DEFINE mem == Put(l.args, at, bytes)
<1>7. /\ DOMAIN mem = DOMAIN l.args \cup at..(at + n - 1)
      /\ \A x \in DOMAIN l.args : x \notin at..(at + n - 1) => mem[x] = l.args[x]
  BY ZenonT(60), PutFacts
<1>8. m.args = mem
  BY <1>4
<1> HIDE DEF mem
<1>9. n \in Nat /\ at + n <= next
  OBVIOUS
<1> HIDE DEF n
<1>10. ASSUME SpaceInv(a, l) PROVE SpaceInv(a, m) /\ Kept(l, m)
  <2>1. /\ Low(a, l) = 16 /\ High(a, l) = l.eptr
        /\ Low(a, m) = next /\ High(a, m) = l.eptr
    BY <1>2, <1>4 DEF Low, High
  <2>2. /\ next <= l.eptr /\ l.eptr <= l.end /\ l.eptr % 8 = 0
        /\ \A x \in DOMAIN l.args : Stored(a, l, x)
    BY <1>10, <2>1 DEF SpaceInv
  <2>3. ASSUME NEW x \in DOMAIN l.args
        PROVE  Stored(a, m, x) /\ x \notin at..(at + n - 1)
    <3>1. /\ x \in Int /\ 0 <= x /\ x < l.end /\ (x < 16 \/ l.eptr <= x)
          /\ x < 16 => x < 4 * l.ianum
      BY <2>1, <2>2 DEF Stored
    <3> QED
      BY SMTT(60), <1>4, <1>5, <1>9, <2>1, <2>2, <3>1 DEF Stored
  <2>4. ASSUME NEW x \in at..(at + n - 1) PROVE Stored(a, m, x)
    <3>1. x \in Int /\ 0 <= x /\ x < next
      BY <1>5, <1>9
    <3> QED
      BY <1>4, <1>5, <2>1, <2>2, <3>1 DEF Stored
  <2>5. Kept(l, m)
    BY <1>7, <1>8, <2>3 DEF Kept
  <2>6. \A x \in DOMAIN m.args : Stored(a, m, x)
    BY <1>7, <1>8, <2>3, <2>4
  <2>7. 0 <= next /\ next % W(a) = 0
    BY <1>2
  <2> QED
    BY <1>4, <2>1, <2>2, <2>5, <2>6, <2>7 DEF SpaceInv
<1>11. Grown(a, l, m)
  BY SMTT(60), <1>1, <1>4, <1>5, SameIargs
<1>12. Good(a, l, t, r)
  BY <1>4, <1>6, <1>10, <1>11 DEF Good, m
<1> QED
  BY <1>12 DEF r, s

-----------------------------------------------------------------------------
(* A list of which only a count has changed.                               *)

LEMMA CountChanged ==
  ASSUME NEW a, a.cpu \in Cpus, NEW l, RegInv(a, l), NEW t, NEW m, IsList(m),
         m.args = l.args, m.aptr = l.aptr, m.eptr = l.eptr, m.end = l.end,
         m.anum = l.anum, m.iargs = l.iargs, m.fregs = l.fregs,
         m.fmask = l.fmask, m.dmask = l.dmask,
         m.ianum \in 0..IargNum(a), l.ianum <= m.ianum, m.fanum \in 0..FargNum(a),
         a.cpu = "armhf" => m.ianum = l.ianum,
         a.cpu = "arm64_apple" => m.fanum = l.fanum,
         NEW r
  PROVE  RegInv(a, m) /\ (Good(a, m, t, r) => Good(a, l, t, r))
<1>1. RegInv(a, m)
  BY DEF RegInv, Registers
<1>2. Low(a, m) = Low(a, l) /\ High(a, m) = High(a, l)
  BY DEF Low, High
<1>3. ASSUME SpaceInv(a, l) PROVE SpaceInv(a, m)
  <2>1. ASSUME NEW x \in DOMAIN m.args PROVE Stored(a, m, x)
    <3>1. Stored(a, l, x)
      BY <1>3 DEF SpaceInv
    <3> QED
      BY <3>1, <1>2 DEF Stored
  <2> QED
    BY <1>2, <1>3, <2>1 DEF SpaceInv
<1>4. Overruns(a, m, t) => Overruns(a, l, t)
  BY DEF Overruns
<1>5. Kept(m, r.list) => Kept(l, r.list)
  BY DEF Kept
<1>6. ASSUME Grown(a, m, r.list), RegInv(a, r.list) PROVE Grown(a, l, r.list)
  <2>1. l.ianum \in Nat /\ m.ianum \in Nat /\ r.list.ianum \in Nat /\ R(a) \in {4, 8}
    BY <1>1, <1>6, ListTypes, WordSizes
  <2>2. R(a) * l.ianum \in Int /\ R(a) * m.ianum \in Int
        /\ R(a) * l.ianum <= R(a) * m.ianum
    BY <2>1
  <2>3. \A x \in DOMAIN l.iargs : x \in Int
    BY DEF RegInv, Contents
  <2>4. l.ianum <= r.list.ianum
    BY <1>6, <2>1 DEF Grown
  <2>5. \A x \in DOMAIN l.iargs : x < R(a) * l.ianum => x < R(a) * m.ianum
    BY <2>2, <2>3
  <2> QED
    BY <1>6, <2>1, <2>4, <2>5 DEF Grown
<1> QED
  BY <1>1, <1>3, <1>4, <1>5, <1>6 DEF Good

-----------------------------------------------------------------------------
(* The macros for integers.                                                *)

LEMMA WordGood ==
  ASSUME NEW a, a.cpu \in Cpus, NEW l, RegInv(a, l), NEW t, NEW word,
         Len(word) = W(a)
  PROVE  Good(a, l, t, av_word(a, l, word))
<1>1. /\ l.aptr \in Int /\ l.eptr \in Int /\ l.ianum \in Nat
      /\ W(a) \in {4, 8} /\ Len(word) \in Nat
  BY ListTypes, WordSizes
<1>2. CASE a.cpu = "hppa"
  <2>1. W(a) = 4 /\ a.cpu \notin SysV
    BY <1>2 DEF W, Cpus32, SysV
  <2>2. CASE l.aptr <= l.eptr
    <3>1. av_word(a, l, word) = Fail(l)
      BY <1>2, <2>2 DEF av_word, CountsArguments, MipsWide
    <3> QED
      BY <3>1, FailGood
  <2>3. CASE ~(l.aptr <= l.eptr)
    <3> DEFINE at == l.aptr - 4
    <3>1. av_word(a, l, word) = Stacked(l, at, at, word)
      BY <1>2, <2>3 DEF av_word, CountsArguments, MipsWide
    <3>2. SpaceInv(a, l) => l.eptr <= at /\ at % 4 = 0
      <4> SUFFICES ASSUME SpaceInv(a, l) PROVE l.eptr <= at /\ at % 4 = 0
        OBVIOUS
      <4>1. l.aptr % 4 = 0 /\ l.eptr % 8 = 0
        BY <2>1 DEF SpaceInv
      <4> QED
        BY <4>1, <1>1, <2>3
    <3>3. at \in Int /\ at <= l.aptr /\ at + Len(word) <= l.aptr
      BY <1>1, <2>1
    <3> HIDE DEF at
    <3>4. Good(a, l, t, Stacked(l, at, at, word))
      BY <1>1, <1>2, <3>2, <3>3, StackedDownGood
    <3> QED
      BY <3>1, <3>4
  <2> QED
    BY <2>2, <2>3
<1>3. CASE a.cpu = "armhf" /\ l.ianum < IargNum(a)
  <2> DEFINE next == l.ianum + 1
             at == 4 * l.ianum
  <2>1. av_word(a, l, word) = Done([l EXCEPT !.ianum = next, !.args = Put(@, at, word)])
    BY <1>3 DEF av_word, CountsArguments, MipsWide
  <2>2. IargNum(a) = 4 /\ W(a) = 4
    BY <1>3, RegisterCounts
  <2>3. /\ next \in 0..4 /\ at \in Int /\ 4 * l.ianum <= at
        /\ at + Len(word) <= 4 * next
    BY SMTT(60), <1>1, <1>3, <2>2
  <2> HIDE DEF next, at
  <2>4. Good(a, l, t, Done([l EXCEPT !.ianum = next, !.args = Put(@, at, word)]))
    BY <1>1, <1>3, <2>3, CoreRegistersGood
  <2> QED
    BY <2>1, <2>4
<1>4. CASE a.cpu # "hppa" /\ ~(a.cpu = "armhf" /\ l.ianum < IargNum(a))
  <2> DEFINE slot == Slot(l, W(a), l.aptr, word)
  <2>1. Good(a, l, t, slot)
    BY <1>1, <1>4, SlotGood
  <2>2. av_word(a, l, word) \in {slot, Counted(slot)}
    BY <1>4 DEF av_word
  <2> HIDE DEF slot
  <2> QED
    BY <2>1, <2>2, CountedGood
<1> QED
  BY <1>2, <1>3, <1>4

LEMMA IntGood ==
  ASSUME NEW a, a.cpu \in Cpus, NEW l, RegInv(a, l), NEW t, NEW i, NEW n \in Nat,
         n <= R(a), n <= W(a) \/ (a.cpu \in HasIargs /\ l.ianum < IargNum(a))
  PROVE  Good(a, l, t, av_int(a, l, Own(i, n)))
<1>1. W(a) \in {4, 8} /\ R(a) \in {4, 8}
  BY WordSizes
<1>2. CASE a.cpu \in HasIargs /\ l.ianum < IargNum(a)
  <2> DEFINE word == Extended(a, Own(i, n), R(a))
  <2>1. Len(word) = R(a)
    BY <1>1, LengthExtended DEF Own
  <2>2. av_int(a, l, Own(i, n)) = InIarg(a, l, word)
    BY <1>2 DEF av_int
  <2> HIDE DEF word
  <2>3. Good(a, l, t, InIarg(a, l, word))
    BY <1>1, <1>2, <2>1, InIargGood
  <2> QED
    BY <2>2, <2>3
<1>3. CASE ~(a.cpu \in HasIargs /\ l.ianum < IargNum(a))
  <2> DEFINE word == Extended(a, Own(i, n), W(a))
  <2>1. Len(word) = W(a)
    BY <1>1, <1>3, LengthExtended DEF Own
  <2>2. av_int(a, l, Own(i, n)) = av_word(a, l, word)
    BY <1>3 DEF av_int
  <2> HIDE DEF word
  <2>3. Good(a, l, t, av_word(a, l, word))
    BY <2>1, WordGood
  <2> QED
    BY <2>2, <2>3
<1> QED
  BY <1>2, <1>3

LEMMA LengthOwn ==
  ASSUME NEW i, NEW n \in Nat
  PROVE  Len(Own(i, n)) = n
BY LengthOfBytes DEF Own

LEMMA LongGood ==
  ASSUME NEW a, a.cpu \in Cpus, NEW l, RegInv(a, l), NEW t, NEW i,
         NEW n \in {4, 8}, n <= R(a), n <= W(a) \/ (a.cpu = "arm64_apple" /\ n = 8)
  PROVE  Good(a, l, t, av_long(a, l, Own(i, n)))
<1>1. /\ l.aptr \in Int /\ l.eptr \in Int /\ l.ianum \in Nat /\ IargNum(a) \in Nat
      /\ W(a) \in {4, 8}
  BY ListTypes, WordSizes
<1>2. CASE a.cpu = "arm64_apple" /\ l.ianum >= IargNum(a)
  <2> DEFINE end == l.aptr + 8
  <2>1. av_long(a, l, Own(i, n)) = Embed(l, end, Own(i, n))
    BY <1>2 DEF av_long
  <2>2. Len(Own(i, n)) = n
    BY LengthOwn
  <2>3. end \in Int /\ Len(Own(i, n)) \in Nat /\ l.aptr + Len(Own(i, n)) <= end
    BY <1>1, <2>2
  <2>4. WholeWords(a, l, end)
    <3>1. W(a) = 4 /\ a.cpu \notin SysV
      BY <1>2 DEF W, Cpus32, SysV
    <3> SUFFICES ASSUME SpaceInv(a, l) PROVE end % 4 = 0
      BY <3>1 DEF WholeWords
    <3>2. l.aptr % 4 = 0
      BY <3>1 DEF SpaceInv
    <3> QED
      BY <1>1, <3>2
  <2> HIDE DEF end
  <2>5. Good(a, l, t, Embed(l, end, Own(i, n)))
    BY <1>2, <2>3, <2>4, EmbedGood
  <2> QED
    BY <2>1, <2>5
<1>3. CASE ~(a.cpu = "arm64_apple" /\ l.ianum >= IargNum(a))
  <2>1. av_long(a, l, Own(i, n)) = av_int(a, l, Own(i, n))
    BY <1>3 DEF av_long
  <2>2. n <= W(a) \/ (a.cpu \in HasIargs /\ l.ianum < IargNum(a))
    BY <1>1, <1>3 DEF HasIargs, Arm64
  <2>3. Good(a, l, t, av_int(a, l, Own(i, n)))
    BY <2>2, IntGood
  <2> QED
    BY <2>1, <2>3
<1> QED
  BY <1>2, <1>3

(* Eight bytes where a word has four.                                      *)
LEMMA EightFits ==
  ASSUME NEW a, a.cpu \in Cpus, a.cpu # "hppa", W(a) = 4, NEW l, RegInv(a, l),
         NEW end, end \in {l.aptr + 8, AlignUp(l.aptr + 8, 4), AlignUp(l.aptr + 8, 8)}
  PROVE  end \in Int /\ l.aptr + 8 <= end /\ WholeWords(a, l, end)
<1>1. l.aptr \in Int
  BY ListTypes
<1>2. end \in Int /\ l.aptr + 8 <= end
  BY <1>1 DEF AlignUp
<1>3. WholeWords(a, l, end)
  <2> SUFFICES ASSUME SpaceInv(a, l), a.cpu \notin SysV PROVE end % 4 = 0
    BY DEF WholeWords
  <2>1. l.aptr % 4 = 0
    BY DEF SpaceInv
  <2>2. CASE end = l.aptr + 8
    BY <1>1, <2>1, <2>2
  <2>3. CASE end = AlignUp(l.aptr + 8, 4)
    BY <1>1, <2>3 DEF AlignUp
  <2>4. CASE end = AlignUp(l.aptr + 8, 8)
    <3>1. end % 8 = 0
      BY <1>1, <2>4 DEF AlignUp
    <3> QED
      BY <1>2, <3>1
  <2> QED
    BY <2>2, <2>3, <2>4
<1> QED
  BY <1>2, <1>3

LEMMA EightGood ==
  ASSUME NEW a, a.cpu \in Cpus, a.cpu # "hppa", W(a) = 4, NEW l, RegInv(a, l), NEW t,
         NEW own, Len(own) \in {8},
         NEW end, end \in {l.aptr + 8, AlignUp(l.aptr + 8, 4), AlignUp(l.aptr + 8, 8)}
  PROVE  /\ Good(a, l, t, Embed(l, end, own))
         /\ Embed(l, end, own).list.fanum = l.fanum
<1>1. end \in Int /\ l.aptr + Len(own) <= end /\ WholeWords(a, l, end)
  BY EightFits
<1>2. Len(own) \in Nat
  OBVIOUS
<1> QED
  BY <1>1, <1>2, EmbedGood

LEMMA EightDownGood ==
  ASSUME NEW a, a.cpu = "hppa", NEW l, RegInv(a, l), NEW t, NEW own, Len(own) = 8,
         NEW at \in {AlignDown(l.aptr, 8) - 8, AlignDown(l.aptr - 8, 8)}
  PROVE  /\ Good(a, l, t, IF at < l.eptr THEN Fail(l) ELSE Stacked(l, at, at, own))
         /\ at \in Int /\ at + 8 <= l.end /\ l.end \in Int
<1>1. a.cpu \in Cpus
  BY DEF Cpus, Cpus32
<1>2. l.aptr \in Int /\ l.eptr \in Int /\ l.end \in Int /\ l.aptr <= l.end
  BY DEF RegInv, Pointers
<1>3. at \in Int /\ at + 8 <= l.aptr /\ at % 8 = 0
  BY <1>2 DEF AlignDown
<1>4. CASE at < l.eptr
  BY <1>2, <1>3, <1>4, FailGood
<1>5. CASE ~(at < l.eptr)
  <2>1. /\ l.eptr <= at /\ at % 4 = 0 /\ at <= l.aptr /\ at <= at
        /\ at + Len(own) <= l.aptr /\ Len(own) \in Nat
    BY <1>2, <1>3, <1>5
  <2>2. Good(a, l, t, Stacked(l, at, at, own))
    BY <1>3, <2>1, StackedDownGood
  <2> QED
    BY <1>2, <1>3, <1>5, <2>2
<1> QED
  BY <1>4, <1>5

LEMMA NoMoreBefore ==
  ASSUME NEW a, a.cpu \in Cpus, a.cpu # "hppa", a.cpu # "armhf", W(a) = 4,
         NEW l, RegInv(a, l), NEW t, NEW own, Len(own) = 8, NEW al \in {4, 8}
  PROVE  Good(a, l, t, Embed([l EXCEPT !.ianum = IargNum(a)],
                             AlignUp(l.aptr + 8, al), own))
<1> DEFINE m   == [l EXCEPT !.ianum = IargNum(a)]
           end == AlignUp(l.aptr + 8, al)
<1>1. /\ IsList(m) /\ m.args = l.args /\ m.aptr = l.aptr /\ m.eptr = l.eptr
      /\ m.end = l.end /\ m.anum = l.anum /\ m.ianum = IargNum(a)
      /\ m.iargs = l.iargs /\ m.fanum = l.fanum /\ m.fregs = l.fregs
      /\ m.fmask = l.fmask /\ m.dmask = l.dmask
  BY DEF RegInv, IsList
<1> HIDE DEF m
<1>2. /\ m.ianum \in 0..IargNum(a) /\ l.ianum <= m.ianum
      /\ m.fanum \in 0..FargNum(a)
  <2>1. l.fanum \in 0..FargNum(a) /\ l.ianum \in 0..IargNum(a)
    BY DEF RegInv, Registers
  <2> QED
    BY <1>1, <2>1, WordSizes
<1>3. RegInv(a, m)
  BY <1>1, <1>2, CountChanged
<1>4. end \in {m.aptr + 8, AlignUp(m.aptr + 8, 4), AlignUp(m.aptr + 8, 8)}
  BY <1>1
<1> HIDE DEF end
<1>5. Good(a, m, t, Embed(m, end, own))
  BY <1>3, <1>4, EightGood
<1>6. Good(a, l, t, Embed(m, end, own))
  BY <1>1, <1>2, <1>5, CountChanged
<1> QED
  BY <1>6 DEF m, end

(* A long long on the CPUs where it takes two words.                        *)
LEMMA TwoWordsGood ==
  ASSUME NEW a, a.cpu \in Cpus32, NEW l, RegInv(a, l), NEW t, NEW own, Len(own) \in {8}
  PROVE  Good(a, l, t, av_longlong(a, l, own))
<1>0. a.cpu \in Cpus
  BY DEF Cpus
<1>1. l.aptr \in Int /\ l.eptr \in Int /\ l.ianum \in Nat
  BY <1>0, ListTypes
<1>2. Len(own) \in {8}
  OBVIOUS
<1>3. W(a) = 4 /\ R(a) = 4
  BY DEF W, R
<1>4. CASE a.cpu \in {"i386", "m68k", "powerpc_aix", "sparc", "arm", "riscv32"}
  <2> DEFINE end == IF a.cpu = "arm" THEN AlignUp(l.aptr + 8, 8)
                    ELSE IF a.cpu = "riscv32" THEN AlignUp(l.aptr + 8, 4)
                    ELSE l.aptr + 8
  <2>1. av_longlong(a, l, own) = Embed(l, end, own)
    BY <1>4 DEF av_longlong, LongIs64
  <2>2. end \in {l.aptr + 8, AlignUp(l.aptr + 8, 4), AlignUp(l.aptr + 8, 8)}
    OBVIOUS
  <2> HIDE DEF end
  <2> QED
    BY <1>0, <1>2, <1>3, <1>4, <2>1, <2>2, EightGood
<1>5. CASE a.cpu = "mips"
  <2> DEFINE end == AlignUp(l.aptr + 8, 8)
  <2>1. av_longlong(a, l, own) = Counted(Embed(l, end, own))
    BY <1>5 DEF av_longlong, LongIs64
  <2>2. end \in {l.aptr + 8, AlignUp(l.aptr + 8, 4), AlignUp(l.aptr + 8, 8)}
    OBVIOUS
  <2> HIDE DEF end
  <2>3. Good(a, l, t, Embed(l, end, own))
    BY <1>0, <1>2, <1>3, <1>5, <2>2, EightGood
  <2> QED
    BY <1>0, <2>1, <2>3, CountedGood
<1>6. CASE a.cpu = "hppa"
  <2> DEFINE at == AlignDown(l.aptr, 8) - 8
  <2>1. av_longlong(a, l, own) = IF at < l.eptr THEN Fail(l) ELSE Stacked(l, at, at, own)
    BY <1>6 DEF av_longlong, LongIs64
  <2>2. at \in {AlignDown(l.aptr, 8) - 8, AlignDown(l.aptr - 8, 8)}
    OBVIOUS
  <2>3. Len(own) = 8
    BY <1>2
  <2> HIDE DEF at
  <2>4. Good(a, l, t, IF at < l.eptr THEN Fail(l) ELSE Stacked(l, at, at, own))
    BY <1>6, <2>2, <2>3, EightDownGood
  <2> QED
    BY <2>1, <2>4
<1>7. CASE a.cpu \in {"powerpc_sysv4", "s390"}
  <2> DEFINE next == IF a.cpu = "s390" THEN l.ianum + 2 ELSE AlignUp(l.ianum + 2, 2)
             al   == IF a.cpu = "s390" THEN 4 ELSE 8
             m    == [l EXCEPT !.ianum = IargNum(a)]
  <2>1. av_longlong(a, l, own) = IF next <= IargNum(a) THEN InIargsUpTo(a, l, next, own)
                 ELSE Embed(m, AlignUp(l.aptr + 8, al), own)
    BY <1>7 DEF av_longlong, LongIs64
  <2>2. next \in Nat /\ l.ianum + 2 <= next
    BY <1>1 DEF AlignUp
  <2> HIDE DEF next
  <2>3. CASE next <= IargNum(a)
    <3>1. next \in 0..IargNum(a) /\ l.ianum <= next
      BY <1>0, <1>1, <2>2, <2>3, WordSizes
    <3>3. 4 * l.ianum + 8 <= 4 * next
      BY <1>1, <2>2
    <3>4. Len(own) \in Nat /\ R(a) * l.ianum + Len(own) <= R(a) * next
      <4>1. Len(own) \in Nat
        OBVIOUS
      <4>2. 4 * l.ianum + Len(own) <= 4 * next
        BY <3>3
      <4> QED
        BY <1>3, <4>1, <4>2
    <3>2. Good(a, l, t, InIargsUpTo(a, l, next, own))
      BY <1>0, <2>2, <3>1, <3>4, InIargsUpToGood
    <3> QED
      BY <2>1, <2>3, <3>2
  <2>4. CASE ~(next <= IargNum(a))
    <3>1. Len(own) = 8 /\ al \in {4, 8}
      BY <1>2
    <3> HIDE DEF al
    <3>2. Good(a, l, t, Embed(m, AlignUp(l.aptr + 8, al), own))
      BY <1>0, <1>3, <1>7, <3>1, NoMoreBefore
    <3> QED
      BY <2>1, <2>4, <3>2
  <2> QED
    BY <2>3, <2>4
<1>8. CASE a.cpu = "armhf"
  <2> DEFINE even == AlignUp(l.ianum + 2, 2)
             at   == 4 * even - 8
             end  == AlignUp(SplitStart(l) + 8, 8)
  <2>0. IargNum(a) = 4
    BY <1>0, <1>8, RegisterCounts
  <2>1. av_longlong(a, l, own) = IF even <= 4
                 THEN Done([l EXCEPT !.ianum = even, !.args = Put(@, at, own)])
                 ELSE NoMoreIargs(a, Embed(l, end, own))
    BY <1>8, <2>0 DEF av_longlong, LongIs64
  <2>2. even \in Nat /\ l.ianum + 2 <= even /\ even < l.ianum + 4
    BY <1>1 DEF AlignUp
  <2>3. at \in Int /\ 4 * l.ianum <= at /\ at + 8 = 4 * even
    BY <1>1, <2>2
  <2> HIDE DEF even, at
  <2>4. CASE even <= 4
    <3>3. Len(own) \in Nat
      OBVIOUS
    <3>5. at + Len(own) = at + 8
      OBVIOUS
    <3>4. even \in 0..4
      BY <2>2, <2>4
    <3>1. even \in 0..4 /\ at + Len(own) <= 4 * even /\ Len(own) \in Nat
      BY <2>3, <3>3, <3>4, <3>5
    <3>2. Good(a, l, t, Done([l EXCEPT !.ianum = even, !.args = Put(@, at, own)]))
      BY <1>8, <2>3, <3>1, CoreRegistersGood
    <3> QED
      BY <2>1, <2>4, <3>2
  <2>5. CASE ~(even <= 4) /\ l.aptr # 16
    <3>1. end \in {l.aptr + 8, AlignUp(l.aptr + 8, 4), AlignUp(l.aptr + 8, 8)}
      BY <2>5 DEF SplitStart
    <3> HIDE DEF end
    <3>2. Good(a, l, t, Embed(l, end, own))
      BY <1>0, <1>2, <1>3, <1>8, <3>1, EightGood
    <3> QED
      BY <1>0, <2>1, <2>5, <3>2, NoMoreIargsGood
  <2>6. CASE ~(even <= 4) /\ l.aptr = 16
    <3>1. end = AlignUp(4 * l.ianum + 8, 8)
      BY <2>6 DEF SplitStart
    <3>2. l.ianum >= 1
      BY <1>1, <2>2, <2>6
    <3>3. end \in Int /\ 4 * l.ianum + 8 <= end /\ end % 4 = 0 /\ 16 <= end
      BY <1>1, <3>1, <3>2 DEF AlignUp
    <3> HIDE DEF end
    <3>4. CASE end > l.eptr
      <4>1. Embed(l, end, own) = Fail(l)
        BY <3>4 DEF Embed
      <4>2. Good(a, l, t, Fail(l))
        BY <1>0, FailGood
      <4> QED
        BY <1>0, <2>1, <2>6, <4>1, <4>2, NoMoreIargsGood
    <3>5. CASE ~(end > l.eptr)
      <4> DEFINE from == end - Len(own)
      <4>1. Embed(l, end, own) = Stacked(l, end, from, own)
        BY <3>5 DEF Embed
      <4>4. Len(own) \in Nat
        OBVIOUS
      <4>6. from = end - 8
        OBVIOUS
      <4>7. from + Len(own) = from + 8
        OBVIOUS
      <4>2. /\ from \in Int /\ 4 * l.ianum <= from /\ from + 8 <= end
            /\ end <= l.eptr
        BY SMTT(60), <1>1, <3>3, <3>5, <4>6
      <4>5. from + Len(own) <= end
        BY <4>2, <4>7
      <4> HIDE DEF from
      <4>3. Good(a, l, t, NoMoreIargs(a, Stacked(l, end, from, own)))
        BY <1>8, <2>6, <3>3, <4>2, <4>4, <4>5, SplitGood
      <4> QED
        BY <2>1, <2>6, <4>1, <4>3
    <3> QED
      BY <3>4, <3>5
  <2> QED
    BY <2>4, <2>5, <2>6
<1> QED
  BY <1>4, <1>5, <1>6, <1>7, <1>8 DEF Cpus32

LEMMA LonglongGood ==
  ASSUME NEW a, a.cpu \in Cpus, NEW l, RegInv(a, l), NEW t, NEW i
  PROVE  Good(a, l, t, av_longlong(a, l, Own(i, 8)))
<1> DEFINE own == Own(i, 8)
           Result == av_longlong(a, l, own)
<1>1. /\ l.aptr \in Int /\ l.eptr \in Int /\ l.ianum \in Nat
      /\ W(a) \in {4, 8} /\ R(a) \in {4, 8} /\ W(a) <= R(a)
  BY ListTypes, WordSizes
<1>2. Len(own) \in {8}
  BY LengthOwn
<1>3. CASE a.cpu \in LongIs64
  <2>1. R(a) = 8 /\ (W(a) = 8 \/ a.cpu = "arm64_apple")
    BY <1>3 DEF LongIs64, R, W, Cpus32
  <2>2. Good(a, l, t, av_long(a, l, own))
    BY <1>1, <2>1, LongGood
  <2>3. Result = av_long(a, l, own)
    BY <1>3 DEF av_longlong, LongIs64
  <2> QED
    BY <2>2, <2>3
<1>4. CASE a.cpu \in {"mipsn32", "x86_64_ms"}
  <2>1. W(a) = 8
    BY <1>4 DEF W, Cpus32
  <2>2. Len(own) = W(a)
    BY <1>2, <2>1
  <2>3. Result = av_word(a, l, own)
    BY <1>4 DEF av_longlong, LongIs64
  <2> HIDE DEF own
  <2>4. Good(a, l, t, av_word(a, l, own))
    BY <2>2, WordGood
  <2> QED
    BY <2>3, <2>4 DEF own
<1>5. CASE a.cpu = "x86_64_x32"
  <2>1. W(a) = 8 /\ R(a) = 8
    BY <1>5 DEF W, R, Cpus32
  <2>2. Good(a, l, t, av_int(a, l, own))
    BY <2>1, IntGood
  <2>3. Result = av_int(a, l, own)
    BY <1>5 DEF av_longlong, LongIs64
  <2> QED
    BY <2>2, <2>3
<1>6. CASE a.cpu \in Cpus32
  <2> HIDE DEF own
  <2>1. Good(a, l, t, av_longlong(a, l, own))
    BY <1>2, <1>6, TwoWordsGood
  <2> QED
    BY <2>1 DEF own
<1> QED
  BY <1>3, <1>4, <1>5, <1>6 DEF Cpus

-----------------------------------------------------------------------------
(* The macros for floating-point arguments.                                *)

FourBytes(own) == Len(own) = 4

EightBytes(own) == Len(own) = 8

LEMMA SlotFanum ==
  ASSUME NEW a, NEW l, RegInv(a, l), NEW size, NEW at, NEW bytes
  PROVE  Slot(l, size, at, bytes).list.fanum = l.fanum
BY StackedList DEF Slot, Fail, RegInv

LEMMA FourGood ==
  ASSUME NEW a, a.cpu \in Cpus, a.cpu # "hppa", NEW l, RegInv(a, l), NEW t,
         NEW own, FourBytes(own)
  PROVE  Good(a, l, t, Slot(l, W(a), l.aptr, own))
<1> DEFINE at == l.aptr
<1>1. l.aptr \in Int /\ W(a) \in {4, 8}
  BY ListTypes, WordSizes
<1>2. Len(own) \in Nat
  BY DEF FourBytes
<1>3. at + Len(own) = at + 4
  BY DEF FourBytes
<1>4. at \in Int /\ l.aptr <= at /\ at + 4 <= l.aptr + W(a)
  BY <1>1
<1>5. at + Len(own) <= l.aptr + W(a)
  BY <1>3, <1>4
<1> HIDE DEF at
<1>6. Good(a, l, t, Slot(l, W(a), at, own))
  BY <1>1, <1>2, <1>4, <1>5, SlotGood
<1> QED
  BY <1>6 DEF at

(* ... in the upper half of an 8-byte word.                                *)
LEMMA UpperFourGood ==
  ASSUME NEW a, a.cpu \in Cpus, W(a) = 8, NEW l, RegInv(a, l), NEW t,
         NEW own, FourBytes(own)
  PROVE  Good(a, l, t, Slot(l, 8, l.aptr + 4, own))
<1> DEFINE at == l.aptr + 4
<1>1. l.aptr \in Int /\ a.cpu # "hppa"
  BY ListTypes DEF W, Cpus32
<1>2. Len(own) \in Nat
  BY DEF FourBytes
<1>3. at + Len(own) = at + 4
  BY DEF FourBytes
<1>4. at \in Int /\ l.aptr <= at /\ at + 4 <= l.aptr + W(a)
  BY <1>1
<1>5. at + Len(own) <= l.aptr + W(a)
  BY <1>3, <1>4
<1> HIDE DEF at
<1>6. Good(a, l, t, Slot(l, W(a), at, own))
  BY <1>1, <1>2, <1>4, <1>5, SlotGood
<1> QED
  BY <1>6 DEF at

LEMMA WideGood ==
  ASSUME NEW a, a.cpu \in Cpus, W(a) = 8, NEW l, RegInv(a, l), NEW t,
         NEW bytes, EightBytes(bytes)
  PROVE  Good(a, l, t, Slot(l, 8, l.aptr, bytes))
<1>1. l.aptr \in Int /\ a.cpu # "hppa"
  BY ListTypes DEF W, Cpus32
<1>2. Len(bytes) \in Nat
  BY DEF EightBytes
<1>3. l.aptr + Len(bytes) = l.aptr + 8
  BY DEF EightBytes
<1>4. l.aptr <= l.aptr /\ l.aptr + 8 <= l.aptr + W(a)
  BY <1>1
<1> QED
  BY <1>1, <1>2, <1>3, <1>4, SlotGood

(* Which of the four words below the end of the array.                     *)
LEMMA HppaWord ==
  ASSUME NEW l, l.end \in Int, NEW at \in Int, at + 4 <= l.end, AmongFirst4(l, at)
  PROVE  WordBelow(l, at) \in 0..15
<1> DEFINE d == l.end - at
<1>1. d \in Int /\ 4 <= d /\ d <= 16
  BY DEF AmongFirst4
<1> HIDE DEF d
<1>2. d \div 4 - 1 \in 0..15
  BY <1>1
<1> QED
  BY <1>2 DEF WordBelow, d

LEMMA LengthAsDouble ==
  ASSUME NEW i
  PROVE  EightBytes(AsDouble(i))
<1>1. Len(Bytes(i, "dbl", 8)) = 8
  BY LengthOfBytes
<1> QED
  BY <1>1 DEF AsDouble, EightBytes

LEMMA FloatsInWords ==
  ASSUME NEW a, a.cpu \in {"i386", "m68k", "sparc", "arm", "mips"} \cup MipsWide
                          \cup {"x86_64_ms", "sparc64", "alpha", "hppa64"},
         NEW l, RegInv(a, l), NEW t, NEW own, FourBytes(own)
  PROVE  Good(a, l, t, av_float(a, l, own))
<1>1. a.cpu \in Cpus /\ a.cpu # "hppa"
  BY DEF Cpus, Cpus32, LongIs64, MipsWide
<1>2. l.aptr \in Int /\ l.anum \in Nat /\ 0 <= l.aptr
  BY <1>1, ListTypes
<1>3. /\ Good(a, l, t, Slot(l, W(a), l.aptr, own))
      /\ Slot(l, W(a), l.aptr, own).list.fanum = l.fanum
  BY <1>1, FourGood, SlotFanum
<1>4. CASE a.cpu \in {"i386", "m68k", "sparc", "arm"}
  <2>1. W(a) = 4
    BY <1>4 DEF W, Cpus32
  <2>2. av_float(a, l, own) = Slot(l, 4, l.aptr, own)
    BY <1>4 DEF av_float, FloatsFillRegisters, Arm64, RiscV, S390,
       MipsWide, PPC64, SysV
  <2> QED
    BY <1>3, <2>1, <2>2
<1>5. CASE a.cpu = "mips"
  <2> DEFINE r == Slot(l, 4, l.aptr, own)
  <2>1. W(a) = 4
    BY <1>5 DEF W, Cpus32
  <2>2. av_float(a, l, own) = Counted(AlsoLeading(l, r, own))
    BY <1>5 DEF av_float, FloatsFillRegisters, Arm64, RiscV, S390,
       MipsWide, PPC64, SysV
  <2>3. Good(a, l, t, r) /\ r.list.fanum = l.fanum
    BY <1>3, <2>1
  <2> HIDE DEF r
  <2>4. Good(a, l, t, AlsoLeading(l, r, own))
    BY <1>5, <2>3, AlsoLeadingGood
  <2> QED
    BY <1>1, <2>2, <2>4, CountedGood
<1>6. CASE a.cpu \in MipsWide \cup {"x86_64_ms"}
  <2> DEFINE r == Slot(l, 8, l.aptr, own)
             q == AlsoFreg(r, l.anum < FargNum(a), l.anum, own)
  <2>1. W(a) = 8
    BY <1>6 DEF W, Cpus32, MipsWide
  <2>2. av_float(a, l, own) = Counted(q)
    BY <1>6 DEF av_float, FloatsFillRegisters, Arm64, RiscV, S390,
       MipsWide, PPC64, SysV
  <2>3. Good(a, l, t, r)
    BY <1>3, <2>1
  <2> HIDE DEF r
  <2>4. Good(a, l, t, q)
    BY <1>1, <1>2, <2>3, AlsoFregGood
  <2> QED
    BY <1>1, <2>2, <2>4, CountedGood
<1>7. CASE a.cpu = "sparc64"
  <2> DEFINE r == Slot(l, 8, l.aptr + 4, own)
             q == AlsoDoubleWord(r, l.anum < 16, l.anum)
  <2>1. W(a) = 8
    BY <1>7 DEF W, Cpus32
  <2>2. av_float(a, l, own) = Counted(q)
    BY <1>7 DEF av_float, FloatsFillRegisters, Arm64, RiscV, S390,
       MipsWide, PPC64, SysV
  <2>3. Good(a, l, t, r)
    BY <1>1, <2>1, UpperFourGood
  <2> HIDE DEF r
  <2>4. l.anum < 16 => l.anum \in 0..15
    BY <1>2
  <2>5. Good(a, l, t, q)
    BY <1>1, <2>3, <2>4, AlsoDoubleWordGood
  <2> QED
    BY <1>1, <2>2, <2>5, CountedGood
<1>8. CASE a.cpu = "alpha"
  <2> DEFINE dbl == AsDouble(own[1][1])
  <2>1. W(a) = 8
    BY <1>8 DEF W, Cpus32
  <2>2. EightBytes(dbl)
    BY LengthAsDouble
  <2> HIDE DEF dbl
  <2>3. av_float(a, l, own) = Slot(l, 8, l.aptr, IF l.aptr + 8 > 48 THEN own ELSE dbl)
    BY <1>8 DEF av_float, FloatsFillRegisters, Arm64, RiscV, S390,
       MipsWide, PPC64, SysV, dbl
  <2>4. Good(a, l, t, Slot(l, 8, l.aptr, own)) /\ Good(a, l, t, Slot(l, 8, l.aptr, dbl))
    BY <1>1, <1>3, <2>1, <2>2, WideGood
  <2> QED
    BY <2>3, <2>4
<1>9. CASE a.cpu = "hppa64"
  <2> DEFINE r == Slot(l, 8, l.aptr + 4, own)
             k == l.aptr \div 8
  <2>1. W(a) = 8
    BY <1>9 DEF W, Cpus32
  <2>2. av_float(a, l, own) = AlsoFloatWord(r, l.aptr < 64, k)
    BY <1>9 DEF av_float, FloatsFillRegisters, Arm64, RiscV, S390,
       MipsWide, PPC64, SysV
  <2>3. Good(a, l, t, r)
    BY <1>1, <2>1, UpperFourGood
  <2>4. l.aptr < 64 => k \in 0..15
    BY <1>2
  <2> HIDE DEF r, k
  <2> QED
    BY <1>1, <2>2, <2>3, <2>4, AlsoFloatWordGood
<1> QED
  BY <1>4, <1>5, <1>6, <1>7, <1>8, <1>9

LEMMA FloatsDown ==
  ASSUME NEW a, a.cpu = "hppa", NEW l, RegInv(a, l), NEW t, NEW own, FourBytes(own)
  PROVE  Good(a, l, t, av_float(a, l, own))
<1> DEFINE at == l.aptr - 4
           r  == Stacked(l, at, at, own)
<1>1. a.cpu \in Cpus /\ W(a) = 4 /\ a.cpu \notin SysV
  BY DEF Cpus, Cpus32, W, SysV
<1>2. l.aptr \in Int /\ l.eptr \in Int /\ l.end \in Int /\ l.aptr <= l.end
  BY DEF RegInv, Pointers
<1>3. av_float(a, l, own) =
        IF l.aptr <= l.eptr THEN Fail(l)
        ELSE AlsoFloatWord(r, AmongFirst4(l, at), WordBelow(l, at))
  BY DEF av_float, FloatsFillRegisters, Arm64, RiscV, S390,
       MipsWide, PPC64, SysV
<1>4. CASE l.aptr <= l.eptr
  BY <1>3, <1>4, FailGood
<1>5. CASE ~(l.aptr <= l.eptr)
  <2>1. Len(own) \in Nat
    BY DEF FourBytes
  <2>2. at + Len(own) = at + 4
    BY DEF FourBytes
  <2>3. at \in Int /\ at <= l.aptr /\ at <= at /\ at + 4 <= l.aptr
    BY <1>2
  <2>4. SpaceInv(a, l) => l.eptr <= at /\ at % 4 = 0
    <3> SUFFICES ASSUME SpaceInv(a, l) PROVE l.eptr <= at /\ at % 4 = 0
      OBVIOUS
    <3>1. l.aptr % 4 = 0 /\ l.eptr % 8 = 0
      BY <1>1 DEF SpaceInv
    <3> QED
      BY <3>1, <1>2, <1>5
  <2>5. Good(a, l, t, r)
    BY <2>1, <2>2, <2>3, <2>4, StackedDownGood
  <2>6. AmongFirst4(l, at) => WordBelow(l, at) \in 0..15
    BY <1>2, <2>3, HppaWord
  <2> HIDE DEF r, at
  <2> QED
    BY <1>1, <1>3, <1>5, <2>5, <2>6, AlsoFloatWordGood DEF at
<1> QED
  BY <1>4, <1>5

LEMMA FloatsInRegisters ==
  ASSUME NEW a, a.cpu \in {"armhf", "powerpc_sysv4", "powerpc_aix", "ia64"}
                          \cup FloatsFillRegisters \cup PPC64 \cup SysV,
         NEW l, RegInv(a, l), NEW t, NEW own, FourBytes(own)
  PROVE  Good(a, l, t, av_float(a, l, own))
<1>1. a.cpu \in Cpus /\ a.cpu # "hppa"
  BY DEF Cpus, Cpus32, LongIs64, FloatsFillRegisters, Arm64, RiscV, S390, PPC64, SysV
<1>2. l.aptr \in Int /\ l.fanum \in Nat /\ FargNum(a) \in Nat
  BY <1>1, ListTypes, WordSizes
<1>3. Good(a, l, t, Slot(l, W(a), l.aptr, own))
  BY <1>1, FourGood
<1>4. ASSUME l.fanum < FargNum(a), NEW bytes
      PROVE  Good(a, l, t, InFreg(l, bytes, 1))
  BY <1>1, <1>2, <1>4, InFregGood
<1>5. CASE a.cpu = "armhf"
  <2>1. W(a) = 4 /\ FargNum(a) = 16
    BY <1>1, <1>5, RegisterCounts
  <2>2. av_float(a, l, own) = IF l.fanum <= 15 THEN InFreg(l, own, 1)
                              ELSE Slot(l, 4, l.aptr, own)
    BY <1>5 DEF av_float, FloatsFillRegisters, Arm64, RiscV, S390,
                  MipsWide, PPC64, SysV
  <2> QED
    BY <1>2, <1>3, <1>4, <2>1, <2>2
<1>6. CASE a.cpu \in FloatsFillRegisters
  <2> DEFINE at == l.aptr + (IF a.cpu = "s390x" THEN 4 ELSE 0)
  <2>1. av_float(a, l, own) = IF l.fanum < FargNum(a) THEN InFreg(l, own, 1)
                              ELSE Slot(l, W(a), at, own)
    BY <1>6 DEF av_float, FloatsFillRegisters, Arm64, RiscV, S390,
                  MipsWide, PPC64, SysV
  <2>2. Good(a, l, t, Slot(l, W(a), at, own))
    <3>1. CASE a.cpu = "s390x"
      <4>1. W(a) = 8
        BY <3>1 DEF W, Cpus32
      <4>2. Good(a, l, t, Slot(l, 8, l.aptr + 4, own))
        BY <1>1, <4>1, UpperFourGood
      <4> QED
        BY <3>1, <4>1, <4>2
    <3>2. CASE a.cpu # "s390x"
      <4>1. at = l.aptr
        BY <1>2, <3>2
      <4> QED
        BY <1>3, <4>1
    <3> QED
      BY <3>1, <3>2
  <2> HIDE DEF at
  <2> QED
    BY <1>4, <2>1, <2>2
<1>7. CASE a.cpu = "powerpc_sysv4"
  <2>1. W(a) = 4
    BY <1>7 DEF W, Cpus32
  <2>2. av_float(a, l, own) = IF l.fanum < FargNum(a)
                              THEN InFreg(l, AsDouble(own[1][1]), 1)
                              ELSE Slot(l, 4, l.aptr, own)
    BY <1>7 DEF av_float, FloatsFillRegisters, Arm64, RiscV, S390,
                  MipsWide, PPC64, SysV
  <2> QED
    BY <1>3, <1>4, <2>1, <2>2
<1>8. CASE a.cpu \in {"powerpc_aix", "ia64"}
  <2> DEFINE r == Slot(l, W(a), l.aptr, own)
  <2>1. av_float(a, l, own) = AlsoNextFreg(a, r, AsDouble(own[1][1]))
    BY <1>8 DEF av_float, FloatsFillRegisters, Arm64, RiscV, S390,
                  MipsWide, PPC64, SysV
  <2>2. Good(a, l, t, r)
    BY <1>3
  <2> HIDE DEF r
  <2> QED
    BY <1>1, <2>1, <2>2, AlsoNextFregGood
<1>9. CASE a.cpu \in PPC64
  <2> DEFINE left == a.order = "little" \/ a.cc = "vendor"
             r    == Slot(l, 8, l.aptr + (IF left THEN 0 ELSE 4), own)
  <2>1. W(a) = 8
    BY <1>9 DEF W, Cpus32, PPC64
  <2>2. av_float(a, l, own) = AlsoNextFreg(a, r, AsDouble(own[1][1]))
    BY <1>9 DEF av_float, FloatsFillRegisters, Arm64, RiscV, S390,
                  MipsWide, PPC64, SysV
  <2>3. Good(a, l, t, r)
    <3>1. CASE left
      <4>1. r = Slot(l, 8, l.aptr, own)
        BY <1>2, <3>1
      <4> QED
        BY <1>3, <2>1, <4>1
    <3>2. CASE ~left
      <4>1. r = Slot(l, 8, l.aptr + 4, own)
        BY <3>2
      <4>2. Good(a, l, t, Slot(l, 8, l.aptr + 4, own))
        BY <1>1, <2>1, UpperFourGood
      <4> QED
        BY <4>1, <4>2
    <3> QED
      BY <3>1, <3>2
  <2> HIDE DEF r
  <2> QED
    BY <1>1, <2>2, <2>3, AlsoNextFregGood
<1>10. CASE a.cpu \in SysV
  <2>1. W(a) = 8
    BY <1>10 DEF W, Cpus32, SysV
  <2>2. av_float(a, l, own) = IF l.fanum < FargNum(a)
                              THEN InFreg(l, Extended(a, own, 8), 1)
                              ELSE Slot(l, 8, l.aptr, own)
    BY <1>10 DEF av_float, FloatsFillRegisters, Arm64, RiscV, S390,
                  MipsWide, PPC64, SysV
  <2> QED
    BY <1>3, <1>4, <2>1, <2>2
<1> QED
  BY <1>5, <1>6, <1>7, <1>8, <1>9, <1>10

LEMMA FloatGood ==
  ASSUME NEW a, a.cpu \in Cpus, NEW l, RegInv(a, l), NEW t, NEW i
  PROVE  Good(a, l, t, av_float(a, l, Own(i, 4)))
<1> DEFINE own == Own(i, 4)
<1>1. FourBytes(own)
  BY LengthOwn DEF FourBytes
<1> HIDE DEF own
<1>2. Good(a, l, t, av_float(a, l, own))
  BY <1>1, FloatsInWords, FloatsDown, FloatsInRegisters
     DEF Cpus, Cpus32, LongIs64, FloatsFillRegisters, Arm64, RiscV, S390,
         MipsWide, PPC64, SysV
<1> QED
  BY <1>2 DEF own

LEMMA EmbedFanum ==
  ASSUME NEW a, NEW l, RegInv(a, l), NEW end, NEW bytes
  PROVE  Embed(l, end, bytes).list.fanum = l.fanum
BY StackedList DEF Embed, Fail, RegInv

LEMMA EmbedEight ==
  ASSUME NEW a, a.cpu \in Cpus, a.cpu # "hppa", W(a) = 4, NEW l, RegInv(a, l), NEW t,
         NEW own, EightBytes(own),
         NEW end, end \in {l.aptr + 8, AlignUp(l.aptr + 8, 4), AlignUp(l.aptr + 8, 8)}
  PROVE  Good(a, l, t, Embed(l, end, own))
<1>1. Len(own) \in {8}
  BY DEF EightBytes
<1> QED
  BY <1>1, EightGood

LEMMA DoublesInNarrowWords ==
  ASSUME NEW a, a.cpu \in {"i386", "m68k", "sparc", "mips", "arm", "powerpc_aix"},
         NEW l, RegInv(a, l), NEW t, NEW own, EightBytes(own)
  PROVE  Good(a, l, t, av_double(a, l, own))
<1>1. a.cpu \in Cpus /\ a.cpu # "hppa" /\ W(a) = 4
  BY DEF Cpus, Cpus32, W
<1>2. ASSUME NEW end \in {l.aptr + 8, AlignUp(l.aptr + 8, 8)}
      PROVE  Good(a, l, t, Embed(l, end, own))
  BY <1>1, EmbedEight
<1>3. CASE a.cpu \in {"i386", "m68k", "sparc", "arm"}
  <2> DEFINE end == IF a.cpu = "arm" THEN AlignUp(l.aptr + 8, 8) ELSE l.aptr + 8
  <2>1. av_double(a, l, own) = Embed(l, end, own)
    BY <1>3 DEF av_double, FloatsFillRegisters, Arm64, RiscV, S390, MipsWide,
                PPC64, SysV
  <2>2. end \in {l.aptr + 8, AlignUp(l.aptr + 8, 8)}
    OBVIOUS
  <2> HIDE DEF end
  <2> QED
    BY <1>2, <2>1, <2>2
<1>4. CASE a.cpu = "mips"
  <2> DEFINE end == AlignUp(l.aptr + 8, 8)
             r   == Embed(l, end, own)
  <2>1. av_double(a, l, own) = Counted(AlsoLeading(l, r, own))
    BY <1>4 DEF av_double, FloatsFillRegisters, Arm64, RiscV, S390, MipsWide,
                PPC64, SysV
  <2>2. end \in {l.aptr + 8, AlignUp(l.aptr + 8, 8)}
    OBVIOUS
  <2> HIDE DEF end
  <2>3. Good(a, l, t, r) /\ r.list.fanum = l.fanum
    BY <1>2, <2>2, EmbedFanum
  <2> HIDE DEF r
  <2>4. Good(a, l, t, AlsoLeading(l, r, own))
    BY <1>4, <2>3, AlsoLeadingGood
  <2> QED
    BY <1>1, <2>1, <2>4, CountedGood
<1>5. CASE a.cpu = "powerpc_aix"
  <2> DEFINE end == l.aptr + 8
             r   == Embed(l, end, own)
  <2>1. av_double(a, l, own) = AlsoNextFreg(a, r, own)
    BY <1>5 DEF av_double, FloatsFillRegisters, Arm64, RiscV, S390, MipsWide,
                PPC64, SysV
  <2>2. end \in {l.aptr + 8, AlignUp(l.aptr + 8, 8)}
    OBVIOUS
  <2> HIDE DEF end
  <2>3. Good(a, l, t, r)
    BY <1>2, <2>2
  <2> HIDE DEF r
  <2> QED
    BY <1>1, <2>1, <2>3, AlsoNextFregGood
<1> QED
  BY <1>3, <1>4, <1>5

LEMMA DoublesInWords ==
  ASSUME NEW a, a.cpu \in MipsWide \cup {"sparc64", "x86_64_ms", "alpha", "hppa64",
                                         "ia64"} \cup PPC64,
         NEW l, RegInv(a, l), NEW t, NEW own, EightBytes(own)
  PROVE  Good(a, l, t, av_double(a, l, own))
<1> DEFINE r == Slot(l, 8, l.aptr, own)
<1>1. a.cpu \in Cpus /\ a.cpu # "hppa" /\ W(a) = 8
  BY DEF Cpus, Cpus32, LongIs64, MipsWide, PPC64, W
<1>2. l.aptr \in Int /\ l.anum \in Nat /\ 0 <= l.aptr /\ FargNum(a) \in 0..16
  BY <1>1, ListTypes, WordSizes
<1>3. Good(a, l, t, r)
  BY <1>1, WideGood
<1>4. CASE a.cpu \in MipsWide \cup {"sparc64"}
  <2> DEFINE q == AlsoDoubleWord(r, l.anum < FargNum(a), l.anum)
  <2>1. av_double(a, l, own) = Counted(q)
    BY <1>4 DEF av_double, FloatsFillRegisters, Arm64, RiscV, S390, MipsWide,
                PPC64, SysV
  <2> HIDE DEF r
  <2>2. l.anum < FargNum(a) => l.anum \in 0..15
    BY <1>2
  <2>3. Good(a, l, t, q)
    BY <1>1, <1>3, <2>2, AlsoDoubleWordGood
  <2> QED
    BY <1>1, <2>1, <2>3, CountedGood
<1>5. CASE a.cpu = "x86_64_ms"
  <2> DEFINE q == AlsoFreg(r, l.anum < 4, l.anum, own)
  <2>1. av_double(a, l, own) = Counted(q)
    BY <1>5 DEF av_double, FloatsFillRegisters, Arm64, RiscV, S390, MipsWide,
                PPC64, SysV
  <2>2. FargNum(a) = 4
    BY <1>1, <1>5, RegisterCounts
  <2> HIDE DEF r
  <2>3. Good(a, l, t, q)
    BY <1>1, <1>2, <1>3, <2>2, AlsoFregGood
  <2> QED
    BY <1>1, <2>1, <2>3, CountedGood
<1>6. CASE a.cpu = "alpha"
  <2>1. av_double(a, l, own) = r
    BY <1>6 DEF av_double, FloatsFillRegisters, Arm64, RiscV, S390, MipsWide,
                PPC64, SysV
  <2> QED
    BY <1>3, <2>1
<1>7. CASE a.cpu = "hppa64"
  <2> DEFINE k == l.aptr \div 8
  <2>1. av_double(a, l, own) = AlsoDoubleWord(r, l.aptr < 64, k)
    BY <1>7 DEF av_double, FloatsFillRegisters, Arm64, RiscV, S390, MipsWide,
                PPC64, SysV
  <2>2. l.aptr < 64 => k \in 0..15
    BY <1>2
  <2> HIDE DEF r, k
  <2> QED
    BY <1>1, <1>3, <2>1, <2>2, AlsoDoubleWordGood
<1>8. CASE a.cpu \in PPC64 \cup {"ia64"}
  <2>1. av_double(a, l, own) = AlsoNextFreg(a, r, own)
    BY <1>8 DEF av_double, FloatsFillRegisters, Arm64, RiscV, S390, MipsWide,
                PPC64, SysV
  <2> HIDE DEF r
  <2> QED
    BY <1>1, <1>3, <2>1, AlsoNextFregGood
<1> QED
  BY <1>4, <1>5, <1>6, <1>7, <1>8

LEMMA DoublesDown ==
  ASSUME NEW a, a.cpu = "hppa", NEW l, RegInv(a, l), NEW t, NEW own, EightBytes(own)
  PROVE  Good(a, l, t, av_double(a, l, own))
<1> DEFINE at == AlignDown(l.aptr - 8, 8)
           r  == Stacked(l, at, at, own)
           q  == AlsoDoubleWord(r, AmongFirst4(l, at), WordBelow(l, at))
<1>1. a.cpu \in Cpus
  BY DEF Cpus, Cpus32
<1>2. av_double(a, l, own) = IF at < l.eptr THEN Fail(l) ELSE q
  BY DEF av_double, FloatsFillRegisters, Arm64, RiscV, S390, MipsWide, PPC64, SysV
<1>3. at \in {AlignDown(l.aptr, 8) - 8, AlignDown(l.aptr - 8, 8)}
  OBVIOUS
<1>4. Len(own) = 8
  BY DEF EightBytes
<1> HIDE DEF at
<1>5. /\ Good(a, l, t, IF at < l.eptr THEN Fail(l) ELSE r)
      /\ at \in Int /\ at + 8 <= l.end /\ l.end \in Int
  <2> HIDE DEF EightBytes
  <2>1. /\ Good(a, l, t, IF at < l.eptr THEN Fail(l) ELSE Stacked(l, at, at, own))
        /\ at \in Int /\ at + 8 <= l.end /\ l.end \in Int
    BY <1>3, <1>4, EightDownGood
  <2> QED
    BY <2>1
<1> HIDE DEF r
<1>6. CASE at < l.eptr
  BY <1>2, <1>6, FailGood
<1>7. CASE ~(at < l.eptr)
  <2>1. Good(a, l, t, r)
    BY <1>5, <1>7
  <2>2. AmongFirst4(l, at) => WordBelow(l, at) \in 0..15
    BY <1>5, HppaWord
  <2>3. Good(a, l, t, q)
    BY <1>1, <2>1, <2>2, AlsoDoubleWordGood
  <2> QED
    BY <1>2, <1>7, <2>3
<1> QED
  BY <1>6, <1>7

(* arm64_apple: two words of four bytes, where Overruns is the case that   *)
(* the check for one of them lets through.                                 *)
LEMMA AppleDoubleGood ==
  ASSUME NEW a, a.cpu = "arm64_apple", NEW l, RegInv(a, l), l.fanum = FargNum(a),
         NEW t, t.kind = "double", NEW own, EightBytes(own)
  PROVE  Good(a, l, t, Slot(l, 8, l.aptr, own))
<1> DEFINE at   == l.aptr
           next == l.aptr + 8
<1>1. a.cpu \in Cpus /\ a.cpu # "hppa" /\ W(a) = 4 /\ a.cpu \notin SysV
  BY DEF Cpus, Cpus32, LongIs64, W, SysV
<1>2. l.aptr \in Int /\ l.eptr \in Int
  BY <1>1, ListTypes
<1>3. CASE l.aptr >= l.eptr
  BY <1>3, FailGood DEF Slot
<1>4. CASE ~(l.aptr >= l.eptr)
  <2>1. Slot(l, 8, l.aptr, own) = Stacked(l, next, at, own)
    BY <1>4 DEF Slot
  <2>2. at \in Int /\ next \in Int /\ l.aptr <= next
    BY <1>2
  <2>3. Len(own) \in Nat /\ Len(own) = 8
    BY DEF EightBytes
  <2>4. at + Len(own) = next
    BY <2>3
  <2>5. ASSUME SpaceInv(a, l), ~Overruns(a, l, t)
        PROVE  next <= l.eptr /\ next % 4 = 0
    <3>1. l.aptr % 4 = 0 /\ l.eptr % 8 = 0
      BY <1>1, <2>5 DEF SpaceInv
    <3>2. l.eptr - l.aptr # 4
      BY <2>5 DEF Overruns
    <3> QED
      BY <1>2, <1>4, <3>1, <3>2
  <2>6. Fits(a, l, t, next, at, Len(own))
    <3>1. l.aptr <= at /\ at + Len(own) <= next
      BY <1>2, <2>4
    <3> HIDE DEF at, next
    <3> QED
      BY <1>1, <2>5, <3>1 DEF Fits
  <2> HIDE DEF at, next
  <2>7. Good(a, l, t, Stacked(l, next, at, own))
    BY <1>1, <2>2, <2>3, <2>6, StackedGood
  <2> QED
    BY <2>1, <2>7
<1> QED
  BY <1>3, <1>4

LEMMA DoublesInRegisters ==
  ASSUME NEW a, a.cpu \in FloatsFillRegisters \cup SysV \cup {"powerpc_sysv4"},
         NEW l, RegInv(a, l), NEW t, t.kind = "double", NEW own, EightBytes(own)
  PROVE  Good(a, l, t, av_double(a, l, own))
<1> DEFINE narrow == a.cpu \in {"s390", "riscv32", "powerpc_sysv4"}
           end    == l.aptr + 8
<1>1. a.cpu \in Cpus /\ a.cpu # "hppa"
  BY DEF Cpus, Cpus32, LongIs64, FloatsFillRegisters, Arm64, RiscV, S390, SysV
<1>2. l.fanum \in Nat /\ FargNum(a) \in Nat /\ l.fanum <= FargNum(a)
  BY <1>1, ListTypes, WordSizes DEF RegInv, Registers
<1>3. av_double(a, l, own) =
        IF l.fanum < FargNum(a) THEN InFreg(l, own, 1)
        ELSE IF narrow THEN Embed(l, end, own) ELSE Slot(l, 8, l.aptr, own)
  BY DEF av_double, FloatsFillRegisters, Arm64, RiscV, S390, MipsWide, PPC64, SysV
<1>4. CASE l.fanum < FargNum(a)
  <2>1. Good(a, l, t, InFreg(l, own, 1))
    BY <1>1, <1>2, <1>4, InFregGood
  <2> QED
    BY <1>3, <1>4, <2>1
<1>5. CASE ~(l.fanum < FargNum(a)) /\ narrow
  <2>1. W(a) = 4
    BY <1>5 DEF W, Cpus32
  <2>2. end \in {l.aptr + 8, AlignUp(l.aptr + 8, 4), AlignUp(l.aptr + 8, 8)}
    OBVIOUS
  <2> HIDE DEF end
  <2>3. Good(a, l, t, Embed(l, end, own))
    BY <1>1, <2>1, <2>2, EmbedEight
  <2> QED
    BY <1>3, <1>5, <2>3
<1>6. CASE ~(l.fanum < FargNum(a)) /\ ~narrow /\ a.cpu # "arm64_apple"
  <2>1. W(a) = 8
    BY <1>6 DEF FloatsFillRegisters, Arm64, RiscV, S390, SysV, W, Cpus32
  <2>2. Good(a, l, t, Slot(l, 8, l.aptr, own))
    BY <1>1, <2>1, WideGood
  <2> QED
    BY <1>3, <1>6, <2>2
<1>7. CASE ~(l.fanum < FargNum(a)) /\ a.cpu = "arm64_apple"
  <2>1. l.fanum = FargNum(a)
    BY <1>2, <1>7
  <2>2. Good(a, l, t, Slot(l, 8, l.aptr, own))
    BY <1>7, <2>1, AppleDoubleGood
  <2> QED
    BY <1>3, <1>7, <2>2
<1> QED
  BY <1>4, <1>5, <1>6, <1>7

LEMMA DoublesInPairs ==
  ASSUME NEW a, a.cpu = "armhf", NEW l, RegInv(a, l), NEW t, NEW own, EightBytes(own)
  PROVE  Good(a, l, t, av_double(a, l, own))
<1> DEFINE even == AlignUp(l.fanum, 2)
           m    == [l EXCEPT !.fanum = AlignUp(@, 2)]
           end  == l.aptr + 8
<1>1. a.cpu \in Cpus /\ a.cpu # "hppa" /\ W(a) = 4 /\ FargNum(a) = 16
  BY RegisterCounts DEF Cpus, Cpus32, W
<1>2. l.fanum \in 0..16 /\ l.fanum \in Nat /\ l.ianum \in 0..IargNum(a)
  BY <1>1, ListTypes DEF RegInv, Registers
<1>3. even \in 0..16
  BY <1>2 DEF AlignUp
<1> HIDE DEF even
<1>4. /\ IsList(m) /\ m.args = l.args /\ m.aptr = l.aptr /\ m.eptr = l.eptr
      /\ m.end = l.end /\ m.anum = l.anum /\ m.ianum = l.ianum
      /\ m.iargs = l.iargs /\ m.fanum = even /\ m.fregs = l.fregs
      /\ m.fmask = l.fmask /\ m.dmask = l.dmask
  BY DEF RegInv, IsList, even
<1>5. av_double(a, l, own) = IF m.fanum <= 14 THEN InFreg(m, own, 2)
                             ELSE Embed(m, end, own)
  BY DEF av_double, FloatsFillRegisters, Arm64, RiscV, S390, MipsWide, PPC64, SysV
<1> HIDE DEF m
<1>6. /\ m.ianum \in 0..IargNum(a) /\ m.fanum \in 0..FargNum(a)
      /\ l.ianum <= m.ianum /\ a.cpu # "arm64_apple"
  BY <1>1, <1>2, <1>3, <1>4
<1>7. RegInv(a, m) /\ \A r : Good(a, m, t, r) => Good(a, l, t, r)
  BY <1>1, <1>4, <1>6, CountChanged
<1>8. CASE m.fanum <= 14
  <2>1. m.fanum + 2 <= FargNum(a)
    BY <1>1, <1>6, <1>8
  <2>2. Good(a, m, t, InFreg(m, own, 2))
    BY <1>1, <1>7, <2>1, InFregGood
  <2> QED
    BY <1>5, <1>7, <1>8, <2>2
<1>9. CASE ~(m.fanum <= 14)
  <2>1. end \in {m.aptr + 8, AlignUp(m.aptr + 8, 4), AlignUp(m.aptr + 8, 8)}
    BY <1>4
  <2> HIDE DEF end
  <2>2. Good(a, m, t, Embed(m, end, own))
    BY <1>1, <1>7, <2>1, EmbedEight
  <2> QED
    BY <1>5, <1>7, <1>9, <2>2
<1> QED
  BY <1>8, <1>9

LEMMA DoubleGood ==
  ASSUME NEW a, a.cpu \in Cpus, NEW l, RegInv(a, l), NEW t, t.kind = "double", NEW i
  PROVE  Good(a, l, t, av_double(a, l, Own(i, 8)))
<1> DEFINE own == Own(i, 8)
<1>1. EightBytes(own)
  BY LengthOwn DEF EightBytes
<1> HIDE DEF own
<1>2. Good(a, l, t, av_double(a, l, own))
  BY <1>1, DoublesInNarrowWords, DoublesInWords, DoublesDown, DoublesInRegisters,
     DoublesInPairs
     DEF Cpus, Cpus32, LongIs64, FloatsFillRegisters, Arm64, RiscV, S390,
         MipsWide, PPC64, SysV
<1> QED
  BY <1>2 DEF own

-----------------------------------------------------------------------------
(* The macros for structs.                                                 *)

StructBytes(t, own) ==
  /\ t.kind = "struct" /\ t.size \in Nat \ {0} /\ t.align \in Alignments
  /\ t.size % t.align = 0 /\ Len(own) = t.size

LEMMA StructLength ==
  ASSUME NEW t, NEW own, StructBytes(t, own)
  PROVE  /\ Len(own) \in Nat /\ Len(own) = t.size /\ 0 < Len(own)
         /\ t.align \in Alignments
         /\ \A a, l : a.cpu \notin SysV => ~Overruns(a, l, t)
BY DEF StructBytes, Overruns

LEMMA WordUp ==
  ASSUME NEW x \in Int, NEW w \in {4, 8}
  PROVE  /\ AlignUp(x, w) \in Int /\ x <= AlignUp(x, w) /\ AlignUp(x, w) % w = 0
         /\ \A e \in Int : e % 8 = 0 /\ x <= e => AlignUp(x, w) <= e
<1>1. CASE w = 4
  BY <1>1 DEF AlignUp
<1>2. CASE w = 8
  BY <1>2 DEF AlignUp
<1> QED
  BY <1>1, <1>2

LEMMA SizeUnits ==
  ASSUME NEW n \in Nat, NEW al \in Alignments, n % al = 0
  PROVE  AlignUp(n, al) = n
<1>1. CASE al = 1
  BY <1>1 DEF AlignUp
<1>2. CASE al = 2
  BY <1>2 DEF AlignUp
<1>3. CASE al = 4
  BY <1>3 DEF AlignUp
<1>4. CASE al = 8
  BY <1>4 DEF AlignUp
<1>5. CASE al = 16
  BY <1>5 DEF AlignUp
<1> QED
  BY <1>1, <1>2, <1>3, <1>4, <1>5 DEF Alignments

LEMMA StructWordsCover ==
  ASSUME NEW t, NEW own, StructBytes(t, own), NEW w \in {4, 8}
  PROVE  /\ StructWords(t, w) \in Nat
         /\ Len(own) <= w * StructWords(t, w) /\ w * StructWords(t, w) < Len(own) + w
<1> DEFINE n == t.size
<1>1. n \in Nat /\ AlignUp(n, t.align) = n /\ Len(own) = n
  BY SizeUnits DEF StructBytes
<1>2. StructWords(t, w) = CeilDiv(n, w)
  BY <1>1 DEF StructWords
<1> HIDE DEF n
<1>3. /\ CeilDiv(n, w) \in Nat /\ n <= w * CeilDiv(n, w) /\ w * CeilDiv(n, w) < n + w
  <2>1. CASE w = 4
    BY <1>1, <2>1 DEF CeilDiv
  <2>2. CASE w = 8
    BY <1>1, <2>2 DEF CeilDiv
  <2> QED
    BY <2>1, <2>2
<1> QED
  BY <1>1, <1>2, <1>3

LEMMA LeftGood ==
  ASSUME NEW a, a.cpu \in Cpus, a.cpu # "hppa", a.cpu \notin SysV,
         NEW l, RegInv(a, l), NEW t, NEW own, StructBytes(t, own), NEW al \in Alignments
  PROVE  Good(a, l, t, LeftAdjusted(a, l, l.aptr, own, al))
<1> DEFINE n    == Len(own)
           end  == AlignUp(l.aptr + n, al)
           next == AlignUp(end, W(a))
           at   == end - n
<1>1. l.aptr \in Int /\ l.eptr \in Int /\ W(a) \in {4, 8} /\ n \in Nat
  BY ListTypes, WordSizes, StructLength
<1>2. LeftAdjusted(a, l, l.aptr, own, al) =
        IF end > l.eptr THEN Fail(l) ELSE Stacked(l, next, at, own)
  BY DEF LeftAdjusted
<1>3. end \in Int /\ l.aptr + n <= end
  BY <1>1, AlignedUp
<1> HIDE DEF end
<1>4. next \in Int /\ end <= next /\ next % W(a) = 0
  BY <1>1, <1>3, WordUp
<1>5. l.eptr % 8 = 0 /\ end <= l.eptr => next <= l.eptr
  BY <1>1, <1>3, WordUp
<1> HIDE DEF next, n
<1>6. at \in Int /\ l.aptr <= at /\ at + n <= next
  BY <1>1, <1>3, <1>4
<1> HIDE DEF at
<1>7. CASE end > l.eptr
  BY <1>2, <1>7, FailGood
<1>8. CASE ~(end > l.eptr)
  <2>1. Fits(a, l, t, next, at, n)
    <3> SUFFICES ASSUME SpaceInv(a, l) PROVE next <= l.eptr
      BY <1>4, <1>6 DEF Fits
    <3> QED
      BY <1>1, <1>3, <1>5, <1>8 DEF SpaceInv
  <2>2. l.aptr <= next /\ Len(own) \in Nat /\ Fits(a, l, t, next, at, Len(own))
    BY <1>1, <1>4, <1>6, <2>1 DEF n
  <2>3. Good(a, l, t, Stacked(l, next, at, own))
    BY <1>4, <1>6, <2>2, StackedGood
  <2> QED
    BY <1>2, <1>8, <2>3
<1> QED
  BY <1>7, <1>8

LEMMA RightGood ==
  ASSUME NEW a, a.cpu \in Cpus, a.cpu # "hppa", a.cpu \notin SysV,
         NEW l, RegInv(a, l), NEW t, NEW own, StructBytes(t, own), NEW al \in Alignments
  PROVE  Good(a, l, t, RightAdjusted(a, l, l.aptr, own, al))
<1> DEFINE n   == Len(own)
           up  == AlignUp(l.aptr + n, al)
           end == AlignUp(up, W(a))
<1>1. l.aptr \in Int /\ W(a) \in {4, 8} /\ n \in Nat
  BY ListTypes, WordSizes, StructLength
<1>2. RightAdjusted(a, l, l.aptr, own, al) = Embed(l, end, own)
  BY DEF RightAdjusted
<1>3. up \in Int /\ l.aptr + n <= up
  BY <1>1, AlignedUp
<1> HIDE DEF up
<1>4. end \in Int /\ l.aptr + n <= end /\ end % W(a) = 0
  <2> HIDE DEF n
  <2>1. end \in Int /\ up <= end /\ end % W(a) = 0
    BY <1>1, <1>3, WordUp
  <2> HIDE DEF end
  <2> QED
    BY <1>1, <1>3, <2>1
<1> HIDE DEF end
<1>5. WholeWords(a, l, end)
  BY <1>4 DEF WholeWords
<1>6. Good(a, l, t, Embed(l, end, own))
  BY <1>1, <1>4, <1>5, EmbedGood
<1> QED
  BY <1>2, <1>6

(* A struct's copy at the end of the free part, which moves eptr.          *)
CopyOf(l, eptr, at, own) == [l EXCEPT !.eptr = eptr, !.args = Put(@, at, own)]

LEMMA CopyFields ==
  ASSUME NEW a, NEW l, RegInv(a, l), NEW eptr \in Int, NEW at, NEW own, NEW k,
         k = CopyOf(l, eptr, at, own)
  PROVE  /\ IsList(k) /\ k.args = Put(l.args, at, own) /\ k.aptr = l.aptr
         /\ k.eptr = eptr /\ k.end = l.end /\ k.anum = l.anum
         /\ k.ianum = l.ianum /\ k.iargs = l.iargs /\ k.fanum = l.fanum
         /\ k.fregs = l.fregs /\ k.fmask = l.fmask /\ k.dmask = l.dmask
         /\ RegInv(a, k)
<1>1. /\ IsList(k) /\ k.args = Put(l.args, at, own) /\ k.aptr = l.aptr
      /\ k.eptr = eptr /\ k.end = l.end /\ k.anum = l.anum
      /\ k.ianum = l.ianum /\ k.iargs = l.iargs /\ k.fanum = l.fanum
      /\ k.fregs = l.fregs /\ k.fmask = l.fmask /\ k.dmask = l.dmask
  BY DEF RegInv, IsList, CopyOf
<1>2. RegInv(a, k)
  BY <1>1 DEF RegInv, Pointers
<1> QED
  BY <1>1, <1>2

(* Where it lies, and what the two pointers then are.                      *)
CopyRoom(a, l, eptr, at, own) ==
  /\ eptr \in Int /\ eptr % 8 = 0 /\ at \in Int
  /\ IF a.cpu = "hppa"
     THEN at = l.eptr /\ at + Len(own) <= eptr /\ eptr <= l.aptr
     ELSE at = eptr /\ at + Len(own) <= l.eptr /\ l.aptr <= eptr

LEMMA CopySpace ==
  ASSUME NEW a, a.cpu \in Cpus, NEW l, RegInv(a, l), SpaceInv(a, l), NEW eptr,
         NEW at, NEW own, Len(own) \in Nat, CopyRoom(a, l, eptr, at, own)
  PROVE  SpaceInv(a, CopyOf(l, eptr, at, own)) /\ Kept(l, CopyOf(l, eptr, at, own))
<1> DEFINE k == CopyOf(l, eptr, at, own)
<1>1. eptr \in Int /\ at \in Int /\ eptr % 8 = 0
  BY DEF CopyRoom
<1>2. /\ k.args = Put(l.args, at, own) /\ k.aptr = l.aptr
      /\ k.eptr = eptr /\ k.end = l.end /\ k.ianum = l.ianum
  BY <1>1, CopyFields
<1> HIDE DEF k
<1>3. l.aptr \in Int /\ l.eptr \in Int /\ l.ianum \in Nat /\ l.end \in Int
  BY ListTypes
<1>4. /\ 0 <= Low(a, l) /\ High(a, l) <= l.end
      /\ Low(a, l) \in Int /\ High(a, l) \in Int
  BY <1>3 DEF SpaceInv, Low, High
<1>5. CASE a.cpu = "hppa"
  <2>1. at = l.eptr /\ at + Len(own) <= eptr /\ eptr <= l.aptr
    BY <1>5 DEF CopyRoom
  <2>2. /\ Low(a, l) = l.eptr /\ High(a, l) = l.aptr
        /\ Low(a, k) = eptr /\ High(a, k) = l.aptr
    BY <1>2, <1>5 DEF Low, High
  <2>3. /\ Low(a, l) <= at /\ at + Len(own) <= High(a, l)
        /\ at + Len(own) <= Low(a, k)
        /\ Low(a, l) <= Low(a, k) /\ Low(a, k) <= High(a, k)
        /\ High(a, k) <= High(a, l)
    BY <1>1, <1>3, <2>1, <2>2
  <2>4. /\ k.end = l.end /\ k.ianum \in Int /\ l.ianum <= k.ianum
        /\ k.aptr \in Int /\ k.eptr \in Int
    BY <1>1, <1>2, <1>3
  <2>5. Kept(l, k) /\ \A x \in DOMAIN k.args : Stored(a, k, x)
    BY <1>1, <1>2, <2>3, <2>4, StoreInFree
  <2>6. 0 <= Low(a, k) /\ High(a, k) <= k.end
    BY <1>1, <1>2, <1>3, <1>4, <2>2, <2>3
  <2>7. a.cpu \notin SysV => k.aptr % W(a) = 0
    BY <1>2 DEF SpaceInv
  <2>8. k.eptr % 8 = 0
    BY <1>1, <1>2
  <2>9. SpaceInv(a, k)
    BY <2>3, <2>5, <2>6, <2>7, <2>8 DEF SpaceInv
  <2> QED
    BY <2>5, <2>9 DEF k
<1>6. CASE a.cpu # "hppa"
  <2>1. at = eptr /\ at + Len(own) <= l.eptr /\ l.aptr <= eptr
    BY <1>6 DEF CopyRoom
  <2>2. /\ Low(a, l) = l.aptr /\ High(a, l) = l.eptr
        /\ Low(a, k) = l.aptr /\ High(a, k) = eptr
    BY <1>2, <1>6 DEF Low, High
  <2>3. /\ Low(a, l) <= at /\ at + Len(own) <= High(a, l)
        /\ High(a, k) <= at
        /\ Low(a, l) <= Low(a, k) /\ Low(a, k) <= High(a, k)
        /\ High(a, k) <= High(a, l)
    BY <1>1, <1>3, <2>1, <2>2
  <2>4. /\ k.end = l.end /\ k.ianum \in Int /\ l.ianum <= k.ianum
        /\ k.aptr \in Int /\ k.eptr \in Int
    BY <1>1, <1>2, <1>3
  <2>5. Kept(l, k) /\ \A x \in DOMAIN k.args : Stored(a, k, x)
    BY <1>1, <1>2, <2>3, <2>4, StoreInFree
  <2>6. 0 <= Low(a, k) /\ High(a, k) <= k.end
    BY <1>1, <1>2, <1>3, <1>4, <2>2, <2>3
  <2>7. a.cpu \notin SysV => k.aptr % W(a) = 0
    BY <1>2 DEF SpaceInv
  <2>8. k.eptr % 8 = 0
    BY <1>1, <1>2
  <2>9. SpaceInv(a, k)
    BY <2>3, <2>5, <2>6, <2>7, <2>8 DEF SpaceInv
  <2> QED
    BY <2>5, <2>9 DEF k
<1> QED
  BY <1>5, <1>6

(* The push goes on with the pointer to the copy.                          *)
LEMMA AfterCopy ==
  ASSUME NEW a, a.cpu \in Cpus, a.cpu \notin SysV, NEW l, RegInv(a, l), NEW t,
         NEW own, StructBytes(t, own),
         NEW eptr, NEW at, SpaceInv(a, l) => CopyRoom(a, l, eptr, at, own),
         eptr \in Int, NEW k, k = CopyOf(l, eptr, at, own),
         NEW r, Good(a, k, t, r), r.res = 0
  PROVE  Good(a, l, t, r)
<1>1. ~Overruns(a, k, t) /\ Len(own) \in Nat
  BY StructLength
<1>2. SpaceInv(a, l) => SpaceInv(a, k) /\ Kept(l, k)
  BY <1>1, CopySpace
<1>3. k.end = l.end
  BY CopyFields
<1>4. Kept(l, k) /\ Kept(k, r.list) => Kept(l, r.list)
  BY DEF Kept
<1>5. Grown(a, k, r.list) => Grown(a, l, r.list)
  <2>1. k.aptr = l.aptr /\ k.ianum = l.ianum /\ k.iargs = l.iargs
    BY CopyFields
  <2> QED
    BY <2>1 DEF Grown
<1> QED
  BY <1>1, <1>2, <1>3, <1>4, <1>5 DEF Good

LEMMA LengthAddress ==
  ASSUME NEW x, NEW n \in Nat
  PROVE  Len(Address(x, n)) = n
BY LengthOfBytes DEF Address

ByCopyCpus == Arm64 \cup S390 \cup RiscV
              \cup {"sparc", "powerpc_sysv4", "sparc64", "x86_64_ms"}

LEMMA ByCopyFails ==
  ASSUME NEW a, a.cpu \in Cpus, a.cpu # "hppa", NEW l, RegInv(a, l), NEW t,
         t.kind = "struct",
         NEW aptr \in Int, NEW eptr \in Int, l.aptr <= aptr, NEW m,
         m = [l EXCEPT !.eptr = eptr, !.aptr = aptr]
  PROVE  Good(a, l, t, Fail(m))
<1>1. /\ IsList(m) /\ m.args = l.args /\ m.aptr = aptr
      /\ m.eptr = eptr /\ m.end = l.end /\ m.anum = l.anum
      /\ m.ianum = l.ianum /\ m.iargs = l.iargs /\ m.fanum = l.fanum
      /\ m.fregs = l.fregs /\ m.fmask = l.fmask /\ m.dmask = l.dmask
  BY DEF RegInv, IsList
<1>2. Pointers(a, aptr, eptr, l.end)
  BY DEF RegInv, Pointers
<1>3. RegInv(a, m)
  BY <1>1, <1>2 DEF RegInv
<1> DEFINE r == Fail(m)
<1>6. Grown(a, l, m)
  BY <1>1, SameIargs
<1>4. IsResult(r) /\ r.res = -1 /\ r.list = m
  BY <1>1 DEF Fail, IsResult
<1> HIDE DEF r
<1>5. Good(a, l, t, r)
  BY ONLY <1>1, <1>3, <1>4, <1>6, t.kind = "struct" DEF Good
<1> QED
  BY <1>5 DEF r

LEMMA ByCopyGood ==
  ASSUME NEW a, a.cpu \in ByCopyCpus, NEW l, RegInv(a, l), NEW t, NEW own,
         StructBytes(t, own)
  PROVE  Good(a, l, t, ByCopy(a, l, own))
<1> DEFINE copy  == l.eptr - AlignUp(Len(own), 8)
           inReg == a.cpu \in HasIargs /\ l.ianum < IargNum(a)
           aptr  == IF inReg THEN l.aptr ELSE l.aptr + P(a)
           l1    == [l EXCEPT !.eptr = copy, !.aptr = aptr]
           k     == CopyOf(l, copy, copy, own)
<1>1. a.cpu \in Cpus /\ a.cpu # "hppa" /\ a.cpu \notin SysV
  BY DEF ByCopyCpus, Cpus, Cpus32, LongIs64, Arm64, S390, RiscV, SysV
<1>2. /\ l.aptr \in Int /\ l.eptr \in Int /\ Len(own) \in Nat
      /\ P(a) \in {4, 8} /\ R(a) \in {4, 8} /\ W(a) \in {4, 8}
  BY <1>1, ListTypes, WordSizes, StructLength
<1>3. P(a) % W(a) = 0
  BY <1>1 DEF P, W, ByCopyCpus, Cpus32, LongIs64, Arm64, S390, RiscV
<1>4. AlignUp(Len(own), 8) \in Int /\ Len(own) <= AlignUp(Len(own), 8)
      /\ AlignUp(Len(own), 8) % 8 = 0
  BY <1>2, AlignedUp DEF Alignments
<1>5. /\ copy \in Int /\ copy + Len(own) <= l.eptr
      /\ l.eptr % 8 = 0 => copy % 8 = 0
  BY SMTT(60), <1>2, <1>4
<1>6. ByCopy(a, l, own) =
        CASE l1.aptr > copy -> Fail(l1)
          [] l1.aptr <= copy /\ inReg ->
               InIarg(a, [l1 EXCEPT !.args = Put(@, copy, own)], Address(copy, R(a)))
          [] l1.aptr <= copy /\ ~inReg ->
               Done([[l1 EXCEPT !.args = Put(@, copy, own)]
                      EXCEPT !.args = Put(@, l.aptr, Address(copy, P(a)))])
  BY DEF ByCopy
<1> HIDE DEF copy
<1>7. l1.aptr = aptr
  BY DEF RegInv, IsList
<1>8. aptr \in Int /\ l.aptr <= aptr
  BY <1>2
<1>9. k.aptr = l.aptr /\ k.eptr = copy /\ RegInv(a, k) /\ k.ianum = l.ianum
  BY <1>5, CopyFields
<1>10. aptr <= copy /\ SpaceInv(a, l) => CopyRoom(a, l, copy, copy, own)
  BY <1>1, <1>2, <1>5, <1>8 DEF CopyRoom, SpaceInv
<1>11. CASE aptr > copy
  <2>1. ByCopy(a, l, own) = Fail(l1)
    BY <1>5, <1>6, <1>7, <1>8, <1>11
  <2>2. t.kind = "struct"
    BY DEF StructBytes
  <2> HIDE DEF aptr, l1
  <2>3. Good(a, l, t, Fail(l1))
    BY <1>1, <1>5, <1>8, <2>2, ByCopyFails DEF l1
  <2> QED
    BY <2>1, <2>3
<1>12. CASE aptr <= copy /\ inReg
  <2> DEFINE r == InIarg(a, k, Address(copy, R(a)))
  <2>1. [l1 EXCEPT !.args = Put(@, copy, own)] = k
    BY <1>12 DEF CopyOf, RegInv, IsList
  <2>2. ByCopy(a, l, own) = r
    BY <1>6, <1>7, <1>8, <1>5, <1>12, <2>1
  <2>3. Len(Address(copy, R(a))) = R(a)
    BY <1>2, LengthAddress
  <2> HIDE DEF k
  <2>4. Good(a, k, t, r)
    BY <1>1, <1>2, <1>9, <1>12, <2>3, InIargGood
  <2>5. r.res = 0
    BY DEF InIarg, Done
  <2> HIDE DEF r, aptr
  <2>6. Good(a, l, t, r)
    BY <1>1, <1>5, <1>10, <1>12, <2>4, <2>5, AfterCopy DEF k
  <2> QED
    BY <2>2, <2>6
<1>13. CASE aptr <= copy /\ ~inReg
  <2> DEFINE next == l.aptr + P(a)
             at   == l.aptr
             r    == Stacked(k, next, at, Address(copy, P(a)))
  <2>1. Done([[l1 EXCEPT !.args = Put(@, copy, own)]
               EXCEPT !.args = Put(@, l.aptr, Address(copy, P(a)))]) = r
    BY <1>13 DEF CopyOf, Stacked, RegInv, IsList
  <2>2. ByCopy(a, l, own) = r
    BY <1>6, <1>7, <1>8, <1>5, <1>13, <2>1
  <2>3. Len(Address(copy, P(a))) = P(a)
    BY <1>2, LengthAddress
  <2> HIDE DEF k
  <2>4. next \in Int /\ at \in Int /\ k.aptr <= next /\ k.aptr <= at
        /\ at + P(a) <= next /\ next <= k.eptr
    BY <1>2, <1>9, <1>13
  <2>5. SpaceInv(a, k) => next % W(a) = 0
    <3> SUFFICES ASSUME SpaceInv(a, k) PROVE next % W(a) = 0
      OBVIOUS
    <3>1. l.aptr % W(a) = 0
      BY <1>1, <1>9 DEF SpaceInv
    <3>2. CASE W(a) = 4
      BY <1>2, <1>3, <3>1, <3>2
    <3>3. CASE W(a) = 8
      BY <1>2, <1>3, <3>1, <3>3
    <3> QED
      BY <1>2, <3>2, <3>3
  <2>6. Fits(a, k, t, next, at, P(a))
    BY <2>4, <2>5 DEF Fits
  <2> HIDE DEF next, at
  <2>7. Good(a, k, t, r)
    BY <1>1, <1>2, <1>9, <2>3, <2>4, <2>6, StackedGood
  <2>8. r.res = 0
    BY DEF Stacked, Done
  <2> HIDE DEF r, aptr
  <2>9. Good(a, l, t, r)
    BY <1>1, <1>5, <1>10, <1>13, <2>7, <2>8, AfterCopy DEF k
  <2> QED
    BY <2>2, <2>9
<1> QED
  BY <1>5, <1>8, <1>11, <1>12, <1>13

LEMMA HppaStructGood ==
  ASSUME NEW a, a.cpu = "hppa", NEW l, RegInv(a, l), NEW t, NEW own,
         StructBytes(t, own)
  PROVE  Good(a, l, t, HppaStruct(l, own))
<1> DEFINE n    == Len(own)
           eptr == l.eptr + AlignUp(n, 8)
           aptr == l.aptr - 4
           l1   == [l EXCEPT !.aptr = @ - 4, !.eptr = @ + AlignUp(n, 8)]
           at   == IF n > 4 THEN AlignDown(AlignDown(l.aptr, 8) - n, 8)
                   ELSE AlignDown(l.aptr, 4) - n
           k    == CopyOf(l, eptr, l.eptr, own)
<1>1. a.cpu \in Cpus /\ a.cpu \notin SysV /\ W(a) = 4
  BY DEF Cpus, Cpus32, SysV, W
<1>2. l.aptr \in Int /\ l.eptr \in Int /\ l.end \in Int /\ n \in Nat
  BY <1>1, ListTypes, StructLength
<1>3. HppaStruct(l, own) =
        CASE n > 8 /\ l1.aptr < l1.eptr  -> Fail(l1)
          [] n > 8 /\ l1.aptr >= l1.eptr ->
               Done([l1 EXCEPT !.args = Put(Put(@, l.eptr, own), l1.aptr,
                                            Address(l.eptr, 4))])
          [] n <= 8 /\ at < l.eptr  -> Fail(l)
          [] n <= 8 /\ at >= l.eptr -> Stacked(l, AlignDown(at, 4), at, own)
  BY DEF HppaStruct
<1>4. /\ IsList(l1) /\ l1.args = l.args /\ l1.aptr = aptr /\ l1.eptr = eptr
      /\ l1.end = l.end /\ l1.anum = l.anum /\ l1.ianum = l.ianum
      /\ l1.iargs = l.iargs /\ l1.fanum = l.fanum /\ l1.fregs = l.fregs
      /\ l1.fmask = l.fmask /\ l1.dmask = l.dmask
  BY DEF RegInv, IsList
<1>5. /\ eptr \in Int /\ l.eptr + n <= eptr
      /\ l.eptr % 8 = 0 => eptr % 8 = 0
  BY <1>2 DEF AlignUp
<1> HIDE DEF eptr
<1>0. at \in Int /\ at + n <= l.aptr
  BY SMTT(60), <1>2 DEF AlignDown
<1>6. CASE n > 8 /\ aptr < eptr
  <2>1. HppaStruct(l, own) = Fail(l1)
    BY <1>2, <1>3, <1>4, <1>5, <1>6
  <2> DEFINE r == Fail(l1)
  <2> HIDE DEF l1
  <2>2. IsResult(r) /\ r.res = -1 /\ r.list = l1
    BY <1>4 DEF Fail, IsResult
  <2> HIDE DEF r
  <2>3. Pointers(a, aptr, eptr, l.end)
    BY <1>2, <1>5 DEF RegInv, Pointers
  <2>4. RegInv(a, l1)
    BY <1>4, <2>3 DEF RegInv
  <2>5. t.kind = "struct"
    BY DEF StructBytes
  <2>6. Grown(a, l, l1)
    BY <1>1, <1>4, SameIargs
  <2>7. Good(a, l, t, r)
    BY ONLY <1>4, <2>2, <2>4, <2>5, <2>6 DEF Good
  <2> QED
    BY <2>1, <2>7 DEF r
<1>7. CASE n > 8 /\ ~(aptr < eptr)
  <2> DEFINE ptr == Address(l.eptr, 4)
             r   == Stacked(k, aptr, aptr, ptr)
  <2>1. Done([l1 EXCEPT !.args = Put(Put(@, l.eptr, own), l1.aptr,
                                     Address(l.eptr, 4))]) = r
    BY DEF CopyOf, Stacked, RegInv, IsList, eptr
  <2>2. HppaStruct(l, own) = r
    BY <1>2, <1>3, <1>4, <1>5, <1>7, <2>1
  <2>3. FourBytes(ptr)
    BY LengthAddress DEF FourBytes
  <2>4. k.aptr = l.aptr /\ k.eptr = eptr /\ RegInv(a, k)
    BY <1>5, CopyFields
  <2> HIDE DEF k, l1
  <2>5. /\ aptr \in Int /\ aptr <= k.aptr /\ aptr <= aptr
        /\ aptr + 4 <= k.aptr
    BY <1>2, <2>4
  <2>6. SpaceInv(a, k) => k.eptr <= aptr /\ aptr % 4 = 0
    <3> SUFFICES ASSUME SpaceInv(a, k) PROVE k.eptr <= aptr /\ aptr % 4 = 0
      OBVIOUS
    <3>1. l.aptr % 4 = 0
      BY <1>1, <2>4 DEF SpaceInv
    <3> QED
      BY <1>2, <1>5, <1>7, <2>4, <3>1
  <2>7. SpaceInv(a, l) => CopyRoom(a, l, eptr, l.eptr, own)
    BY SMTT(60), <1>2, <1>5, <1>7 DEF CopyRoom, SpaceInv
  <2> HIDE DEF aptr, ptr
  <2>11. Len(ptr) \in Nat
    BY <2>3 DEF FourBytes
  <2>12. aptr + Len(ptr) = aptr + 4
    BY <2>3 DEF FourBytes
  <2>13. aptr + Len(ptr) <= k.aptr
    BY <2>5, <2>12
  <2>8. Good(a, k, t, r)
    BY <2>4, <2>5, <2>6, <2>11, <2>13, StackedDownGood
  <2>9. r.res = 0
    BY DEF Stacked, Done
  <2> HIDE DEF r
  <2>10. Good(a, l, t, r)
    BY <1>1, <1>5, <2>7, <2>8, <2>9, AfterCopy DEF k
  <2> QED
    BY <2>2, <2>10
<1>8. CASE n <= 8 /\ at < l.eptr
  <2>1. HppaStruct(l, own) = Fail(l)
    BY <1>0, <1>2, <1>3, <1>8
  <2> QED
    BY <2>1, FailGood
<1>9. CASE n <= 8 /\ ~(at < l.eptr)
  <2> DEFINE next == AlignDown(at, 4)
  <2>1. HppaStruct(l, own) = Stacked(l, next, at, own)
    BY <1>2, <1>3, <1>9, <1>0
  <2> HIDE DEF at
  <2>2. next \in Int /\ next <= at /\ next % 4 = 0
    BY <1>0 DEF AlignDown
  <2>3. l.eptr % 8 = 0 => l.eptr <= next
    BY <1>2, <1>9, <1>0 DEF AlignDown
  <2>4. next <= l.aptr
    BY <1>2, <1>0, <2>2
  <2>5. SpaceInv(a, l) => l.eptr <= next /\ next % 4 = 0
    BY <2>2, <2>3 DEF SpaceInv
  <2> HIDE DEF next
  <2>6. Good(a, l, t, Stacked(l, next, at, own))
    BY <1>2, <1>0, <2>2, <2>4, <2>5, StackedDownGood
  <2> QED
    BY <2>1, <2>6
<1> QED
  BY <1>2, <1>6, <1>7, <1>8, <1>9

LEMMA OldGccGood ==
  ASSUME NEW a, a.cpu = "ia64", NEW l, RegInv(a, l), NEW t, NEW own,
         StructBytes(t, own), NEW al \in Alignments
  PROVE  Good(a, l, t, OldGccStruct(l, own, al))
<1> DEFINE n    == Len(own)
           end  == AlignUp(l.aptr + n, al)
           odd  == n > 8 /\ (end \div 8) % 2 = 1
           aptr == IF odd THEN end + 8 ELSE end
           l1   == [l EXCEPT !.aptr = aptr]
           next == AlignUp(aptr, 8)
           at   == aptr - n
<1>1. a.cpu \in Cpus /\ a.cpu # "hppa" /\ a.cpu \notin SysV /\ W(a) = 8
  BY DEF Cpus, Cpus32, LongIs64, SysV, W
<1>2. l.aptr \in Int /\ l.eptr \in Int /\ n \in Nat
  BY <1>1, ListTypes, StructLength
<1>3. /\ IsList(l1) /\ l1.args = l.args /\ l1.aptr = aptr /\ l1.eptr = l.eptr
      /\ l1.end = l.end /\ l1.anum = l.anum /\ l1.ianum = l.ianum
      /\ l1.iargs = l.iargs /\ l1.fanum = l.fanum /\ l1.fregs = l.fregs
      /\ l1.fmask = l.fmask /\ l1.dmask = l.dmask
  BY DEF RegInv, IsList
<1>4. OldGccStruct(l, own, al) =
        IF aptr > l.eptr THEN Fail(l1) ELSE Stacked(l1, next, at, own)
  BY <1>3 DEF OldGccStruct
<1>5. Stacked(l1, next, at, own) = Stacked(l, next, at, own)
  BY DEF Stacked, RegInv, IsList
<1>6. end \in Int /\ l.aptr + n <= end
  BY <1>2, AlignedUp
<1> HIDE DEF end
<1>7. aptr \in Int /\ l.aptr + n <= aptr
  BY <1>2, <1>6
<1> HIDE DEF aptr
<1>8. next \in Int /\ aptr <= next /\ next % 8 = 0
  BY <1>7 DEF AlignUp
<1>9. l.eptr % 8 = 0 /\ ~(aptr > l.eptr) => next <= l.eptr
  BY <1>2, <1>7 DEF AlignUp
<1> HIDE DEF next
<1>10. at \in Int /\ l.aptr <= at /\ at + n <= next /\ l.aptr <= next
  BY <1>2, <1>7, <1>8
<1> HIDE DEF at
<1>11. CASE aptr > l.eptr
  <2> DEFINE r == Fail(l1)
  <2> HIDE DEF l1
  <2>1. IsResult(r) /\ r.res = -1 /\ r.list = l1
    BY <1>3 DEF Fail, IsResult
  <2>2. Pointers(a, aptr, l.eptr, l.end)
    BY <1>1, <1>2, <1>7 DEF RegInv, Pointers
  <2>3. RegInv(a, l1)
    BY <1>3, <2>2 DEF RegInv
  <2>4. t.kind = "struct"
    BY DEF StructBytes
  <2>5. OldGccStruct(l, own, al) = r
    BY <1>4, <1>11
  <2> HIDE DEF r
  <2>6. Grown(a, l, l1)
    BY <1>1, <1>2, <1>3, <1>7, SameIargs
  <2>7. Good(a, l, t, r)
    BY ONLY <1>3, <2>1, <2>3, <2>4, <2>6 DEF Good
  <2> QED
    BY <2>5, <2>7
<1>12. CASE ~(aptr > l.eptr)
  <2>1. Fits(a, l, t, next, at, n)
    BY <1>1, <1>8, <1>9, <1>10, <1>12 DEF Fits, SpaceInv
  <2>2. Fits(a, l, t, next, at, Len(own)) /\ Len(own) \in Nat
    BY <1>2, <2>1
  <2>3. Good(a, l, t, Stacked(l, next, at, own))
    BY <1>1, <1>8, <1>10, <2>2, StackedGood
  <2> QED
    BY <1>4, <1>5, <1>12, <2>3
<1> QED
  BY <1>11, <1>12

LEMMA InCoreRegisters ==
  ASSUME NEW ianum \in Nat, NEW words \in Nat, NEW n \in Nat, NEW up \in Int,
         n <= 4 * words, 4 * words < n + 4, 4 * ianum + n <= up, up <= 16
  PROVE  /\ ianum + words \in 0..4
         /\ 4 * (ianum + words) - n \in Int
         /\ 4 * ianum <= 4 * (ianum + words) - n
         /\ 4 * (ianum + words) - n + n <= 4 * (ianum + words)
OBVIOUS

(* armhf: in the first words of args[], which are the core registers, on   *)
(* the stack, or partly in either.                                         *)
LEMMA ArmhfStructGood ==
  ASSUME NEW a, a.cpu = "armhf", NEW l, RegInv(a, l), NEW t, NEW own,
         StructBytes(t, own)
  PROVE  Good(a, l, t, av_struct(a, l, own, t))
<1> DEFINE n     == t.size
           al    == t.align
           up    == AlignUp(4 * l.ianum + n, al)
           words == StructWords(t, 4)
           next  == l.ianum + words
           at    == 4 * next - n
           left  == LeftAdjusted(a, l, SplitStart(l), own, al)
           right == RightAdjusted(a, l, SplitStart(l), own, al)
<1>1. a.cpu \in Cpus /\ a.cpu # "hppa" /\ a.cpu \notin SysV
  BY DEF Cpus, Cpus32, SysV
<1>2. R(a) = 4 /\ W(a) = 4 /\ IargNum(a) = 4
  BY <1>1, RegisterCounts DEF R, Cpus32
<1>3. l.ianum \in Nat /\ l.aptr \in Int /\ l.eptr \in Int
  BY <1>1, ListTypes
<1>4. n \in Nat /\ al \in Alignments /\ Len(own) \in Nat /\ Len(own) = n
  BY StructLength
<1>5. av_struct(a, l, own, t) =
        IF up <= 16
        THEN Done([l EXCEPT !.ianum = next, !.args = Put(@, at, own)])
        ELSE NoMoreIargs(a, IF a.order = "little" THEN left ELSE right)
  BY <1>2 DEF av_struct, Arm64, PPC64, MipsWide, S390, RiscV, SysV
<1>6. words \in Nat /\ n <= 4 * words /\ 4 * words < n + 4
  BY <1>4, StructWordsCover
<1> HIDE DEF words
<1>7. up \in Int /\ 4 * l.ianum + n <= up
  BY <1>3, <1>4, AlignedUp
<1> HIDE DEF up
<1>8. CASE up <= 16
  <2>1. next \in 0..4 /\ at \in Int /\ 4 * l.ianum <= at /\ at + n <= 4 * next
    <3> HIDE DEF n, al
    <3>1. n \in Nat
      BY <1>4
    <3> QED
      BY <1>3, <1>6, <1>7, <1>8, <3>1, InCoreRegisters
  <2> HIDE DEF next, at
  <2>2. at + Len(own) <= 4 * next
    BY <1>4, <2>1
  <2>3. Good(a, l, t, Done([l EXCEPT !.ianum = next, !.args = Put(@, at, own)]))
    BY <1>4, <2>1, <2>2, CoreRegistersGood
  <2> QED
    BY <1>5, <1>8, <2>3
<1>9. CASE ~(up <= 16) /\ l.aptr # 16
  <2>1. SplitStart(l) = l.aptr
    BY <1>9 DEF SplitStart
  <2>2. Good(a, l, t, left) /\ Good(a, l, t, right)
    BY <1>1, <1>4, <2>1, LeftGood, RightGood
  <2> HIDE DEF left, right
  <2>3. Good(a, l, t, NoMoreIargs(a, left)) /\ Good(a, l, t, NoMoreIargs(a, right))
    BY <1>1, <2>2, NoMoreIargsGood
  <2> QED
    BY <1>5, <1>9, <2>3
<1>10. CASE ~(up <= 16) /\ l.aptr = 16
  <2> DEFINE to   == AlignUp(up, 4)
             low  == up - n
             high == to - n
  <2>1. SplitStart(l) = 4 * l.ianum
    BY <1>10 DEF SplitStart
  <2>2. /\ left = IF up > l.eptr THEN Fail(l) ELSE Stacked(l, to, low, own)
        /\ right = IF to > l.eptr THEN Fail(l) ELSE Stacked(l, to, high, own)
    BY <1>2, <1>4, <2>1 DEF LeftAdjusted, RightAdjusted, Embed, up
  <2> HIDE DEF left, right
  <2>3. /\ to \in Int /\ up <= to /\ to % 4 = 0
        /\ l.eptr % 8 = 0 /\ up <= l.eptr => to <= l.eptr
    BY <1>3, <1>7 DEF AlignUp
  <2> HIDE DEF to
  <2>4. /\ low \in Int /\ 4 * l.ianum <= low /\ low + n <= to
        /\ high \in Int /\ 4 * l.ianum <= high /\ high + n <= to /\ 16 <= to
    <3> HIDE DEF n, al
    <3>1. n \in Nat
      BY <1>4
    <3> QED
      BY <1>3, <1>7, <1>10, <2>3, <3>1
  <2> HIDE DEF low, high
  <2>5. low + Len(own) <= to /\ high + Len(own) <= to
    BY <1>4, <2>4
  <2>6. Good(a, l, t, Fail(l)) /\ Good(a, l, t, NoMoreIargs(a, Fail(l)))
    BY <1>1, FailGood, NoMoreIargsGood
  <2>7. Good(a, l, t, NoMoreIargs(a, left))
    <3>1. CASE up > l.eptr
      BY <2>2, <2>6, <3>1
    <3>2. CASE ~(up > l.eptr)
      <4>1. SpaceInv(a, l) => to <= l.eptr
        BY <1>3, <1>7, <2>3, <3>2 DEF SpaceInv
      <4>2. Good(a, l, t, NoMoreIargs(a, Stacked(l, to, low, own)))
        BY <1>4, <1>10, <2>3, <2>4, <2>5, <4>1, SplitGood
      <4> QED
        BY <2>2, <3>2, <4>2
    <3> QED
      BY <3>1, <3>2
  <2>8. Good(a, l, t, NoMoreIargs(a, right))
    <3>1. CASE to > l.eptr
      BY <2>2, <2>6, <3>1
    <3>2. CASE ~(to > l.eptr)
      <4>1. SpaceInv(a, l) => to <= l.eptr
        BY <1>3, <2>3, <3>2
      <4>2. Good(a, l, t, NoMoreIargs(a, Stacked(l, to, high, own)))
        BY <1>4, <1>10, <2>3, <2>4, <2>5, <4>1, SplitGood
      <4> QED
        BY <2>2, <3>2, <4>2
    <3> QED
      BY <3>1, <3>2
  <2> QED
    BY <1>5, <1>10, <2>7, <2>8
<1> QED
  BY <1>8, <1>9, <1>10

(* Where the words of a struct go to registers if all of them fit.         *)
LEMMA StructFits ==
  ASSUME NEW a, a.cpu \in Arm64 \cup S390, NEW l, RegInv(a, l), NEW t, NEW own,
         StructBytes(t, own),
         AlignUp(R(a) * l.ianum + t.size, t.align) <= R(a) * IargNum(a)
  PROVE  /\ l.ianum + StructWords(t, R(a)) \in 0..IargNum(a)
         /\ l.ianum <= l.ianum + StructWords(t, R(a))
         /\ R(a) * l.ianum \in Nat /\ Len(own) \in Nat
         /\ R(a) * l.ianum + Len(own) <= R(a) * IargNum(a)
         /\ R(a) * l.ianum + Len(own) <= R(a) * (l.ianum + StructWords(t, R(a)))
<1> DEFINE n     == t.size
           words == StructWords(t, R(a))
           up    == AlignUp(R(a) * l.ianum + n, t.align)
<1>1. a.cpu \in Cpus
  BY DEF Cpus, Cpus32, LongIs64, Arm64, S390
<1>2. l.ianum \in Nat /\ R(a) \in {4, 8} /\ IargNum(a) \in Nat
  BY <1>1, ListTypes, WordSizes
<1>3. n \in Nat /\ t.align \in Alignments /\ Len(own) \in Nat /\ Len(own) = n
  BY StructLength
<1>4. words \in Nat /\ n <= R(a) * words /\ R(a) * words < n + R(a)
  BY <1>2, <1>3, StructWordsCover
<1>5. R(a) * l.ianum + n <= R(a) * IargNum(a)
  <2>1. R(a) * l.ianum + n \in Int /\ R(a) * IargNum(a) \in Int
    BY <1>2, <1>3
  <2>2. up \in Int /\ R(a) * l.ianum + n <= up
    BY <1>3, <2>1, AlignedUp
  <2>3. up <= R(a) * IargNum(a)
    OBVIOUS
  <2> HIDE DEF up
  <2> QED
    BY <2>1, <2>2, <2>3
<1> DEFINE fits(len) ==
             /\ l.ianum + words \in 0..IargNum(a)
             /\ l.ianum <= l.ianum + words
             /\ R(a) * l.ianum \in Nat /\ len \in Nat
             /\ R(a) * l.ianum + len <= R(a) * IargNum(a)
             /\ R(a) * l.ianum + len <= R(a) * (l.ianum + words)
<1> SUFFICES fits(Len(own))
  OBVIOUS
<1> HIDE DEF words, n, up
<1>6. CASE R(a) = 4
  BY SMTT(60), <1>2, <1>3, <1>4, <1>5, <1>6
<1>7. CASE R(a) = 8
  BY SMTT(60), <1>2, <1>3, <1>4, <1>5, <1>7
<1>8. \/ R(a) = 4
      \/ R(a) = 8
  BY <1>2
<1> QED
  BY <1>6, <1>7, <1>8

LEMMA InTwoRegisters ==
  ASSUME NEW ianum \in Nat, NEW n \in Nat, ianum + CeilDiv(n, 8) <= 6
  PROVE  /\ CeilDiv(n, 8) \in Nat /\ ianum + CeilDiv(n, 8) \in 0..6
         /\ ianum <= ianum + CeilDiv(n, 8)
         /\ 8 * ianum \in Nat /\ 8 * ianum + n <= 48
<1>1. CeilDiv(n, 8) \in Nat /\ n <= 8 * CeilDiv(n, 8)
  BY DEF CeilDiv
<1> QED
  BY <1>1

LEMMA SysvStructGood ==
  ASSUME NEW a, a.cpu \in SysV, NEW l, RegInv(a, l), NEW t, NEW own,
         StructBytes(t, own)
  PROVE  Good(a, l, t, av_struct(a, l, own, t))
<1> DEFINE n    == t.size
           next == l.ianum + CeilDiv(n, 8)
           at   == 8 * l.ianum
           end  == l.aptr + AlignUp(n, t.align)
           low  == l.aptr
<1>1. a.cpu \in Cpus /\ a.cpu # "hppa"
  BY DEF Cpus, Cpus32, LongIs64, SysV
<1>2. R(a) = 8 /\ IargNum(a) = 6
  BY <1>1, RegisterCounts
<1>3. l.ianum \in Nat /\ l.aptr \in Int /\ l.eptr \in Int
  BY <1>1, ListTypes
<1>4. n \in Nat /\ t.align \in Alignments /\ Len(own) \in Nat /\ Len(own) = n
  BY StructLength
<1>5. av_struct(a, l, own, t) =
        IF n <= 16 /\ next <= 6
        THEN Done([l EXCEPT !.ianum = next, !.iargs = Put(@, at, own)])
        ELSE IF end > l.eptr THEN Fail(l) ELSE Stacked(l, end, low, own)
  BY <1>2 DEF av_struct, Arm64, PPC64, MipsWide, S390, RiscV, SysV
<1>6. CASE n <= 16 /\ next <= 6
  <2>1. next \in 0..6 /\ l.ianum <= next /\ at \in Nat /\ at + n <= 48
    BY <1>3, <1>4, <1>6, InTwoRegisters
  <2>4. R(a) * l.ianum <= at
    BY <1>2, <1>3
  <2> HIDE DEF next, at
  <2>2. at + Len(own) <= R(a) * IargNum(a) /\ next \in 0..IargNum(a)
    BY <1>2, <1>4, <2>1
  <2>3. Good(a, l, t, Done([l EXCEPT !.ianum = next, !.iargs = Put(@, at, own)]))
    BY <1>1, <1>4, <2>1, <2>2, <2>4, InIargsAtGood
  <2> QED
    BY <1>5, <1>6, <2>3
<1>7. CASE ~(n <= 16 /\ next <= 6) /\ end > l.eptr
  BY <1>5, <1>7, FailGood
<1>8. CASE ~(n <= 16 /\ next <= 6) /\ ~(end > l.eptr)
  <2>1. AlignUp(n, t.align) \in Int /\ n <= AlignUp(n, t.align)
    BY <1>4, AlignedUp
  <2>2. /\ end \in Int /\ low \in Int /\ l.aptr <= low /\ low + n <= end
        /\ l.aptr <= end
    <3> DEFINE up == AlignUp(n, t.align)
    <3> HIDE DEF up, n
    <3> QED
      BY <1>3, <1>4, <2>1 DEF up
  <2>3. Fits(a, l, t, end, low, n)
    <3> HIDE DEF end, low, n
    <3> QED
      BY <1>3, <1>8, <2>2 DEF Fits
  <2> HIDE DEF end, low
  <2>4. Good(a, l, t, Stacked(l, end, low, own))
    BY <1>1, <1>4, <2>2, <2>3, StackedGood
  <2> QED
    BY <1>5, <1>8, <2>4
<1> QED
  BY <1>6, <1>7, <1>8

LEMMA OneWordGood ==
  ASSUME NEW a, a.cpu = "x86_64_ms", NEW l, RegInv(a, l), NEW t, NEW own,
         StructBytes(t, own), t.size <= 8
  PROVE  Good(a, l, t, IF l.aptr + 8 > l.eptr THEN Fail(l)
                       ELSE Stacked(l, l.aptr + 8, l.aptr, own))
<1> DEFINE next == l.aptr + 8
           at   == l.aptr
<1>1. a.cpu \in Cpus /\ a.cpu # "hppa" /\ a.cpu \notin SysV /\ W(a) = 8
  BY DEF Cpus, SysV, W, Cpus32
<1>2. l.aptr \in Int /\ l.eptr \in Int
  BY <1>1, ListTypes
<1>3. Len(own) \in Nat /\ Len(own) = t.size
  BY StructLength
<1>4. CASE next > l.eptr
  BY <1>4, FailGood
<1>5. CASE ~(next > l.eptr)
  <2>1. at \in Int /\ next \in Int /\ l.aptr <= at /\ l.aptr <= next
    BY <1>2
  <2>2. at + Len(own) <= next
    BY <1>2, <1>3
  <2>3. SpaceInv(a, l) => next % 8 = 0
    BY <1>1, <1>2 DEF SpaceInv
  <2> HIDE DEF next, at
  <2>4. Fits(a, l, t, next, at, Len(own))
    BY <1>1, <1>2, <1>5, <2>1, <2>2, <2>3 DEF Fits
  <2>5. Good(a, l, t, Stacked(l, next, at, own))
    BY <1>1, <1>3, <2>1, <2>4, StackedGood
  <2> QED
    BY <1>5, <2>5 DEF next, at
<1> QED
  BY <1>4, <1>5

(* What the other CPUs do with a struct is one of these.                   *)
LEMMA CommonStructsGood ==
  ASSUME NEW a, a.cpu \in Cpus, a.cpu # "hppa", a.cpu \notin SysV,
         NEW l, RegInv(a, l), NEW t, NEW own, StructBytes(t, own)
  PROVE  /\ Good(a, l, t, LeftAdjusted(a, l, l.aptr, own, t.align))
         /\ Good(a, l, t, LeftAdjusted(a, l, l.aptr, own, 16))
         /\ Good(a, l, t, RightAdjusted(a, l, l.aptr, own, t.align))
<1>1. t.align \in Alignments /\ 16 \in Alignments
  BY StructLength DEF Alignments
<1> QED
  BY <1>1, LeftGood, RightGood

LEMMA StructsInWords ==
  ASSUME NEW a, a.cpu \in {"i386", "alpha", "ia64", "arm", "mips", "powerpc_aix",
                           "hppa64", "m68k"} \cup MipsWide \cup PPC64,
         NEW l, RegInv(a, l), NEW t, NEW own, StructBytes(t, own)
  PROVE  Good(a, l, t, av_struct(a, l, own, t))
<1> DEFINE left  == LeftAdjusted(a, l, l.aptr, own, t.align)
           right == RightAdjusted(a, l, l.aptr, own, t.align)
<1>1. a.cpu \in Cpus /\ a.cpu # "hppa" /\ a.cpu \notin SysV
  BY DEF Cpus, Cpus32, LongIs64, MipsWide, PPC64, SysV
<1>2. Good(a, l, t, left) /\ Good(a, l, t, right)
  BY <1>1, CommonStructsGood
<1>3. Good(a, l, t, Counted(left)) /\ Good(a, l, t, Counted(right))
  <2> HIDE DEF left, right
  <2> QED
    BY <1>1, <1>2, CountedGood
<1>4. CASE a.cpu \in {"i386", "alpha", "arm", "mips", "powerpc_aix"} \cup PPC64
  <2>1. av_struct(a, l, own, t) \in {left, right, Counted(left), Counted(right)}
    BY <1>4 DEF av_struct, Arm64, PPC64, MipsWide, S390, RiscV, SysV
  <2> HIDE DEF left, right
  <2> QED
    BY <1>2, <1>3, <2>1
<1>5. CASE a.cpu = "ia64"
  <2>1. av_struct(a, l, own, t) \in {left, OldGccStruct(l, own, t.align)}
    BY <1>5 DEF av_struct, Arm64, PPC64, MipsWide, S390, RiscV, SysV
  <2>2. Good(a, l, t, OldGccStruct(l, own, t.align))
    BY <1>5, StructLength, OldGccGood
  <2> HIDE DEF left
  <2> QED
    BY <1>2, <2>1, <2>2
<1>6. CASE a.cpu \in MipsWide
  <2> DEFINE words == StructWords(t, 8)
  <2>1. av_struct(a, l, own, t) \in {AlsoStructWords(left, 8, words),
                                     AlsoStructWords(right, 8, words)}
    BY <1>6 DEF av_struct, Arm64, PPC64, MipsWide, S390, RiscV, SysV
  <2>2. words \in Nat /\ 8 \in 0..16
    BY StructWordsCover
  <2> HIDE DEF left, right, words
  <2>3. /\ Good(a, l, t, AlsoStructWords(left, 8, words))
        /\ Good(a, l, t, AlsoStructWords(right, 8, words))
    BY <1>1, <1>2, <2>2, AlsoStructWordsGood
  <2> QED
    BY <2>1, <2>3
<1>7. CASE a.cpu = "hppa64"
  <2>1. av_struct(a, l, own, t) \in {left, LeftAdjusted(a, l, l.aptr, own, 16)}
    BY <1>7 DEF av_struct, Arm64, PPC64, MipsWide, S390, RiscV, SysV
  <2>2. Good(a, l, t, LeftAdjusted(a, l, l.aptr, own, 16))
    BY <1>1, CommonStructsGood
  <2> HIDE DEF left
  <2> QED
    BY <1>2, <2>1, <2>2
<1>8. CASE a.cpu = "m68k"
  <2> DEFINE end == AlignUp(l.aptr + t.size, 4)
  <2>1. av_struct(a, l, own, t) = Embed(l, end, own)
    BY <1>8 DEF av_struct, Arm64, PPC64, MipsWide, S390, RiscV, SysV
  <2>2. l.aptr \in Int /\ W(a) = 4
    BY <1>1, <1>8, ListTypes DEF W, Cpus32
  <2>3. t.size \in Nat /\ Len(own) \in Nat /\ Len(own) = t.size
    BY StructLength
  <2>4. end \in Int /\ l.aptr + t.size <= end /\ end % 4 = 0
    BY SMTT(60), <2>2, <2>3 DEF AlignUp
  <2> HIDE DEF end
  <2>5. WholeWords(a, l, end) /\ l.aptr + Len(own) <= end
    BY <2>2, <2>3, <2>4 DEF WholeWords
  <2>6. Good(a, l, t, Embed(l, end, own))
    BY <1>1, <2>3, <2>4, <2>5, EmbedGood
  <2> QED
    BY <2>1, <2>6
<1> QED
  BY <1>4, <1>5, <1>6, <1>7, <1>8

LEMMA StructsByCopy ==
  ASSUME NEW a, a.cpu \in ByCopyCpus,
         NEW l, RegInv(a, l), NEW t, NEW own, StructBytes(t, own)
  PROVE  Good(a, l, t, av_struct(a, l, own, t))
<1> DEFINE left == LeftAdjusted(a, l, l.aptr, own, t.align)
           copy == ByCopy(a, l, own)
           n    == t.size
           up   == AlignUp(R(a) * l.ianum + n, t.align)
           next == l.ianum + StructWords(t, R(a))
           at   == R(a) * l.ianum
<1>1. a.cpu \in Cpus /\ a.cpu # "hppa" /\ a.cpu \notin SysV
  BY DEF ByCopyCpus, Cpus, Cpus32, LongIs64, Arm64, S390, RiscV, SysV
<1>2. Good(a, l, t, left)
  BY <1>1, CommonStructsGood
<1>3. Good(a, l, t, copy)
  BY ByCopyGood
<1>4. n \in Nat /\ Len(own) \in Nat /\ Len(own) = n
  BY StructLength
<1>5. Good(a, l, t, NoMoreIargs(a, left))
  <2> HIDE DEF left
  <2> QED
    BY <1>1, <1>2, NoMoreIargsGood
<1>6. CASE a.cpu \in RiscV \cup {"sparc", "powerpc_sysv4"}
  <2>1. av_struct(a, l, own, t) \in {left, copy}
    BY <1>6 DEF av_struct, Arm64, PPC64, MipsWide, S390, RiscV, SysV
  <2> HIDE DEF left, copy
  <2> QED
    BY <1>2, <1>3, <2>1
<1>7. CASE a.cpu = "sparc64"
  <2> DEFINE words == StructWords(t, 8)
  <2>1. av_struct(a, l, own, t) \in {copy, AlsoStructWords(left, 16, words)}
    BY <1>7 DEF av_struct, Arm64, PPC64, MipsWide, S390, RiscV, SysV
  <2>2. words \in Nat /\ 16 \in 0..16
    BY StructWordsCover
  <2> HIDE DEF left, copy, words
  <2>3. Good(a, l, t, AlsoStructWords(left, 16, words))
    BY <1>1, <1>2, <2>2, AlsoStructWordsGood
  <2> QED
    BY <1>3, <2>1, <2>3
<1>8. CASE a.cpu = "x86_64_ms"
  <2>1. av_struct(a, l, own, t) =
          IF n \in {1, 2, 4, 8}
          THEN IF l.aptr + 8 > l.eptr THEN Fail(l)
               ELSE Stacked(l, l.aptr + 8, l.aptr, own)
          ELSE copy
    BY <1>8 DEF av_struct, Arm64, PPC64, MipsWide, S390, RiscV, SysV
  <2>2. n \in {1, 2, 4, 8} => n <= 8
    OBVIOUS
  <2>3. n \in {1, 2, 4, 8} =>
          Good(a, l, t, IF l.aptr + 8 > l.eptr THEN Fail(l)
                        ELSE Stacked(l, l.aptr + 8, l.aptr, own))
    BY <1>8, <2>2, OneWordGood
  <2> HIDE DEF copy
  <2> QED
    BY <1>3, <2>1, <2>3
<1>9. CASE a.cpu \in Arm64
  <2>1. av_struct(a, l, own, t) =
          IF n > 16 THEN copy
          ELSE IF up <= R(a) * IargNum(a)
               THEN Done([l EXCEPT !.ianum = next, !.iargs = Put(@, at, own)])
               ELSE NoMoreIargs(a, left)
    BY <1>9 DEF av_struct, Arm64, PPC64, MipsWide, S390, RiscV, SysV
  <2>2. CASE up <= R(a) * IargNum(a)
    <3>1. /\ next \in 0..IargNum(a) /\ l.ianum <= next /\ at \in Nat
          /\ at + Len(own) <= R(a) * IargNum(a)
      BY <1>9, <2>2, StructFits
    <3>3. R(a) * l.ianum <= at
      BY <3>1
    <3> HIDE DEF next, at
    <3>2. Good(a, l, t, Done([l EXCEPT !.ianum = next, !.iargs = Put(@, at, own)]))
      BY <1>1, <1>4, <3>1, <3>3, InIargsAtGood
    <3> HIDE DEF copy, up, left
    <3> QED
      BY <1>3, <2>1, <2>2, <3>2
  <2>3. CASE ~(up <= R(a) * IargNum(a))
    <3> HIDE DEF copy, left, up
    <3> QED
      BY <1>3, <1>5, <2>1, <2>3
  <2> QED
    BY <2>2, <2>3
<1>10. CASE a.cpu \in S390
  <2>1. av_struct(a, l, own, t) =
          IF n \notin {1, 2, 4, 8} THEN copy
          ELSE IF up <= R(a) * IargNum(a) THEN InIargsUpTo(a, l, next, own)
               ELSE NoMoreIargs(a, left)
    BY <1>10 DEF av_struct, Arm64, PPC64, MipsWide, S390, RiscV, SysV
  <2>2. CASE up <= R(a) * IargNum(a)
    <3>1. /\ next \in 0..IargNum(a) /\ l.ianum <= next
          /\ R(a) * l.ianum + Len(own) <= R(a) * next
      BY <1>10, <2>2, StructFits
    <3> HIDE DEF next
    <3>2. Good(a, l, t, InIargsUpTo(a, l, next, own))
      BY <1>1, <1>4, <3>1, InIargsUpToGood
    <3> HIDE DEF copy, up, left
    <3> QED
      BY <1>3, <2>1, <2>2, <3>2
  <2>3. CASE ~(up <= R(a) * IargNum(a))
    <3> HIDE DEF copy, left, up
    <3> QED
      BY <1>3, <1>5, <2>1, <2>3
  <2> QED
    BY <2>2, <2>3
<1> QED
  BY <1>6, <1>7, <1>8, <1>9, <1>10 DEF ByCopyCpus

LEMMA StructGood ==
  ASSUME NEW a, a.cpu \in Cpus, NEW l, RegInv(a, l), NEW t, NEW own,
         StructBytes(t, own)
  PROVE  Good(a, l, t, av_struct(a, l, own, t))
<1>1. CASE a.cpu = "hppa"
  <2>1. av_struct(a, l, own, t) = HppaStruct(l, own)
    BY <1>1 DEF av_struct, Arm64, PPC64, MipsWide, S390, RiscV, SysV
  <2> QED
    BY <1>1, <2>1, HppaStructGood
<1>2. CASE a.cpu # "hppa"
  BY <1>2, StructsInWords, StructsByCopy, ArmhfStructGood, SysvStructGood
     DEF Cpus, Cpus32, LongIs64, ByCopyCpus, Arm64, PPC64, MipsWide, S390,
         RiscV, SysV
<1> QED
  BY <1>1, <1>2

-----------------------------------------------------------------------------
(* av_<type>, all of it.                                                   *)

(* Each av_<type>, on each CPU, returns 0 or -1 with a list whose counts   *)
(* stay in range; if it returns 0 it has stored inside the free part of    *)
(* the array, and has kept all earlier arguments; if it returns -1 it has  *)
(* stored nothing.                                                         *)
LEMMA PushGood ==
  ASSUME NEW a, a.cpu \in Cpus, NEW l, RegInv(a, l), NEW i,
         NEW t, ArgumentType(a, t)
  PROVE  Good(a, l, t, Push(a, l, i, t))
<1> DEFINE n   == t.size
           own == Own(i, n)
<1>1. /\ W(a) \in {4, 8} /\ R(a) \in {4, 8} /\ P(a) \in {4, 8}
      /\ W(a) <= R(a) /\ P(a) <= R(a)
  BY WordSizes
<1>2. CASE t.kind = "int" /\ n \in {1, 2, 4}
  <2>1. Push(a, l, i, t) = av_int(a, l, Own(i, n))
    BY <1>2 DEF Push
  <2>2. n \in Nat /\ n <= R(a) /\ n <= W(a)
    BY <1>1, <1>2
  <2> HIDE DEF n
  <2>3. Good(a, l, t, av_int(a, l, Own(i, n)))
    BY <2>2, IntGood
  <2> QED
    BY <2>1, <2>3
<1>3. CASE t.kind = "ptr" /\ n = P(a)
  <2>1. Push(a, l, i, t) = av_long(a, l, Own(i, n))
    BY <1>3 DEF Push
  <2>2. n \in {4, 8} /\ n <= R(a)
    BY <1>1, <1>3
  <2>3. n <= W(a) \/ (a.cpu = "arm64_apple" /\ n = 8)
    BY <1>1, <1>3 DEF P, W, Cpus32
  <2> HIDE DEF n
  <2>4. Good(a, l, t, av_long(a, l, Own(i, n)))
    BY <2>2, <2>3, LongGood
  <2> QED
    BY <2>1, <2>4
<1>4. CASE t.kind = "longlong" /\ n = 8
  <2>1. Push(a, l, i, t) = av_longlong(a, l, Own(i, 8))
    BY <1>4 DEF Push
  <2> QED
    BY <2>1, LonglongGood
<1>5. CASE t.kind = "float" /\ n = 4
  <2>1. Push(a, l, i, t) = av_float(a, l, Own(i, 4))
    BY <1>5 DEF Push
  <2> QED
    BY <2>1, FloatGood
<1>6. CASE t.kind = "double" /\ n = 8
  <2>1. Push(a, l, i, t) = av_double(a, l, Own(i, 8))
    BY <1>6 DEF Push
  <2> QED
    BY <1>6, <2>1, DoubleGood
<1>7. CASE /\ t.kind = "struct" /\ n \in Nat \ {0}
           /\ t.align \in {1, 2, 4, 8, 16} /\ n % t.align = 0
  <2>1. Push(a, l, i, t) = av_struct(a, l, own, t)
    BY <1>7 DEF Push
  <2>2. StructBytes(t, own)
    BY <1>7, LengthOwn DEF StructBytes, Alignments
  <2> HIDE DEF own
  <2>3. Good(a, l, t, av_struct(a, l, own, t))
    BY <2>2, StructGood
  <2> QED
    BY <2>1, <2>3
<1> QED
  BY <1>2, <1>3, <1>4, <1>5, <1>6, <1>7 DEF ArgumentType

=============================================================================
