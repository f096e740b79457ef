------------------------- MODULE ReturnValue_proofs -------------------------
EXTENDS ArgPassing_proofs

(***************************************************************************)
(* ArgPassing: the return value and the address of a struct, for every     *)
(* CPU, every type and every number of arguments.                          *)
(*                                                                         *)
(* The address: av_start_struct puts it where StartFindsRaddr shows that   *)
(* va_start_struct looks for it (HasRaddr), and no push takes it away: a   *)
(* push only adds to the registers and writes above the first word of      *)
(* args[] (Since, in ArgPassing_proofs).                                   *)
(*                                                                         *)
(* The value: ReturnBack follows it, for each CPU, through the registers   *)
(* or the memory it is returned in, from receiver_return to avcall_store.  *)
(* The two headers decide alike between registers and memory               *)
(* (SameDecision).  RInv carries both facts from Init to the return.       *)
(***************************************************************************)
-----------------------------------------------------------------------------
(* The bytes of the return value and of what is stored next to it.         *)

Symbols == {0} \X {"own", "ext", "dbl", "raddr", "junk"} \X Nat
Memory  == Seq(Symbols)

LEMMA BytesType ==
  ASSUME NEW form \in {"own", "ext", "dbl", "raddr"}, NEW n \in Nat
  PROVE  Bytes(0, form, n) \in Memory /\ Len(Bytes(0, form, n)) = n
<1> DEFINE b == Bytes(0, form, n)
<1>1. b \in [1..n -> Symbols]
  BY DEF Bytes, Symbols
<1>2. b \in Seq(Symbols)
  BY <1>1, SeqDef
<1> QED
  BY <1>2, LengthOfBytes DEF Memory

LEMMA NothingType ==
  ASSUME NEW n \in Nat
  PROVE  Nothing(n) \in Memory /\ Len(Nothing(n)) = n
<1> DEFINE b == Nothing(n)
<1>1. b \in [1..n -> Symbols]
  BY DEF Nothing, Junk, Symbols
<1>2. b \in Seq(Symbols)
  BY <1>1, SeqDef
<1>3. b = [k \in 1..n |-> b[k]]
  BY DEF Nothing
<1> HIDE DEF b
<1>4. Len(b) = n
  BY <1>3, FiniteSequence
<1> QED
  BY <1>2, <1>4 DEF Memory, b

LEMMA SameSequence ==
  ASSUME NEW s \in Memory, NEW t \in Memory, Len(s) = Len(t),
         \A k \in 1..Len(s) : s[k] = t[k]
  PROVE  s = t
BY SeqDef, LenProperties DEF Memory

(* SubSeq finds what has been put between other bytes.                     *)
LEMMA Middle ==
  ASSUME NEW s \in Memory, NEW t \in Memory, NEW u \in Memory
  PROVE  SubSeq(s \o t \o u, Len(s) + 1, Len(s) + Len(t)) = t
<1> DEFINE m  == Len(s) + 1
           n  == Len(s) + Len(t)
           st == s \o t
           w  == st \o u
           v  == SubSeq(w, m, n)
<1>1. Len(s) \in Nat /\ Len(t) \in Nat /\ Len(u) \in Nat
  BY LenProperties DEF Memory
<1>2. /\ st \in Memory /\ Len(st) = Len(s) + Len(t)
      /\ \A k \in 1..(Len(s) + Len(t)) : st[k] = IF k <= Len(s) THEN s[k] ELSE t[k - Len(s)]
  BY ConcatProperties DEF Memory
<1> HIDE DEF st
<1>3. /\ w \in Memory /\ Len(w) = Len(st) + Len(u)
      /\ \A k \in 1..(Len(st) + Len(u)) : w[k] = IF k <= Len(st) THEN st[k] ELSE u[k - Len(st)]
  <2>1. st \in Seq(Symbols) /\ u \in Seq(Symbols)
    BY <1>2 DEF Memory
  <2> QED
    BY ONLY <2>1, ConcatProperties DEF Memory
<1> HIDE DEF w
<1>4. \A k \in m..n : w[k] \in Symbols
  <2>1. \A k \in 1..Len(w) : w[k] \in Symbols
    BY <1>3, LenProperties DEF Memory
  <2> QED
    BY <1>1, <1>2, <1>3, <2>1
<1>5. m \in Int /\ n \in Int
  BY <1>1
<1>6. /\ v \in Memory /\ Len(v) = IF m <= n THEN n - m + 1 ELSE 0
      /\ \A k \in 1..(n - m + 1) : v[k] = w[m + k - 1]
  BY <1>4, <1>5, SubSeqProperties DEF Memory
<1> HIDE DEF v
<1>7. Len(v) = Len(t)
  BY <1>1, <1>6
<1>8. ASSUME NEW k \in 1..Len(t) PROVE v[k] = t[k]
  <2>1. k \in 1..(n - m + 1) /\ m + k - 1 = Len(s) + k
    BY <1>1
  <2>2. v[k] = w[Len(s) + k]
    BY <1>6, <2>1
  <2>3. w[Len(s) + k] = st[Len(s) + k]
    BY <1>1, <1>2, <1>3
  <2>4. st[Len(s) + k] = t[k]
    <3>1. Len(s) + k \in 1..(Len(s) + Len(t)) /\ ~(Len(s) + k <= Len(s))
          /\ Len(s) + k - Len(s) = k
      BY <1>1
    <3> QED
      BY <1>2, <3>1
  <2> QED
    BY <2>2, <2>3, <2>4
<1>9. v = t
  BY <1>6, <1>7, <1>8, SameSequence
<1> QED
  BY <1>9 DEF v, w, st

LEMMA First ==
  ASSUME NEW t \in Memory, NEW u \in Memory, NEW n, n = Len(t)
  PROVE  SubSeq(t \o u, 1, n) = t
<1> DEFINE s == <<>>
<1>1. s \in Memory /\ Len(s) = 0 /\ s \o t = t
  BY EmptySeq, ConcatEmptySeq DEF Memory
<1>2. Len(t) \in Nat
  BY LenProperties DEF Memory
<1>3. 1 = Len(s) + 1 /\ n = Len(s) + Len(t)
  BY <1>1, <1>2
<1> HIDE DEF s
<1>4. SubSeq(s \o t \o u, 1, n) = t
  BY <1>1, <1>3, Middle
<1> QED
  BY <1>1, <1>4


-----------------------------------------------------------------------------
(* Through the registers and back.                                         *)

LEMMA Extension ==
  ASSUME NEW a, NEW own \in Memory, NEW w \in Nat, Len(own) \in 1..w
  PROVE  \E e \in Memory :
           /\ Len(e) = w - Len(own)
           /\ Extended(a, own, w) = IF a.order = "little" THEN own \o e ELSE e \o own
           /\ Extended(a, own, w) \in Memory /\ Len(Extended(a, own, w)) = w
<1> DEFINE n == Len(own)
           e == Bytes(0, "ext", w - n)
<1>1. own[1][1] = 0
  <2>1. own[1] \in Symbols
    BY LenProperties DEF Memory
  <2> QED
    BY <2>1 DEF Symbols
<1>2. n \in Nat /\ w - n \in Nat
  OBVIOUS
<1>3. Extended(a, own, w) = IF a.order = "little" THEN own \o e ELSE e \o own
  BY <1>1 DEF Extended
<1>4. e \in Memory /\ Len(e) = w - n
  <2> HIDE DEF n
  <2> QED
    BY <1>2, BytesType
<1> HIDE DEF e
<1>5. own \in Seq(Symbols) /\ e \in Seq(Symbols)
  BY <1>4 DEF Memory
<1>6. /\ own \o e \in Memory /\ Len(own \o e) = w
      /\ e \o own \in Memory /\ Len(e \o own) = w
  <2>1. /\ own \o e \in Seq(Symbols) /\ Len(own \o e) = Len(own) + Len(e)
        /\ e \o own \in Seq(Symbols) /\ Len(e \o own) = Len(e) + Len(own)
    BY ONLY <1>5, ConcatProperties
  <2> QED
    BY <1>2, <1>4, <2>1 DEF Memory
<1> QED
  BY <1>3, <1>4, <1>6

LEMMA InIntFields ==
  ASSUME NEW b
  PROVE  InInt(b).int = b \o Nothing(32 - Len(b))
BY DEF InInt, NoValue

LEMMA IntegerBack ==
  ASSUME NEW a, a.cpu \in Cpus, a.order \in {"little", "big"},
         NEW own \in Memory, NEW n, n = Len(own), n \in 1..R(a)
  PROVE  StoreInteger(a, InInt(Extended(a, own, R(a))), n) = Store(own)
<1> DEFINE w == R(a)
           x == Extended(a, own, w)
           rest == Nothing(32 - w)
           int == InInt(x).int
<1>1. w \in {4, 8} /\ w \in Nat
  BY WordSizes
<1>2. PICK e \in Memory : 
           /\ Len(e) = w - n
           /\ x = IF a.order = "little" THEN own \o e ELSE e \o own
           /\ x \in Memory /\ Len(x) = w
  BY <1>1, Extension
<1>3. rest \in Memory
  BY <1>1, NothingType
<1>4. int = x \o rest
  BY <1>2, InIntFields
<1> HIDE DEF rest, x, int
<1>5. StoreInteger(a, InInt(x), n) = Store(IF a.order = "little" THEN SubSeq(int, 1, n)
                                           ELSE SubSeq(int, w - n + 1, w))
  BY <1>1 DEF StoreInteger, int
<1>6. CASE a.order = "little"
  <2> DEFINE s == e \o rest
  <2>1. int = own \o s /\ s \in Memory
    <3>1. own \in Seq(Symbols) /\ e \in Seq(Symbols) /\ rest \in Seq(Symbols)
      BY <1>3 DEF Memory
    <3>2. (own \o e) \o rest = own \o (e \o rest) /\ e \o rest \in Seq(Symbols)
      BY ONLY <3>1, ConcatAssociative, ConcatProperties
    <3> QED
      BY <1>2, <1>4, <1>6, <3>2 DEF Memory
  <2> HIDE DEF s
  <2>2. SubSeq(int, 1, n) = own
    BY ONLY own \in Memory, n = Len(own), <2>1, First
  <2> QED
    BY <1>5, <1>6, <2>2 DEF x
<1>7. CASE a.order = "big"
  <2> DEFINE from == w - n + 1
  <2>1. from = Len(e) + 1 /\ w = Len(e) + Len(own)
    BY <1>1, <1>2
  <2>2. int = e \o own \o rest
    BY <1>2, <1>4, <1>7
  <2> HIDE DEF w, from
  <2>3. SubSeq(e \o own \o rest, from, w) = own
    <3>1. Len(e) \in Nat /\ Len(own) \in Nat /\ from \in Int /\ w \in Int
      BY <1>1, <1>2 DEF from, w
    <3> QED
      BY <1>3, <2>1, Middle
  <2>4. SubSeq(int, from, w) = own
    BY <2>2, <2>3
  <2> QED
    BY <1>5, <1>7, <2>4 DEF x, from, w
<1> QED
  BY <1>6, <1>7

LEMMA IntBytes ==
  ASSUME NEW own \in Memory, NEW n, n = Len(own), n <= 32
  PROVE  SubSeq(InInt(own).int, 1, n) = own
<1> DEFINE rest == Nothing(32 - n)
<1>1. n \in Nat
  BY LenProperties DEF Memory
<1>2. rest \in Memory
  BY <1>1, NothingType
<1>3. InInt(own).int = own \o rest
  BY InIntFields
<1> HIDE DEF rest
<1> QED
  BY <1>2, <1>3, First

LEMMA LongBack ==
  ASSUME NEW a, a.cpu \in Cpus, NEW own \in Memory, NEW n, n = Len(own),
         n <= 32, n >= R(a)
  PROVE  StoreInteger(a, InInt(own), n) = Store(own)
<1>1. n \in Nat /\ R(a) \in {4, 8}
  BY WordSizes, LenProperties DEF Memory
<1>2. SubSeq(InInt(own).int, 1, n) = own
  BY IntBytes
<1>3. CASE n > R(a)
  BY <1>2, <1>3 DEF StoreInteger
<1>4. CASE n = R(a)
  <2>1. R(a) - n + 1 = 1
    BY <1>1, <1>4
  <2> QED
    BY <1>1, <1>2, <1>4, <2>1 DEF StoreInteger
<1> QED
  BY <1>1, <1>3, <1>4

LEMMA WordsBack ==
  ASSUME NEW a, NEW own \in Memory, NEW n, n = Len(own), n <= 32
  PROVE  StoreWords(a, InInt(own), n) = Store(own)
BY IntBytes DEF StoreWords


-----------------------------------------------------------------------------
(* Values that are no structs.                                             *)

LEMMA ScalarSizes ==
  ASSUME NEW a, a.cpu \in Cpus, NEW r, ReturnType(a, r), ~DisputedReturn(a, r)
  PROVE  /\ r.size \in Nat
         /\ r.kind \in {"int", "long", "ptr"} =>
              r.size \in 1..R(a) /\ LibrarySize(a, r) = r.size
         /\ r.kind \in {"longlong", "double"} => r.size = 8
         /\ r.kind = "float" => r.size = 4
         /\ r.kind = "void" => r.size = 0
         /\ r.kind = "struct" => r.size > 0
         /\ r.kind \in {"void", "int", "long", "ptr", "longlong", "float",
                        "double", "struct"}
<1>1. /\ P(a) \in {4, 8} /\ R(a) \in {4, 8} /\ P(a) <= R(a)
      /\ a.cpu \in LongIs64 => R(a) = 8
  BY WordSizes DEF R, Cpus32, LongIs64
<1>2. CASE r.kind = "long" /\ r.size = CLong(a).size
  <2>1. r.size = IF a.cpu \in LongIs64 THEN 8 ELSE 4
    BY <1>2 DEF CLong, Scalar
  <2>2. LibrarySize(a, r) = r.size
    BY <1>2 DEF LibrarySize, DisputedReturn
  <2> QED
    BY <1>1, <1>2, <2>1, <2>2
<1>3. CASE r.kind = "void" /\ r.size = 0
  BY <1>3
<1>4. CASE r.kind = "struct" /\ r.size \in Nat \ {0}
  BY <1>4
<1>5. CASE r.kind # "struct" /\ ArgumentType(a, r)
  BY <1>1, <1>5 DEF ArgumentType, LibrarySize
<1> QED
  BY <1>2, <1>3, <1>4, <1>5 DEF ReturnType

LEMMA EmptyBytes ==
  /\ Own(0, 0) = <<>> /\ Nothing(0) = <<>> /\ <<>> \in Memory
<1>1. <<>> \in Memory /\ Len(<<>>) = 0
  BY EmptySeq DEF Memory
<1>2. Own(0, 0) \in Memory /\ Len(Own(0, 0)) = 0
  BY BytesType DEF Own
<1>3. Nothing(0) \in Memory /\ Len(Nothing(0)) = 0
  BY NothingType
<1>4. \A s \in Memory : Len(s) = 0 => s = <<>>
  BY EmptySeq DEF Memory
<1> QED
  BY <1>1, <1>2, <1>3, <1>4

LEMMA NothingStored == Store(<<>>) = <<>>
<1>1. Len(<<>>) = 0 /\ <<>> \in Memory
  BY EmptySeq DEF Memory
<1>2. DOMAIN <<>> = {}
  BY EmptyBytes, LenProperties, <1>1 DEF Memory
<1>3. 0..(0 + Len(<<>>) - 1) = {}
  BY <1>1
<1>4. DOMAIN Store(<<>>) = {} /\ Store(<<>>) = [x \in {} |-> Store(<<>>)[x]]
  BY <1>1, <1>2, <1>3 DEF Store, Put, Override
<1>5. Store(<<>>) \in [1..0 -> Symbols]
  <2> DEFINE e == Store(<<>>)
  <2>1. DOMAIN e = {} /\ e = [x \in {} |-> e[x]]
    BY <1>4
  <2> HIDE DEF e
  <2>2. e \in [{} -> Symbols] /\ 1..0 = {}
    BY <2>1
  <2> QED
    BY <2>2 DEF e
<1>6. Store(<<>>) \in Seq(Symbols)
  BY <1>5, SeqDef
<1>7. Len(Store(<<>>)) = 0
  BY <1>4, <1>6, LenProperties
<1> QED
  BY <1>6, <1>7, EmptySeq

LEMMA OwnType ==
  ASSUME NEW n \in Nat
  PROVE  Own(0, n) \in Memory /\ Len(Own(0, n)) = n
BY BytesType DEF Own

LEMMA ScalarsBack ==
  ASSUME NEW a, a.cpu \in Cpus, a.order \in {"little", "big"},
         NEW r, ReturnType(a, r), ~DisputedReturn(a, r), r.kind # "struct"
  PROVE  StoreScalar(a, r, Scalars(a, r)) = Store(Own(0, r.size))
<1> DEFINE own == Own(0, r.size)
           n   == r.size
<1>1. own \in Memory /\ Len(own) = n /\ n \in Nat
  BY ScalarSizes, OwnType
<1>2. CASE r.kind = "void"
  BY <1>2, ScalarSizes, EmptyBytes, NothingStored DEF StoreScalar
<1>3. CASE r.kind \in {"int", "long", "ptr"}
  <2>1. n \in 1..R(a) /\ LibrarySize(a, r) = n
    BY <1>3, ScalarSizes
  <2>2. Nothing(LibrarySize(a, r) - n) = <<>>
    <3>1. LibrarySize(a, r) - n = 0
      BY <1>1, <2>1
    <3> QED
      BY <3>1, EmptyBytes
  <2>3. own \o <<>> = own
    BY <1>1, ConcatEmptySeq DEF Memory
  <2>4. Scalars(a, r) = InInt(Extended(a, own, R(a)))
    BY <1>3, <2>2, <2>3 DEF Scalars
  <2>5. StoreScalar(a, r, Scalars(a, r)) = StoreInteger(a, Scalars(a, r), n)
    BY <1>3, <2>1 DEF StoreScalar
  <2> HIDE DEF own, n
  <2>6. StoreInteger(a, InInt(Extended(a, own, R(a))), n) = Store(own)
    BY <1>1, <2>1, IntegerBack
  <2> QED
    BY <2>4, <2>5, <2>6 DEF own
<1>4. CASE r.kind = "longlong"
  <2>1. n = 8 /\ 8 <= 32
    BY <1>4, ScalarSizes
  <2>2. Scalars(a, r) = InInt(own) /\ StoreScalar(a, r, InInt(own)) = StoreWords(a, InInt(own), 8)
    BY <1>4 DEF Scalars, StoreScalar
  <2>3. n <= 32
    BY <2>1
  <2> HIDE DEF own, n
  <2>4. StoreWords(a, InInt(own), n) = Store(own)
    BY <1>1, <2>3, WordsBack
  <2> QED
    BY <2>1, <2>2, <2>4 DEF own
<1>5. CASE r.kind = "float"
  <2>1. Len(own) = 4
    BY <1>1, <1>5, ScalarSizes
  <2>2. Scalars(a, r).flt = own
    BY <1>5 DEF Scalars, InFlt, NoValue
  <2>3. Single(a, own) = own
    BY <2>1 DEF Single
  <2> QED
    BY <1>5, <2>2, <2>3 DEF StoreScalar
<1>6. CASE r.kind = "double"
  <2>1. Len(own) = 8
    BY <1>1, <1>6, ScalarSizes
  <2>2. Scalars(a, r).flt = own
    BY <1>6 DEF Scalars, InFlt, NoValue
  <2>3. Full(own) = own
    BY <2>1 DEF Full
  <2> QED
    BY <1>6, <2>2, <2>3 DEF StoreScalar
<1> QED
  BY <1>2, <1>3, <1>4, <1>5, <1>6, ScalarSizes


-----------------------------------------------------------------------------
(* Structs in registers.                                                   *)

LEMMA SameDecision ==
  ASSUME NEW a, a.cpu \in Cpus, NEW r
  PROVE  /\ av_reg_struct_return(a, r) = va_reg_struct_return(a, r)
         /\ AvKind(a, r) = VaKind(a, r)
<1>1. CASE a.cpu \in Cpus32 \cup MipsWide
  BY <1>1 DEF av_reg_struct_return, va_reg_struct_return, AvKind, VaKind, Cpus32,
              MipsWide, Arm64, SysV
<1>2. CASE a.cpu \notin Cpus32 \cup MipsWide
  BY <1>2 DEF av_reg_struct_return, va_reg_struct_return, AvKind, VaKind, Cpus,
              Cpus32, LongIs64, MipsWide, Arm64, SysV
<1> QED
  BY <1>1, <1>2

LEMMA StructLoads ==
  ASSUME NEW a, a.cpu \in Cpus, NEW r, r.size \in Nat \ {0},
         r.size <= RaddrOffset(a)
  PROVE  LoadWords(a, r) = Own(0, r.size)
<1> DEFINE own == Own(0, r.size)
           n   == r.size
           pad == Nothing(4)
<1>1. own \in Memory /\ Len(own) = n
  BY OwnType
<1>2. pad \in Memory
  BY NothingType
<1>3. LoadWords(a, r) = SubSeq(own \o pad, 1, n)
  BY DEF LoadWords, StructInTmp
<1> HIDE DEF own, pad
<1>4. SubSeq(own \o pad, 1, n) = own
  BY <1>1, <1>2, First
<1> QED
  BY <1>3, <1>4 DEF own

LEMMA IntegerStruct ==
  ASSUME NEW a, a.cpu \in Cpus, a.order \in {"little", "big"},
         NEW r, r.size \in Nat \ {0}, r.size <= RaddrOffset(a), r.size <= 32
  PROVE  StoreInteger(a, InInt(LoadInteger(a, r)), r.size) = Store(Own(0, r.size))
<1> DEFINE own == Own(0, r.size)
           n   == r.size
<1>1. own \in Memory /\ Len(own) = n
  BY OwnType
<1>2. LoadInteger(a, r) = IF n < R(a) THEN Extended(a, own, R(a)) ELSE own
  BY StructLoads DEF LoadInteger, LoadWords
<1>3. R(a) \in {4, 8}
  BY WordSizes
<1> HIDE DEF own
<1>4. CASE n < R(a)
  <2>1. n \in 1..R(a)
    BY <1>3, <1>4
  <2> HIDE DEF n
  <2>2. StoreInteger(a, InInt(Extended(a, own, R(a))), n) = Store(own)
    BY <1>1, <2>1, IntegerBack
  <2> QED
    BY <1>2, <1>4, <2>2 DEF own, n
<1>5. CASE ~(n < R(a))
  <2>1. n >= R(a) /\ n <= 32
    BY <1>3, <1>5
  <2> HIDE DEF n
  <2>2. StoreInteger(a, InInt(own), n) = Store(own)
    BY <1>1, <2>1, LongBack
  <2> QED
    BY <1>2, <1>5, <2>2 DEF own, n
<1> QED
  BY <1>4, <1>5

LEMMA WordsStruct ==
  ASSUME NEW a, a.cpu \in Cpus, NEW r, r.size \in Nat \ {0},
         r.size <= RaddrOffset(a), r.size <= 32
  PROVE  StoreWords(a, InInt(LoadWords(a, r)), r.size) = Store(Own(0, r.size))
<1> DEFINE own == Own(0, r.size)
           n   == r.size
<1>1. own \in Memory /\ Len(own) = n /\ n <= 32
  BY OwnType
<1>2. LoadWords(a, r) = own
  BY StructLoads
<1> HIDE DEF own, n
<1>3. StoreWords(a, InInt(own), n) = Store(own)
  BY <1>1, WordsBack
<1> QED
  BY <1>2, <1>3 DEF own, n

LEMMA RightStruct ==
  ASSUME NEW a, a.cpu \in Cpus, NEW r, r.size \in 1..8, r.size <= RaddrOffset(a)
  PROVE  StoreRight(a, InInt(LoadRight(a, r)), r.size) = Store(Own(0, r.size))
<1> DEFINE own == Own(0, r.size)
           n   == r.size
           gap == (-n) % 4
           pad == Nothing(gap)
           x   == pad \o own
           rest == Nothing(32 - Len(x))
           from == gap + 1
           to   == gap + n
<1>1. own \in Memory /\ Len(own) = n
  BY OwnType
<1>2. gap \in 0..3
  OBVIOUS
<1>3. LoadRight(a, r) = x
  BY SMTT(60), StructLoads DEF LoadRight
<1>4. StoreRight(a, InInt(x), n) = Store(SubSeq(x \o rest, from, to))
  BY InIntFields DEF StoreRight
<1> HIDE DEF own, gap
<1>5. pad \in Memory /\ Len(pad) = gap
  BY <1>2, NothingType
<1> HIDE DEF pad
<1>6. Len(x) = gap + n
  BY SMTT(60), <1>1, <1>5, ConcatProperties DEF Memory
<1>7. rest \in Memory
  <2>1. 32 - Len(x) \in Nat
    BY SMTT(60), <1>2, <1>6
  <2> QED
    BY <2>1, NothingType
<1>8. from = Len(pad) + 1 /\ to = Len(pad) + Len(own)
  BY <1>1, <1>5
<1> HIDE DEF rest, from, to
<1>9. SubSeq(pad \o own \o rest, from, to) = own
  BY <1>1, <1>5, <1>7, <1>8, Middle
<1> QED
  BY <1>3, <1>4, <1>9 DEF own


-----------------------------------------------------------------------------
(* From va_return_<type> to the caller's variable, on each CPU.            *)

LEMMA Receiving ==
  ASSUME NEW a, NEW r, AvKind(a, r) = VaKind(a, r), NEW struct
  PROVE  /\ AvKind(a, r) \in {"none", "register", "memory"}
         /\ AvKind(a, r) = "none" <=> r.kind # "struct"
         /\ AvKind(a, r) = "register" =>
              av_reg_struct_return(a, r) /\ Receiver(a, r, struct) = InInt(struct)
         /\ r.kind # "struct" => Receiver(a, r, struct) = Scalars(a, r)
<1>1. /\ AvKind(a, r) \in {"none", "register", "memory"}
      /\ AvKind(a, r) = "none" <=> r.kind # "struct"
      /\ AvKind(a, r) = "register" => av_reg_struct_return(a, r)
  BY DEF AvKind, Kind
<1> QED
  BY <1>1 DEF Receiver

LEMMA RegisterSizes ==
  ASSUME NEW a, a.cpu \in Cpus, NEW r, ReturnType(a, r), ~DisputedReturn(a, r),
         AvKind(a, r) = "register"
  PROVE  /\ r.size \in Nat \ {0} /\ r.size <= RaddrOffset(a) /\ r.size <= 32
         /\ a.cpu \in {"arm", "armhf"} => r.size <= 4 /\ r.size # 3
         /\ a.cpu = "hppa" => r.size \in 1..8
         /\ a.cpu = "ia64" => r.size <= 16 \/ r.size = 24
         /\ a.cpu # "s390x"
<1> DEFINE n == r.size
<1>1. r.kind = "struct" /\ av_reg_struct_return(a, r)
  BY SameDecision, Receiving
<1>2. n \in Nat /\ n > 0
  BY <1>1, ScalarSizes
<1>3. RaddrOffset(a) = (IF W(a) = 4 THEN 8 ELSE 16) + P(a) /\ P(a) \in {4, 8}
      /\ W(a) \in {4, 8}
  BY WordSizes DEF RaddrOffset, TmpSize
<1>4. a.cpu \in Cpus32 => RaddrOffset(a) >= 12
  BY <1>3
<1>5. a.cpu \notin Cpus32 => RaddrOffset(a) >= 16
  <2>1. a.cpu = "arm64_apple" => P(a) = 8
    BY DEF P, Cpus32
  <2>2. a.cpu \notin Cpus32 \cup {"arm64_apple"} => W(a) = 8
    BY DEF W
  <2> QED
    BY <1>3, <2>1, <2>2
<1>6. ~(r.kind = "struct" /\ AvKind(a, r) = "register" /\
         CASE a.cpu \in {"arm", "armhf"} -> n = 3
           [] a.cpu = "sparc64"          -> n > RaddrOffset(a)
           [] a.cpu = "ia64"             -> n > 16 /\ n # 24
           [] OTHER                      -> FALSE)
  BY DEF DisputedReturn
<1>7. CASE a.cpu \in {"arm", "armhf"}
  <2>1. n <= 4
    BY <1>1, <1>7 DEF av_reg_struct_return, MipsWide
  <2>2. n # 3
    BY <1>1, <1>6, <1>7
  <2>3. a.cpu \in Cpus32
    BY <1>7 DEF Cpus32
  <2> QED
    BY <1>2, <1>4, <1>3, <1>7, <2>1, <2>2, <2>3
<1>8. CASE a.cpu \in Cpus32 \ {"arm", "armhf"}
  <2>1. n <= 8
    BY <1>1, <1>8 DEF av_reg_struct_return, OneOrTwoWords, Cpus32, MipsWide
  <2> QED
    BY <1>2, <1>4, <1>3, <1>8, <2>1 DEF Cpus32
<1>9. CASE a.cpu = "sparc64"
  <2>1. n <= 32 /\ ~(n > RaddrOffset(a))
    BY <1>1, <1>6, <1>9 DEF av_reg_struct_return, MipsWide
  <2> QED
    BY <1>2, <1>3, <1>9, <2>1
<1>10. CASE a.cpu = "ia64"
  <2>1. n <= 32 /\ (n <= 16 \/ n = 24)
    BY <1>1, <1>2, <1>6, <1>10 DEF av_reg_struct_return, MipsWide
  <2>2. RaddrOffset(a) = 24
    BY <1>10 DEF RaddrOffset, TmpSize, W, P, Cpus32
  <2> QED
    BY <1>2, <1>3, <1>10, <2>1, <2>2
<1>11. CASE a.cpu \notin Cpus32 \cup {"sparc64", "ia64"}
  <2>1. n <= 16
    BY <1>1, <1>2, <1>11 DEF av_reg_struct_return, OneOrTwoWords, Cpus32, MipsWide
  <2>2. a.cpu # "s390x"
    BY <1>1 DEF av_reg_struct_return, MipsWide
  <2> QED
    BY <1>2, <1>3, <1>5, <1>11, <2>1, <2>2 DEF Cpus32
<1> QED
  BY <1>7, <1>8, <1>9, <1>10, <1>11

LEMMA CallerBack ==
  ASSUME NEW a, a.cpu \in Cpus, a.order \in {"little", "big"},
         NEW r, ReturnType(a, r), ~DisputedReturn(a, r),
         NEW m, AvKind(a, r) = "memory" => m = Store(Own(0, r.size)),
         NEW struct, NEW kept,
         AvKind(a, r) = "register" => kept = Store(Own(0, r.size))
  PROVE  Caller(a, r, Receiver(a, r, struct), m, kept) = Store(Own(0, r.size))
<1>1. /\ AvKind(a, r) = VaKind(a, r)
      /\ AvKind(a, r) \in {"none", "register", "memory"}
      /\ AvKind(a, r) = "none" <=> r.kind # "struct"
      /\ r.kind # "struct" => Receiver(a, r, struct) = Scalars(a, r)
  BY SameDecision, Receiving
<1>2. r.kind # "struct" => StoreScalar(a, r, Scalars(a, r)) = Store(Own(0, r.size))
  BY ScalarsBack
<1> QED
  BY <1>1, <1>2 DEF Caller

LEMMA IntegersBack ==
  ASSUME NEW a, a.cpu \in Cpus, a.order \in {"little", "big"},
         NEW r, ReturnType(a, r), ~DisputedReturn(a, r),
         NEW m, AvKind(a, r) = "memory" => m = Store(Own(0, r.size)),
         NEW x, x = Receiver(a, r, LoadInteger(a, r))
  PROVE  Caller(a, r, x, m, StoreInteger(a, x, r.size)) = Store(Own(0, r.size))
<1>1. AvKind(a, r) = "register" => StoreInteger(a, x, r.size) = Store(Own(0, r.size))
  BY SameDecision, Receiving, RegisterSizes, IntegerStruct
<1> QED
  BY <1>1, CallerBack

LEMMA AllWordsBack ==
  ASSUME NEW a, a.cpu \in Cpus, a.order \in {"little", "big"},
         NEW r, ReturnType(a, r), ~DisputedReturn(a, r),
         NEW m, AvKind(a, r) = "memory" => m = Store(Own(0, r.size)),
         NEW x, x = Receiver(a, r, LoadWords(a, r))
  PROVE  Caller(a, r, x, m, StoreWords(a, x, r.size)) = Store(Own(0, r.size))
<1>1. AvKind(a, r) = "register" => StoreWords(a, x, r.size) = Store(Own(0, r.size))
  BY SameDecision, Receiving, RegisterSizes, WordsStruct
<1> QED
  BY <1>1, CallerBack


(* A float that travels as a double.                                       *)
LEMMA DoubleTaken ==
  ASSUME NEW a, a.cpu \in {"m68k", "sparc"}
  PROVE  /\ AsDouble(0) \in Memory /\ Len(AsDouble(0)) = 8
         /\ Single(a, AsDouble(0)) = Own(0, 4)
<1> DEFINE n == 8
           dbl == Bytes(0, "dbl", n)
<1>1. n \in Nat /\ n # 4
  OBVIOUS
<1>2. AsDouble(0) = dbl
  BY DEF AsDouble
<1>3. dbl[1][1] = 0
  BY DEF Bytes
<1> HIDE DEF n
<1>4. dbl \in Memory /\ Len(dbl) = n
  BY <1>1, BytesType
<1> HIDE DEF dbl
<1>5. dbl = AsDouble(dbl[1][1]) /\ dbl[1][1] = 0
  BY <1>2, <1>3
<1>6. Single(a, dbl) = Own(0, 4)
  BY <1>1, <1>4, <1>5 DEF Single, SysV
<1> QED
  BY <1>2, <1>4, <1>6 DEF n

LEMMA ReturnM68k ==
  ASSUME NEW a, a.cpu = "m68k", a.order \in {"little", "big"},
         NEW r, ReturnType(a, r), ~DisputedReturn(a, r),
         NEW m, AvKind(a, r) = "memory" => m = Store(Own(0, r.size))
  PROVE  store_m68k(a, r, receive_m68k(a, r), m) = Store(Own(0, r.size))
<1> DEFINE own == Own(0, r.size)
           dbl == AsDouble(0)
<1>1. a.cpu \in Cpus
  BY DEF Cpus, Cpus32
<1>2. CASE r.kind \notin {"float", "double"} \/ "freg" \in r.flags
  BY <1>1, <1>2, IntegersBack DEF store_m68k, receive_m68k
<1>3. CASE ~(r.kind \notin {"float", "double"} \/ "freg" \in r.flags)
  <2>1. own \in Memory /\ Len(own) = r.size /\ r.size \in {4, 8}
    BY <1>1, <1>3, ScalarSizes, OwnType
  <2>2. store_m68k(a, r, receive_m68k(a, r), m) =
          StoreFromInt(a, r, InInt(IF r.kind = "float" /\ "suncc_float" \in r.flags
                                   THEN dbl ELSE own))
    BY <1>3 DEF store_m68k, receive_m68k
  <2>3. CASE r.kind = "float" /\ "suncc_float" \in r.flags
    <3>1. dbl \in Memory /\ Len(dbl) = 8 /\ 8 <= 32
      BY DoubleTaken
    <3>3. Single(a, dbl) = Own(0, 4)
      BY DoubleTaken
    <3>4. r.size = 4
      BY <1>1, <2>3, ScalarSizes
    <3> DEFINE n == 8
    <3>5. n = Len(dbl) /\ n <= 32
      BY <3>1
    <3> HIDE DEF dbl, n
    <3>6. SubSeq(InInt(dbl).int, 1, n) = dbl
      BY <3>1, <3>5, IntBytes
    <3> QED
      BY <2>2, <2>3, <3>3, <3>4, <3>6 DEF StoreFromInt, n
  <2>4. CASE ~(r.kind = "float" /\ "suncc_float" \in r.flags)
    <3> DEFINE n == r.size
    <3>1. n = Len(own) /\ n <= 32
      BY <2>1
    <3> HIDE DEF own, n
    <3>2. StoreWords(a, InInt(own), n) = Store(own)
      BY <2>1, <3>1, WordsBack
    <3> QED
      BY <2>2, <2>4, <3>2 DEF StoreFromInt, own, n
  <2> QED
    BY <2>3, <2>4
<1> QED
  BY <1>2, <1>3

LEMMA ReturnSparc ==
  ASSUME NEW a, a.cpu = "sparc", a.order \in {"little", "big"},
         NEW r, ReturnType(a, r), ~DisputedReturn(a, r),
         NEW m, AvKind(a, r) = "memory" => m = Store(Own(0, r.size))
  PROVE  store_sparc(a, r, receive_sparc(a, r), m) = Store(Own(0, r.size))
<1> DEFINE dbl == AsDouble(0)
<1>1. a.cpu \in Cpus
  BY DEF Cpus, Cpus32
<1>2. CASE ~(r.kind = "float" /\ "suncc_float" \in r.flags)
  BY <1>1, <1>2, IntegersBack DEF store_sparc, receive_sparc
<1>3. CASE r.kind = "float" /\ "suncc_float" \in r.flags
  <2> DEFINE x == InFlt(dbl)
             t == StoreInteger(a, x, r.size)
  <2>1. store_sparc(a, r, receive_sparc(a, r), m) = StoreScalar(a, r, x)
    <3>1. receive_sparc(a, r) = x
      BY <1>3 DEF receive_sparc
    <3>2. store_sparc(a, r, x, m) = Caller(a, r, x, m, t)
      BY DEF store_sparc
    <3>3. AvKind(a, r) \notin {"register", "memory"} /\ r.kind # "struct"
      BY <1>1, <1>3, SameDecision, Receiving
    <3> HIDE DEF x, t
    <3>4. Caller(a, r, x, m, t) = StoreScalar(a, r, x)
      BY <3>3 DEF Caller
    <3> QED
      BY <3>1, <3>2, <3>4
  <2>2. InFlt(dbl).flt = dbl
    BY DEF InFlt, NoValue
  <2>5. Single(a, dbl) = Own(0, 4)
    BY DoubleTaken
  <2>6. r.size = 4
    BY <1>1, <1>3, ScalarSizes
  <2> HIDE DEF dbl
  <2>7. StoreScalar(a, r, InFlt(dbl)) = Store(Single(a, dbl))
    BY <1>3, <2>2 DEF StoreScalar
  <2> QED
    BY <2>1, <2>5, <2>6, <2>7
<1> QED
  BY <1>2, <1>3

LEMMA ArmBack ==
  ASSUME NEW a, a.cpu \in {"arm", "armhf"}, a.order \in {"little", "big"},
         NEW r, ReturnType(a, r), ~DisputedReturn(a, r),
         NEW m, AvKind(a, r) = "memory" => m = Store(Own(0, r.size)),
         NEW x, x = Receiver(a, r, LoadArm(a, r))
  PROVE  Caller(a, r, x, m, StoreArm(a, x, r.size)) = Store(Own(0, r.size))
<1>1. a.cpu \in Cpus
  BY DEF Cpus, Cpus32
<1>2. AvKind(a, r) = "register" => StoreArm(a, x, r.size) = Store(Own(0, r.size))
  <2> SUFFICES ASSUME AvKind(a, r) = "register"
               PROVE  StoreArm(a, x, r.size) = Store(Own(0, r.size))
    OBVIOUS
  <2>1. r.size \in Nat \ {0} /\ r.size <= RaddrOffset(a) /\ r.size <= 32 /\ r.size # 3
    BY <1>1, RegisterSizes
  <2>2. LoadArm(a, r) = LoadInteger(a, r)
    BY <2>1 DEF LoadArm
  <2>3. x = InInt(LoadInteger(a, r))
    BY <1>1, <2>2, SameDecision, Receiving
  <2>4. StoreInteger(a, x, r.size) = Store(Own(0, r.size))
    BY <1>1, <2>1, <2>3, IntegerStruct
  <2> QED
    BY <2>1, <2>4 DEF StoreArm
<1> QED
  BY <1>1, <1>2, CallerBack

LEMMA ReturnArm ==
  ASSUME NEW a, a.cpu = "arm", a.order \in {"little", "big"},
         NEW r, ReturnType(a, r), ~DisputedReturn(a, r),
         NEW m, AvKind(a, r) = "memory" => m = Store(Own(0, r.size))
  PROVE  store_arm(a, r, receive_arm(a, r), m) = Store(Own(0, r.size))
<1>1. a.cpu \in Cpus
  BY DEF Cpus, Cpus32
<1>2. CASE r.kind \in {"float", "double"}
  <2> DEFINE own == Own(0, r.size)
             n   == r.size
  <2>1. own \in Memory /\ n = Len(own) /\ n <= 32
    BY <1>1, <1>2, ScalarSizes, OwnType
  <2>2. store_arm(a, r, receive_arm(a, r), m) = StoreWords(a, InInt(own), n)
    BY <1>2 DEF store_arm, receive_arm
  <2> HIDE DEF own, n
  <2>3. StoreWords(a, InInt(own), n) = Store(own)
    BY <2>1, WordsBack
  <2> QED
    BY <2>2, <2>3 DEF own
<1>3. CASE r.kind \notin {"float", "double"}
  BY <1>1, <1>3, ArmBack DEF store_arm, receive_arm
<1> QED
  BY <1>2, <1>3

LEMMA ReturnHppa ==
  ASSUME NEW a, a.cpu = "hppa", a.order \in {"little", "big"},
         NEW r, ReturnType(a, r), ~DisputedReturn(a, r),
         NEW m, AvKind(a, r) = "memory" => m = Store(Own(0, r.size))
  PROVE  store_hppa(a, r, receive_hppa(a, r), m) = Store(Own(0, r.size))
<1> DEFINE x == Receiver(a, r, LoadRight(a, r))
<1>1. a.cpu \in Cpus
  BY DEF Cpus, Cpus32
<1>2. AvKind(a, r) = "register" => StoreRight(a, x, r.size) = Store(Own(0, r.size))
  BY <1>1, SameDecision, Receiving, RegisterSizes, RightStruct
<1> QED
  BY <1>1, <1>2, CallerBack DEF store_hppa, receive_hppa

LEMMA ReturnIa64 ==
  ASSUME NEW a, a.cpu = "ia64", a.order \in {"little", "big"},
         NEW r, ReturnType(a, r), ~DisputedReturn(a, r),
         NEW m, AvKind(a, r) = "memory" => m = Store(Own(0, r.size))
  PROVE  store_ia64(a, r, receive_ia64(a, r), m) = Store(Own(0, r.size))
<1> DEFINE x == Receiver(a, r, LoadWords(a, r))
<1>1. a.cpu \in Cpus
  BY DEF Cpus, LongIs64
<1>2. AvKind(a, r) = "register" => StoreIa64(a, x, r.size) = Store(Own(0, r.size))
  <2> SUFFICES ASSUME AvKind(a, r) = "register"
               PROVE  StoreIa64(a, x, r.size) = Store(Own(0, r.size))
    OBVIOUS
  <2>1. /\ r.size \in Nat \ {0} /\ r.size <= RaddrOffset(a) /\ r.size <= 32
        /\ r.size <= 16 \/ r.size = 24
    BY <1>1, RegisterSizes
  <2>2. x = InInt(LoadWords(a, r))
    BY <1>1, SameDecision, Receiving
  <2>3. StoreIa64(a, x, r.size) = StoreWords(a, x, r.size)
    BY <2>1 DEF StoreIa64
  <2>4. StoreWords(a, x, r.size) = Store(Own(0, r.size))
    BY <1>1, <2>1, <2>2, WordsStruct
  <2> QED
    BY <2>3, <2>4
<1> QED
  BY <1>1, <1>2, CallerBack DEF store_ia64, receive_ia64


LEMMA ReturnArmhf ==
  ASSUME NEW a, a.cpu = "armhf", a.order \in {"little", "big"},
         NEW r, ReturnType(a, r), ~DisputedReturn(a, r),
         NEW m, AvKind(a, r) = "memory" => m = Store(Own(0, r.size))
  PROVE  store_armhf(a, r, receive_armhf(a, r), m) = Store(Own(0, r.size))
BY ArmBack DEF store_armhf, receive_armhf

LEMMA ReturnMips ==
  ASSUME NEW a, a.cpu \in MipsWide, a.order \in {"little", "big"},
         NEW r, ReturnType(a, r), ~DisputedReturn(a, r),
         NEW m, AvKind(a, r) = "memory" => m = Store(Own(0, r.size))
  PROVE  CallerMips(a, r, ReceiverMips(a, r), m) = Store(Own(0, r.size))
<1>1. a.cpu \in Cpus
  BY DEF Cpus, LongIs64, MipsWide
<1>2. CASE "gcc" \in r.flags
  <2> DEFINE x == Receiver(a, r, LoadInteger(a, r))
  <2>1. ReceiverMips(a, r) = x
    BY <1>2 DEF ReceiverMips
  <2> HIDE DEF x
  <2>2. CallerMips(a, r, x, m) = Caller(a, r, x, m, StoreInteger(a, x, r.size))
    BY <1>2 DEF CallerMips
  <2> QED
    BY <1>1, <2>1, <2>2, IntegersBack DEF x
<1>3. CASE "gcc" \notin r.flags
  <2> DEFINE x == Receiver(a, r, LoadWords(a, r))
  <2>1. ReceiverMips(a, r) = x
    BY <1>3 DEF ReceiverMips
  <2> HIDE DEF x
  <2>2. CallerMips(a, r, x, m) = Caller(a, r, x, m, StoreWords(a, x, r.size))
    BY <1>3 DEF CallerMips
  <2> QED
    BY <1>1, <2>1, <2>2, AllWordsBack DEF x
<1> QED
  BY <1>2, <1>3

LEMMA ReturnS390x ==
  ASSUME NEW a, a.cpu = "s390x", a.order \in {"little", "big"},
         NEW r, ReturnType(a, r), ~DisputedReturn(a, r),
         NEW m, AvKind(a, r) = "memory" => m = Store(Own(0, r.size))
  PROVE  store_s390x(a, r, receive_s390x(a, r), m) = Store(Own(0, r.size))
<1>1. a.cpu \in Cpus
  BY DEF Cpus, LongIs64
<1> DEFINE none == <<>>
<1>2. AvKind(a, r) = "register" => none = Store(Own(0, r.size))
  BY <1>1, RegisterSizes
<1>3. store_s390x(a, r, receive_s390x(a, r), m) = Caller(a, r, Receiver(a, r, none), m, none)
  BY DEF store_s390x, receive_s390x
<1> HIDE DEF none
<1> QED
  BY <1>1, <1>2, <1>3, CallerBack

LEMMA ReturnIntegers ==
  ASSUME NEW a, a.order \in {"little", "big"},
         a.cpu \in {"i386", "mips", "alpha", "powerpc_aix", "powerpc_sysv4", "s390"},
         NEW r, ReturnType(a, r), ~DisputedReturn(a, r),
         NEW m, AvKind(a, r) = "memory" => m = Store(Own(0, r.size))
  PROVE  avcall_store(a, r, receiver_return(a, r), m) = Store(Own(0, r.size))
<1> DEFINE x == Receiver(a, r, LoadInteger(a, r))
<1>1. a.cpu \in Cpus
  BY DEF Cpus, Cpus32, LongIs64
<1>2. receiver_return(a, r) = x
  BY DEF receiver_return, receive_i386, receive_mips, receive_alpha, receive_powerpc,
         receive_s390, Arm64, PPC64, SysV
<1> HIDE DEF x
<1>3. avcall_store(a, r, x, m) = Caller(a, r, x, m, StoreInteger(a, x, r.size))
  BY DEF avcall_store, store_i386, store_mips, store_alpha, store_powerpc,
         store_s390, Arm64, PPC64, SysV
<1> QED
  BY <1>1, <1>2, <1>3, IntegersBack DEF x

LEMMA ReturnWords ==
  ASSUME NEW a, a.order \in {"little", "big"},
         a.cpu \in {"sparc64", "hppa64", "x86_64_ms"} \cup Arm64 \cup PPC64 \cup SysV
                   \cup RiscV,
         NEW r, ReturnType(a, r), ~DisputedReturn(a, r),
         NEW m, AvKind(a, r) = "memory" => m = Store(Own(0, r.size))
  PROVE  avcall_store(a, r, receiver_return(a, r), m) = Store(Own(0, r.size))
<1> DEFINE x == Receiver(a, r, LoadWords(a, r))
<1>1. a.cpu \in Cpus
  BY DEF Cpus, Cpus32, LongIs64, Arm64, PPC64, SysV, RiscV
<1>2. receiver_return(a, r) = x
  BY DEF receiver_return, receive_sparc64, receive_hppa64, receive_x86_64_ms,
         receive_arm64, receive_powerpc64, receive_x86_64, receive_riscv32,
         receive_riscv64, receive_loongarch64, Arm64, PPC64, SysV, RiscV
<1> HIDE DEF x
<1>3. avcall_store(a, r, x, m) = Caller(a, r, x, m, StoreWords(a, x, r.size))
  BY DEF avcall_store, store_sparc64, store_hppa64, store_x86_64_ms,
         store_arm64, store_powerpc64, store_x86_64, store_riscv32,
         store_riscv64, store_loongarch64, Arm64, PPC64, SysV, RiscV
<1> QED
  BY <1>1, <1>2, <1>3, AllWordsBack DEF x

LEMMA ReturnBack ==
  ASSUME NEW a, a.cpu \in Cpus, a.order \in {"little", "big"},
         NEW r, ReturnType(a, r), ~DisputedReturn(a, r),
         NEW m, AvKind(a, r) = "memory" => m = Store(Own(0, r.size))
  PROVE  avcall_store(a, r, receiver_return(a, r), m) = Store(Own(0, r.size))
<1> USE DEF Arm64, PPC64, SysV
<1>1. CASE a.cpu \in {"i386", "mips", "alpha", "powerpc_aix", "powerpc_sysv4", "s390"}
  BY <1>1, ReturnIntegers
<1>2. CASE a.cpu \in {"sparc64", "hppa64", "x86_64_ms"} \cup Arm64 \cup PPC64 \cup SysV
                     \cup RiscV
  BY <1>2, ReturnWords
<1>3. CASE a.cpu = "m68k"
  BY <1>3, ReturnM68k DEF avcall_store, receiver_return
<1>4. CASE a.cpu = "sparc"
  BY <1>4, ReturnSparc DEF avcall_store, receiver_return
<1>5. CASE a.cpu = "arm"
  BY <1>5, ReturnArm DEF avcall_store, receiver_return
<1>6. CASE a.cpu = "armhf"
  BY <1>6, ReturnArmhf DEF avcall_store, receiver_return
<1>7. CASE a.cpu = "hppa"
  BY <1>7, ReturnHppa DEF avcall_store, receiver_return
<1>8. CASE a.cpu = "ia64"
  BY <1>8, ReturnIa64 DEF avcall_store, receiver_return
<1>9. CASE a.cpu = "s390x"
  BY <1>9, ReturnS390x DEF avcall_store, receiver_return
<1>10. CASE a.cpu \in MipsWide
  <2>1. avcall_store(a, r, receiver_return(a, r), m) = CallerMips(a, r, ReceiverMips(a, r), m)
    BY <1>10 DEF avcall_store, receiver_return, store_mipsn32, store_mips64,
                 receive_mipsn32, receive_mips64, MipsWide
  <2> QED
    BY <1>10, <2>1, ReturnMips
<1> QED
  BY <1>1, <1>2, <1>3, <1>4, <1>5, <1>6, <1>7, <1>8, <1>9, <1>10
     DEF Cpus, Cpus32, LongIs64, MipsWide, RiscV


-----------------------------------------------------------------------------
(* The address of the struct to be returned, on the argument list.         *)

Holds(mem, bytes) ==
  \A x \in 0..(Len(bytes) - 1) : x \in DOMAIN mem /\ mem[x] = bytes[x + 1]

RaddrWord(a) == Extended(a, Bytes(0, "raddr", P(a)), W(a))

(* Where it is, when it has no register of its own.                        *)
HasRaddr(a, l) ==
  a.cpu \notin SpecialRegister =>
    IF a.cpu \in HasIargs THEN l.ianum >= 1 /\ Holds(l.iargs, RaddrWord(a))
    ELSE Holds(l.args, RaddrWord(a)) /\ (a.cpu # "armhf" => l.aptr >= W(a))

LEMMA RaddrLength ==
  ASSUME NEW a, a.cpu \in Cpus, a.cpu \notin SpecialRegister
  PROVE  /\ Len(RaddrWord(a)) = W(a) /\ W(a) \in {4, 8}
         /\ a.cpu \in HasIargs => R(a) = W(a)
         /\ a.cpu \notin {"mipsn32", "x86_64_x32"} => P(a) = W(a)
<1>1. P(a) \in Nat /\ W(a) \in Nat /\ P(a) <= W(a) /\ W(a) \in {4, 8}
  BY DEF P, W, SpecialRegister, Arm64
<1>2. a.cpu \in HasIargs => R(a) = W(a)
  BY DEF R, W, HasIargs, SpecialRegister, Arm64
<1>3. a.cpu \notin {"mipsn32", "x86_64_x32"} => P(a) = W(a)
  BY DEF P, W, SpecialRegister, Arm64
<1>4. Len(RaddrWord(a)) = W(a)
  BY <1>1, LengthExtended DEF RaddrWord
<1> QED
  BY <1>1, <1>2, <1>3, <1>4

LEMMA PutHolds ==
  ASSUME NEW mem, NEW at, at = 0, NEW bytes, Len(bytes) \in Nat
  PROVE  Holds(Put(mem, at, bytes), bytes)
<1> DEFINE new == [x \in at..(at + Len(bytes) - 1) |-> bytes[x - at + 1]]
<1> SUFFICES ASSUME NEW x \in 0..(Len(bytes) - 1)
             PROVE  /\ x \in DOMAIN Put(mem, at, bytes)
                    /\ Put(mem, at, bytes)[x] = bytes[x + 1]
  BY DEF Holds
<1>1. x \in at..(at + Len(bytes) - 1) /\ x - at + 1 = x + 1
  OBVIOUS
<1>2. x \in DOMAIN new /\ new[x] = bytes[x + 1]
  BY <1>1
<1> HIDE DEF new
<1> QED
  BY <1>2 DEF Put, Override, new

LEMMA StartHasRaddr ==
  ASSUME NEW a, a.cpu \in Cpus, NEW words
  PROVE  HasRaddr(a, av_start(a, words, "memory"))
<1> DEFINE l    == NewList(a, words)
           word == RaddrWord(a)
           m    == av_start(a, words, "memory")
<1> SUFFICES ASSUME a.cpu \notin SpecialRegister
             PROVE  HasRaddr(a, m)
  BY DEF HasRaddr
<1>1. /\ IsList(l) /\ l.args = <<>> /\ l.ianum = 0 /\ l.iargs = <<>>
  BY NewListFields
<1>2. Len(word) \in Nat /\ W(a) \in {4, 8}
  BY RaddrLength
<1>3. CASE a.cpu = "armhf"
  <2>1. m = [l EXCEPT !.ianum = 1, !.args = Put(l.args, 0, word)]
    BY <1>3 DEF av_start, HasIargs, SpecialRegister, CountsArguments,
           MipsWide, SysV, S390, Arm64, RaddrWord
  <2> HIDE DEF l, word, m
  <2>2. m.args = Put(l.args, 0, word)
    BY <1>1, <2>1 DEF IsList
  <2>3. Holds(m.args, word)
    BY <1>2, <2>2, PutHolds
  <2> QED
    BY <1>3, <2>3 DEF HasRaddr, HasIargs, Arm64, SysV, S390, word
<1>4. CASE a.cpu \in HasIargs
  <2>1. m = InIarg(a, l, word).list
    BY <1>4 DEF av_start, HasIargs, SpecialRegister, CountsArguments,
           MipsWide, SysV, S390, Arm64, RaddrWord
  <2> DEFINE at == R(a) * l.ianum
  <2>2. at = 0
    BY <1>1, WordSizes
  <2> HIDE DEF l, word, m
  <2>3. m.iargs = Put(l.iargs, at, word) /\ m.ianum = l.ianum + 1
    BY <1>1, <2>1 DEF InIarg, Done, IsList
  <2> HIDE DEF at
  <2>4. Holds(m.iargs, word) /\ m.ianum >= 1
    BY <1>1, <1>2, <2>2, <2>3, PutHolds
  <2> QED
    BY <1>4, <2>4 DEF HasRaddr, word
<1>5. CASE a.cpu # "armhf" /\ a.cpu \notin HasIargs
  <2>1. /\ m.aptr = W(a) /\ m.args = Put(l.args, 0, word)
    <3>1. CASE a.cpu \in CountsArguments
      <4>1. m = [l EXCEPT !.aptr = W(a), !.args = Put(l.args, 0, word), !.anum = 1]
        BY <1>5, <3>1 DEF av_start, HasIargs, SpecialRegister, CountsArguments,
               MipsWide, SysV, S390, Arm64, RaddrWord
      <4> HIDE DEF l, word, m
      <4> QED
        BY <1>1, <4>1 DEF IsList
    <3>2. CASE a.cpu \notin CountsArguments
      <4>1. m = [l EXCEPT !.aptr = W(a), !.args = Put(l.args, 0, word)]
        BY <1>5, <3>2 DEF av_start, HasIargs, SpecialRegister, CountsArguments,
               MipsWide, SysV, S390, Arm64, RaddrWord
      <4> HIDE DEF l, word, m
      <4> QED
        BY <1>1, <4>1 DEF IsList
    <3> QED
      BY <3>1, <3>2
  <2> HIDE DEF l, word, m
  <2>2. Holds(m.args, word)
    BY <1>2, <2>1, PutHolds
  <2>3. m.aptr >= W(a)
    BY <1>2, <2>1
  <2> QED
    BY <1>5, <2>2, <2>3 DEF HasRaddr, word
<1> QED
  BY <1>3, <1>4, <1>5

(* It stays there.                                                         *)
LEMMA RaddrStays ==
  ASSUME NEW a, a.cpu \in Cpus, NEW l, RegInv(a, l), NEW m, RegInv(a, m),
         HasRaddr(a, l), Since(a, l, m)
  PROVE  HasRaddr(a, m)
<1> DEFINE word == RaddrWord(a)
<1> SUFFICES ASSUME a.cpu \notin SpecialRegister
             PROVE  HasRaddr(a, m)
  BY DEF HasRaddr
<1>1. Len(word) = W(a) /\ W(a) \in {4, 8} /\ (a.cpu \in HasIargs => R(a) = W(a))
  BY RaddrLength
<1>2. /\ l.ianum \in Nat /\ m.ianum \in Nat /\ l.ianum <= m.ianum
      /\ l.aptr \in Int /\ m.aptr \in Int
      /\ a.cpu # "hppa" /\ l.aptr <= m.aptr
  BY ListTypes DEF Since, Grown, SpecialRegister
<1> HIDE DEF word
<1>3. CASE a.cpu \in HasIargs
  <2>1. l.ianum >= 1 /\ Holds(l.iargs, word)
    BY <1>3 DEF HasRaddr, word
  <2>2. \A x \in 0..(Len(word) - 1) : x < R(a) * l.ianum
    BY <1>1, <1>2, <1>3, <2>1
  <2>3. Holds(m.iargs, word)
    BY <2>1, <2>2 DEF Holds, Since, Grown
  <2> QED
    BY <1>2, <1>3, <2>1, <2>3 DEF HasRaddr, word
<1>4. CASE a.cpu \notin HasIargs
  <2>1. Holds(l.args, word) /\ (a.cpu # "armhf" => l.aptr >= W(a))
    BY <1>4 DEF HasRaddr, word
  <2>2. Holds(m.args, word)
    BY <2>1 DEF Holds, Since, Kept
  <2>3. a.cpu # "armhf" => m.aptr >= W(a)
    BY <1>1, <1>2, <2>1
  <2> QED
    BY <1>4, <2>2, <2>3 DEF HasRaddr, word
<1> QED
  BY <1>3, <1>4


-----------------------------------------------------------------------------
(* ... and where va_start looks for it.                                    *)

LEMMA SameSizes ==
  ASSUME NEW a
  PROVE  VA!P(a) = P(a) /\ VA!R(a) = R(a) /\ VA!W(a) = W(a)
BY DEF VA!P, VA!R, VA!W, P, R, W, VA!Cpus32, Cpus32

LEMMA SameGet ==
  ASSUME NEW mem, NEW at, NEW n
  PROVE  VA!Get(mem, at, n) = Get(mem, at, n)
BY DEF VA!Get, Get, VA!Junk, Junk

LEMMA GetHeld ==
  ASSUME NEW mem, NEW bytes, NEW n \in Nat, n = Len(bytes), Holds(mem, bytes),
         bytes = [k \in 1..n |-> bytes[k]], NEW at, at = 0
  PROVE  Get(mem, at, n) = bytes
<1>1. \A k \in 1..n : at + k - 1 \in DOMAIN mem /\ mem[at + k - 1] = bytes[k]
  <2> SUFFICES ASSUME NEW k \in 1..n
               PROVE  at + k - 1 \in DOMAIN mem /\ mem[at + k - 1] = bytes[k]
    OBVIOUS
  <2>1. at + k - 1 \in 0..(n - 1) /\ (at + k - 1) + 1 = k
    OBVIOUS
  <2> QED
    BY <2>1 DEF Holds
<1> QED
  BY <1>1 DEF Get


(* A va_alist, a record of the fields that vacall-internal.h declares.      *)
IsVaList(v) ==
  DOMAIN v = {"mem", "iargs", "fregs", "structraddr", "callers", "aptr",
              "memargptr", "anum", "ianum", "fanum"}

Finds(a, v) == VA!va_start(a, v, "memory").value = Bytes(0, "raddr", P(a))

LEMMA PassHolds ==
  ASSUME NEW a, W(a) \in {4, 8}, NEW l, l.aptr \in Int, NEW n \in Nat,
         l.aptr >= W(a) \/ n >= 1,
         NEW word, Len(word) = W(a), Holds(l.args, word)
  PROVE  Holds(Pass(a, l, n).frame, word)
<1> DEFINE limit == W(a) * AtLeast(ArgLen(a, l), n)
<1>1. ArgLen(a, l) \in Int /\ (l.aptr >= W(a) => ArgLen(a, l) >= 1)
  BY DEF ArgLen
<1>2. AtLeast(ArgLen(a, l), n) \in Int /\ AtLeast(ArgLen(a, l), n) >= 1
  BY <1>1 DEF AtLeast
<1>3. limit \in Int /\ limit >= W(a)
  BY <1>2
<1>4. Pass(a, l, n).frame = Below(l.args, limit)
  BY DEF Pass
<1> HIDE DEF limit
<1>5. \A x \in 0..(Len(word) - 1) : x < limit
  BY <1>3
<1> QED
  BY <1>4, <1>5 DEF Holds, Below

LEMMA PlainRaddr ==
  ASSUME NEW a, a.cpu \in Cpus, a.cpu \notin SpecialRegister,
         a.cpu \notin {"mipsn32", "x86_64_x32"}
  PROVE  RaddrWord(a) = Bytes(0, "raddr", P(a)) /\ Len(RaddrWord(a)) = P(a)
<1> DEFINE b == Bytes(0, "raddr", P(a))
           e == Bytes(b[1][1], "ext", W(a) - Len(b))
<1>1. P(a) = W(a) /\ P(a) \in Nat /\ P(a) \in {4, 8}
  BY RaddrLength
<1>2. b \in Memory /\ Len(b) = P(a)
  BY <1>1, BytesType
<1>3. e = <<>>
  <2>1. W(a) - Len(b) = 0
    BY <1>1, <1>2
  <2>2. \A i : Bytes(i, "ext", 0) = <<>>
    BY DEF Bytes
  <2> HIDE DEF b
  <2> QED
    BY <2>1, <2>2
<1>4. b \o <<>> = b /\ <<>> \o b = b
  BY <1>2, ConcatEmptySeq DEF Memory
<1>5. RaddrWord(a) = IF a.order = "little" THEN b \o e ELSE e \o b
  BY DEF RaddrWord, Extended
<1> HIDE DEF b, e
<1>6. RaddrWord(a) = b
  BY <1>3, <1>4, <1>5
<1> QED
  BY <1>2, <1>6 DEF b

LEMMA GetRaddr ==
  ASSUME NEW a, a.cpu \in Cpus, a.cpu \notin SpecialRegister,
         a.cpu \notin {"mipsn32", "x86_64_x32"},
         NEW mem, Holds(mem, RaddrWord(a)), NEW at, at = 0
  PROVE  VA!Get(mem, at, VA!P(a)) = Bytes(0, "raddr", P(a))
<1> DEFINE b == Bytes(0, "raddr", P(a))
           n == P(a)
<1>1. b = RaddrWord(a) /\ n = Len(b) /\ n \in Nat
  BY PlainRaddr, WordSizes
<1>2. b = [k \in 1..n |-> b[k]]
  BY DEF Bytes
<1> HIDE DEF b, n
<1>3. Get(mem, at, n) = b
  BY <1>1, <1>2, GetHeld
<1> QED
  BY <1>3, SameGet, SameSizes DEF b, n

(* In the first word of the stack, or of the register words in front of    *)
(* it.                                                                     *)
StackRaddr == {"i386", "alpha", "arm", "powerpc_aix", "mips", "mips64",
               "sparc64", "x86_64_ms"} \cup PPC64

LEMMA FindsOnStack ==
  ASSUME NEW a, a.cpu \in StackRaddr, NEW l, RegInv(a, l), HasRaddr(a, l), NEW end
  PROVE  Finds(a, VA!vacall_receiver(a, avcall_call(a, l, "memory"), l.args, end))
<1> DEFINE word == RaddrWord(a)
           c == avcall_call(a, l, "memory")
           v == VA!vacall_receiver(a, c, l.args, end)
<1>1. /\ a.cpu \in Cpus /\ a.cpu \notin SpecialRegister /\ a.cpu \notin HasIargs
      /\ a.cpu \notin {"mipsn32", "x86_64_x32", "armhf", "hppa"}
  BY DEF StackRaddr, Cpus, Cpus32, LongIs64, PPC64, SpecialRegister, HasIargs, Arm64,
         SysV, S390
<1>2. Holds(l.args, word) /\ l.aptr >= W(a) /\ Len(word) = W(a) /\ W(a) \in {4, 8}
      /\ l.aptr \in Int
  BY <1>1, RaddrLength, ListTypes DEF HasRaddr
<1>3. \E n \in Nat : c.frame = Pass(a, l, n).frame
  <2>1. \E n \in Nat : \E ks : c = Pass(a, l, n) \/ c = WithDoubles(l, ks, Pass(a, l, n))
    <3>1. CASE a.cpu = "i386"
      <4>1. c = Pass(a, l, 0)
        BY <3>1 DEF avcall_call, call_i386, call_alpha, call_arm, call_powerpc,
               call_mips, call_mips64, call_sparc64, call_x86_64_ms, call_powerpc64,
               PPC64, Arm64, SysV
      <4> HIDE DEF c
      <4> QED
        BY <4>1
    <3>2. CASE a.cpu \in {"arm", "mips", "x86_64_ms"}
      <4>1. c = Pass(a, l, 4)
        BY <3>2 DEF avcall_call, call_i386, call_alpha, call_arm, call_powerpc,
               call_mips, call_mips64, call_sparc64, call_x86_64_ms, call_powerpc64,
               PPC64, Arm64, SysV
      <4> HIDE DEF c
      <4> QED
        BY <4>1
    <3>3. CASE a.cpu \in {"powerpc_aix"} \cup PPC64
      <4>1. c = Pass(a, l, 8)
        BY <3>3 DEF avcall_call, call_i386, call_alpha, call_arm, call_powerpc,
               call_mips, call_mips64, call_sparc64, call_x86_64_ms, call_powerpc64,
               PPC64, Arm64, SysV
      <4> HIDE DEF c
      <4> QED
        BY <4>1
    <3>4. CASE a.cpu = "mips64"
      <4>1. c = WithDoubles(l, l.dmask, Pass(a, l, 8))
        BY <3>4 DEF avcall_call, call_i386, call_alpha, call_arm, call_powerpc,
               call_mips, call_mips64, call_sparc64, call_x86_64_ms, call_powerpc64,
               PPC64, Arm64, SysV
      <4> HIDE DEF c
      <4> QED
        BY <4>1
    <3>5. CASE a.cpu = "sparc64"
      <4>1. c = WithDoubles(l, l.dmask, Pass(a, l, 6))
        BY <3>5 DEF avcall_call, call_i386, call_alpha, call_arm, call_powerpc,
               call_mips, call_mips64, call_sparc64, call_x86_64_ms, call_powerpc64,
               PPC64, Arm64, SysV
      <4> HIDE DEF c
      <4> QED
        BY <4>1
    <3>6. CASE a.cpu = "alpha"
      <4>1. c = WithDoubles(l, 0..5, Pass(a, l, 6))
        BY <3>6 DEF avcall_call, call_i386, call_alpha, call_arm, call_powerpc,
               call_mips, call_mips64, call_sparc64, call_x86_64_ms, call_powerpc64,
               PPC64, Arm64, SysV
      <4> HIDE DEF c
      <4> QED
        BY <4>1
    <3> QED
      BY <3>1, <3>2, <3>3, <3>4, <3>5, <3>6 DEF StackRaddr
  <2> HIDE DEF c
  <2>2. PICK n \in Nat : \E ks : c = Pass(a, l, n) \/ c = WithDoubles(l, ks, Pass(a, l, n))
    BY <2>1
  <2>3. \A ks : WithDoubles(l, ks, Pass(a, l, n)).frame = Pass(a, l, n).frame
    BY DEF WithDoubles, Pass
  <2> QED
    BY <2>2, <2>3
<1> HIDE DEF word, c
<1>4. Holds(c.frame, word)
  BY <1>2, <1>3, PassHolds
<1>5. v.mem = c.frame /\ v.aptr = 0 /\ IsVaList(v)
  <2>1. \E k : v = VA!ReceiveMoved(c, l.args, 0, k) \/ v = VA!Receive(c, l.args, 0)
    BY DEF VA!vacall_receiver, VA!receive_i386, VA!receive_alpha, VA!receive_arm,
           VA!receive_powerpc, VA!receive_mips, VA!receive_mips64, VA!receive_sparc64,
           VA!receive_x86_64_ms, VA!receive_powerpc64, StackRaddr, PPC64,
           VA!PPC64, VA!Arm64, VA!SysV
  <2> HIDE DEF v, c
  <2> QED
    BY <2>1 DEF VA!ReceiveMoved, VA!Receive, IsVaList
<1> HIDE DEF v
<1>6. VA!va_start(a, v, "memory").value = VA!Get(v.mem, v.aptr, VA!P(a))
  <2> DEFINE w == [v EXCEPT !.aptr = @ + VA!P(a)]
             f == VA!FromMem(w, v.aptr, VA!P(a))
  <2>1. VA!va_start(a, v, "memory") \in {f, VA!Counted(f)}
    <3>1. VA!va_start(a, v, "memory") = VA!va_start_struct2(a, v)
      BY DEF VA!va_start
    <3>2. VA!va_start_struct2(a, v) \in {f, VA!Counted(f)}
      <4>1. CASE a.cpu \in {"i386", "alpha", "arm", "powerpc_aix"} \cup PPC64
        BY <4>1 DEF VA!va_start_struct2, PPC64, VA!PPC64, VA!MipsWide, VA!SysV,
                    VA!S390, VA!RiscV, VA!Arm64
      <4>2. CASE a.cpu \in {"mips", "mips64", "sparc64", "x86_64_ms"}
        BY <4>2 DEF VA!va_start_struct2, VA!PPC64, VA!MipsWide, VA!SysV, VA!S390,
                    VA!RiscV, VA!Arm64
      <4> QED
        BY <4>1, <4>2 DEF StackRaddr
    <3> QED
      BY <3>1, <3>2
  <2>2. w.mem = v.mem
    BY <1>5 DEF IsVaList
  <2> HIDE DEF w
  <2>3. f = [va |-> w, value |-> VA!Get(v.mem, v.aptr, VA!P(a))]
    BY <2>2 DEF VA!FromMem, VA!Fetched
  <2> HIDE DEF f
  <2>4. VA!Counted(f).value = f.value
    BY <2>3 DEF VA!Counted
  <2> QED
    BY <2>1, <2>3, <2>4
<1>7. VA!Get(v.mem, v.aptr, VA!P(a)) = Bytes(0, "raddr", P(a))
  BY <1>1, <1>4, <1>5, GetRaddr DEF word
<1> QED
  BY <1>6, <1>7 DEF Finds, v, c


LEMMA FindsInArmhf ==
  ASSUME NEW a, a.cpu = "armhf", NEW l, RegInv(a, l), HasRaddr(a, l), NEW end
  PROVE  Finds(a, VA!vacall_receiver(a, avcall_call(a, l, "memory"), l.args, end))
<1> DEFINE word == RaddrWord(a)
           c == avcall_call(a, l, "memory")
           v == VA!vacall_receiver(a, c, l.args, end)
           at == 4 * v.ianum
<1>1. /\ a.cpu \in Cpus /\ a.cpu \notin SpecialRegister /\ a.cpu \notin HasIargs
      /\ a.cpu \notin {"mipsn32", "x86_64_x32", "hppa"} /\ P(a) = 4
  BY DEF Cpus, Cpus32, SpecialRegister, HasIargs, Arm64, SysV, S390, P
<1>2. Holds(l.args, word) /\ Len(word) = W(a) /\ W(a) \in {4, 8} /\ l.aptr \in Int
  BY <1>1, RaddrLength, ListTypes DEF HasRaddr
<1>3. c = Pass(a, l, 4)
  BY DEF avcall_call, call_armhf, PPC64, Arm64, SysV
<1> HIDE DEF word, c
<1>4. Holds(c.frame, word)
  <2> DEFINE n == 4
  <2>1. n \in Nat /\ n >= 1
    OBVIOUS
  <2> HIDE DEF n
  <2>2. Holds(Pass(a, l, n).frame, word)
    BY <1>2, <2>1, PassHolds
  <2> QED
    BY <1>3, <2>2 DEF n
<1>5. v = VA!Receive(c, l.args, 16)
  BY DEF VA!vacall_receiver, VA!receive_armhf, VA!PPC64, VA!Arm64, VA!SysV
<1>6. v.mem = c.frame /\ v.ianum = 0 /\ IsVaList(v)
  <2> HIDE DEF v
  <2> QED
    BY <1>5 DEF VA!Receive, IsVaList
<1> HIDE DEF v
<1>7. at = 0
  BY <1>6
<1>8. VA!va_start(a, v, "memory") = VA!va_start_struct2(a, v)
  BY DEF VA!va_start
<1>9. VA!va_start_struct2(a, v) = VA!FromMem([v EXCEPT !.ianum = @ + 1], at, 4)
  BY DEF VA!va_start_struct2, VA!PPC64, VA!MipsWide, VA!SysV, VA!S390, VA!RiscV,
         VA!Arm64
<1> HIDE DEF at
<1>10. VA!FromMem([v EXCEPT !.ianum = @ + 1], at, 4).value = VA!Get(v.mem, at, VA!P(a))
  <2> DEFINE w == [v EXCEPT !.ianum = @ + 1]
  <2>1. w.mem = v.mem
    BY <1>6 DEF IsVaList
  <2>2. VA!P(a) = 4
    BY <1>1, SameSizes
  <2> HIDE DEF w
  <2>3. VA!FromMem(w, at, 4).value = VA!Get(v.mem, at, VA!P(a))
    BY <2>1, <2>2 DEF VA!FromMem, VA!Fetched
  <2> QED
    BY <2>3 DEF w
<1>11. VA!Get(v.mem, at, VA!P(a)) = Bytes(0, "raddr", P(a))
  BY <1>1, <1>4, <1>6, <1>7, GetRaddr DEF word
<1> QED
  BY <1>8, <1>9, <1>10, <1>11 DEF Finds, v, c

(* The first of the integer registers.                                     *)
LEMMA GetPart ==
  ASSUME NEW mem, NEW word, Len(word) \in Nat, Holds(mem, word), NEW at \in Nat,
         NEW n \in Nat, at + n <= Len(word),
         NEW bytes, bytes = [k \in 1..n |-> bytes[k]],
         \A k \in 1..n : word[at + k] = bytes[k]
  PROVE  Get(mem, at, n) = bytes
<1>1. \A k \in 1..n : at + k - 1 \in DOMAIN mem /\ mem[at + k - 1] = bytes[k]
  <2> SUFFICES ASSUME NEW k \in 1..n
               PROVE  at + k - 1 \in DOMAIN mem /\ mem[at + k - 1] = bytes[k]
    OBVIOUS
  <2>1. at + k - 1 \in 0..(Len(word) - 1) /\ (at + k - 1) + 1 = at + k
    OBVIOUS
  <2> QED
    BY <2>1 DEF Holds
<1> QED
  BY <1>1 DEF Get

LowByte(a) == IF a.order = "big" THEN R(a) - P(a) ELSE 0

LEMMA GetWordPart ==
  ASSUME NEW a, a.cpu \in SysV \cup S390 \cup {"powerpc_sysv4"} \cup RiscV,
         a.order \in {"little", "big"},
         NEW mem, Holds(mem, RaddrWord(a)), NEW at, at = LowByte(a)
  PROVE  Get(mem, at, P(a)) = Bytes(0, "raddr", P(a))
<1> DEFINE b == Bytes(0, "raddr", P(a))
           n == P(a)
           word == RaddrWord(a)
<1>1. /\ P(a) \in {4, 8} /\ W(a) \in {4, 8} /\ W(a) = R(a) /\ P(a) <= W(a)
      /\ a.cpu \in Cpus /\ a.cpu \notin SpecialRegister
  BY DEF P, W, R, SysV, S390, RiscV, Cpus, Cpus32, LongIs64, SpecialRegister, Arm64
<1>2. b \in Memory /\ Len(b) = n
  BY <1>1, BytesType
<1>3. b = [k \in 1..n |-> b[k]]
  BY DEF Bytes
<1>4. word = Extended(a, b, W(a))
  BY DEF RaddrWord
<1> HIDE DEF b, word
<1>5. PICK e \in Memory :
        /\ Len(e) = W(a) - n
        /\ word = IF a.order = "little" THEN b \o e ELSE e \o b
        /\ Len(word) = W(a)
  <2> DEFINE w == W(a)
  <2>1. Len(b) \in 1..w /\ w \in Nat
    BY <1>1, <1>2
  <2> HIDE DEF w
  <2>2. \E e \in Memory :
           /\ Len(e) = w - Len(b)
           /\ Extended(a, b, w) = IF a.order = "little" THEN b \o e ELSE e \o b
           /\ Extended(a, b, w) \in Memory /\ Len(Extended(a, b, w)) = w
    BY <1>2, <2>1, Extension
  <2> QED
    BY <1>2, <1>4, <2>2 DEF w
<1>6. \A k \in 1..n : word[at + k] = b[k]
  <2>1. CASE a.order = "little"
    <3>1. at = 0 /\ word = b \o e
      BY <1>5, <2>1 DEF LowByte
    <3>2. \A k \in 1..n : word[k] = b[k]
      BY <1>1, <1>2, <1>5, <3>1, ConcatProperties DEF Memory
    <3>3. \A k \in 1..n : at + k = k
      BY <3>1
    <3> HIDE DEF n
    <3> QED
      BY <3>2, <3>3
  <2>2. CASE a.order = "big"
    <3>1. at = Len(e) /\ word = e \o b
      BY <1>1, <1>5, <2>2 DEF LowByte
    <3>2. Len(e) \in Nat /\ n \in Nat
      BY <1>1, <1>5
    <3>3. e \in Seq(Symbols) /\ b \in Seq(Symbols)
      BY <1>2 DEF Memory
    <3>4. \A k \in 1..(Len(e) + Len(b)) :
            (e \o b)[k] = IF k <= Len(e) THEN e[k] ELSE b[k - Len(e)]
      BY ONLY <3>3, ConcatProperties
    <3> SUFFICES ASSUME NEW k \in 1..n PROVE word[at + k] = b[k]
      OBVIOUS
    <3> HIDE DEF n
    <3>5. Len(e) + k \in 1..(Len(e) + Len(b)) /\ ~(Len(e) + k <= Len(e))
          /\ Len(e) + k - Len(e) = k
      BY <1>2, <3>2
    <3>6. (e \o b)[Len(e) + k] = b[k]
      BY <3>4, <3>5
    <3> QED
      BY <3>1, <3>6
  <2> QED
    BY <2>1, <2>2
<1>7. at \in Nat /\ n \in Nat /\ at + n <= Len(word) /\ Len(word) \in Nat
  BY <1>1, <1>5 DEF LowByte
<1> HIDE DEF n
<1>8. Get(mem, at, n) = b
  BY <1>3, <1>6, <1>7, GetPart DEF word
<1> QED
  BY <1>8 DEF n, b

LEMMA FindsInIarg ==
  ASSUME NEW a, a.cpu \in SysV \cup S390 \cup {"powerpc_sysv4"} \cup RiscV,
         a.order \in {"little", "big"},
         NEW v, IsVaList(v), v.ianum = 0, Holds(v.iargs, RaddrWord(a))
  PROVE  Finds(a, v)
<1> DEFINE low == IF a.order = "big" THEN VA!R(a) - VA!P(a) ELSE 0
           at  == VA!R(a) * v.ianum + low
           w   == [v EXCEPT !.ianum = @ + 1]
<1>1. VA!va_start(a, v, "memory") = VA!va_start_struct2(a, v)
  BY DEF VA!va_start
<1>2. VA!va_start_struct2(a, v) = VA!FromIarg(w, at, VA!P(a))
  BY DEF VA!va_start_struct2, VA!PPC64, VA!MipsWide, VA!SysV, VA!S390, VA!RiscV,
         VA!Arm64, SysV, S390, RiscV
<1>3. w.iargs = v.iargs
  BY DEF IsVaList
<1>4. at = LowByte(a)
  <2>1. R(a) \in {4, 8} /\ P(a) \in {4, 8}
    BY DEF R, P
  <2> QED
    BY <2>1, SameSizes DEF LowByte
<1> HIDE DEF w, at
<1>5. VA!FromIarg(w, at, VA!P(a)).value = VA!Get(v.iargs, at, VA!P(a))
  BY <1>3 DEF VA!FromIarg, VA!Fetched
<1>6. Get(v.iargs, at, P(a)) = Bytes(0, "raddr", P(a))
  BY <1>4, GetWordPart
<1> QED
  BY <1>1, <1>2, <1>5, <1>6, SameGet, SameSizes DEF Finds

LEMMA FindsInRegister ==
  ASSUME NEW a, a.cpu \in SysV \cup S390 \cup {"powerpc_sysv4"},
         a.order \in {"little", "big"}, NEW l, RegInv(a, l), HasRaddr(a, l), NEW end
  PROVE  Finds(a, VA!vacall_receiver(a, avcall_call(a, l, "memory"), l.args, end))
<1> DEFINE c == avcall_call(a, l, "memory")
           v == VA!vacall_receiver(a, c, l.args, end)
<1>1. Holds(l.iargs, RaddrWord(a))
  BY DEF HasRaddr, HasIargs, SpecialRegister, SysV, S390, Arm64
<1>2. c = Pass(a, l, 0)
  BY DEF avcall_call, call_powerpc, call_x86_64, call_s390, call_s390x, PPC64, Arm64,
         SysV, S390
<1> HIDE DEF c
<1>3. c.iargs = l.iargs
  BY <1>2 DEF Pass
<1>4. v = VA!Receive(c, l.args, 0)
  BY DEF VA!vacall_receiver, VA!receive_powerpc, VA!receive_x86_64, VA!receive_s390,
         VA!receive_s390x, VA!PPC64, VA!Arm64, VA!SysV, SysV, S390
<1> HIDE DEF v
<1>5. v.iargs = c.iargs /\ v.ianum = 0 /\ IsVaList(v)
  BY <1>4 DEF VA!Receive, IsVaList
<1>6. Finds(a, v)
  BY <1>1, <1>3, <1>5, FindsInIarg
<1> QED
  BY <1>6 DEF v, c

LEMMA FindsInRiscV ==
  ASSUME NEW a, a.cpu \in RiscV,
         a.order \in {"little", "big"}, NEW l, RegInv(a, l), HasRaddr(a, l), NEW end
  PROVE  Finds(a, VA!vacall_receiver(a, avcall_call(a, l, "memory"), l.args, end))
<1> DEFINE word == RaddrWord(a)
           c == avcall_call(a, l, "memory")
           v == VA!vacall_receiver(a, c, l.args, end)
           wide == IF a.cpu = "riscv32" THEN 4 ELSE 8
<1>1. /\ a.cpu \in Cpus /\ a.cpu \notin SpecialRegister /\ a.cpu \notin HasIargs
      /\ a.cpu \notin {"mipsn32", "x86_64_x32", "armhf", "hppa"}
      /\ W(a) = wide
  BY DEF Cpus, Cpus32, LongIs64, SpecialRegister, HasIargs, Arm64, SysV, S390, W, RiscV
<1>2. Holds(l.args, word) /\ l.aptr >= W(a) /\ Len(word) = W(a) /\ W(a) \in {4, 8}
      /\ l.aptr \in Int
  BY <1>1, RaddrLength, ListTypes DEF HasRaddr
<1>3. c = Pass(a, l, 0)
  BY DEF avcall_call, call_riscv32, call_riscv64, call_loongarch64, PPC64, Arm64,
         SysV, RiscV
<1> HIDE DEF word, c
<1>4. Holds(c.frame, word)
  <2> DEFINE n == 0
  <2>1. n \in Nat
    OBVIOUS
  <2> HIDE DEF n
  <2>2. Holds(Pass(a, l, n).frame, word)
    BY <1>2, <2>1, PassHolds
  <2> QED
    BY <1>3, <2>2 DEF n
<1>5. v = VA!ReceiveRegisters(c, l.args, wide)
  BY DEF VA!vacall_receiver, VA!receive_riscv32, VA!receive_riscv64,
         VA!receive_loongarch64, VA!PPC64, VA!Arm64, VA!SysV, RiscV
<1> HIDE DEF v, wide
<1>6. v.iargs = VA!Below(c.frame, 8 * wide) /\ v.ianum = 0 /\ IsVaList(v)
  BY <1>5 DEF VA!ReceiveRegisters, VA!Receive, IsVaList
<1>7. Holds(v.iargs, word)
  <2> DEFINE limit == 8 * wide
  <2>1. \A x \in 0..(Len(word) - 1) : x < limit
    BY <1>1, <1>2
  <2> HIDE DEF limit
  <2> QED
    BY <1>4, <1>6, <2>1 DEF Holds, VA!Below, limit
<1>8. Finds(a, v)
  BY <1>6, <1>7, FindsInIarg DEF word
<1> QED
  BY <1>8 DEF v, c

(* A register of its own.                                                  *)
LEMMA FindsSpecial ==
  ASSUME NEW a, a.cpu \in SpecialRegister, NEW l, NEW end
  PROVE  Finds(a, VA!vacall_receiver(a, avcall_call(a, l, "memory"), l.args, end))
<1> DEFINE c == avcall_call(a, l, "memory")
           v == VA!vacall_receiver(a, c, l.args, end)
<1>1. \E call : "sret" \in DOMAIN call /\ c = WithSret(a, "memory", call)
  <2>1. CASE a.cpu \in {"m68k", "sparc", "ia64"} \cup Arm64
    <3>1. \E n \in Nat : c = WithSret(a, "memory", Pass(a, l, n))
      BY <2>1 DEF avcall_call, call_m68k, call_sparc, call_ia64, call_arm64, PPC64,
                  Arm64, SysV
    <3> QED
      BY <3>1 DEF Pass
  <2>2. CASE a.cpu = "hppa"
    BY <2>2 DEF avcall_call, call_hppa, PPC64, Arm64, SysV
  <2>3. CASE a.cpu = "hppa64"
    BY <2>3 DEF avcall_call, call_hppa64, Pass, PPC64, Arm64, SysV
  <2> QED
    BY <2>1, <2>2, <2>3 DEF SpecialRegister
<1> HIDE DEF c
<1>2. c.sret = Bytes(0, "raddr", P(a))
  BY <1>1 DEF WithSret
<1>3. v.structraddr = c.sret
  <2>1. \E at, k : v = VA!Receive(c, l.args, at) \/ v = VA!ReceiveMoved(c, l.args, at, k)
    BY DEF VA!vacall_receiver, VA!receive_m68k, VA!receive_sparc, VA!receive_ia64,
           VA!receive_arm64, VA!receive_hppa, VA!receive_hppa64, VA!PPC64, VA!Arm64,
           VA!SysV, SpecialRegister, Arm64
  <2> HIDE DEF v
  <2> QED
    BY <2>1 DEF VA!Receive, VA!ReceiveMoved
<1> HIDE DEF v
<1>4. VA!va_start(a, v, "memory") = VA!va_start_struct2(a, v)
  BY DEF VA!va_start
<1>5. VA!va_start_struct2(a, v) = VA!Fetched(v, v.structraddr)
  BY DEF VA!va_start_struct2, VA!PPC64, VA!MipsWide, VA!SysV, VA!S390, VA!RiscV,
         VA!Arm64, SpecialRegister, Arm64
<1> QED
  BY <1>2, <1>3, <1>4, <1>5 DEF Finds, VA!Fetched, v, c

LEMMA StartFindsRaddr ==
  ASSUME NEW a, a.cpu \in Cpus, a.cpu # "mipsn32", a.order \in {"little", "big"},
         NEW l, RegInv(a, l), HasRaddr(a, l), NEW end
  PROVE  Finds(a, VA!vacall_receiver(a, avcall_call(a, l, "memory"), l.args, end))
<1>1. CASE a.cpu \in StackRaddr
  BY <1>1, FindsOnStack
<1>2. CASE a.cpu = "armhf"
  BY <1>2, FindsInArmhf
<1>3. CASE a.cpu \in SysV \cup S390 \cup {"powerpc_sysv4"}
  BY <1>3, FindsInRegister
<1>4. CASE a.cpu \in RiscV
  BY <1>4, FindsInRiscV
<1>5. CASE a.cpu \in SpecialRegister
  BY <1>5, FindsSpecial
<1> QED
  BY <1>1, <1>2, <1>3, <1>4, <1>5
     DEF Cpus, Cpus32, LongIs64, StackRaddr, PPC64, SysV, S390, RiscV,
         SpecialRegister, Arm64


-----------------------------------------------------------------------------
(* The inductive invariant of a call that returns a value: the address of  *)
(* the struct is where av_start put it, until va_start has found it.       *)

Address0 == Bytes(0, "raddr", P(abi))

RInv ==
  /\ IInv
  /\ ReturnType(abi, ret)
  /\ AvKind(abi, ret) = "memory" /\ 0 \notin disputed =>
       /\ abi.cpu # "mipsn32"
       /\ HasRaddr(abi, list)
       /\ phase = "called" => Finds(abi, va)
       /\ phase \in {"running", "returned"} => raddr = Address0
  /\ phase = "returned" /\ 0 \notin disputed /\ ~DisputedReturn(abi, ret)
       => result = Store(Own(0, ret.size))

LEMMA CallTypes ==
  ASSUME IInv
  PROVE  /\ abi.cpu \in Cpus /\ abi.order \in {"little", "big"} /\ abi \in ABIs
         /\ RegInv(abi, list)
BY ABIsAssumption DEF IInv, ABISet

LEMMA InitReturn == Init => RInv
<1> SUFFICES ASSUME Init PROVE RInv
  OBVIOUS
<1>1. IInv
  BY InitInv
<1>2. abi.cpu \in Cpus /\ RegInv(abi, list)
  BY <1>1, CallTypes
<1>3. PICK c \in Calls(abi) :
        ret = c.ret /\ list = av_start(abi, c.words, AvKind(abi, c.ret))
  BY DEF Init
<1>4. /\ ReturnType(abi, ret)
      /\ AvKind(abi, ret) = "memory" => HasRaddr(abi, list)
  <2>1. ReturnType(abi, ret)
    BY <1>1, <1>3, CallTypes, CallsAssumption
  <2>2. ASSUME AvKind(abi, ret) = "memory" PROVE HasRaddr(abi, list)
    <3>1. list = av_start(abi, c.words, "memory")
      BY <1>3, <2>2
    <3> QED
      BY <1>2, <3>1, StartHasRaddr
  <2> QED
    BY <2>1, <2>2
<1>5. /\ phase = "build"
      /\ AvKind(abi, ret) = "memory" /\ 0 \notin disputed => abi.cpu # "mipsn32"
  BY DEF Init
<1> QED
  BY <1>1, <1>3, <1>4, <1>5 DEF RInv

LEMMA ReturnPush ==
  ASSUME RInv, NEW t, PushArg(t)
  PROVE  RInv'
<1>1. IInv
  BY DEF RInv
<1>2. IInv' /\ (0 \notin disputed' => Since(abi, list, list'))
  BY <1>1, PushStep
<1>3. /\ abi' = abi /\ ret' = ret /\ phase' \in {"build", "full"}
      /\ disputed \subseteq disputed'
  BY DEF PushArg
<1>4. abi.cpu \in Cpus /\ RegInv(abi, list) /\ RegInv(abi, list')
  BY <1>1, <1>2, <1>3, CallTypes DEF IInv
<1>5. AvKind(abi, ret) = "memory" /\ 0 \notin disputed'
        => abi.cpu # "mipsn32" /\ HasRaddr(abi, list')
  BY <1>2, <1>3, <1>4, RaddrStays DEF RInv
<1> QED
  BY <1>2, <1>3, <1>5 DEF RInv

LEMMA ReturnCall ==
  ASSUME RInv, Call
  PROVE  RInv'
<1>1. IInv /\ IInv'
  BY OtherStep DEF RInv
<1>2. /\ abi' = abi /\ ret' = ret /\ list' = list /\ disputed' = disputed
      /\ phase' = "called"
      /\ va' = VA!vacall_receiver(abi, avcall_call(abi, list, AvKind(abi, ret)),
                                  list.args, list.end)
  BY DEF Call
<1>3. AvKind(abi, ret) = "memory" /\ 0 \notin disputed
        => abi.cpu # "mipsn32" /\ HasRaddr(abi, list) /\ Finds(abi, va')
  <2> SUFFICES ASSUME AvKind(abi, ret) = "memory", 0 \notin disputed
               PROVE  abi.cpu # "mipsn32" /\ HasRaddr(abi, list) /\ Finds(abi, va')
    OBVIOUS
  <2>1. abi.cpu # "mipsn32" /\ HasRaddr(abi, list)
    BY DEF RInv
  <2>2. va' = VA!vacall_receiver(abi, avcall_call(abi, list, "memory"),
                                 list.args, list.end)
    BY <1>2
  <2> QED
    BY <1>1, <2>1, <2>2, CallTypes, StartFindsRaddr
<1> QED
  BY <1>1, <1>2, <1>3 DEF RInv

LEMMA ReturnStart ==
  ASSUME RInv, Start
  PROVE  RInv'
<1>1. IInv /\ IInv' /\ abi.cpu \in Cpus
  BY OtherStep, CallTypes DEF RInv
<1>2. /\ abi' = abi /\ ret' = ret /\ list' = list /\ disputed' = disputed
      /\ phase = "called" /\ phase' = "running"
      /\ raddr' = VA!va_start(abi, va, VaKind(abi, ret)).value
  BY DEF Start
<1>3. AvKind(abi, ret) = "memory" /\ 0 \notin disputed => raddr' = Address0
  <2> SUFFICES ASSUME AvKind(abi, ret) = "memory", 0 \notin disputed
               PROVE  raddr' = Address0
    OBVIOUS
  <2>1. VaKind(abi, ret) = "memory"
    BY <1>1, SameDecision
  <2>2. Finds(abi, va)
    BY <1>2 DEF RInv
  <2> QED
    BY <1>2, <2>1, <2>2 DEF Finds, Address0
<1> QED
  BY <1>1, <1>2, <1>3 DEF RInv, Address0

LEMMA ReturnReturn ==
  ASSUME RInv, Return
  PROVE  RInv'
<1> DEFINE m == StructAtRaddr(abi, ret, raddr)
<1>1. IInv /\ IInv' /\ abi.cpu \in Cpus /\ abi.order \in {"little", "big"}
      /\ abi \in ABIs
  BY OtherStep, CallTypes DEF RInv
<1>2. /\ abi' = abi /\ ret' = ret /\ list' = list /\ disputed' = disputed
      /\ raddr' = raddr
      /\ phase = "running" /\ phase' = "returned"
      /\ result' = avcall_store(abi, ret, receiver_return(abi, ret), m)
  BY DEF Return
<1>3. ASSUME 0 \notin disputed, ~DisputedReturn(abi, ret)
      PROVE  result' = Store(Own(0, ret.size))
  <2>1. ReturnType(abi, ret)
    BY DEF RInv
  <2>2. AvKind(abi, ret) = "memory" => m = Store(Own(0, ret.size))
    <3>1. AvKind(abi, ret) = "memory" => raddr = Address0
      BY <1>2, <1>3 DEF RInv
    <3> QED
      BY <3>1 DEF StructAtRaddr, Store, Address0
  <2> HIDE DEF m
  <2> QED
    BY <1>1, <1>2, <1>3, <2>1, <2>2, ReturnBack
<1> QED
  BY <1>1, <1>2, <1>3 DEF RInv, Address0

LEMMA ReturnRest ==
  ASSUME RInv, Fetch \/ UNCHANGED vars
  PROVE  RInv'
<1>1. IInv'
  BY OtherStep DEF RInv
<1>2. /\ abi' = abi /\ ret' = ret /\ list' = list /\ disputed' = disputed
      /\ raddr' = raddr /\ result' = result /\ phase' = phase
      /\ phase = "called" => va' = va
  BY DEF Fetch, vars
<1> QED
  BY <1>1, <1>2 DEF RInv, Address0

(* RInv holds however many arguments the call has, on every CPU.           *)
THEOREM ReturnInvariance == Spec => []RInv
<1>1. Init => RInv
  BY InitReturn
<1>2. RInv /\ [Next]_vars => RInv'
  BY ReturnPush, ReturnCall, ReturnStart, ReturnReturn, ReturnRest DEF Next
<1> QED
  BY <1>1, <1>2, PTL DEF Spec

(* va_start_struct finds the address that av_start_struct stored, in the   *)
(* register, the array of registers or the word of args[] that the CPU has *)
(* for it, whatever was pushed in between.                                 *)
THEOREM StructAddressArrived == Spec => []StructAddressArrives
<1>1. RInv => StructAddressArrives
  <2> SUFFICES ASSUME RInv PROVE StructAddressArrives
    OBVIOUS
  <2>1. abi.cpu \in Cpus
    BY CallTypes DEF RInv
  <2>2. AvKind(abi, ret) = VaKind(abi, ret)
    BY <2>1, SameDecision
  <2>3. ASSUME phase \in {"running", "returned"}, 0 \notin disputed,
               VaKind(abi, ret) = "memory"
        PROVE  raddr = Address0
    <3>1. AvKind(abi, ret) = "memory"
      BY <2>2, <2>3
    <3> QED
      BY <2>3, <3>1 DEF RInv
  <2> QED
    BY <2>3 DEF StructAddressArrives, Address0
<1> QED
  BY <1>1, ReturnInvariance, PTL

(* Whatever a function written with vacall returns, in registers or in     *)
(* memory, is what avcall stores into the caller's variable: the two       *)
(* headers decide alike where it is, and the receiver loads the bytes of   *)
(* the registers that avcall_call stores.  But for DisputedReturn.         *)
THEOREM ReturnValueArrived == Spec => []ReturnValueArrives
<1>1. RInv => ReturnValueArrives
  BY DEF RInv, ReturnValueArrives
<1> QED
  BY <1>1, ReturnInvariance, PTL

=============================================================================
