-------------------------- MODULE ArgPassing_proofs --------------------------
(***************************************************************************)
(* Proofs about ArgPassing: for all ABIs, arrays of any size, any types of *)
(* arguments and any number of pushes.                                     *)
(*                                                                         *)
(* The list is in order when av_start has made it (StartGood), and that a  *)
(* push keeps it in order is PushGood.  So IInv is inductive.              *)
(* StoresInside is not, nor is PushedKept a consequence of the types: both *)
(* need that aptr and eptr have not passed each other (SpaceInv).          *)
(***************************************************************************)
EXTENDS AvcallList_proofs

-----------------------------------------------------------------------------
(* The list that av_start leaves behind.                                   *)

Room(end) == end \in Int /\ end % 8 = 0

LEMMA NewListFields ==
  ASSUME NEW a, NEW words, NEW l, l = NewList(a, words)
  PROVE  /\ IsList(l) /\ l.args = <<>> /\ l.end = W(a) * words
         /\ l.aptr = CASE a.cpu = "hppa"  -> W(a) * words
                       [] a.cpu = "armhf" -> 16
                       [] OTHER           -> 0
         /\ l.eptr = IF a.cpu = "hppa" THEN 0 ELSE W(a) * words
         /\ l.anum = 0 /\ l.ianum = 0 /\ l.iargs = <<>> /\ l.fanum = 0
         /\ l.fregs = <<>> /\ l.fmask = {} /\ l.dmask = {}
BY DEF NewList, IsList

LEMMA NewListInv ==
  ASSUME NEW a, a.cpu \in Cpus, NEW words, Room(W(a) * words),
         NEW l, l = NewList(a, words)
  PROVE  /\ RegInv(a, l)
         /\ W(a) * words >= (IF a.cpu = "armhf" THEN 16 ELSE 0) => SpaceInv(a, l)
<1> DEFINE end == W(a) * words
<1>1. /\ IsList(l) /\ l.args = <<>> /\ l.end = end
      /\ l.aptr = CASE a.cpu = "hppa"  -> end
                    [] a.cpu = "armhf" -> 16
                    [] OTHER           -> 0
      /\ l.eptr = IF a.cpu = "hppa" THEN 0 ELSE end
      /\ l.anum = 0 /\ l.ianum = 0 /\ l.iargs = <<>> /\ l.fanum = 0
      /\ l.fregs = <<>> /\ l.fmask = {} /\ l.dmask = {}
  BY NewListFields
<1>2. end \in Int /\ end % 8 = 0
  BY DEF Room
<1> HIDE DEF end
<1>3. a.cpu = "hppa" => l.aptr = end /\ l.eptr = 0
  BY <1>1
<1>4. a.cpu = "armhf" => l.aptr = 16 /\ l.eptr = end
  BY <1>1
<1>5. a.cpu \notin {"hppa", "armhf"} => l.aptr = 0 /\ l.eptr = end
  BY <1>1
<1>6. Pointers(a, l.aptr, l.eptr, l.end)
  BY <1>1, <1>2, <1>3, <1>4, <1>5 DEF Pointers
<1>7. DOMAIN l.args = {} /\ DOMAIN l.iargs = {} /\ DOMAIN l.fregs = {}
  BY <1>1
<1>8. RegInv(a, l)
  BY SMTT(60), <1>1, <1>6, <1>7, WordSizes DEF RegInv, Registers, Contents
<1>9. ASSUME end >= (IF a.cpu = "armhf" THEN 16 ELSE 0) PROVE SpaceInv(a, l)
  <2>1. 0 <= Low(a, l) /\ Low(a, l) <= High(a, l) /\ High(a, l) <= l.end
    BY <1>1, <1>2, <1>3, <1>4, <1>5, <1>9 DEF Low, High
  <2>2. l.eptr % 8 = 0
    BY <1>2, <1>3, <1>4, <1>5
  <2>3. l.aptr % W(a) = 0
    <3>1. l.aptr = end \/ l.aptr = 16 \/ l.aptr = 0
      BY <1>3, <1>4, <1>5
    <3>2. l.aptr \in Int /\ l.aptr % 8 = 0
      BY <3>1, <1>2
    <3>3. W(a) = 4 \/ W(a) = 8
      BY WordSizes
    <3> QED
      BY <3>2, <3>3
  <2> QED
    BY <2>1, <2>2, <2>3, <1>7 DEF SpaceInv
<1> QED
  BY <1>8, <1>9 DEF end

(* The address of the struct to be returned takes the first word of        *)
(* args[], or of the register words that are its first four.               *)
LEMMA FirstWordInv ==
  ASSUME NEW a, a.cpu \in Cpus, NEW words, Room(W(a) * words), NEW word,
         Len(word) = W(a), NEW m, IsList(m), a.cpu # "hppa",
         m.args = Put(<<>>, 0, word), m.end = W(a) * words, m.eptr = m.end,
         m.anum \in Nat, m.iargs = <<>>, m.fanum = 0, m.fregs = <<>>,
         m.fmask = {}, m.dmask = {},
         IF a.cpu = "armhf" THEN m.aptr = 16 /\ m.ianum = 1
                            ELSE m.aptr = W(a) /\ m.ianum = 0
  PROVE  /\ RegInv(a, m)
         /\ m.end >= m.aptr => SpaceInv(a, m)
<1>1. m.end \in Int /\ m.end % 8 = 0
  BY DEF Room
<1>2. /\ W(a) = 4 \/ W(a) = 8
      /\ IargNum(a) \in Nat /\ FargNum(a) \in Nat
      /\ a.cpu = "armhf" => W(a) = 4 /\ IargNum(a) = 4
  BY SMTT(60), WordSizes, RegisterCounts
<1>3. m.aptr \in Nat /\ m.aptr >= W(a) /\ (a.cpu = "armhf" => m.aptr = 16)
  BY <1>2
<1>4. Registers(a, m.anum, m.ianum, m.fanum)
  BY <1>2 DEF Registers
<1>5. Contents(a, m.iargs, m.fregs, m.fmask \cup m.dmask)
  BY DEF Contents
<1>6. Pointers(a, m.aptr, m.eptr, m.end)
  BY <1>1, <1>3 DEF Pointers
<1>7. ASSUME m.end >= m.aptr PROVE SpaceInv(a, m)
  <2>1. DOMAIN m.args = 0..(W(a) - 1)
    <3> DEFINE none == <<>>
               at   == 0
    <3>1. DOMAIN none = {} /\ m.args = Put(none, at, word)
      OBVIOUS
    <3>2. at = 0 /\ at + Len(word) - 1 = W(a) - 1
      BY <1>2
    <3> HIDE DEF none, at
    <3>3. DOMAIN Put(none, at, word) = DOMAIN none \cup at..(at + Len(word) - 1)
      BY ONLY PutFacts
    <3> QED
      BY <3>1, <3>2, <3>3
  <2>2. Low(a, m) = m.aptr /\ High(a, m) = m.eptr
    BY DEF Low, High
  <2>3. m.aptr % W(a) = 0
    BY <1>2
  <2>4. ASSUME NEW x \in 0..(W(a) - 1) PROVE Stored(a, m, x)
    <3>1. x \in Int /\ 0 <= x /\ x < m.end /\ x < m.aptr
      BY <1>1, <1>2, <1>3, <1>7
    <3>2. a.cpu = "armhf" => x < 4 * m.ianum
      BY <1>2
    <3> QED
      BY <3>1, <3>2, <2>2 DEF Stored
  <2> QED
    BY <1>1, <1>3, <1>7, <2>1, <2>2, <2>3, <2>4 DEF SpaceInv
<1> QED
  BY <1>4, <1>5, <1>6, <1>7 DEF RegInv


LEMMA StartGood ==
  ASSUME NEW a, a.cpu \in Cpus, NEW words, Room(W(a) * words), NEW r
  PROVE  /\ RegInv(a, av_start(a, words, r))
         /\ W(a) * words >= (IF a.cpu = "armhf" THEN 16 ELSE 8)
              => SpaceInv(a, av_start(a, words, r))
<1> DEFINE l    == NewList(a, words)
           word == Extended(a, Bytes(0, "raddr", P(a)), W(a))
           m    == av_start(a, words, r)
           end  == W(a) * words
           Enough == end >= (IF a.cpu = "armhf" THEN 16 ELSE 8)
<1> SUFFICES RegInv(a, m) /\ (Enough => SpaceInv(a, m))
  OBVIOUS
<1>1. /\ IsList(l) /\ l.args = <<>> /\ l.end = end
      /\ l.aptr = CASE a.cpu = "hppa"  -> end
                    [] a.cpu = "armhf" -> 16
                    [] OTHER           -> 0
      /\ l.eptr = IF a.cpu = "hppa" THEN 0 ELSE end
      /\ l.anum = 0 /\ l.ianum = 0 /\ l.iargs = <<>> /\ l.fanum = 0
      /\ l.fregs = <<>> /\ l.fmask = {} /\ l.dmask = {}
  BY NewListFields
<1>2. end \in Int /\ end % 8 = 0
  BY DEF Room
<1>3. RegInv(a, l) /\ (Enough => SpaceInv(a, l))
  <2>1. /\ RegInv(a, l)
        /\ end >= (IF a.cpu = "armhf" THEN 16 ELSE 0) => SpaceInv(a, l)
    BY NewListInv
  <2> HIDE DEF l, end
  <2> QED
    BY <2>1, <1>2
<1>4. a.cpu \in SysV => l.aptr = 0
  BY <1>1 DEF SysV
<1>5. CASE m = l
  <2> HIDE DEF m, l, end
  <2> QED
    BY <1>1, <1>3, <1>5
<1>6. a.cpu # "arm64_apple" => Len(word) = W(a) /\ W(a) \in {4, 8}
  <2> SUFFICES ASSUME a.cpu # "arm64_apple" PROVE Len(word) = W(a) /\ W(a) \in {4, 8}
    OBVIOUS
  <2>1. P(a) \in Nat /\ W(a) \in Nat /\ P(a) <= W(a) /\ W(a) \in {4, 8}
    BY DEF P, W
  <2> QED
    BY <2>1, LengthExtended
<1>7. CASE r = "memory" /\ a.cpu = "armhf"
  <2>1. m = [l EXCEPT !.ianum = 1, !.args = Put(l.args, 0, word)]
    BY <1>7 DEF av_start, HasIargs, SpecialRegister, CountsArguments,
           MipsWide, SysV, S390, Arm64
  <2>2. /\ IsList(m) /\ m.args = Put(<<>>, 0, word) /\ m.end = end /\ m.aptr = l.aptr
        /\ m.eptr = l.eptr /\ m.anum = l.anum /\ m.ianum = 1 /\ m.iargs = l.iargs
        /\ m.fanum = l.fanum /\ m.fregs = l.fregs /\ m.fmask = l.fmask
        /\ m.dmask = l.dmask
    <3> HIDE DEF l, word, m, end
    <3> QED
      BY <1>1, <2>1 DEF IsList
  <2> HIDE DEF m, l, word
  <2>3. RegInv(a, m) /\ (m.end >= m.aptr => SpaceInv(a, m))
    BY <1>1, <1>6, <1>7, <2>2, FirstWordInv
  <2> HIDE DEF end
  <2> QED
    BY <1>1, <1>7, <2>2, <2>3
<1>8. CASE r = "memory" /\ a.cpu \in HasIargs \ SpecialRegister
  <2>1. a.cpu \in SysV \cup S390 \cup {"powerpc_sysv4"}
    BY <1>8 DEF HasIargs, SpecialRegister
  <2>2. m = InIarg(a, l, word).list
    BY <1>8, <2>1 DEF av_start, HasIargs, SpecialRegister, CountsArguments,
           MipsWide, SysV, S390, Arm64
  <2> DEFINE t == [kind |-> "int"]
  <2>3. /\ Len(word) \in Nat /\ Len(word) <= R(a) /\ l.ianum < IargNum(a)
        /\ a.cpu # "arm64_apple" /\ a.cpu # "hppa" /\ a.cpu # "armhf"
    <3>1. a.cpu # "arm64_apple" /\ a.cpu # "hppa" /\ a.cpu # "armhf"
      BY <2>1 DEF SysV, S390
    <3>2. IargNum(a) > 0
      BY <2>1, RegisterCounts
    <3>3. W(a) \in {4, 8} /\ R(a) \in {4, 8} /\ W(a) <= R(a)
      BY WordSizes
    <3> HIDE DEF word, l
    <3> QED
      BY <1>1, <1>6, <3>1, <3>2, <3>3
  <2> HIDE DEF word, t
  <2>4. Good(a, l, t, InIarg(a, l, word))
    <3> HIDE DEF l
    <3> QED
      BY <1>3, <2>3, InIargGood
  <2>5. InIarg(a, l, word).res = 0 /\ m.aptr = l.aptr /\ m.fanum = l.fanum
    <3> HIDE DEF l
    <3> QED
      BY <1>1, <2>2 DEF InIarg, Done, IsList
  <2>6. ~Overruns(a, l, t)
    <3>1. l.aptr = 0 /\ l.eptr = end
      BY <1>1, <2>3
    <3>2. ~(l.eptr - l.aptr \in 1..7)
      BY <3>1, <1>2
    <3> QED
      BY <2>3, <3>2 DEF Overruns
  <2> HIDE DEF l, m, end, Enough
  <2>7. RegInv(a, m) /\ (Enough => SpaceInv(a, m))
    BY <1>3, <2>2, <2>4, <2>5, <2>6 DEF Good
  <2> QED
    BY <2>7
<1>9. CASE /\ r = "memory" /\ a.cpu \notin SpecialRegister /\ a.cpu # "armhf"
           /\ a.cpu \notin HasIargs
  <2>1. \E k \in {0, 1} : m = [l EXCEPT !.aptr = W(a), !.args = Put(l.args, 0, word),
                                        !.anum = k]
    <3>1. CASE a.cpu \in CountsArguments
      BY <1>9, <3>1 DEF av_start, HasIargs, SpecialRegister, CountsArguments,
             MipsWide, SysV, S390, Arm64
    <3>2. CASE a.cpu \notin CountsArguments
      <4>1. m = [l EXCEPT !.aptr = W(a), !.args = Put(l.args, 0, word)]
        BY <1>9, <3>2 DEF av_start, HasIargs, SpecialRegister, CountsArguments,
               MipsWide, SysV, S390, Arm64
      <4>2. l.anum = 0 /\ IsList(l)
        BY <1>1
      <4> HIDE DEF l, word, m
      <4>3. [l EXCEPT !.aptr = W(a), !.args = Put(l.args, 0, word)]
              = [l EXCEPT !.aptr = W(a), !.args = Put(l.args, 0, word), !.anum = 0]
        BY <4>2 DEF IsList
      <4> QED
        BY <4>1, <4>3
    <3> QED
      BY <3>1, <3>2
  <2>2. PICK k \in {0, 1} : m = [l EXCEPT !.aptr = W(a), !.args = Put(l.args, 0, word),
                                          !.anum = k]
    BY <2>1
  <2>3. a.cpu # "arm64_apple" /\ a.cpu # "hppa" /\ a.cpu \notin SysV
    BY <1>9 DEF SpecialRegister, HasIargs, Arm64
  <2>4. /\ IsList(m) /\ m.args = Put(<<>>, 0, word) /\ m.end = end /\ m.aptr = W(a)
        /\ m.eptr = l.eptr /\ m.anum = k /\ m.ianum = l.ianum /\ m.iargs = l.iargs
        /\ m.fanum = l.fanum /\ m.fregs = l.fregs /\ m.fmask = l.fmask
        /\ m.dmask = l.dmask
    <3> HIDE DEF l, word, m, end
    <3> QED
      BY <1>1, <2>2 DEF IsList
  <2>5. m.eptr = end /\ m.anum \in Nat /\ m.ianum = 0 /\ m.iargs = <<>> /\ m.fanum = 0
        /\ m.fregs = <<>> /\ m.fmask = {} /\ m.dmask = {}
    <3> HIDE DEF l, word, m, end
    <3> QED
      BY <1>1, <2>3, <2>4
  <2> HIDE DEF m, l, word
  <2>6. RegInv(a, m) /\ (m.end >= m.aptr => SpaceInv(a, m))
    BY <1>6, <1>9, <2>3, <2>4, <2>5, FirstWordInv
  <2> HIDE DEF end
  <2> QED
    BY <1>2, <1>6, <1>9, <2>3, <2>4, <2>6
<1>10. r # "memory" \/ a.cpu \in SpecialRegister => m = l
  BY DEF av_start, HasIargs, SpecialRegister, CountsArguments,
         MipsWide, SysV, S390, Arm64
<1> QED
  BY <1>5, <1>7, <1>8, <1>9, <1>10


(* What l has been filled with is still there in m.                        *)
Since(a, l, m) == Kept(l, m) /\ Grown(a, l, m)

LEMMA SinceReflexive ==
  ASSUME NEW a, a.cpu \in Cpus, NEW l, RegInv(a, l)
  PROVE  Since(a, l, l)
BY ListTypes DEF Since, Kept, Grown

LEMMA SinceTransitive ==
  ASSUME NEW a, a.cpu \in Cpus, NEW k, NEW l, NEW m, RegInv(a, k), RegInv(a, l),
         RegInv(a, m), Since(a, k, l), Since(a, l, m)
  PROVE  Since(a, k, m)
<1>1. /\ k.ianum \in Nat /\ l.ianum \in Nat /\ m.ianum \in Nat
      /\ k.aptr \in Int /\ l.aptr \in Int /\ m.aptr \in Int
      /\ k.ianum <= l.ianum /\ l.ianum <= m.ianum
      /\ a.cpu # "hppa" => k.aptr <= l.aptr /\ l.aptr <= m.aptr
  BY ListTypes DEF Since, Grown
<1>2. \A x \in DOMAIN k.iargs : x \in Int
  BY WordSizes DEF RegInv, Contents
<1>3. \A x \in Int : x < R(a) * k.ianum => x < R(a) * l.ianum
  <2>1. R(a) = 4 \/ R(a) = 8
    BY WordSizes
  <2>2. CASE R(a) = 4
    BY <1>1, <2>2
  <2>3. CASE R(a) = 8
    BY <1>1, <2>3
  <2> QED
    BY <2>1, <2>2, <2>3
<1>4. \A x \in DOMAIN k.iargs :
        x < R(a) * k.ianum => x \in DOMAIN m.iargs /\ m.iargs[x] = k.iargs[x]
  BY <1>2, <1>3 DEF Since, Grown
<1>5. Kept(k, m)
  BY DEF Since, Kept
<1> QED
  BY <1>1, <1>4, <1>5 DEF Since, Grown

-----------------------------------------------------------------------------
(* The inductive invariant.                                                *)

IsSequence(s) == s \in Seq({s[k] : k \in DOMAIN s})
StoredInside(l) == \A x \in DOMAIN l.args : x \in Int /\ 0 <= x /\ x < l.end

(* While the caller pushes, the list is in order, unless Overruns held of  *)
(* a push.  A push that failed may leave aptr beyond eptr, by a struct     *)
(* passed by reference; then nothing more is stored.                       *)
IInv ==
  /\ abi \in ABIs
  /\ phase \in {"build", "full", "called", "running", "returned"}
  /\ more \in Nat /\ first \in Seq(CTypes(abi))
  /\ IsSequence(args) /\ IsSequence(received) /\ Len(received) <= Len(args)
  /\ disputed \subseteq 0..Len(args)
  /\ RegInv(abi, list)
  /\ 0 \notin disputed => /\ phase = "build" => SpaceInv(abi, list)
                          /\ StoredInside(list)

LEMMA AnySequence ==
  ASSUME NEW S, NEW s \in Seq(S)
  PROVE  IsSequence(s) /\ Len(s) \in Nat
<1>1. Len(s) \in Nat /\ DOMAIN s = 1..Len(s) /\ s = [k \in 1..Len(s) |-> s[k]]
  BY LenProperties
<1>2. s \in Seq({s[k] : k \in 1..Len(s)})
  BY <1>1, FiniteSequence
<1> QED
  BY <1>1, <1>2 DEF IsSequence

LEMMA LongerSequence ==
  ASSUME NEW s, IsSequence(s), NEW e
  PROVE  /\ Len(s) \in Nat /\ IsSequence(Append(s, e))
         /\ Len(Append(s, e)) = Len(s) + 1
<1> DEFINE S == {s[k] : k \in DOMAIN s}
           T == S \cup {e}
<1>1. s \in Seq(S)
  BY DEF IsSequence
<1> HIDE DEF S
<1>2. s \in Seq(T) /\ e \in T
  BY <1>1, SeqDef
<1> HIDE DEF T
<1>3. /\ Append(s, e) \in Seq(T)
      /\ Len(Append(s, e)) = Len(s) + 1
  BY <1>2, AppendProperties
<1> QED
  BY <1>1, <1>3, AnySequence

LEMMA InitInv == Init => IInv
<1> SUFFICES ASSUME Init PROVE IInv
  OBVIOUS
<1>1. abi \in ABIs /\ abi.cpu \in Cpus
  BY ABIsAssumption DEF Init, ABISet
<1>2. PICK c \in Calls(abi) :
        /\ first = c.first /\ more = c.more
        /\ list = av_start(abi, c.words, AvKind(abi, c.ret))
  BY DEF Init
<1>3. RegInv(abi, list) /\ SpaceInv(abi, list)
  <2> DEFINE kind  == AvKind(abi, c.ret)
             words == c.words
  <2>1. /\ Room(W(abi) * words)
        /\ W(abi) * words >= (IF abi.cpu = "armhf" THEN 16 ELSE 8)
    <3>1. /\ words \in Nat /\ (W(abi) * words) % 8 = 0
          /\ W(abi) * words >= (IF abi.cpu = "armhf" THEN 16 ELSE 8)
      BY <1>1, CallsAssumption
    <3>2. W(abi) \in {4, 8}
      BY <1>1, WordSizes
    <3> HIDE DEF words
    <3> QED
      BY <3>1, <3>2 DEF Room
  <2>2. list = av_start(abi, words, kind)
    BY <1>2
  <2> HIDE DEF kind, words
  <2> QED
    BY <1>1, <2>1, <2>2, StartGood
<1>4. StoredInside(list)
  BY <1>3 DEF SpaceInv, Stored, StoredInside
<1>5. args = <<>> /\ received = <<>>
  BY DEF Init
<1>6. IsSequence(args) /\ IsSequence(received) /\ Len(received) = 0 /\ Len(args) = 0
  <2>1. args \in Seq({}) /\ received \in Seq({})
    BY <1>5, SeqDef
  <2> QED
    BY <1>5, <2>1, AnySequence
<1>7. disputed \subseteq {0} /\ phase = "build"
  BY DEF Init
<1>8. more \in Nat /\ first \in Seq(CTypes(abi))
  BY <1>1, <1>2, CallsAssumption
<1> QED
  BY <1>1, <1>3, <1>4, <1>6, <1>7, <1>8 DEF IInv

(* What the caller may push next.                                          *)
LEMMA NextIsCType ==
  ASSUME IInv, NEW t \in NextTypes
  PROVE  t \in CTypes(abi) /\ (Len(args) + 1 > Len(first) => more > 0)
<1>1. first \in Seq(CTypes(abi)) /\ Len(first) \in Nat
  BY LenProperties DEF IInv
<1>2. Len(args) \in Nat
  BY LongerSequence DEF IInv
<1>3. CASE Len(args) < Len(first)
  <2>1. Len(args) + 1 \in 1..Len(first)
    BY <1>1, <1>2, <1>3
  <2>2. first[Len(args) + 1] \in CTypes(abi)
    BY <1>1, <2>1, ElementOfSeq
  <2> QED
    BY <1>1, <1>2, <1>3, <2>2 DEF NextTypes
<1>4. CASE ~(Len(args) < Len(first))
  BY <1>4 DEF NextTypes, PushableTypes
<1> QED
  BY <1>3, <1>4


(* A push from the inductive invariant.                                    *)
LEMMA PushStep ==
  ASSUME IInv, NEW t, PushArg(t)
  PROVE  IInv' /\ (0 \notin disputed' => Since(abi, list, list'))
<1> DEFINE i == Len(args) + 1
           r == Push(abi, list, i, t)
<1>1. /\ abi \in ABIs /\ abi.cpu \in Cpus /\ abi' = abi /\ first' = first
      /\ ArgumentType(abi, t) /\ (i > Len(first) => more > 0)
  <2>1. t \in CTypes(abi) /\ (i > Len(first) => more > 0)
    BY NextIsCType DEF PushArg
  <2> QED
    BY <2>1, ABIsAssumption DEF IInv, PushArg, CTypes, ABISet
<1>2. RegInv(abi, list)
  BY DEF IInv
<1>3. Good(abi, list, t, r)
  BY <1>1, <1>2, PushGood
<1>4. /\ phase = "build" /\ list' = r.list
      /\ more' = IF i <= Len(first) THEN more ELSE more - 1
      /\ received' = received
      /\ \/ r.res = 0  /\ args' = Append(args, t) /\ phase' = phase
         \/ r.res = -1 /\ args' = args /\ phase' = "full"
      /\ disputed' = disputed \cup
                     {k \in {0, i} : /\ r.res = 0
                                     /\ k = 0 => Overruns(abi, list, t)
                                     /\ k = i => Disputed(abi, list, t)}
  BY DEF PushArg
<1>5. /\ IsSequence(args) /\ IsSequence(received) /\ Len(args) \in Nat
      /\ Len(received) \in Nat
      /\ IsSequence(Append(args, t)) /\ Len(Append(args, t)) = i
  BY LongerSequence DEF IInv
<1>6. i = Len(args) + 1
  OBVIOUS
<1> HIDE DEF r, i
<1>7. /\ disputed \subseteq disputed' /\ disputed' \subseteq disputed \cup {0, i}
      /\ r.res # 0 => disputed' = disputed
      /\ r.res = 0 /\ Overruns(abi, list, t) => 0 \in disputed'
  BY <1>4, <1>5, <1>6
<1>8. /\ IsSequence(args') /\ IsSequence(received') /\ Len(received') <= Len(args')
      /\ disputed' \subseteq 0..Len(args')
  <2>1. Len(received) <= Len(args) /\ disputed \subseteq 0..Len(args)
    BY DEF IInv
  <2>2. CASE r.res = 0
    <3>1. args' = Append(args, t)
      BY <1>4, <2>2
    <3>2. Len(args') = i
      BY <1>5, <3>1
    <3>3. disputed' \subseteq 0..i
      BY <1>5, <1>6, <1>7, <2>1
    <3>4. IsSequence(args') /\ IsSequence(received') /\ Len(received') <= i
      BY <1>4, <1>5, <1>6, <2>1, <3>1
    <3> QED
      BY <3>2, <3>3, <3>4
  <2>3. CASE r.res # 0
    <3>1. args' = args /\ disputed' = disputed
      BY <1>4, <1>7, <2>3
    <3> QED
      BY <1>4, <1>5, <2>1, <3>1
  <2> QED
    BY <2>2, <2>3
<1>9. ASSUME 0 \notin disputed'
      PROVE  /\ SpaceInv(abi, list)
             /\ IF r.res = 0 THEN SpaceInv(abi, r.list) /\ Kept(list, r.list)
                             ELSE r.list.args = list.args
             /\ r.list.end = list.end
  <2>1. 0 \notin disputed /\ ~(r.res = 0 /\ Overruns(abi, list, t))
    BY <1>7, <1>9
  <2>2. SpaceInv(abi, list)
    BY <1>4, <2>1 DEF IInv
  <2> QED
    BY <1>3, <2>1, <2>2 DEF Good
<1>10. ASSUME 0 \notin disputed'
       PROVE  /\ phase' = "build" => SpaceInv(abi, list')
              /\ StoredInside(list')
              /\ Since(abi, list, list')
  <2> Grown(abi, list, list')
    BY <1>3, <1>4 DEF Good
  <2>1. CASE r.res = 0
    <3>1. SpaceInv(abi, list') /\ Kept(list, list')
      BY <1>4, <1>9, <1>10, <2>1
    <3> QED
      BY <3>1 DEF SpaceInv, Stored, StoredInside, Since
  <2>2. CASE r.res # 0
    <3>1. phase' = "full" /\ list'.args = list.args /\ list'.end = list.end
      BY <1>4, <1>9, <1>10, <2>2
    <3>2. SpaceInv(abi, list)
      BY <1>9, <1>10
    <3> QED
      BY <3>1, <3>2 DEF SpaceInv, Stored, StoredInside, Since, Kept
  <2> QED
    BY <2>1, <2>2
<1>11. RegInv(abi, list')
  BY <1>3, <1>4 DEF Good
<1>12. /\ more' \in Nat /\ first' \in Seq(CTypes(abi'))
       /\ phase' \in {"build", "full", "called", "running", "returned"}
  <2>1. Len(first) \in Nat
    BY LenProperties DEF IInv
  <2> QED
    BY <1>1, <1>4, <1>5, <1>6, <2>1 DEF IInv
<1> QED
  BY <1>1, <1>8, <1>10, <1>11, <1>12 DEF IInv

(* Everything else leaves the list alone.                                  *)
LEMMA OtherStep ==
  ASSUME IInv, Call \/ Start \/ Fetch \/ Return \/ UNCHANGED vars
  PROVE  IInv' /\ list' = list
<1>1. /\ abi' = abi /\ list' = list /\ args' = args /\ more' = more
      /\ first' = first /\ disputed' = disputed
  BY DEF Call, Start, Fetch, Return, vars
<1>2. phase' \in {"build", "full", "called", "running", "returned"}
  BY DEF Call, Start, Fetch, Return, vars, IInv
<1>3. phase' = "build" => phase = "build"
  BY DEF Call, Start, Fetch, Return, vars
<1>4. IsSequence(received') /\ Len(received') <= Len(args)
  <2>1. IsSequence(received) /\ Len(received) <= Len(args)
    BY DEF IInv
  <2>2. CASE received' = received
    BY <2>1, <2>2
  <2>3. CASE Fetch
    <3> DEFINE e == VA!va_arg(abi, va, args[Len(received) + 1]).value
    <3>1. received' = Append(received, e) /\ Len(received) + 1 <= Len(args)
      BY <2>3 DEF Fetch
    <3> HIDE DEF e
    <3> QED
      BY <2>1, <3>1, LongerSequence
  <2> QED
    BY <2>2, <2>3 DEF Call, Start, Return, vars
<1> QED
  BY <1>1, <1>2, <1>3, <1>4 DEF IInv

LEMMA StepInv ==
  ASSUME IInv, [Next]_vars
  PROVE  /\ IInv'
         /\ 0 \notin disputed' =>
              \A x \in DOMAIN list.args : list'.args[x] = list.args[x]
BY PushStep, OtherStep DEF Next, Since, Kept

(* IInv holds whatever the caller pushes, in whatever order, and whether   *)
(* or not it goes on after a push that failed.                             *)
THEOREM Invariance == Spec => []IInv
<1>1. Init => IInv
  BY InitInv
<1>2. IInv /\ [Next]_vars => IInv'
  BY StepInv
<1> QED
  BY <1>1, <1>2, PTL DEF Spec

LEMMA TypesFromInv == IInv => TypeOK
<1> SUFFICES ASSUME IInv PROVE TypeOK
  OBVIOUS
<1>1. abi \in ABIs /\ abi.cpu \in Cpus
  BY ABIsAssumption DEF IInv, ABISet
<1>2. list.end = W(abi) * (list.end \div W(abi))
  <2>1. list.end \in Int /\ list.end % 8 = 0
    BY DEF IInv, RegInv, Pointers
  <2>2. W(abi) = 4 \/ W(abi) = 8
    BY <1>1, WordSizes
  <2>3. CASE W(abi) = 4
    BY <2>1, <2>3
  <2>4. CASE W(abi) = 8
    BY <2>1, <2>4
  <2> QED
    BY <2>2, <2>3, <2>4
<1>3. /\ list.ianum \in 0..IargNum(abi) /\ list.fanum \in 0..FargNum(abi)
      /\ DOMAIN list.iargs \subseteq 0..(R(abi) * IargNum(abi) - 1)
      /\ DOMAIN list.fregs \subseteq 0..(FargNum(abi) - 1)
      /\ list.fmask \cup list.dmask \subseteq 0..15
  BY DEF IInv, RegInv, Registers, Contents
<1> QED
  BY <1>1, <1>2, <1>3 DEF IInv, TypeOK

(* The counts of arguments and registers, and the register words that have *)
(* been stored, stay within what each CPU has, as does all else.           *)
THEOREM TypeCorrectness == Spec => []TypeOK
<1>1. IInv => TypeOK
  BY TypesFromInv
<1> QED
  BY <1>1, Invariance, PTL

(* No av_<type> stores outside the array of the av_alist, neither an       *)
(* argument nor the copy of a struct, on any CPU: a push that has no room  *)
(* returns -1 instead.  But for the pushes of which Overruns holds.        *)
THEOREM ArgumentsStoredInside == Spec => []StoresInside
<1>1. IInv => StoresInside
  BY DEF IInv, StoredInside, StoresInside
<1> QED
  BY <1>1, Invariance, PTL

(* No av_<type> stores over an argument or a copy of an earlier one, and   *)
(* neither av_call nor the function called changes the list.               *)
THEOREM PushesKeepArguments == Spec => PushedKept
<1>1. IInv /\ [Next]_vars =>
        [0 \notin disputed' =>
           \A x \in DOMAIN list.args : list'.args[x] = list.args[x]]_vars
  BY StepInv
<1> QED
  BY <1>1, Invariance, PTL DEF Spec, PushedKept

=============================================================================
