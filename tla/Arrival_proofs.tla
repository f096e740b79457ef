--------------------------- MODULE Arrival_proofs ---------------------------
EXTENDS Fetch_proofs

(***************************************************************************)
(* ArgPassing: the arguments arrive, for any number of arguments of any    *)
(* types, on the CPUs of FetchedCpus.                                      *)
(*                                                                         *)
(* Fetch_proofs has the scalars.  Here are the structs (StructArrives), on *)
(* the stack, in registers or as a pointer to a copy; that a push takes no *)
(* mark from a register and gives none that an earlier fetch would heed    *)
(* (Marks); that av_call and the receiver hand over the list (CallSees);   *)
(* and the invariant AInv, from which ArgumentsArrive follows.             *)
(***************************************************************************)
-----------------------------------------------------------------------------
(* The registers that are marked, from one push to the next.               *)
MarksDoubles == MipsWide \cup {"sparc64"}

(* From the list l to a later one m: the floating-point registers that     *)
(* were taken keep what they hold, and those taken since have places of    *)
(* later arguments, so that no later push changes what a fetch finds.      *)
Marks(a, l, m) ==
  /\ Pos(a, l) \in Int /\ Pos(a, m) \in Int /\ Pos(a, l) <= Pos(a, m)
  /\ \A k \in DOMAIN l.fregs : k \in DOMAIN m.fregs /\ m.fregs[k] = l.fregs[k]
  /\ \A k \in DOMAIN m.fregs \ DOMAIN l.fregs : Pos(a, l) <= k /\ k < Pos(a, m)
  /\ m.fmask = l.fmask /\ l.dmask \subseteq m.dmask
  /\ \A k \in m.dmask \ l.dmask : Pos(a, l) <= k /\ k < Pos(a, m)
  /\ a.cpu \notin MarksDoubles => m.dmask = l.dmask

LEMMA MarksInv ==
  ASSUME NEW a, NEW l, RegInv(a, l), MarkInv(a, l), NEW m, RegInv(a, m), Marks(a, l, m)
  PROVE  MarkInv(a, m)
<1>1. \A k \in DOMAIN l.fregs \cup l.fmask \cup l.dmask : k \in Int
  BY WordSizes DEF RegInv, Contents
<1>2. \A k \in DOMAIN m.fregs \cup m.fmask \cup m.dmask : k \in Int
  BY WordSizes DEF RegInv, Contents
<1> DEFINE x == Pos(a, l)
           y == Pos(a, m)
<1>3. x \in Int /\ y \in Int /\ x <= y
  BY DEF Marks
<1>4. \A k \in DOMAIN l.fregs \cup l.fmask \cup l.dmask : k < x
  BY DEF MarkInv
<1>5. \A k \in DOMAIN m.fregs \ DOMAIN l.fregs : k < y
  BY DEF Marks
<1>6. \A k \in m.dmask \ l.dmask : k < y
  BY DEF Marks
<1>7. m.fmask = l.fmask
  BY DEF Marks
<1> HIDE DEF x, y
<1>8. \A k \in DOMAIN m.fregs \cup m.fmask \cup m.dmask : k < y
  BY <1>1, <1>2, <1>3, <1>4, <1>5, <1>6, <1>7
<1> QED
  BY <1>8 DEF MarkInv, y

LEMMA MarksTransitive ==
  ASSUME NEW a, NEW l, NEW m, NEW q, RegInv(a, q), RegInv(a, m), Marks(a, l, m), Marks(a, m, q)
  PROVE  Marks(a, l, q)
<1> DEFINE x == Pos(a, l)
           y == Pos(a, m)
           z == Pos(a, q)
<1>1. \A k \in DOMAIN q.fregs \cup q.dmask \cup DOMAIN m.fregs \cup m.dmask : k \in Int
  BY WordSizes DEF RegInv, Contents
<1>2. x \in Int /\ y \in Int /\ z \in Int /\ x <= y /\ y <= z
  BY DEF Marks
<1>3. /\ \A k \in DOMAIN m.fregs \ DOMAIN l.fregs : x <= k /\ k < y
      /\ \A k \in m.dmask \ l.dmask : x <= k /\ k < y
      /\ \A k \in DOMAIN q.fregs \ DOMAIN m.fregs : y <= k /\ k < z
      /\ \A k \in q.dmask \ m.dmask : y <= k /\ k < z
  BY DEF Marks
<1> HIDE DEF x, y, z
<1>4. \A k \in DOMAIN q.fregs \ DOMAIN l.fregs : x <= k /\ k < z
  BY <1>1, <1>2, <1>3
<1>5. \A k \in q.dmask \ l.dmask : x <= k /\ k < z
  BY <1>1, <1>2, <1>3
<1>6. x \in Int /\ z \in Int /\ x <= z
  BY <1>2
<1>7. /\ \A k \in DOMAIN l.fregs : k \in DOMAIN q.fregs /\ q.fregs[k] = l.fregs[k]
      /\ q.fmask = l.fmask /\ l.dmask \subseteq q.dmask
      /\ a.cpu \notin MarksDoubles => q.dmask = l.dmask
  BY DEF Marks
<1> QED
  BY <1>4, <1>5, <1>6, <1>7 DEF Marks, x, z

(* Nothing is marked.                                                      *)
Unmarking(l, m) ==
  /\ m.fregs = l.fregs /\ m.fmask = l.fmask /\ m.dmask = l.dmask
  /\ m.fanum = l.fanum /\ m.anum = l.anum

Keeps(l, r) == IsResult(r) /\ r.res \in {0, -1} /\ Unmarking(l, r.list)

FetchedPos(a) == a.cpu \notin {"hppa", "hppa64"}

LEMMA PosTypes ==
  ASSUME NEW a, a.cpu \in Cpus, FetchedPos(a), NEW l, RegInv(a, l)
  PROVE  Pos(a, l) \in Int /\ Pos(a, l) = IF a.cpu \in CountsPlaces THEN l.anum ELSE l.fanum
BY ListTypes DEF FetchedPos, Pos

LEMMA UnmarkingMarks ==
  ASSUME NEW a, a.cpu \in Cpus, FetchedPos(a), NEW l, RegInv(a, l), NEW m, RegInv(a, m),
         m.fregs = l.fregs, m.fmask = l.fmask, m.dmask = l.dmask,
         m.fanum = l.fanum, l.anum <= m.anum
  PROVE  Marks(a, l, m)
<1>1. Pos(a, l) \in Int /\ Pos(a, m) \in Int /\ Pos(a, l) <= Pos(a, m)
  BY PosTypes, ListTypes
<1> QED
  BY <1>1 DEF Marks

LEMMA KeepsMarks ==
  ASSUME NEW a, a.cpu \in Cpus, FetchedPos(a), NEW l, RegInv(a, l),
         NEW s, Keeps(l, s), NEW r, r = s \/ r = Counted(s), RegInv(a, r.list)
  PROVE  Marks(a, l, r.list)
<1>1. l.anum \in Nat
  BY ListTypes
<1>2. CASE r = s
  BY <1>1, <1>2, UnmarkingMarks DEF Keeps, Unmarking
<1>3. CASE r = Counted(s)
  <2>1. CASE s.res = 0
    <3>1. /\ r.list.fregs = l.fregs /\ r.list.fmask = l.fmask /\ r.list.dmask = l.dmask
          /\ r.list.fanum = l.fanum /\ r.list.anum = l.anum + 1
      BY <1>3, <2>1, CountedEffect DEF Keeps, Unmarking
    <3>2. l.anum <= r.list.anum
      BY <1>1, <3>1
    <3> QED
      BY <3>1, <3>2, UnmarkingMarks
  <2>2. CASE s.res # 0
    <3>1. r = s
      BY <1>3, <2>2 DEF Counted
    <3> QED
      BY <1>1, <3>1, UnmarkingMarks DEF Keeps, Unmarking
  <2> QED
    BY <2>1, <2>2
<1> QED
  BY <1>2, <1>3

LEMMA BasicKeeps ==
  ASSUME NEW l, NEW k, IsList(k), Unmarking(l, k)
  PROVE  /\ Keeps(l, Fail(k))
         /\ \A next, at, bytes : Keeps(l, Stacked(k, next, at, bytes))
         /\ \A end, bytes : Keeps(l, Embed(k, end, bytes))
         /\ \A size, at, bytes : Keeps(l, Slot(k, size, at, bytes))
<1>1. Keeps(l, Fail(k))
  BY DEF Keeps, Fail, IsResult
<1>2. ASSUME NEW next, NEW at, NEW bytes PROVE Keeps(l, Stacked(k, next, at, bytes))
  <2> DEFINE r == Stacked(k, next, at, bytes)
  <2>1. r = Stacked(k, next, at, bytes)
    OBVIOUS
  <2> HIDE DEF r
  <2>2. /\ IsResult(r) /\ r.res = 0 /\ r.list.anum = k.anum /\ r.list.fanum = k.fanum
        /\ r.list.fregs = k.fregs /\ r.list.fmask = k.fmask /\ r.list.dmask = k.dmask
    BY <2>1, StackedList
  <2>3. Keeps(l, r)
    BY <2>2 DEF Keeps, Unmarking
  <2> QED
    BY <2>3 DEF r
<1> QED
  BY <1>1, <1>2 DEF Embed, Slot

LEMMA InIargsKeep ==
  ASSUME NEW a, NEW l, NEW k, IsList(k), Unmarking(l, k)
  PROVE  /\ \A bytes : Keeps(l, InIarg(a, k, bytes))
         /\ \A n, bytes : Keeps(l, InIargsUpTo(a, k, n, bytes))
         /\ \A n, x : Keeps(l, Done([k EXCEPT !.ianum = n, !.iargs = x]))
<1>1. ASSUME NEW n, NEW x PROVE Keeps(l, Done([k EXCEPT !.ianum = n, !.iargs = x]))
  BY DEF Keeps, Unmarking, Done, IsResult, IsList
<1>2. ASSUME NEW bytes PROVE Keeps(l, InIarg(a, k, bytes))
  <2> DEFINE x == Put(k.iargs, R(a) * k.ianum, bytes)
             n == k.ianum + 1
  <2>1. InIarg(a, k, bytes) = Done([k EXCEPT !.ianum = n, !.iargs = x])
    BY DEF InIarg
  <2> HIDE DEF n, x
  <2> QED
    BY <1>1, <2>1
<1>3. ASSUME NEW n, NEW bytes PROVE Keeps(l, InIargsUpTo(a, k, n, bytes))
  <2> DEFINE x == Put(k.iargs, R(a) * n - Len(bytes), bytes)
  <2>1. InIargsUpTo(a, k, n, bytes) = Done([k EXCEPT !.ianum = n, !.iargs = x])
    BY DEF InIargsUpTo
  <2> HIDE DEF x
  <2> QED
    BY <1>1, <2>1
<1> QED
  BY <1>1, <1>2, <1>3

LEMMA NoMoreKeeps ==
  ASSUME NEW a, NEW l, NEW r, Keeps(l, r)
  PROVE  Keeps(l, NoMoreIargs(a, r))
BY DEF Keeps, Unmarking, NoMoreIargs, IsResult, IsList

LEMMA AdjustedKeep ==
  ASSUME NEW a, NEW l, NEW k, IsList(k), Unmarking(l, k)
  PROVE  /\ \A from, own, al : Keeps(l, LeftAdjusted(a, k, from, own, al))
         /\ \A from, own, al : Keeps(l, RightAdjusted(a, k, from, own, al))
BY BasicKeeps DEF LeftAdjusted, RightAdjusted

LEMMA OldGccKeeps ==
  ASSUME NEW l, IsList(l), NEW own, NEW al
  PROVE  Keeps(l, OldGccStruct(l, own, al))
<1> DEFINE end == AlignUp(l.aptr + Len(own), al)
           odd == Len(own) > 8 /\ (end \div 8) % 2 = 1
           to  == IF odd THEN end + 8 ELSE end
           k   == [l EXCEPT !.aptr = to]
<1>1. \/ OldGccStruct(l, own, al) = Fail(k)
      \/ \E next, at, bytes : OldGccStruct(l, own, al) = Stacked(k, next, at, bytes)
  BY DEF OldGccStruct
<1> HIDE DEF to
<1>2. IsList(k) /\ Unmarking(l, k)
  BY DEF IsList, Unmarking
<1> HIDE DEF k
<1> QED
  BY <1>1, <1>2, BasicKeeps

LEMMA ByCopyKeeps ==
  ASSUME NEW a, a.cpu \in Cpus, NEW l, RegInv(a, l), NEW own, Len(own) \in Nat
  PROVE  Keeps(l, ByCopy(a, l, own))
<1> DEFINE copy  == l.eptr - AlignUp(Len(own), 8)
           inReg == a.cpu \in HasIargs /\ l.ianum < IargNum(a)
           to    == IF inReg THEN l.aptr ELSE l.aptr + P(a)
           l1    == [l EXCEPT !.eptr = copy, !.aptr = to]
           mem   == Put(l1.args, copy, own)
           l2    == [l1 EXCEPT !.args = mem]
           mem2  == Put(l2.args, l.aptr, Address(copy, P(a)))
           l3    == [l2 EXCEPT !.args = mem2]
           r     == ByCopy(a, l, own)
<1>1. r = CASE l1.aptr > copy -> Fail(l1)
            [] l1.aptr <= copy /\ inReg -> InIarg(a, l2, Address(copy, R(a)))
            [] l1.aptr <= copy /\ ~inReg -> Done(l3)
  <2>1. /\ l1 = [l EXCEPT !.eptr = copy, !.aptr = IF inReg THEN @ ELSE @ + P(a)]
        /\ l2 = [l1 EXCEPT !.args = Put(@, copy, own)]
        /\ l3 = [l2 EXCEPT !.args = Put(@, l.aptr, Address(copy, P(a)))]
    BY DEF RegInv, IsList
  <2> QED
    BY <2>1 DEF ByCopy
<1>0. IsList(l) /\ copy \in Int /\ to \in Int
  <2>1. IsList(l) /\ l.eptr \in Int /\ l.aptr \in Int /\ P(a) \in Int
    <3>1. IsList(l)
      BY DEF RegInv
    <3>2. l.eptr \in Int /\ l.aptr \in Int
      BY ListTypes
    <3>3. P(a) \in {4, 8}
      BY WordSizes
    <3> QED
      BY <3>1, <3>2, <3>3
  <2>2. AlignUp(Len(own), 8) \in Int
    BY DEF AlignUp
  <2> QED
    BY <2>1, <2>2
<1> HIDE DEF copy, inReg, to, mem, r
<1>2. IsList(l1) /\ Unmarking(l, l1) /\ IsList(l2) /\ Unmarking(l, l2) /\ l1.aptr = to
  BY <1>0 DEF IsList, Unmarking
<1> HIDE DEF l1, mem2
<1>3. IsList(l3) /\ Unmarking(l, l3)
  BY <1>2 DEF IsList, Unmarking
<1> HIDE DEF l2, l3
<1>4. Keeps(l, Fail(l1)) /\ Keeps(l, InIarg(a, l2, Address(copy, R(a)))) /\ Keeps(l, Done(l3))
  BY <1>2, <1>3, BasicKeeps, InIargsKeep DEF Keeps, Done, IsResult
<1>5. l1.aptr > copy \/ l1.aptr <= copy
  BY <1>0, <1>2
<1>6. Keeps(l, r)
  BY <1>1, <1>4, <1>5
<1> QED
  BY <1>6 DEF r

LEMMA WordKeeps ==
  ASSUME NEW a, a.cpu \in FetchedCpus, NEW l, IsList(l), NEW word
  PROVE  \E s : Keeps(l, s) /\ (av_word(a, l, word) = s \/ av_word(a, l, word) = Counted(s))
<1> DEFINE s == Slot(l, W(a), l.aptr, word)
<1>1. av_word(a, l, word) = s \/ av_word(a, l, word) = Counted(s)
  BY DEF av_word, FetchedCpus, Cpus, Cpus32, LongIs64
<1>2. Keeps(l, s)
  BY BasicKeeps DEF Unmarking
<1> HIDE DEF s
<1> QED
  BY <1>1, <1>2

LEMMA IntKeeps ==
  ASSUME NEW a, a.cpu \in FetchedCpus, NEW l, IsList(l), NEW own
  PROVE  \E s : Keeps(l, s) /\ (av_int(a, l, own) = s \/ av_int(a, l, own) = Counted(s))
<1> DEFINE x == Extended(a, own, R(a))
           y == Extended(a, own, W(a))
<1>1. av_int(a, l, own) = InIarg(a, l, x) \/ av_int(a, l, own) = av_word(a, l, y)
  BY DEF av_int
<1>2. Keeps(l, InIarg(a, l, x))
  BY InIargsKeep DEF Unmarking
<1>3. \E s : Keeps(l, s) /\ (av_word(a, l, y) = s \/ av_word(a, l, y) = Counted(s))
  BY WordKeeps
<1> HIDE DEF x, y
<1> QED
  BY <1>1, <1>2, <1>3

LEMMA LongKeeps ==
  ASSUME NEW a, a.cpu \in FetchedCpus, NEW l, IsList(l), NEW own
  PROVE  \E s : Keeps(l, s) /\ (av_long(a, l, own) = s \/ av_long(a, l, own) = Counted(s))
<1> DEFINE e == Embed(l, l.aptr + 8, own)
<1>1. av_long(a, l, own) = e \/ av_long(a, l, own) = av_int(a, l, own)
  BY DEF av_long
<1>2. Keeps(l, e)
  BY BasicKeeps DEF Unmarking
<1> HIDE DEF e
<1>3. \E s : Keeps(l, s) /\ (av_int(a, l, own) = s \/ av_int(a, l, own) = Counted(s))
  BY IntKeeps
<1> QED
  BY <1>1, <1>2, <1>3

LEMMA LonglongKeeps ==
  ASSUME NEW a, a.cpu \in FetchedCpus, NEW l, IsList(l), NEW own
  PROVE  \E s : Keeps(l, s) /\ (av_longlong(a, l, own) = s \/ av_longlong(a, l, own) = Counted(s))
<1> DEFINE r == av_longlong(a, l, own)
<1>1. CASE a.cpu \in LongIs64 \cup {"mipsn32", "x86_64_ms", "x86_64_x32"}
  <2>1. r = av_long(a, l, own) \/ r = av_word(a, l, own) \/ r = av_int(a, l, own)
    BY <1>1 DEF av_longlong, LongIs64
  <2> HIDE DEF r
  <2>2. /\ \E s : Keeps(l, s) /\ (av_int(a, l, own) = s \/ av_int(a, l, own) = Counted(s))
        /\ \E s : Keeps(l, s) /\ (av_long(a, l, own) = s \/ av_long(a, l, own) = Counted(s))
        /\ \E s : Keeps(l, s) /\ (av_word(a, l, own) = s \/ av_word(a, l, own) = Counted(s))
    BY IntKeeps, LongKeeps, WordKeeps
  <2>3. \E s : Keeps(l, s) /\ (r = s \/ r = Counted(s))
    BY <2>1, <2>2
  <2> QED
    BY <2>3 DEF r
<1>2. CASE a.cpu \in {"i386", "m68k", "powerpc_aix", "sparc", "arm"}
  <2>1. r = Embed(l, l.aptr + 8, own) \/ r = Embed(l, AlignUp(l.aptr + 8, 8), own)
    BY <1>2 DEF av_longlong, LongIs64
  <2> HIDE DEF r
  <2>2. Keeps(l, r)
    BY <2>1, BasicKeeps DEF Unmarking
  <2> QED
    BY <2>2 DEF r
<1>3. CASE a.cpu = "s390"
  <2> DEFINE n == IargNum(a)
             k == [l EXCEPT !.ianum = n]
  <2>1. \/ r = InIargsUpTo(a, l, l.ianum + 2, own)
        \/ r = Embed(k, AlignUp(l.aptr + 8, 4), own)
    BY <1>3 DEF av_longlong, LongIs64
  <2> HIDE DEF r, n
  <2>2. IsList(k) /\ Unmarking(l, k)
    BY DEF IsList, Unmarking
  <2> HIDE DEF k
  <2>3. Keeps(l, r)
    BY <2>1, <2>2, BasicKeeps, InIargsKeep DEF Unmarking
  <2> QED
    BY <2>3 DEF r
<1> QED
  BY <1>1, <1>2, <1>3 DEF FetchedCpus, Cpus, Cpus32, LongIs64, RiscV

(* A struct, but for the words that are marked.                            *)
StructMarked(a, t) == a.cpu \in MipsWide \/ (a.cpu = "sparc64" /\ t.size <= 16)

LEMMA StructKeeps ==
  ASSUME NEW a, a.cpu \in FetchedCpus, NEW l, RegInv(a, l), NEW t, t.size \in Nat, NEW own,
         Len(own) \in Nat, ~StructMarked(a, t)
  PROVE  Keeps(l, av_struct(a, l, own, t))
<1> DEFINE left  == LeftAdjusted(a, l, l.aptr, own, t.align)
           right == RightAdjusted(a, l, l.aptr, own, t.align)
           r     == av_struct(a, l, own, t)
<1>1. IsList(l) /\ Unmarking(l, l) /\ a.cpu \in Cpus
  BY DEF RegInv, Unmarking, FetchedCpus
<1>2. /\ Keeps(l, left) /\ Keeps(l, right) /\ Keeps(l, NoMoreIargs(a, left))
      /\ Keeps(l, ByCopy(a, l, own)) /\ Keeps(l, OldGccStruct(l, own, t.align))
  <2>1. Keeps(l, left) /\ Keeps(l, right)
    BY <1>1, AdjustedKeep
  <2> HIDE DEF left, right
  <2> QED
    BY <1>1, <2>1, NoMoreKeeps, ByCopyKeeps, OldGccKeeps
<1>3. CASE a.cpu \in {"i386", "alpha", "arm", "powerpc_aix", "ia64", "sparc", "sparc64"} \cup PPC64
  <2>1. r \in {left, right, ByCopy(a, l, own), OldGccStruct(l, own, t.align)}
    BY <1>3 DEF av_struct, Arm64, PPC64, MipsWide, S390, RiscV, SysV, StructMarked
  <2> HIDE DEF left, right, r
  <2>2. Keeps(l, r)
    BY <1>2, <2>1
  <2> QED
    BY <2>2 DEF r
<1>4. CASE a.cpu = "m68k"
  <2>1. r = Embed(l, AlignUp(l.aptr + t.size, 4), own)
    BY <1>4 DEF av_struct, Arm64, PPC64, MipsWide, S390, RiscV, SysV
  <2> HIDE DEF r
  <2>2. Keeps(l, r)
    BY <1>1, <2>1, BasicKeeps
  <2> QED
    BY <2>2 DEF r
<1>5. CASE a.cpu \in Arm64
  <2>1. \/ r \in {ByCopy(a, l, own), NoMoreIargs(a, left)}
        \/ r = Done([l EXCEPT !.ianum = l.ianum + StructWords(t, R(a)),
                              !.iargs = Put(l.iargs, R(a) * l.ianum, own)])
    <3>2. r = IF t.size > 16 THEN ByCopy(a, l, own)
              ELSE IF AlignUp(R(a) * l.ianum + t.size, t.align) <= R(a) * IargNum(a)
              THEN Done([l EXCEPT !.ianum = l.ianum + StructWords(t, R(a)),
                                  !.iargs = Put(@, R(a) * l.ianum, own)])
              ELSE NoMoreIargs(a, left)
      BY <1>5 DEF av_struct, Arm64, PPC64, MipsWide, S390, RiscV, SysV
    <3>3. DOMAIN l = DOMAIN l /\ IsList(l)
      BY <1>1
    <3> HIDE DEF r, left
    <3> QED
      BY <3>2, <3>3 DEF IsList
  <2> HIDE DEF left, r
  <2>2. \A n, x : Keeps(l, Done([l EXCEPT !.ianum = n, !.iargs = x]))
    BY <1>1, InIargsKeep
  <2>3. Keeps(l, r)
    BY <1>2, <2>1, <2>2
  <2> QED
    BY <2>3 DEF r
<1>6. CASE a.cpu \in SysV
  <2> DEFINE end == l.aptr + AlignUp(t.size, t.align)
             q == Done([l EXCEPT !.ianum = l.ianum + CeilDiv(t.size, 8),
                                 !.iargs = Put(l.iargs, 8 * l.ianum, own)])
  <2>1. r \in {q, Fail(l), Stacked(l, end, l.aptr, own)}
    BY <1>1, <1>6 DEF av_struct, Arm64, PPC64, MipsWide, S390, RiscV, SysV, IsList
  <2>2. \A n, x : Keeps(l, Done([l EXCEPT !.ianum = n, !.iargs = x]))
    BY <1>1, InIargsKeep
  <2>3. Keeps(l, q)
    BY <2>2
  <2>4. Keeps(l, Fail(l)) /\ Keeps(l, Stacked(l, end, l.aptr, own))
    BY <1>1, BasicKeeps
  <2> HIDE DEF r, q, end
  <2>5. Keeps(l, r)
    BY <2>1, <2>3, <2>4
  <2> QED
    BY <2>5 DEF r
<1>7. CASE a.cpu = "x86_64_ms"
  <2>1. r \in {ByCopy(a, l, own), Fail(l), Stacked(l, l.aptr + 8, l.aptr, own)}
    BY <1>7 DEF av_struct, Arm64, PPC64, MipsWide, S390, RiscV, SysV
  <2>2. Keeps(l, Fail(l)) /\ Keeps(l, Stacked(l, l.aptr + 8, l.aptr, own))
    BY <1>1, BasicKeeps
  <2> HIDE DEF r
  <2>3. Keeps(l, r)
    BY <1>2, <2>1, <2>2
  <2> QED
    BY <2>3 DEF r
<1>8. CASE a.cpu \in S390
  <2>1. r \in {ByCopy(a, l, own), NoMoreIargs(a, left),
               InIargsUpTo(a, l, l.ianum + StructWords(t, R(a)), own)}
    BY <1>8 DEF av_struct, Arm64, PPC64, MipsWide, S390, RiscV, SysV
  <2>2. Keeps(l, InIargsUpTo(a, l, l.ianum + StructWords(t, R(a)), own))
    BY <1>1, InIargsKeep
  <2> HIDE DEF r, left
  <2>3. Keeps(l, r)
    BY <1>2, <2>1, <2>2
  <2> QED
    BY <2>3 DEF r
<1>9. a.cpu \notin MipsWide
  BY DEF StructMarked
<1> QED
  BY <1>3, <1>4, <1>5, <1>6, <1>7, <1>8, <1>9
     DEF FetchedCpus, Cpus, Cpus32, LongIs64, RiscV, PPC64, Arm64, SysV, S390, MipsWide

LEMMA FregMarks ==
  ASSUME NEW a, NEW l, MarkInv(a, l), NEW m, NEW k \in Int, NEW bytes,
         m.fregs = Marked(l.fregs, k, bytes), m.fmask = l.fmask, m.dmask = l.dmask,
         Pos(a, l) \in Int, Pos(a, m) \in Int, Pos(a, l) <= k, k < Pos(a, m)
  PROVE  Marks(a, l, m)
<1> DEFINE x == Pos(a, l)
           y == Pos(a, m)
<1>1. DOMAIN m.fregs = DOMAIN l.fregs \cup {k}
  BY DEF Marked, Override
<1>2. \A j \in DOMAIN l.fregs : j # k => m.fregs[j] = l.fregs[j]
  BY DEF Marked, Override
<1>3. \A j \in DOMAIN l.fregs : j < x
  BY DEF MarkInv
<1>4. x \in Int /\ y \in Int /\ x <= k /\ k < y
  OBVIOUS
<1> HIDE DEF x, y
<1>5. k \notin DOMAIN l.fregs
  BY <1>3, <1>4
<1>6. /\ \A j \in DOMAIN l.fregs : j \in DOMAIN m.fregs /\ m.fregs[j] = l.fregs[j]
      /\ \A j \in DOMAIN m.fregs \ DOMAIN l.fregs : x <= j /\ j < y
  BY <1>1, <1>2, <1>4, <1>5
<1>7. x <= y
  BY <1>4
<1> QED
  BY <1>4, <1>6, <1>7 DEF Marks, x, y

LEMMA DoubleMarks ==
  ASSUME NEW a, a.cpu \in MarksDoubles, NEW l, NEW m, NEW k \in Int,
         m.fregs = l.fregs, m.fmask = l.fmask, m.dmask = l.dmask \cup {k},
         Pos(a, l) \in Int, Pos(a, m) \in Int, Pos(a, l) <= k, k < Pos(a, m)
  PROVE  Marks(a, l, m)
<1> DEFINE x == Pos(a, l)
           y == Pos(a, m)
<1>1. x \in Int /\ y \in Int /\ x <= k /\ k < y
  OBVIOUS
<1> HIDE DEF x, y
<1>2. x <= y /\ \A j \in m.dmask \ l.dmask : x <= j /\ j < y
  BY <1>1
<1> QED
  BY <1>1, <1>2 DEF Marks, x, y

(* The next register.                                                      *)
LEMMA InFregMarks ==
  ASSUME NEW a, a.cpu \in Cpus, FetchedPos(a), a.cpu \notin CountsPlaces, NEW l, RegInv(a, l),
         MarkInv(a, l), NEW k, IsList(k), k.fregs = l.fregs, k.fmask = l.fmask,
         k.dmask = l.dmask, k.fanum = l.fanum, NEW bytes, NEW m, m = InFreg(k, bytes, 1).list,
         RegInv(a, m)
  PROVE  Marks(a, l, m)
<1>1. /\ m.fanum = l.fanum + 1 /\ m.fregs = Marked(l.fregs, l.fanum, bytes)
      /\ m.fmask = l.fmask /\ m.dmask = l.dmask
  BY InFregFields
<1>2. Pos(a, l) = l.fanum /\ Pos(a, m) = m.fanum /\ l.fanum \in Int
  BY PosTypes, ListTypes
<1>3. /\ l.fanum \in Int /\ Pos(a, l) \in Int /\ Pos(a, m) \in Int /\ Pos(a, l) <= l.fanum
      /\ l.fanum < Pos(a, m)
  BY <1>1, <1>2
<1> QED
  BY <1>1, <1>3, FregMarks

LEMMA NextFregMarks ==
  ASSUME NEW a, a.cpu \in Cpus, FetchedPos(a), a.cpu \notin CountsPlaces, NEW l, RegInv(a, l),
         MarkInv(a, l), NEW s, Keeps(l, s), NEW bytes,
         NEW r, r = AlsoNextFreg(a, s, bytes), RegInv(a, r.list)
  PROVE  Marks(a, l, r.list)
<1>1. CASE r = s
  BY <1>1, KeepsMarks
<1>2. CASE r = [s EXCEPT !.list = InFreg(s.list, bytes, 1).list]
  <2> DEFINE q == InFreg(s.list, bytes, 1).list
  <2>1. q = InFreg(s.list, bytes, 1).list
    OBVIOUS
  <2> HIDE DEF q
  <2>2. r.list = q
    BY <1>2 DEF Keeps, IsResult, q
  <2>3. IsList(s.list) /\ s.list.fregs = l.fregs /\ s.list.fmask = l.fmask
        /\ s.list.dmask = l.dmask /\ s.list.fanum = l.fanum
    BY DEF Keeps, IsResult, Unmarking
  <2> QED
    BY <2>1, <2>2, <2>3, InFregMarks
<1> QED
  BY <1>1, <1>2 DEF AlsoNextFreg

(* The register of a place.                                                *)
LEMMA PlaceMarks ==
  ASSUME NEW a, a.cpu \in Cpus, a.cpu \in CountsPlaces, FetchedPos(a), NEW l, RegInv(a, l),
         MarkInv(a, l), NEW s, Keeps(l, s), NEW c \in BOOLEAN, NEW k, k = l.anum, NEW bytes,
         NEW q, q = AlsoFreg(s, c, k, bytes) \/ (a.cpu \in MarksDoubles /\ q = AlsoDoubleWord(s, c, k)),
         NEW r, r = Counted(q), RegInv(a, r.list)
  PROVE  Marks(a, l, r.list) /\ bytes = bytes
<1> DEFINE m == r.list
<1>1. k \in Nat
  BY ListTypes
<1>2. CASE q = s
  BY <1>2, KeepsMarks
<1>3. CASE s.res = 0 /\ q # s
  <2> DEFINE fregs == Marked(l.fregs, k, bytes)
             dmask == l.dmask \cup {k}
  <2>1. /\ IsResult(q) /\ q.res = 0 /\ q.list.anum = l.anum
        /\ q.list.fmask = l.fmask
        /\ \/ q.list.fregs = fregs /\ q.list.dmask = l.dmask
           \/ a.cpu \in MarksDoubles /\ q.list.fregs = l.fregs /\ q.list.dmask = dmask
    <3>1. /\ IsResult(s) /\ s.list.fregs = l.fregs /\ s.list.dmask = l.dmask
          /\ s.list.anum = l.anum /\ s.list.fmask = l.fmask
      BY DEF Keeps, Unmarking
    <3>2. \/ q = [s EXCEPT !.list.fregs = fregs]
          \/ a.cpu \in MarksDoubles /\ q = [s EXCEPT !.list.dmask = dmask]
      BY <1>3, <3>1 DEF AlsoFreg, AlsoDoubleWord, IsResult, IsList
    <3> HIDE DEF fregs, dmask
    <3> QED
      BY <1>3, <3>1, <3>2 DEF IsResult, IsList
  <2> HIDE DEF fregs, dmask
  <2>2. /\ m.anum = l.anum + 1 /\ m.fmask = l.fmask
        /\ \/ m.fregs = fregs /\ m.dmask = l.dmask
           \/ a.cpu \in MarksDoubles /\ m.fregs = l.fregs /\ m.dmask = dmask
    BY <2>1, CountedEffect
  <2>3. Pos(a, l) = l.anum /\ Pos(a, m) = m.anum
    BY PosTypes
  <2> HIDE DEF m
  <2>4. /\ Pos(a, l) \in Int /\ Pos(a, m) \in Int /\ Pos(a, l) <= k /\ k < Pos(a, m)
        /\ k \in Int
    BY <1>1, <2>2, <2>3
  <2>5. ASSUME m.fregs = fregs /\ m.dmask = l.dmask
        PROVE  Marks(a, l, m)
    BY <2>2, <2>4, <2>5, FregMarks DEF fregs
  <2>6. ASSUME a.cpu \in MarksDoubles, m.fregs = l.fregs, m.dmask = dmask
        PROVE  Marks(a, l, m)
    BY <2>2, <2>4, <2>6, DoubleMarks DEF dmask
  <2>7. Marks(a, l, m)
    BY <2>2, <2>5, <2>6
  <2> QED
    BY <2>7 DEF m
<1>4. s.res # 0 => q = s
  BY DEF AlsoFreg, AlsoDoubleWord
<1> QED
  BY <1>2, <1>3, <1>4

(* The words of a struct.                                                  *)
LEMMA StructWordsMarks ==
  ASSUME NEW a, a.cpu \in Cpus, a.cpu \in MarksDoubles, NEW l, RegInv(a, l),
         MarkInv(a, l), NEW s, Keeps(l, s), NEW n \in Int, NEW words \in Nat,
         NEW r, r = AlsoStructWords(s, n, words), RegInv(a, r.list)
  PROVE  Marks(a, l, r.list)
<1>1. a.cpu \in CountsPlaces /\ FetchedPos(a)
  BY DEF MarksDoubles, CountsPlaces, MipsWide, FetchedPos
<1>2. CASE s.res # 0
  BY <1>1, <1>2, KeepsMarks DEF AlsoStructWords
<1>3. CASE s.res = 0
  <2> DEFINE next  == l.anum + words
             marks == l.dmask \cup (IF l.anum < n THEN l.anum..(n - 1) ELSE {})
             dmask == {k \in marks : k < next}
             m     == r.list
             low   == l.anum
  <2>1. /\ IsResult(s) /\ s.list.fregs = l.fregs /\ s.list.dmask = l.dmask
        /\ s.list.anum = l.anum /\ s.list.fmask = l.fmask
    BY DEF Keeps, Unmarking
  <2>2. r = [s EXCEPT !.list.anum = next, !.list.dmask = dmask]
    BY <1>3, <2>1 DEF AlsoStructWords
  <2>3. low \in Int /\ next \in Int /\ low <= next
    BY ListTypes
  <2>4. \A k \in l.dmask : k \in Int /\ k < low
    <3>1. \A k \in l.dmask : k < Pos(a, l)
      BY DEF MarkInv
    <3>2. Pos(a, l) = low
      BY <1>1, PosTypes
    <3>3. \A k \in l.dmask : k \in Int
      BY DEF RegInv, Contents
    <3> QED
      BY <3>1, <3>2, <3>3
  <2>5. l.dmask \subseteq dmask /\ \A k \in dmask \ l.dmask : low <= k /\ k < next
    <3> HIDE DEF next
    <3>1. \A k \in marks : k \in l.dmask \/ (k \in Int /\ low <= k)
      BY <2>3
    <3> HIDE DEF low
    <3> QED
      BY <2>3, <2>4, <3>1
  <2> HIDE DEF dmask
  <2>6. m.anum = next /\ m.dmask = dmask /\ m.fregs = l.fregs /\ m.fmask = l.fmask
    <3> HIDE DEF next
    <3>1. m = [s.list EXCEPT !.anum = next, !.dmask = dmask]
      BY ONLY <2>1, <2>2 DEF IsResult, m
    <3> HIDE DEF m
    <3>2. IsList(s.list)
      BY <2>1 DEF IsResult
    <3> QED
      BY ONLY <2>1, <3>1, <3>2 DEF IsList
  <2>7. Pos(a, l) = low /\ Pos(a, m) = next
    BY <1>1, <2>6, PosTypes
  <2> HIDE DEF next, low, m
  <2>8. Marks(a, l, m)
    BY <2>3, <2>5, <2>6, <2>7 DEF Marks
  <2> QED
    BY <2>8 DEF m
<1> QED
  BY <1>2, <1>3

LEMMA FloatMarks ==
  ASSUME NEW a, a \in ABISet, a.cpu \in FetchedCpus, NEW l, RegInv(a, l), MarkInv(a, l),
         NEW own, NEW r, r = av_float(a, l, own) \/ r = av_double(a, l, own), RegInv(a, r.list)
  PROVE  Marks(a, l, r.list)
<1>1. a.cpu \in Cpus /\ FetchedPos(a) /\ IsList(l)
  BY DEF FetchedCpus, FetchedPos, RegInv
<1>2. /\ \A size, at : Keeps(l, Slot(l, size, at, own))
      /\ \A end : Keeps(l, Embed(l, end, own))
  BY <1>1, BasicKeeps DEF Unmarking
<1> DEFINE dbl == AsDouble(own[1][1])
           ext == Extended(a, own, 8)
<1>3. CASE a.cpu \in {"i386", "m68k", "sparc", "arm", "alpha"}
  <2>1. Keeps(l, r)
    <3>1. /\ \A size, at, bytes : Keeps(l, Slot(l, size, at, bytes))
          /\ \A end, bytes : Keeps(l, Embed(l, end, bytes))
      BY <1>1, BasicKeeps DEF Unmarking
    <3>2. \/ \E size, at, bytes : r = Slot(l, size, at, bytes)
          \/ \E end, bytes : r = Embed(l, end, bytes)
      BY <1>3 DEF av_float, av_double, MipsWide, FloatsFillRegisters, Arm64, S390, RiscV, SysV, PPC64
    <3> QED
      BY <3>1, <3>2
  <2> QED
    BY <1>1, <2>1, KeepsMarks
<1>4. CASE a.cpu \in IargCpus
  <2>1. a.cpu \notin CountsPlaces
    BY <1>4 DEF IargCpus, Arm64, S390, SysV, CountsPlaces, MipsWide
  <2>2. \/ \E bytes : r = InFreg(l, bytes, 1)
        \/ \E size, at : r = Slot(l, size, at, own)
        \/ \E end : r = Embed(l, end, own)
    <3>1. CASE a.cpu \in SysV
      BY <3>1 DEF av_float, av_double, MipsWide, FloatsFillRegisters, Arm64, S390, RiscV, SysV, PPC64
    <3>2. CASE a.cpu \in Arm64 \cup S390
      BY <3>2 DEF av_float, av_double, MipsWide, FloatsFillRegisters, Arm64, S390, RiscV, SysV, PPC64
    <3> QED
      BY <1>4, <3>1, <3>2 DEF IargCpus
  <2>3. CASE \E bytes : r = InFreg(l, bytes, 1)
    BY <1>1, <2>1, <2>3, InFregMarks
  <2>4. CASE Keeps(l, r)
    BY <1>1, <2>4, KeepsMarks
  <2> QED
    BY <1>2, <2>2, <2>3, <2>4
<1>5. CASE a.cpu \in TooCpus
  <2>1. a.cpu \notin CountsPlaces
    BY <1>5 DEF TooCpus, PPC64, CountsPlaces, MipsWide
  <2>2. \E s, bytes : r = AlsoNextFreg(a, s, bytes) /\ Keeps(l, s)
    <3>1. \/ \E size, at, bytes : r = AlsoNextFreg(a, Slot(l, size, at, own), bytes)
          \/ \E end, bytes : r = AlsoNextFreg(a, Embed(l, end, own), bytes)
      BY <1>5 DEF TooCpus, av_float, av_double, MipsWide, FloatsFillRegisters, Arm64, S390, RiscV, SysV, PPC64
    <3> QED
      BY <1>2, <3>1
  <2> QED
    BY <1>1, <2>1, <2>2, NextFregMarks
<1>6. CASE a.cpu \in CountsPlaces
  <2>1. \E s, q : \E c \in BOOLEAN :
          /\ Keeps(l, s) /\ r = Counted(q)
          /\ \/ q = AlsoFreg(s, c, l.anum, own)
             \/ a.cpu \in MarksDoubles /\ q = AlsoDoubleWord(s, c, l.anum)
    <3>1. \/ \E size, at : \E c \in BOOLEAN : r = Counted(AlsoFreg(Slot(l, size, at, own), c, l.anum, own))
          \/ /\ a.cpu \in MarksDoubles
             /\ \E size, at : \E c \in BOOLEAN : r = Counted(AlsoDoubleWord(Slot(l, size, at, own), c, l.anum))
      <4>1. a.cpu # "x86_64_ms" => a.cpu \in MarksDoubles
        BY <1>6 DEF CountsPlaces, MarksDoubles
      <4>2. a.cpu = "x86_64_ms" \/ a.cpu = "sparc64" \/ a.cpu \in MipsWide
        BY <1>6 DEF CountsPlaces
      <4>3. \/ r = Counted(AlsoFreg(Slot(l, 8, l.aptr, own), l.anum < FargNum(a), l.anum, own))
            \/ a.cpu # "x86_64_ms" /\ r = Counted(AlsoDoubleWord(Slot(l, 8, l.aptr + 4, own), l.anum < 16, l.anum))
            \/ a.cpu # "x86_64_ms" /\ r = Counted(AlsoDoubleWord(Slot(l, 8, l.aptr, own), l.anum < FargNum(a), l.anum))
            \/ r = Counted(AlsoFreg(Slot(l, 8, l.aptr, own), l.anum < 4, l.anum, own))
        BY <1>6, PlacePushes
      <4> DEFINE c1 == l.anum < FargNum(a)
                 c2 == l.anum < 16
                 c3 == l.anum < 4
                 up == l.aptr + 4
      <4>4. c1 \in BOOLEAN /\ c2 \in BOOLEAN /\ c3 \in BOOLEAN
        OBVIOUS
      <4>5. \/ r = Counted(AlsoFreg(Slot(l, 8, l.aptr, own), c1, l.anum, own))
            \/ a.cpu # "x86_64_ms" /\ r = Counted(AlsoDoubleWord(Slot(l, 8, up, own), c2, l.anum))
            \/ a.cpu # "x86_64_ms" /\ r = Counted(AlsoDoubleWord(Slot(l, 8, l.aptr, own), c1, l.anum))
            \/ r = Counted(AlsoFreg(Slot(l, 8, l.aptr, own), c3, l.anum, own))
        BY <4>3
      <4> HIDE DEF c1, c2, c3, up
      <4> QED
        BY <4>1, <4>4, <4>5
    <3> QED
      BY <1>2, <3>1
  <2> QED
    BY <1>1, <1>6, <2>1, PlaceMarks
<1> QED
  BY <1>3, <1>4, <1>5, <1>6, FetchedGroups

(* Every push that succeeds.                                               *)
LEMMA PushMarks ==
  ASSUME NEW a, a \in ABISet, a.cpu \in FetchedCpus, NEW l, RegInv(a, l), MarkInv(a, l),
         NEW t \in CTypes(a), NEW i, NEW r, r = Push(a, l, i, t)
  PROVE  RegInv(a, r.list) /\ MarkInv(a, r.list) /\ Marks(a, l, r.list)
<1> DEFINE own == Own(i, t.size)
           m   == r.list
<1>1. ArgumentType(a, t) /\ a.cpu \in Cpus /\ IsList(l) /\ FetchedPos(a) /\ t.size \in Nat
  BY DEF FetchedCpus, FetchedPos, RegInv, CTypes
<1>2. RegInv(a, m)
  BY <1>1, PushGood DEF Good
<1>3. CASE t.kind \in {"int", "ptr", "longlong"}
  <2>1. r = av_int(a, l, own) \/ r = av_long(a, l, own) \/ r = av_longlong(a, l, own)
    BY <1>3 DEF Push
  <2> HIDE DEF own
  <2>2. \E s : Keeps(l, s) /\ (r = s \/ r = Counted(s))
    BY <1>1, <2>1, IntKeeps, LongKeeps, LonglongKeeps
  <2> QED
    BY <1>1, <1>2, <2>2, KeepsMarks, MarksInv
<1>4. CASE t.kind \in {"float", "double"}
  <2>1. r = av_float(a, l, own) \/ r = av_double(a, l, own)
    BY <1>4 DEF Push
  <2> HIDE DEF own
  <2>2. Marks(a, l, m)
    BY <1>2, <2>1, FloatMarks
  <2> QED
    BY <1>2, <2>2, MarksInv
<1>5. CASE t.kind = "struct" /\ ~StructMarked(a, t)
  <2>1. r = av_struct(a, l, own, t)
    BY <1>5 DEF Push
  <2>2. Len(own) \in Nat
    BY <1>1, LengthOwn
  <2> HIDE DEF own
  <2>3. Keeps(l, r)
    BY <1>1, <1>5, <2>1, <2>2, StructKeeps
  <2> QED
    BY <1>1, <1>2, <2>3, KeepsMarks, MarksInv
<1>6. CASE t.kind = "struct" /\ StructMarked(a, t)
  <2> DEFINE left  == LeftAdjusted(a, l, l.aptr, own, t.align)
             right == RightAdjusted(a, l, l.aptr, own, t.align)
             words == StructWords(t, 8)
  <2>1. r = av_struct(a, l, own, t)
    BY <1>6 DEF Push
  <2>2. \E s, n : s \in {left, right} /\ n \in {8, 16} /\ r = AlsoStructWords(s, n, words)
    <3>1. CASE a.cpu \in MipsWide
      BY <2>1, <3>1 DEF av_struct, Arm64, PPC64, MipsWide, S390, RiscV, SysV
    <3>2. CASE a.cpu = "sparc64" /\ t.size <= 16
      BY <1>1, <2>1, <3>2 DEF av_struct, Arm64, PPC64, MipsWide, S390, RiscV, SysV
    <3> QED
      BY <1>6, <3>1, <3>2 DEF StructMarked
  <2>3. words \in Nat
    <3>1. StructBytes(t, own)
      BY <1>1, <1>6, LengthOwn DEF StructBytes, ArgumentType, Alignments
    <3> QED
      BY <3>1, StructWordsCover
  <2>4. Keeps(l, left) /\ Keeps(l, right)
    BY <1>1, AdjustedKeep DEF Unmarking
  <2>5. a.cpu \in MarksDoubles
    BY <1>6 DEF StructMarked, MarksDoubles
  <2> HIDE DEF left, right, words
  <2>6. Marks(a, l, m)
    BY <1>1, <1>2, <2>2, <2>3, <2>4, <2>5, StructWordsMarks
  <2> QED
    BY <1>2, <2>6, MarksInv
<1> QED
  BY <1>1, <1>3, <1>4, <1>5, <1>6 DEF ArgumentType

-----------------------------------------------------------------------------
(* What av_call passes on.                                                 *)
LoadedDoubles(a, l) ==
  Override(l.fregs, [k \in (IF a.cpu = "alpha" THEN 0..5 ELSE l.dmask) |-> Get(l.args, 8 * k, 8)])

(* What av_call makes of the list: the words of the stack, the registers.  *)
Passed(a, l, c) ==
  /\ \E n \in Nat : c.frame = Below(l.args, W(a) * AtLeast(ArgLen(a, l), n))
  /\ c.iargs = l.iargs
  /\ c.fregs = IF a.cpu \in MarksDoubles \cup {"alpha"} THEN LoadedDoubles(a, l) ELSE l.fregs

LEMMA CallPasses ==
  ASSUME NEW a, a.cpu \in FetchedCpus, NEW l, NEW kind
  PROVE  Passed(a, l, avcall_call(a, l, kind))
<1> DEFINE c == avcall_call(a, l, kind)
<1>1. ASSUME NEW n \in Nat, NEW d \in {Pass(a, l, n), WithSret(a, kind, Pass(a, l, n))}
      PROVE  /\ d.frame = Below(l.args, W(a) * AtLeast(ArgLen(a, l), n))
             /\ d.iargs = l.iargs /\ d.fregs = l.fregs
  BY DEF Pass, WithSret
<1>2. ASSUME NEW n \in Nat, NEW ks
      PROVE  LET d == WithDoubles(l, ks, Pass(a, l, n))
             IN  /\ d.frame = Below(l.args, W(a) * AtLeast(ArgLen(a, l), n))
                 /\ d.iargs = l.iargs
                 /\ d.fregs = Override(l.fregs, [k \in ks |-> Get(l.args, 8 * k, 8)])
  BY DEF Pass, WithDoubles
<1>3. CASE a.cpu \notin MarksDoubles \cup {"alpha"}
  <2>1. \E n \in Nat : c \in {Pass(a, l, n), WithSret(a, kind, Pass(a, l, n))}
    <3>1. CASE a.cpu \in {"i386", "m68k", "sparc", "arm", "powerpc_aix", "ia64"}
      BY <3>1 DEF avcall_call, call_i386, call_m68k, call_sparc, call_arm, call_powerpc, call_ia64,
             PPC64, Arm64, SysV
    <3>2. CASE a.cpu \in Arm64 \cup PPC64 \cup SysV
      BY <3>2 DEF avcall_call, call_arm64, call_powerpc64, call_x86_64, PPC64, Arm64, SysV
    <3>3. CASE a.cpu \in {"x86_64_ms", "s390", "s390x"}
      BY <3>3 DEF avcall_call, call_x86_64_ms, call_s390, call_s390x, PPC64, Arm64, SysV
    <3> QED
      BY <1>3, <3>1, <3>2, <3>3
         DEF FetchedCpus, Cpus, Cpus32, LongIs64, RiscV, PPC64, Arm64, SysV, MarksDoubles, MipsWide
  <2> HIDE DEF c
  <2>2. /\ \E n \in Nat : c.frame = Below(l.args, W(a) * AtLeast(ArgLen(a, l), n))
        /\ c.iargs = l.iargs /\ c.fregs = l.fregs
    BY <1>1, <2>1
  <2>3. Passed(a, l, c)
    BY <1>3, <2>2 DEF Passed
  <2> QED
    BY <2>3 DEF c
<1>4. CASE a.cpu \in MarksDoubles \cup {"alpha"}
  <2> DEFINE ks == IF a.cpu = "alpha" THEN 0..5 ELSE l.dmask
  <2>1. \E n \in Nat : c = WithDoubles(l, ks, Pass(a, l, n))
    <3>1. CASE a.cpu \in MarksDoubles
      BY <3>1 DEF avcall_call, call_mips64, call_mipsn32, call_sparc64, PPC64, Arm64, SysV,
             MarksDoubles, MipsWide
    <3>2. CASE a.cpu = "alpha"
      BY <3>2 DEF avcall_call, call_alpha, PPC64, Arm64, SysV
    <3> QED
      BY <1>4, <3>1, <3>2
  <2>2. LoadedDoubles(a, l) = Override(l.fregs, [k \in ks |-> Get(l.args, 8 * k, 8)])
    BY DEF LoadedDoubles
  <2> HIDE DEF c, ks
  <2>3. /\ \E n \in Nat : c.frame = Below(l.args, W(a) * AtLeast(ArgLen(a, l), n))
        /\ c.iargs = l.iargs /\ c.fregs = LoadedDoubles(a, l)
    BY <1>2, <2>1, <2>2
  <2>4. Passed(a, l, c)
    BY <1>4, <2>3 DEF Passed
  <2> QED
    BY <2>4 DEF c
<1> QED
  BY <1>3, <1>4

(* What the receiver makes of it.                                          *)
Received(a, c, mem, v) ==
  /\ IsVaList(v) /\ v.mem = c.frame /\ v.iargs = c.iargs /\ v.fregs = c.fregs
  /\ v.callers = mem /\ v.memargptr = IF a.cpu = "alpha" THEN 48 ELSE 0
  /\ v.aptr = 0 /\ v.anum = 0 /\ v.ianum = 0 /\ v.fanum = 0

LEMMA ReceiverReceives ==
  ASSUME NEW a, a.cpu \in FetchedCpus, NEW c, NEW mem, NEW end
  PROVE  Received(a, c, mem, VA!vacall_receiver(a, c, mem, end))
<1> DEFINE v == VA!vacall_receiver(a, c, mem, end)
<1>1. CASE a.cpu = "alpha"
  <2>1. v = VA!ReceiveMoved(c, mem, 0, 48)
    BY <1>1 DEF VA!vacall_receiver, VA!receive_alpha, VA!PPC64, VA!Arm64, VA!SysV
  <2>2. VA!ReceiveMoved(c, mem, 0, 48) = [VA!Receive(c, mem, 0) EXCEPT !.memargptr = 48]
    BY DEF VA!ReceiveMoved
  <2> HIDE DEF v
  <2>3. Received(a, c, mem, v)
    BY <1>1, <2>1, <2>2 DEF Received, VA!Receive, IsVaList
  <2> QED
    BY <2>3 DEF v
<1>2. CASE a.cpu # "alpha"
  <2>1. v = VA!Receive(c, mem, 0)
    <3>1. CASE a.cpu \in {"i386", "m68k", "mipsn32", "mips64", "sparc", "sparc64", "arm"}
      BY <3>1 DEF VA!vacall_receiver, VA!receive_i386, VA!receive_m68k, VA!receive_mipsn32,
             VA!receive_mips64, VA!receive_sparc, VA!receive_sparc64, VA!receive_arm,
             VA!PPC64, VA!Arm64, VA!SysV
    <3>2. CASE a.cpu \in Arm64 \cup PPC64 \cup SysV
      BY <3>2 DEF VA!vacall_receiver, VA!receive_arm64, VA!receive_powerpc64, VA!receive_x86_64,
             VA!PPC64, VA!Arm64, VA!SysV, PPC64, Arm64, SysV
    <3>3. CASE a.cpu \in {"x86_64_ms", "s390", "s390x", "powerpc_aix", "ia64"}
      BY <3>3 DEF VA!vacall_receiver, VA!receive_x86_64_ms, VA!receive_s390, VA!receive_s390x,
             VA!receive_powerpc, VA!receive_ia64, VA!PPC64, VA!Arm64, VA!SysV
    <3> QED
      BY <1>2, <3>1, <3>2, <3>3
         DEF FetchedCpus, Cpus, Cpus32, LongIs64, RiscV, PPC64, Arm64, SysV
  <2> HIDE DEF v
  <2>2. Received(a, c, mem, v)
    BY <1>2, <2>1 DEF Received, VA!Receive, IsVaList
  <2> QED
    BY <2>2 DEF v
<1> QED
  BY <1>1, <1>2

(* The function sees all that a list had, from which the list called with  *)
(* has grown.                                                              *)
LEMMA CallSees ==
  ASSUME NEW a, a \in ABISet, a.cpu \in FetchedCpus, NEW h, NEW l, RegInv(a, h), RegInv(a, l),
         Since(a, h, l), MarkInv(a, h), Marks(a, h, l), \A x \in DOMAIN h.args : x \in Int,
         a.cpu \notin MarksDoubles => l.dmask = {},
         NEW c, Passed(a, l, c), NEW v, Received(a, c, l.args, v)
  PROVE  Sees(a, h, v)
<1>1. /\ a.cpu \in Cpus /\ a.cpu \notin RiscV /\ a.cpu \notin {"hppa", "hppa64", "mips"}
  BY DEF FetchedCpus
<1>2. /\ h.aptr \in Int /\ l.aptr \in Int /\ h.aptr <= l.aptr /\ W(a) \in {4, 8}
  BY <1>1, ListTypes, WordSizes DEF Since, Grown
<1>3. \A x \in DOMAIN h.args : x \in DOMAIN l.args /\ l.args[x] = h.args[x]
  BY DEF Since, Kept
<1>4. ASSUME NEW x \in DOMAIN h.args, Visible(a, h, x) PROVE Same(v.mem, h.args, x)
  <2>1. PICK n \in Nat : c.frame = Below(l.args, W(a) * AtLeast(ArgLen(a, l), n))
    BY DEF Passed
  <2> DEFINE top == W(a) * AtLeast(ArgLen(a, l), n)
             low == AlignDown(h.aptr, W(a))
  <2>2. x < low
    BY <1>1, <1>4 DEF Visible
  <2>3. low \in Int /\ top \in Int /\ low <= top
    <3> DEFINE p == h.aptr
               q == l.aptr
    <3>1. p \in Int /\ q \in Int /\ p <= q
      BY <1>2
    <3> HIDE DEF p, q
    <3>2. CASE W(a) = 4
      <4>1. (p \div 4) <= (q \div 4) /\ (p \div 4) \in Int /\ (q \div 4) \in Int
        BY <3>1
      <4>2. low = (p \div 4) * 4 /\ ArgLen(a, l) = (q \div 4)
        BY <3>2 DEF AlignDown, ArgLen, p, q
      <4>3. AtLeast(ArgLen(a, l), n) \in Int /\ AtLeast(ArgLen(a, l), n) >= ArgLen(a, l)
        BY <4>1, <4>2 DEF AtLeast
      <4> QED
        BY <3>2, <4>1, <4>2, <4>3
    <3>3. CASE W(a) = 8
      <4>1. (p \div 8) <= (q \div 8) /\ (p \div 8) \in Int /\ (q \div 8) \in Int
        BY <3>1
      <4>2. low = (p \div 8) * 8 /\ ArgLen(a, l) = (q \div 8)
        BY <3>3 DEF AlignDown, ArgLen, p, q
      <4>3. AtLeast(ArgLen(a, l), n) \in Int /\ AtLeast(ArgLen(a, l), n) >= ArgLen(a, l)
        BY <4>1, <4>2 DEF AtLeast
      <4> QED
        BY <3>3, <4>1, <4>2, <4>3
    <3> QED
      BY <1>2, <3>2, <3>3
  <2> HIDE DEF top, low
  <2>4. x < top
    <3>1. x \in Int
      BY <1>4
    <3> QED
      BY <2>2, <2>3, <3>1
  <2> QED
    BY <1>3, <2>1, <2>4 DEF Same, Below, top, Received
<1>5. SeesWords(a, h, v)
  <2>1. \A x \in DOMAIN h.args : Same(v.callers, h.args, x)
    BY <1>3 DEF Same, Received
  <2>2. ASSUME NEW x \in DOMAIN h.iargs, x < R(a) * h.ianum PROVE Same(v.iargs, h.iargs, x)
    BY <2>2 DEF Same, Received, Passed, Since, Grown
  <2> QED
    BY <1>1, <1>4, <2>1, <2>2 DEF SeesWords
<1>6. SeesFregs(a, h, v)
  <2>1. CASE a.cpu = "alpha"
    <3>1. v.fregs = Override(l.fregs, [k \in 0..5 |-> Get(l.args, 8 * k, 8)])
      BY <2>1 DEF Received, Passed, LoadedDoubles
    <3>2. \A k \in 0..5 : Loaded(v, k, Get(v.callers, 8 * k, 8))
      BY <3>1 DEF Loaded, Override, Received
    <3> QED
      BY <2>1, <3>2 DEF SeesFregs
  <2>2. CASE a.cpu \in MarksDoubles
    <3>1. v.fregs = Override(l.fregs, [k \in l.dmask |-> Get(l.args, 8 * k, 8)])
      BY <2>2 DEF Received, Passed, LoadedDoubles, MarksDoubles, MipsWide
    <3>2. \A k \in h.dmask : Loaded(v, k, Get(v.callers, 8 * k, 8))
      BY <3>1 DEF Loaded, Override, Received, Marks
    <3>3. ASSUME NEW k \in DOMAIN h.fregs \ h.dmask PROVE Loaded(v, k, h.fregs[k])
      <4>1. k \in DOMAIN l.fregs /\ l.fregs[k] = h.fregs[k]
        BY DEF Marks
      <4>2. k \notin l.dmask
        <5> DEFINE x == Pos(a, h)
        <5>1. x \in Int /\ k < x /\ k \in Int
          BY WordSizes, <1>1 DEF Marks, MarkInv, RegInv, Contents
        <5>2. \A j \in l.dmask \ h.dmask : x <= j
          BY DEF Marks
        <5> HIDE DEF x
        <5> QED
          BY <5>1, <5>2
      <4> QED
        BY <3>1, <4>1, <4>2 DEF Loaded, Override
    <3> QED
      BY <1>1, <2>2, <3>2, <3>3 DEF SeesFregs, MarksDoubles, MipsWide
  <2>3. CASE a.cpu \notin MarksDoubles /\ a.cpu # "alpha"
    <3>1. v.fregs = l.fregs
      BY <2>3 DEF Received, Passed
    <3>2. h.dmask = {}
      BY <2>3 DEF Marks
    <3>3. \A k \in DOMAIN h.fregs : Loaded(v, k, h.fregs[k])
      BY <3>1 DEF Loaded, Marks
    <3> QED
      BY <1>1, <2>3, <3>2, <3>3 DEF SeesFregs
  <2> QED
    BY <2>1, <2>2, <2>3
<1>7. v.memargptr = EndOfRegisters(a, h)
  BY <1>1 DEF Received, EndOfRegisters
<1> QED
  BY <1>5, <1>6, <1>7 DEF Sees

-----------------------------------------------------------------------------
(* Structs.                                                                *)

(* A struct of n bytes, from address x on.                                 *)
Aligns(x, w, n, al) ==
  /\ x \in Int /\ w \in {4, 8} /\ x % w = 0
  /\ n \in Nat /\ al \in {1, 2, 4, 8, 16} /\ n % al = 0

LEMMA AlignedBy ==
  ASSUME NEW x, NEW w, NEW n, NEW al, Aligns(x, w, n, al), NEW q, q = AlignUp(x, al),
         NEW size, size = AlignUp(n, w), NEW end, end = AlignUp(x + n, al),
         NEW next, next = AlignUp(end, w)
  PROVE  /\ q \in Int /\ q % w = 0 /\ end = q + n /\ next = q + size
         /\ x % al = 0 \/ al <= w => q = x
         /\ size \in Nat /\ size % w = 0 /\ n <= size /\ size < n + w
         /\ size = w * CeilDiv(n, w) /\ CeilDiv(n, w) \in Nat
         /\ n % w = 0 => size = n
<1>1. /\ x \in Int /\ w \in {4, 8} /\ x % w = 0
      /\ n \in Nat /\ al \in {1, 2, 4, 8, 16} /\ n % al = 0
  BY DEF Aligns
<1>2. /\ q \in Int /\ q % w = 0 /\ end = q + n /\ (x % al = 0 \/ al <= w => q = x)
  <2>1. CASE al = 1
    BY <1>1, <2>1 DEF AlignUp
  <2>2. CASE al = 2
    BY <1>1, <2>2 DEF AlignUp
  <2>3. CASE al = 4
    BY <1>1, <2>3 DEF AlignUp
  <2>4. CASE al = 8
    BY <1>1, <2>4 DEF AlignUp
  <2>5. CASE al = 16
    BY <1>1, <2>5 DEF AlignUp
  <2> QED
    BY <1>1, <2>1, <2>2, <2>3, <2>4, <2>5
<1>3. /\ next = q + size
      /\ size \in Nat /\ size % w = 0 /\ n <= size /\ size < n + w
      /\ size = w * CeilDiv(n, w) /\ CeilDiv(n, w) \in Nat
      /\ n % w = 0 => size = n
  <2>1. CASE w = 4
    <3>1. q \in Int /\ q % 4 = 0 /\ n \in Nat /\ end = q + n
      BY <1>1, <1>2, <2>1
    <3>2. size = 4 * ((n + 3) \div 4) /\ CeilDiv(n, w) = (n + 3) \div 4
      BY <2>1, <3>1 DEF AlignUp, CeilDiv
    <3>3. next = 4 * ((q + n + 3) \div 4)
      BY <2>1, <3>1 DEF AlignUp
    <3>4. next = q + size
      <4> DEFINE j == q \div 4
                 k == (n + 3) \div 4
                 s == (q + n + 3) \div 4
      <4>1. j \in Int /\ k \in Int /\ s \in Int /\ q = 4 * j /\ s = j + k
        <5>1. q \in Int /\ n \in Int /\ j \in Int /\ q = 4 * j
          BY <3>1
        <5>2. k \in Int /\ 4 * k <= n + 3 /\ n + 3 < 4 * k + 4
          BY <5>1
        <5>3. s \in Int /\ 4 * s <= q + n + 3 /\ q + n + 3 < 4 * s + 4
          BY <5>1
        <5> HIDE DEF j, k, s
        <5> QED
          BY <5>1, <5>2, <5>3
      <4>2. next = 4 * s /\ size = 4 * k
        BY <3>2, <3>3
      <4> HIDE DEF j, k, s
      <4> QED
        BY <4>1, <4>2
    <3>5. /\ size \in Nat /\ size % 4 = 0 /\ n <= size /\ size < n + 4
          /\ (n % 4 = 0 => size = n) /\ CeilDiv(n, w) \in Nat
      BY <3>1, <3>2
    <3> QED
      BY <2>1, <3>2, <3>4, <3>5
  <2>2. CASE w = 8
    <3>1. q \in Int /\ q % 8 = 0 /\ n \in Nat /\ end = q + n
      BY <1>1, <1>2, <2>2
    <3>2. size = 8 * ((n + 7) \div 8) /\ CeilDiv(n, w) = (n + 7) \div 8
      BY <2>2, <3>1 DEF AlignUp, CeilDiv
    <3>3. next = 8 * ((q + n + 7) \div 8)
      BY <2>2, <3>1 DEF AlignUp
    <3>4. next = q + size
      <4> DEFINE j == q \div 8
                 k == (n + 7) \div 8
                 s == (q + n + 7) \div 8
      <4>1. j \in Int /\ k \in Int /\ s \in Int /\ q = 8 * j /\ s = j + k
        <5>1. q \in Int /\ n \in Int /\ j \in Int /\ q = 8 * j
          BY <3>1
        <5>2. k \in Int /\ 8 * k <= n + 7 /\ n + 7 < 8 * k + 8
          BY <5>1
        <5>3. s \in Int /\ 8 * s <= q + n + 7 /\ q + n + 7 < 8 * s + 8
          BY <5>1
        <5> HIDE DEF j, k, s
        <5> QED
          BY <5>1, <5>2, <5>3
      <4>2. next = 8 * s /\ size = 8 * k
        BY <3>2, <3>3
      <4> HIDE DEF j, k, s
      <4> QED
        BY <4>1, <4>2
    <3>5. /\ size \in Nat /\ size % 8 = 0 /\ n <= size /\ size < n + 8
          /\ (n % 8 = 0 => size = n) /\ CeilDiv(n, w) \in Nat
      BY <3>1, <3>2
    <3> QED
      BY <2>2, <3>2, <3>4, <3>5
  <2> QED
    BY <1>1, <2>1, <2>2
<1> QED
  BY <1>2, <1>3

(* A struct on the stack, where its alignment lets it start or where its   *)
(* last word ends.                                                         *)
StructAt(a, q, n, side) ==
  IF side = "right" /\ n < W(a) THEN q + AlignUp(n, W(a)) - n ELSE q

StructPlaced(a, l, m, q, n, own, side) ==
  /\ HoldsAt(m.args, StructAt(a, q, n, side), own)
  /\ m.aptr = q + AlignUp(n, W(a)) /\ Stays(l, m)

LEMMA LeftPlaced ==
  ASSUME NEW a, NEW l, IsList(l), NEW n, NEW al, Aligns(l.aptr, W(a), n, al),
         NEW i, NEW own, own = Own(i, n), NEW q, q = AlignUp(l.aptr, al),
         NEW r, r = LeftAdjusted(a, l, l.aptr, own, al), r.res = 0, NEW m, m = r.list
  PROVE  StructPlaced(a, l, m, q, n, own, "left") /\ i = i
<1> DEFINE w == W(a)
           x == l.aptr
           size == AlignUp(n, w)
           end == AlignUp(x + Len(own), al)
           next == AlignUp(end, w)
           at == end - Len(own)
<1>1. /\ Aligns(x, w, n, al) /\ q = AlignUp(x, al) /\ size = AlignUp(n, w)
      /\ x = l.aptr /\ n \in Nat
  BY DEF Aligns
<1>2. Len(own) = n
  BY <1>1, LengthOwn
<1>3. end = AlignUp(x + n, al) /\ at = end - n
  BY <1>2
<1>4. r = (IF end > l.eptr THEN Fail(l) ELSE Stacked(l, next, at, own))
  BY DEF LeftAdjusted
<1>5. next = AlignUp(end, w) /\ w = W(a)
  OBVIOUS
<1> HIDE DEF w, x, size, end, next, at
<1>6. q \in Int /\ end = q + n /\ next = q + size
  BY <1>1, <1>3, <1>5, AlignedBy
<1>8. at = q /\ next = q + size /\ at \in Int
  BY <1>1, <1>3, <1>6
<1>9. r = Stacked(l, next, at, own)
  BY <1>4 DEF Fail
<1>10. /\ HoldsAt(r.list.args, at, own) /\ r.list.aptr = next /\ Stays(l, r.list)
  BY <1>2, <1>8, <1>9, StackedEffect
<1> QED
  BY <1>1, <1>5, <1>8, <1>10 DEF StructPlaced, StructAt

LEMMA RightPlaced ==
  ASSUME NEW a, NEW l, IsList(l), NEW n, NEW al, Aligns(l.aptr, W(a), n, al),
         n < W(a) \/ n % W(a) = 0,
         NEW i, NEW own, own = Own(i, n), NEW q, q = AlignUp(l.aptr, al),
         NEW r, r = RightAdjusted(a, l, l.aptr, own, al), r.res = 0, NEW m, m = r.list
  PROVE  StructPlaced(a, l, m, q, n, own, "right") /\ i = i
<1> DEFINE w == W(a)
           x == l.aptr
           size == AlignUp(n, w)
           up == AlignUp(x + Len(own), al)
           end == AlignUp(up, w)
           at == end - n
<1>1. /\ Aligns(x, w, n, al) /\ q = AlignUp(x, al) /\ size = AlignUp(n, w)
      /\ x = l.aptr /\ w = W(a) /\ at = end - n /\ n \in Nat /\ w \in {4, 8}
  BY DEF Aligns
<1>2. Len(own) = n
  BY <1>1, LengthOwn
<1>3. up = AlignUp(x + n, al)
  BY <1>2
<1>4. r = Embed(l, end, own)
  BY DEF RightAdjusted
<1>5. end = AlignUp(up, w)
  OBVIOUS
<1> HIDE DEF w, x, size, end, up, at
<1>6. q \in Int /\ end = q + size /\ size \in Nat /\ (n % w = 0 => size = n)
  BY <1>1, <1>3, <1>5, AlignedBy
<1>8. end = q + size /\ end \in Int
  BY <1>6
<1>9. HoldsAt(m.args, at, own) /\ m.aptr = end /\ Stays(l, m)
  BY <1>1, <1>4, <1>8, OwnEmbedded
<1>10. at = StructAt(a, q, n, "right")
  <2>1. CASE n < w
    BY <1>1, <1>6, <2>1 DEF StructAt
  <2>2. CASE ~(n < w)
    <3>1. n % w = 0
      BY <1>1, <2>2
    <3> QED
      BY <1>1, <1>6, <1>8, <2>2, <3>1 DEF StructAt
  <2> QED
    BY <2>1, <2>2
<1> QED
  BY <1>1, <1>8, <1>9, <1>10 DEF StructPlaced

(* On which side of its words a struct is, and where it starts.            *)
StructSide(a) ==
  IF a.cpu \in {"powerpc_aix", "powerpc64_aix"} \cup CountsPlaces
  THEN IF a.cc = "vendor" \/ a.cpu = "sparc64" THEN "left" ELSE "right"
  ELSE Side(a)

OddStart(a, n, q) == a.cpu = "ia64" /\ a.cc = "vendor" /\ n > 8 /\ (q \div 8) % 2 = 1

StructStart(a, n, q) == IF OddStart(a, n, q) THEN q + 8 ELSE q

LEMMA OldGccPlaced ==
  ASSUME NEW a, W(a) = 8, a.cpu = "ia64", a.cc = "vendor",
         NEW l, IsList(l), NEW n, NEW al, Aligns(l.aptr, W(a), n, al),
         ~(n > 8 /\ (n \div 8) % 2 = 1),
         NEW i, NEW own, own = Own(i, n), NEW q, q = AlignUp(l.aptr, al),
         NEW r, r = OldGccStruct(l, own, al), r.res = 0, NEW m, m = r.list
  PROVE  StructPlaced(a, l, m, StructStart(a, n, q), n, own, "left") /\ i = i
<1> DEFINE w == W(a)
           x == l.aptr
           size == AlignUp(n, w)
           end == AlignUp(x + n, al)
           z == AlignUp(end, w)
           odd == n > 8 /\ (end \div 8) % 2 = 1
           top == IF odd THEN end + 8 ELSE end
           l1 == [l EXCEPT !.aptr = top]
           next == AlignUp(top, 8)
           at == top - n
<1>1. /\ Aligns(x, w, n, al) /\ q = AlignUp(x, al) /\ size = AlignUp(n, w)
      /\ x = l.aptr /\ n \in Nat /\ w = 8 /\ w = W(a)
  BY DEF Aligns
<1>2. Len(own) = n
  BY <1>1, LengthOwn
<1>3. IsList(l1) /\ l1.aptr = top /\ l1.anum = l.anum /\ l1.ianum = l.ianum
      /\ l1.fanum = l.fanum /\ l1.fregs = l.fregs /\ l1.fmask = l.fmask /\ l1.dmask = l.dmask
  BY DEF IsList
<1>4. r = IF l1.aptr > l1.eptr THEN Fail(l1) ELSE Stacked(l1, next, at, own)
  <2>1. AlignUp(l.aptr + Len(own), al) = end
    BY <1>2
  <2>2. (Len(own) > 8 /\ (end \div 8) % 2 = 1) <=> odd
    BY <1>2
  <2> HIDE DEF end, odd
  <2>3. r = IF l1.aptr > l1.eptr THEN Fail(l1)
            ELSE Stacked(l1, AlignUp(l1.aptr, 8), l1.aptr - Len(own), own)
    BY <2>1, <2>2 DEF OldGccStruct
  <2> HIDE DEF l1, top
  <2> QED
    BY <1>2, <1>3, <2>3
<1>5. end = AlignUp(x + n, al) /\ z = AlignUp(end, w)
  OBVIOUS
<1>6. top = (IF odd THEN end + 8 ELSE end) /\ next = AlignUp(top, 8) /\ at = top - n
      /\ (odd <=> n > 8 /\ (end \div 8) % 2 = 1)
  OBVIOUS
<1> HIDE DEF w, x, size, end, z, odd, top, l1, next, at
<1>7. q \in Int /\ q % 8 = 0 /\ end = q + n /\ z = q + size /\ size \in Nat
  <2>1. q \in Int /\ q % w = 0 /\ end = q + n /\ z = q + size /\ size \in Nat
    BY <1>1, <1>5, AlignedBy
  <2> QED
    BY <1>1, <2>1
<1>8. odd <=> OddStart(a, n, q)
  <2>1. CASE n > 8
    <3> DEFINE j == q \div 8
               k == n \div 8
               s == end \div 8
    <3>1. j \in Int /\ q = 8 * j /\ n \in Int /\ k % 2 = 0
      BY <1>1, <1>7, <2>1
    <3>2. k \in Int /\ 8 * k <= n /\ n < 8 * k + 8
      BY <3>1
    <3>3. s \in Int /\ 8 * s <= q + n /\ q + n < 8 * s + 8
      BY <1>7, <3>1
    <3>4. s = j + k
      <4> HIDE DEF j, k, s
      <4> QED
        BY <3>1, <3>2, <3>3
    <3>5. odd <=> s % 2 = 1
      BY <1>6, <2>1
    <3>6. OddStart(a, n, q) <=> j % 2 = 1
      BY <2>1 DEF OddStart
    <3> HIDE DEF j, k, s
    <3>7. s % 2 = 1 <=> j % 2 = 1
      BY <3>1, <3>2, <3>4
    <3> QED
      BY <3>5, <3>6, <3>7
  <2>2. CASE ~(n > 8)
    BY <1>6, <2>2 DEF OddStart
  <2> QED
    BY <2>1, <2>2
<1> DEFINE p == StructStart(a, n, q)
<1>9. p \in Int /\ top = p + n /\ at = p /\ next = p + size
  <2>1. p = (IF odd THEN q + 8 ELSE q) /\ p \in Int /\ top = p + n /\ at = p
    BY <1>1, <1>6, <1>7, <1>8 DEF StructStart
  <2>2. CASE odd
    <3>1. top = end + 8 /\ z = AlignUp(end, 8) /\ end \in Int
      BY <1>1, <1>5, <1>6, <1>7, <2>2
    <3>2. next = z + 8
      BY <1>6, <3>1 DEF AlignUp
    <3> HIDE DEF p
    <3> QED
      BY <1>7, <2>1, <2>2, <3>2
  <2>3. CASE ~odd
    <3>1. next = z
      BY <1>1, <1>5, <1>6, <2>3
    <3> QED
      BY <1>7, <2>1, <2>3, <3>1
  <2> QED
    BY <2>2, <2>3
<1> HIDE DEF p
<1>10. r = Stacked(l1, next, at, own)
  BY <1>4 DEF Fail
<1>11. HoldsAt(m.args, at, own) /\ m.aptr = next /\ Stays(l1, m)
  BY <1>1, <1>2, <1>3, <1>9, <1>10, StackedEffect
<1>12. Stays(l, m)
  BY <1>3, <1>11 DEF Stays
<1>13. StructPlaced(a, l, m, p, n, own, "left")
  BY <1>1, <1>9, <1>11, <1>12 DEF StructPlaced, StructAt
<1> QED
  BY <1>13 DEF p

StackStructCpus == {"i386", "m68k", "alpha", "arm", "powerpc_aix", "ia64"} \cup PPC64

LEMMA PlainStructPushed ==
  ASSUME NEW a, a \in ABISet, a.cpu \in StackStructCpus, NEW l, RegInv(a, l),
         NEW t, t.align <= MaxAlign(a), NEW n, n = t.size, NEW al, al = t.align,
         Aligns(l.aptr, W(a), n, al),
         ~DisputedStruct(a, l, t),
         NEW i, NEW own, own = Own(i, n), NEW q, q = AlignUp(l.aptr, al),
         NEW r, r = av_struct(a, l, own, t), r.res = 0, NEW m, m = r.list
  PROVE  StructPlaced(a, l, m, StructStart(a, n, q), n, own, StructSide(a)) /\ i = i
<1> DEFINE left  == LeftAdjusted(a, l, l.aptr, own, t.align)
           right == RightAdjusted(a, l, l.aptr, own, t.align)
           old   == OldGccStruct(l, own, t.align)
<1>0. left = LeftAdjusted(a, l, l.aptr, own, al) /\ right = RightAdjusted(a, l, l.aptr, own, al)
      /\ old = OldGccStruct(l, own, al)
  OBVIOUS
<1>1. /\ IsList(l) /\ W(a) \in {4, 8} /\ n \in Nat /\ a.cpu \in Cpus
      /\ a.cpu \in {"i386", "alpha", "ia64"} => a.order = "little"
      /\ a.cpu \in {"m68k", "powerpc_aix", "powerpc64_aix"} => a.order = "big"
      /\ a.order \in {"little", "big"}
      /\ a.cc = "vendor" => a.cpu \notin {"m68k", "arm", "powerpc64", "i386", "alpha"}
  <2>1. a.cc = "vendor" => a.cpu \notin {"m68k", "arm", "powerpc64", "i386", "alpha"}
    BY DEF ABISet, HasVendor
  <2> QED
    BY <2>1, Orders, WordSizes DEF RegInv, Aligns
<1>2. RightAdjusts(a, l) => ~(n > W(a) /\ n % W(a) # 0)
  BY DEF DisputedStruct
<1>3. ASSUME r = left, ~(a.cpu = "ia64" /\ a.cc = "vendor"), StructSide(a) = "left"
      PROVE  StructPlaced(a, l, m, StructStart(a, n, q), n, own, StructSide(a))
  <2>1. StructPlaced(a, l, m, q, n, own, "left")
    BY <1>0, <1>1, <1>3, LeftPlaced
  <2> QED
    BY <1>3, <2>1 DEF StructStart, OddStart
<1>4. ASSUME r = right, RightAdjusts(a, l), a.cpu # "ia64", StructSide(a) = "right"
      PROVE  StructPlaced(a, l, m, StructStart(a, n, q), n, own, StructSide(a))
  <2>1. n < W(a) \/ n % W(a) = 0
    <3> DEFINE w == W(a)
    <3>1. w \in {4, 8} /\ ~(n > w /\ n % w # 0) /\ n \in Nat
      BY <1>1, <1>2, <1>4
    <3>2. n < w \/ n % w = 0
      BY <3>1
    <3> QED
      BY <3>2
  <2>2. StructPlaced(a, l, m, q, n, own, "right")
    BY <1>0, <1>1, <1>4, <2>1, RightPlaced
  <2> QED
    BY <1>4, <2>2 DEF StructStart, OddStart
<1>5. CASE a.cpu \in {"i386", "alpha"}
  <2>1. r = left /\ StructSide(a) = "left"
    <3>1. r = left
      BY <1>1, <1>5 DEF av_struct, MipsWide, PPC64, Arm64, SysV, S390, RiscV
    <3>2. StructSide(a) = "left"
      BY <1>1, <1>5 DEF StructSide, Side, CountsPlaces, MipsWide
    <3> QED
      BY <3>1, <3>2
  <2> QED
    BY <1>3, <1>5, <2>1
<1>6. CASE a.cpu = "ia64"
  <2>1. CASE a.cc = "vendor"
    <3>1. r = old /\ StructSide(a) = "left"
      <4>1. r = old
        BY <1>1, <1>6, <2>1 DEF av_struct, MipsWide, PPC64, Arm64, SysV, S390, RiscV
      <4>2. StructSide(a) = "left"
        BY <1>1, <1>6, <2>1 DEF StructSide, Side, CountsPlaces, MipsWide
      <4> QED
        BY <4>1, <4>2
    <3>2. ~(n > 8 /\ (n \div 8) % 2 = 1) /\ W(a) = 8
      BY <1>1, <1>6, <2>1, CpuWords DEF DisputedStruct, MipsWide, SysV, Arm64, RiscV, S390
    <3>3. StructPlaced(a, l, m, StructStart(a, n, q), n, own, "left")
      BY <1>0, <1>1, <1>6, <2>1, <3>1, <3>2, OldGccPlaced
    <3> QED
      BY <3>1, <3>3
  <2>2. CASE a.cc # "vendor"
    <3>1. r = left /\ StructSide(a) = "left"
      <4>1. r = left
        BY <1>1, <1>6, <2>2 DEF av_struct, MipsWide, PPC64, Arm64, SysV, S390, RiscV
      <4>2. StructSide(a) = "left"
        BY <1>1, <1>6, <2>2 DEF StructSide, Side, CountsPlaces, MipsWide
      <4> QED
        BY <4>1, <4>2
    <3> QED
      BY <1>3, <2>2, <3>1
  <2> QED
    BY <2>1, <2>2
<1>7. CASE a.cpu = "arm"
  <2>1. CASE a.order = "little"
    <3>1. r = left /\ StructSide(a) = "left"
      <4>1. r = left
        BY <1>1, <1>7, <2>1 DEF av_struct, MipsWide, PPC64, Arm64, SysV, S390, RiscV
      <4>2. StructSide(a) = "left"
        BY <1>1, <1>7, <2>1 DEF StructSide, Side, CountsPlaces, MipsWide
      <4> QED
        BY <4>1, <4>2
    <3> QED
      BY <1>3, <1>7, <3>1
  <2>2. CASE a.order = "big"
    <3>1. r = right /\ StructSide(a) = "right"
      <4>1. r = right
        BY <1>1, <1>7, <2>2 DEF av_struct, MipsWide, PPC64, Arm64, SysV, S390, RiscV
      <4>2. StructSide(a) = "right"
        BY <1>1, <1>7, <2>2 DEF StructSide, Side, CountsPlaces, MipsWide
      <4> QED
        BY <4>1, <4>2
    <3>2. RightAdjusts(a, l)
      BY <1>7, <2>2 DEF RightAdjusts, MipsWide, PPC64
    <3> QED
      BY <1>4, <1>7, <3>1, <3>2
  <2> QED
    BY <1>1, <2>1, <2>2
<1>8. CASE a.cpu \in PPC64 \cup {"powerpc_aix"}
  <2>1. CASE a.cc = "vendor" \/ a.order = "little"
    <3>1. r = left
      BY <1>8, <2>1 DEF av_struct, MipsWide, PPC64, Arm64, SysV, S390, RiscV
    <3>2. StructSide(a) = "left"
      BY <1>1, <1>8, <2>1 DEF StructSide, Side, CountsPlaces, MipsWide, PPC64
    <3> QED
      BY <1>3, <1>8, <3>1, <3>2 DEF PPC64
  <2>2. CASE ~(a.cc = "vendor" \/ a.order = "little")
    <3>1. r = right
      BY <1>8, <2>2 DEF av_struct, MipsWide, PPC64, Arm64, SysV, S390, RiscV
    <3>2. StructSide(a) = "right"
      BY <1>1, <1>8, <2>2 DEF StructSide, Side, CountsPlaces, MipsWide, PPC64
    <3>3. a.cc = "gcc"
      BY <2>2 DEF ABISet
    <3>4. RightAdjusts(a, l)
      BY <1>1, <1>8, <2>2, <3>3 DEF RightAdjusts, MipsWide, PPC64
    <3> QED
      BY <1>4, <1>8, <3>1, <3>2, <3>4 DEF PPC64
  <2> QED
    BY <2>1, <2>2
<1>9. CASE a.cpu = "m68k"
  <2> DEFINE end == AlignUp(l.aptr + n, 4)
             x == l.aptr
             up == AlignUp(AlignUp(x + n, al), 4)
  <2>1. r = Embed(l, end, own) /\ W(a) = 4
    <3>1. av_struct(a, l, own, t) = Embed(l, AlignUp(l.aptr + t.size, 4), own)
      BY <1>9 DEF av_struct, MipsWide, PPC64, Arm64, SysV, S390, RiscV
    <3> QED
      BY <1>1, <1>9, <3>1, CpuWords
  <2>2. StructSide(a) = "right" /\ RightAdjusts(a, l)
    BY <1>1, <1>9 DEF StructSide, Side, CountsPlaces, MipsWide, RightAdjusts, PPC64
  <2>3. up = end
    <3> DEFINE z == x + n
    <3>1. al \in {1, 2} /\ x \in Int /\ x % 4 = 0 /\ n \in Nat /\ n % al = 0
      BY <1>9, <2>1 DEF Aligns, MaxAlign
    <3>2. z \in Int /\ (al = 2 => z % 2 = 0)
      BY <3>1
    <3> HIDE DEF z
    <3>3. AlignUp(z, al) = z
      <4>1. CASE al = 1
        BY <3>2, <4>1 DEF AlignUp
      <4>2. CASE al = 2
        BY <3>2, <4>2 DEF AlignUp
      <4> QED
        BY <3>1, <4>1, <4>2
    <3> QED
      BY <3>3 DEF z
  <2>4. r = right
    <3>1. Len(own) = n
      BY <1>1, LengthOwn
    <3>2. RightAdjusted(a, l, l.aptr, own, al) = Embed(l, up, own)
      BY <2>1, <3>1 DEF RightAdjusted
    <3> HIDE DEF up, end
    <3> QED
      BY <2>1, <2>3, <3>2
  <2> QED
    BY <1>4, <1>9, <2>2, <2>4
<1> QED
  BY <1>5, <1>6, <1>7, <1>8, <1>9 DEF StackStructCpus

(* The va_alist, with aptr moved to where a struct starts.                 *)
MovedTo(v, A, q) == Moved(v, A) /\ SameCounts(v, A) /\ A.aptr = q

LEMMA AlignedList ==
  ASSUME NEW v, IsVaList(v), NEW q, NEW A, A = [v EXCEPT !.aptr = q]
  PROVE  IsVaList(A) /\ MovedTo(v, A, q)
BY DEF IsVaList, MovedTo, Moved, SameCounts

LEMMA PlainStructTaken ==
  ASSUME NEW a, a \in ABISet, a.cpu \in StackStructCpus, NEW v, IsVaList(v),
         NEW t, NEW n, n = t.size, NEW al, al = t.align, Aligns(v.aptr, W(a), n, al),
         NEW q, q = AlignUp(v.aptr, al), NEW f, f = VA!va_arg_struct(a, v, t)
  PROVE  /\ Reads(v, f, VA!Get(v.mem, StructAt(a, StructStart(a, n, q), n, StructSide(a)), n),
                  StructStart(a, n, q) + AlignUp(n, W(a)))
         /\ SameCounts(v, f.va)
<1> DEFINE A == [v EXCEPT !.aptr = q]
           B == [A EXCEPT !.aptr = q + 8]
           p == StructStart(a, n, q)
           side == StructSide(a)
           size == AlignUp(n, W(a))
           x == StructAt(a, p, n, side)
           odd == OddStart(a, n, q)
<1>1. /\ a.cpu \in Cpus /\ a.cpu \in PlainCpus /\ W(a) \in {4, 8} /\ n \in Nat /\ q \in Int
      /\ a.cpu \notin CountsPlaces
      /\ a.order \in {"little", "big"}
      /\ a.cpu \in {"powerpc_aix", "powerpc64_aix"} => a.order = "big"
  <2> DEFINE y == AlignUp(v.aptr + n, al)
             z == AlignUp(y, W(a))
             w == W(a)
             u == v.aptr
  <2>1. Aligns(u, w, n, al) /\ q = AlignUp(u, al) /\ size = AlignUp(n, w)
        /\ y = AlignUp(u + n, al) /\ z = AlignUp(y, w)
    OBVIOUS
  <2> HIDE DEF y, z, w, size, u
  <2>2. q \in Int
    BY <2>1, AlignedBy
  <2>3. a.cpu \notin CountsPlaces /\ a.cpu \in PlainCpus
    BY DEF StackStructCpus, PlainCpus, CountsPlaces, MipsWide, PPC64
  <2> QED
    BY <2>2, <2>3, Orders, WordSizes DEF Aligns
<1>2. VA!AlignUp(v.aptr, t.align) = q
  BY DEF VA!AlignUp, AlignUp
<1>3. /\ IsVaList(A) /\ MovedTo(v, A, q) /\ IsVaList(B) /\ MovedTo(v, B, q + 8)
  <2>1. IsVaList(A) /\ MovedTo(v, A, q)
    BY AlignedList
  <2>2. IsVaList(B) /\ MovedTo(A, B, q + 8)
    <3> DEFINE z == q + 8
    <3> HIDE DEF A, z
    <3>1. IsVaList([A EXCEPT !.aptr = z]) /\ MovedTo(A, [A EXCEPT !.aptr = z], z)
      BY <2>1, AlignedList
    <3> QED
      BY <3>1 DEF z
  <2> HIDE DEF A, B
  <2> QED
    BY <2>1, <2>2 DEF MovedTo, Moved, SameCounts
<1> DEFINE C == IF odd THEN B ELSE A
<1>4. IsVaList(C) /\ MovedTo(v, C, p) /\ p \in Int
  BY <1>1, <1>3 DEF StructStart
<1>5. \/ a.cpu \notin {"powerpc_aix", "powerpc64_aix"} /\ f = VA!va_arg_adjusted(a, C, n)
         /\ side = Side(a)
      \/ a.cpu \in {"powerpc_aix", "powerpc64_aix"} /\ f = VA!va_arg_at(a, C, n, side)
  <2>1. CASE a.cpu \in {"i386", "m68k", "alpha", "arm", "powerpc64"}
    <3>1. f = VA!va_arg_adjusted(a, A, n) /\ ~odd
      BY <1>2, <2>1 DEF VA!va_arg_struct, VA!SysV, VA!MipsWide, VA!Arm64, VA!RiscV, VA!S390, OddStart
    <3>2. side = Side(a)
      BY <1>1, <2>1 DEF StructSide
    <3> HIDE DEF A, B, side
    <3> QED
      BY <2>1, <3>1, <3>2
  <2>2. CASE a.cpu \in {"powerpc_aix", "powerpc64_aix"}
    <3>1. f = VA!va_arg_at(a, A, n, side) /\ ~odd
      BY <1>1, <1>2, <2>2
         DEF VA!va_arg_struct, VA!SysV, VA!MipsWide, VA!Arm64, VA!RiscV, VA!S390, OddStart, StructSide
    <3> HIDE DEF A, B, side
    <3> QED
      BY <2>2, <3>1
  <2>3. CASE a.cpu = "ia64"
    <3>1. f = VA!va_arg_adjusted(a, IF a.cc = "vendor" /\ n > 8 /\ (q \div 8) % 2 = 1
                                    THEN [A EXCEPT !.aptr = A.aptr + 8] ELSE A, n)
      <4>1. A.aptr = q
        BY <1>3 DEF MovedTo
      <4>2. [v EXCEPT !.aptr = VA!AlignUp(v.aptr, t.align)] = A
        BY <1>2
      <4> HIDE DEF A
      <4> QED
        BY <2>3, <4>1, <4>2
           DEF VA!va_arg_struct, VA!SysV, VA!MipsWide, VA!Arm64, VA!RiscV, VA!S390
    <3>2. A.aptr + 8 = q + 8
      BY <1>3 DEF MovedTo
    <3>3. side = Side(a)
      BY <1>1, <2>3 DEF StructSide
    <3>4. odd <=> a.cc = "vendor" /\ n > 8 /\ (q \div 8) % 2 = 1
      BY <2>3 DEF OddStart
    <3>5. [A EXCEPT !.aptr = A.aptr + 8] = B
      BY <3>2
    <3> HIDE DEF A, B, side, odd
    <3> QED
      BY <2>3, <3>1, <3>3, <3>4, <3>5
  <2> QED
    BY <2>1, <2>2, <2>3 DEF StackStructCpus, PPC64
<1> HIDE DEF C, A, B, p, side, odd
<1> DEFINE y == IF side = "right" /\ n < W(a) THEN C.aptr + size - n
                ELSE C.aptr + size - size
<1>6. y = x /\ size \in Nat /\ C.aptr = p /\ C.mem = v.mem
  <2>1. size \in Nat
    <3> DEFINE w == W(a)
    <3>1. w = 4 \/ w = 8
      BY <1>1
    <3> HIDE DEF w
    <3>2. AlignUp(n, w) \in Nat
      <4>1. CASE w = 4
        BY <1>1, <4>1 DEF AlignUp
      <4>2. CASE w = 8
        BY <1>1, <4>2 DEF AlignUp
      <4> QED
        BY <3>1, <4>1, <4>2
    <3> QED
      BY <3>2 DEF w
  <2>2. C.aptr = p /\ C.mem = v.mem
    BY <1>4 DEF MovedTo, Moved
  <2>3. y = x
    <3>1. x = IF side = "right" /\ n < W(a) THEN p + size - n ELSE p
      BY DEF StructAt
    <3>2. y = IF side = "right" /\ n < W(a) THEN p + size - n ELSE p + size - size
      BY <2>2
    <3> HIDE DEF size, x, y
    <3> QED
      BY <1>4, <2>1, <3>1, <3>2
  <2> QED
    BY <2>1, <2>2, <2>3
<1>7. Took(C, f, VA!Get(C.mem, y, n), C.aptr + size, C.anum, C.ianum)
  <2>1. CASE a.cpu \in {"powerpc_aix", "powerpc64_aix"}
    <3>1. /\ a.cpu \in Cpus /\ a.cpu \notin {"hppa", "armhf", "powerpc_sysv4"}
          /\ IsVaList(C) /\ n \in Nat /\ (a.cpu = "hppa64" => n <= 8)
          /\ size = AlignUp(n, W(a))
          /\ y = (IF side = "right" /\ n < W(a) THEN C.aptr + size - n
                  ELSE C.aptr + size - size)
      BY <1>1, <1>4, <2>1
    <3>2. f = VA!va_arg_at(a, C, n, side) /\ a.cpu \notin CountsPlaces
      BY <1>1, <1>5, <2>1
    <3> HIDE DEF y, size
    <3>3. Took(C, VA!va_arg_at(a, C, n, side), VA!Get(C.mem, y, n), C.aptr + size,
               IF a.cpu \in CountsPlaces THEN C.anum + size \div W(a) ELSE C.anum, C.ianum)
      BY ONLY <3>1, TakesAt
    <3> QED
      BY <3>2, <3>3
  <2>2. CASE a.cpu \notin {"powerpc_aix", "powerpc64_aix"}
    <3>1. side = Side(a) /\ f = VA!va_arg_adjusted(a, C, n)
      BY <1>5, <2>2
    <3>2. y = (IF a.order = "big" /\ n < W(a) THEN C.aptr + size - n
               ELSE C.aptr + size - size)
      BY <1>1, <3>1 DEF Side
    <3>3. a \in ABISet /\ a.cpu \in PlainCpus /\ IsVaList(C) /\ n \in Nat /\ size = AlignUp(n, W(a))
      BY <1>1, <1>4
    <3> HIDE DEF y, size
    <3>4. Took(C, VA!va_arg_adjusted(a, C, n), VA!Get(C.mem, y, n), C.aptr + size,
               C.anum, C.ianum)
      BY ONLY <3>2, <3>3, AdjustedTook
    <3> QED
      BY <3>1, <3>4
  <2> QED
    BY <2>1, <2>2
<1> HIDE DEF x, y, size
<1>8. Reads(v, f, VA!Get(v.mem, x, n), p + size) /\ SameCounts(v, f.va)
  BY <1>4, <1>6, <1>7 DEF Took, Reads, MovedTo, Moved, SameCounts
<1> QED
  BY <1>8 DEF x, p, side, size

LEMMA StructAtFits ==
  ASSUME NEW a, NEW u, NEW n, NEW al, Aligns(u, W(a), n, al),
         NEW q, q = AlignUp(u, al), NEW side, NEW size, size = AlignUp(n, W(a)),
         NEW p, p = StructAt(a, q, n, side)
  PROVE  /\ q \in Int /\ q % W(a) = 0 /\ size \in Nat /\ size % W(a) = 0
         /\ p \in Int /\ p + n <= q + size
<1> DEFINE w == W(a)
           y == AlignUp(u + n, al)
           z == AlignUp(y, w)
<1>1. /\ Aligns(u, w, n, al) /\ y = AlignUp(u + n, al) /\ z = AlignUp(y, w)
      /\ size = AlignUp(n, w) /\ w = W(a)
  OBVIOUS
<1> HIDE DEF y, z, w
<1>2. /\ q \in Int /\ q % w = 0 /\ size \in Nat /\ size % w = 0 /\ n <= size
  BY <1>1, AlignedBy
<1>3. p = IF side = "right" /\ n < w THEN q + size - n ELSE q
  BY <1>1 DEF StructAt
<1>4. p \in Int /\ p + n <= q + size
  BY <1>1, <1>2, <1>3 DEF Aligns
<1> QED
  BY <1>1, <1>2, <1>4

LEMMA StructAligns ==
  ASSUME NEW a, a \in ABISet, NEW l, NEW v, Ready(a, l, v), NEW t \in CTypes(a), t.kind = "struct"
  PROVE  /\ Aligns(l.aptr, W(a), t.size, t.align) /\ t.align <= MaxAlign(a)
         /\ t.size >= 1
<1>1. /\ t.size \in Nat \ {0} /\ t.align \in {1, 2, 4, 8, 16} /\ t.size % t.align = 0
      /\ t.align <= MaxAlign(a)
  BY DEF CTypes, ArgumentType
<1>2. W(a) \in {4, 8} /\ l.aptr \in Int /\ l.aptr % W(a) = 0
  BY Orders, WordSizes, ListTypes DEF Ready, Match
<1> QED
  BY <1>1, <1>2 DEF Aligns

LEMMA PlainStructArrives ==
  ASSUME NEW a, a \in ABISet, a.cpu \in StackStructCpus, NEW l, NEW v, Ready(a, l, v),
         NEW t \in CTypes(a), t.kind = "struct", ~DisputedStruct(a, l, t),
         NEW i, NEW own, own = Own(i, t.size), NEW r, r = av_struct(a, l, own, t),
         r.res = 0, NEW m, m = r.list, Sees(a, m, v)
  PROVE  Arrives(a, m, own, v, VA!va_arg_struct(a, v, t)) /\ i = i
<1> DEFINE n == t.size
           al == t.align
           f == VA!va_arg_struct(a, v, t)
           q == AlignUp(l.aptr, al)
           s == StructStart(a, n, q)
           side == StructSide(a)
           size == AlignUp(n, W(a))
           p == StructAt(a, s, n, side)
<1>1. /\ a.cpu \in Cpus /\ a.cpu \notin RiscV /\ a.cpu \notin CountsPlaces \cup {"mips"}
      /\ a.cpu # "hppa" /\ a.cpu # "hppa64" /\ RegInv(a, l) /\ v.aptr = l.aptr /\ IsVaList(v)
      /\ W(a) \in {4, 8}
  <2>1. /\ a.cpu \notin RiscV /\ a.cpu \notin CountsPlaces \cup {"mips"}
        /\ a.cpu # "hppa" /\ a.cpu # "hppa64"
    BY DEF StackStructCpus, RiscV, CountsPlaces, MipsWide, PPC64
  <2>2. RegInv(a, l) /\ v.aptr = l.aptr /\ IsVaList(v)
    BY <2>1 DEF Ready, Match, Cursor
  <2> QED
    BY <2>1, <2>2, Orders, WordSizes
<1>2. Aligns(l.aptr, W(a), n, al) /\ t.align <= MaxAlign(a) /\ n \in Nat /\ Aligns(v.aptr, W(a), n, al)
  BY <1>1, StructAligns DEF Aligns
<1>3. /\ n = t.size /\ al = t.align /\ f = VA!va_arg_struct(a, v, t) /\ q = AlignUp(l.aptr, al)
      /\ own = Own(i, n) /\ size = AlignUp(n, W(a)) /\ q = AlignUp(v.aptr, al)
      /\ s = StructStart(a, n, q) /\ side = StructSide(a) /\ p = StructAt(a, s, n, side)
  BY <1>1
<1> HIDE DEF n, al, f, q, s, side, size, p
<1>4. StructPlaced(a, l, m, s, n, own, side)
  <2>1. StructPlaced(a, l, m, StructStart(a, n, q), n, own, StructSide(a))
    BY <1>1, <1>2, <1>3, PlainStructPushed
  <2> QED
    BY <1>3, <2>1
<1>5. Reads(v, f, VA!Get(v.mem, p, n), s + size) /\ SameCounts(v, f.va)
  <2>1. /\ Reads(v, f, VA!Get(v.mem, StructAt(a, StructStart(a, n, q), n, StructSide(a)), n),
                  StructStart(a, n, q) + AlignUp(n, W(a)))
        /\ SameCounts(v, f.va)
    BY <1>1, <1>2, <1>3, PlainStructTaken
  <2> QED
    BY <1>3, <2>1
<1>6. /\ q \in Int /\ q % W(a) = 0 /\ size \in Nat /\ size % W(a) = 0
      /\ StructAt(a, q, n, side) \in Int /\ StructAt(a, q, n, side) + n <= q + size
  <2> DEFINE u == l.aptr
             o == StructAt(a, q, n, side)
  <2>1. /\ Aligns(u, W(a), n, al) /\ q = AlignUp(u, al) /\ size = AlignUp(n, W(a))
        /\ o = StructAt(a, q, n, side)
    BY <1>2, <1>3
  <2> HIDE DEF u, o
  <2>2. /\ q \in Int /\ q % W(a) = 0 /\ size \in Nat /\ size % W(a) = 0
        /\ o \in Int /\ o + n <= q + size
    BY ONLY <2>1, StructAtFits
  <2> QED
    BY <2>2 DEF o
<1>7. /\ s \in Int /\ s % W(a) = 0 /\ p \in Int /\ p + n <= s + size
  <2>1. s = q \/ (s = q + 8 /\ side = "left")
    <3>1. a.cpu = "ia64" => side = "left"
      BY <1>3, Orders DEF StructSide, Side, CountsPlaces, MipsWide
    <3> QED
      BY <1>3, <3>1 DEF StructStart, OddStart
  <2>2. CASE s = q
    BY <1>3, <1>6, <2>2
  <2>3. CASE s = q + 8 /\ side = "left"
    <3>1. p = s /\ StructAt(a, q, n, side) = q
      BY <1>3, <2>3 DEF StructAt
    <3> DEFINE w == W(a)
    <3>2. w \in {4, 8} /\ q % w = 0 /\ q \in Int
      BY <1>1, <1>6
    <3> HIDE DEF w
    <3>3. s % w = 0 /\ s \in Int
      BY <2>3, <3>2
    <3> QED
      BY <1>2, <1>6, <2>3, <3>1, <3>3 DEF w
  <2> QED
    BY <2>1, <2>2, <2>3
<1>8. HoldsAt(m.args, p, own) /\ m.aptr = s + size /\ Stays(l, m)
  BY <1>3, <1>4 DEF StructPlaced
<1>9. /\ Whole(a, m) /\ NotMarked(a, l, m) /\ p + n <= m.aptr
      /\ Reads(v, f, VA!Get(v.mem, p, n), m.aptr)
  <2>1. m.aptr % W(a) = 0
    <3> DEFINE w == W(a)
    <3>1. w \in {4, 8} /\ s % w = 0 /\ s \in Int /\ size % w = 0 /\ size \in Int
      BY <1>1, <1>6, <1>7
    <3> HIDE DEF w
    <3>2. (s + size) % w = 0
      <4>1. CASE w = 4
        BY <3>1, <4>1
      <4>2. CASE w = 8
        BY <3>1, <4>2
      <4> QED
        BY <3>1, <4>1, <4>2
    <3> QED
      BY <1>8, <3>2 DEF w
  <2> QED
    BY <1>1, <1>5, <1>6, <1>7, <1>8, <2>1 DEF Whole, NotMarked
<1>10. Counts(a, m, f.va)
  BY <1>1, <1>5, <1>8, KeepsCounts
<1>11. Arrives(a, m, own, v, f)
  BY <1>1, <1>2, <1>3, <1>7, <1>8, <1>9, <1>10, OwnOnStack
<1> QED
  BY <1>3, <1>11

PlaceStructCpus == MipsWide \cup {"sparc64"}

LEMMA UpToItself ==
  ASSUME NEW x \in Int, NEW al \in {1, 2, 4, 8, 16}, x % al = 0
  PROVE  AlignUp(x, al) = x
<1>1. CASE al = 1
  BY <1>1 DEF AlignUp
<1>2. CASE al = 2
  BY <1>2 DEF AlignUp
<1>3. CASE al = 4
  BY <1>3 DEF AlignUp
<1>4. CASE al = 8
  BY <1>4 DEF AlignUp
<1>5. CASE al = 16
  BY <1>5 DEF AlignUp
<1> QED
  BY <1>1, <1>2, <1>3, <1>4, <1>5

PlaceTaken(a, l, m, q, n, own, side) ==
  /\ HoldsAt(m.args, StructAt(a, q, n, side), own)
  /\ m.aptr = q + AlignUp(n, 8) /\ m.anum = l.anum + CeilDiv(n, 8)

LEMMA PlaceStructPushed ==
  ASSUME NEW a, a \in ABISet, a.cpu \in PlaceStructCpus, NEW l, RegInv(a, l),
         NEW t, NEW n, n = t.size, NEW al, al = t.align, Aligns(l.aptr, W(a), n, al),
         ~DisputedStruct(a, l, t),
         NEW i, NEW own, own = Own(i, n), NEW q, q = l.aptr,
         NEW r, r = av_struct(a, l, own, t), r.res = 0, NEW m, m = r.list,
         NEW side, side = StructSide(a)
  PROVE  PlaceTaken(a, l, m, q, n, own, side) /\ i = i
<1> DEFINE size == AlignUp(n, 8)
           words == CeilDiv(n, 8)
<1>0. size = AlignUp(n, 8) /\ words = CeilDiv(n, 8)
  OBVIOUS
<1> HIDE DEF size, words
<1> DEFINE left  == LeftAdjusted(a, l, l.aptr, own, t.align)
           right == RightAdjusted(a, l, l.aptr, own, t.align)
<1>1. /\ IsList(l) /\ W(a) = 8 /\ n \in Nat /\ a.cpu \in Cpus
      /\ l.aptr \in Int /\ l.aptr % 8 = 0
  BY Orders, CpuWords DEF PlaceStructCpus, MipsWide, RegInv, Aligns
<1>2. left = LeftAdjusted(a, l, l.aptr, own, al) /\ right = RightAdjusted(a, l, l.aptr, own, al)
  OBVIOUS
<1>3. /\ l.aptr % al = 0
      /\ a.cpu = "sparc64" => n <= 16
      /\ RightAdjusts(a, l) => ~(n > W(a) /\ n % W(a) # 0)
  BY <1>1 DEF DisputedStruct, PlaceStructCpus, MipsWide, SysV, Arm64, RiscV, S390
<1>4. q = AlignUp(l.aptr, al) /\ StructWords(t, 8) = words
  <2>1. l.aptr % al = 0 /\ l.aptr \in Int /\ n \in Nat /\ n % al = 0 /\ al \in {1, 2, 4, 8, 16}
    BY <1>1, <1>3 DEF Aligns
  <2> DEFINE x == l.aptr
  <2> HIDE DEF x
  <2>2. x % al = 0 /\ x \in Int
    BY <2>1 DEF x
  <2>3. AlignUp(x, al) = x /\ AlignUp(n, al) = n
    <3>1. n \in Int
      BY <2>1
    <3>2. AlignUp(x, al) = x
      BY ONLY <2>1, <2>2, UpToItself
    <3>3. AlignUp(n, al) = n
      BY ONLY <2>1, <3>1, UpToItself
    <3> QED
      BY <3>2, <3>3
  <2>4. StructWords(t, 8) = CeilDiv(AlignUp(n, al), 8)
    BY DEF StructWords
  <2> QED
    BY <1>0, <2>3, <2>4 DEF x
<1> DEFINE s == IF side = "left" THEN left ELSE right
<1>5. \E k : r = AlsoStructWords(s, k, words)
  <2>1. CASE a.cpu = "sparc64"
    <3>1. side = "left"
      BY <2>1 DEF StructSide, CountsPlaces
    <3>2. r = AlsoStructWords(left, 16, words)
      <4>1. ~(t.size > 16)
        BY <1>1, <1>3, <2>1
      <4> QED
        BY <1>4, <2>1, <4>1 DEF av_struct, MipsWide, PPC64, Arm64, SysV, S390, RiscV
    <3> HIDE DEF left, right
    <3> QED
      BY <3>1, <3>2
  <2>2. CASE a.cpu \in MipsWide
    <3>1. side = IF a.cc = "vendor" THEN "left" ELSE "right"
      BY <2>2 DEF StructSide, CountsPlaces, MipsWide
    <3>2. r = AlsoStructWords(IF a.cc = "vendor" THEN left ELSE right, 8, words)
      BY <1>4, <2>2 DEF av_struct, MipsWide, PPC64, Arm64, SysV, S390, RiscV
    <3> HIDE DEF left, right
    <3>3. (IF a.cc = "vendor" THEN left ELSE right) = s
      BY <3>1
    <3> HIDE DEF s
    <3>4. r = AlsoStructWords(s, 8, words)
      BY <3>2, <3>3
    <3> QED
      BY <3>4
  <2> QED
    BY <2>1, <2>2 DEF PlaceStructCpus
<1> DEFINE b == s.list
<1>6. s.res = 0 /\ IsResult(s) /\ IsList(b)
  <2>1. s.res \in {0, -1} /\ IsResult(s)
    <3>1. Keeps(l, left) /\ Keeps(l, right)
      <4>1. Unmarking(l, l)
        BY DEF Unmarking
      <4> QED
        BY <1>1, <4>1, AdjustedKeep
    <3> HIDE DEF left, right
    <3> QED
      BY <3>1 DEF Keeps
  <2> HIDE DEF s
  <2>2. PICK k : r = AlsoStructWords(s, k, words)
    BY <1>5
  <2>3. s.res = 0
    <3>1. CASE s.res # 0
      BY <2>2, <3>1 DEF AlsoStructWords
    <3> QED
      BY <3>1
  <2> QED
    BY <2>1, <2>3 DEF IsResult
<1>7. StructPlaced(a, l, b, q, n, own, side)
  <2>1. CASE side = "left"
    <3>1. s = left
      BY <2>1
    <3> HIDE DEF s
    <3>2. StructPlaced(a, l, b, q, n, own, "left")
      <4> QED
        BY <1>1, <1>2, <1>4, <1>6, <3>1, LeftPlaced
    <3> QED
      BY <2>1, <3>2
  <2>2. CASE side # "left"
    <3>1. s = right
      BY <2>2
    <3>2. side = "right" /\ RightAdjusts(a, l)
      <4>1. a.cpu \in MipsWide /\ a.cc # "vendor"
        BY <2>2 DEF StructSide, CountsPlaces, PlaceStructCpus, MipsWide
      <4>2. a.cc = "gcc"
        BY <4>1 DEF ABISet
      <4>3. RightAdjusts(a, l)
        BY <4>1, <4>2 DEF RightAdjusts, MipsWide, PPC64
      <4>4. side = "right"
        BY <4>1, <4>2 DEF StructSide, CountsPlaces, MipsWide
      <4> QED
        BY <4>3, <4>4
    <3>3. n < W(a) \/ n % W(a) = 0
      <4>1. ~(n > 8 /\ n % 8 # 0) /\ n \in Nat
        BY <1>1, <1>3, <3>2
      <4>2. n < 8 \/ n % 8 = 0
        BY <4>1
      <4> QED
        BY <1>1, <4>2
    <3> HIDE DEF s
    <3>4. StructPlaced(a, l, b, q, n, own, "right")
      BY <1>1, <1>2, <1>4, <1>6, <3>1, <3>3, RightPlaced
    <3> QED
      BY <3>2, <3>4
  <2> QED
    BY <2>1, <2>2
<1> HIDE DEF s
<1>8. PICK k : r = AlsoStructWords(s, k, words)
  BY <1>5
<1>9. m.args = b.args /\ m.aptr = b.aptr /\ m.anum = b.anum + words
  <2> DEFINE d == {x \in b.dmask \cup (IF b.anum < k THEN b.anum..(k - 1) ELSE {}) : x < b.anum + words}
  <2>1. m = [b EXCEPT !.anum = b.anum + words, !.dmask = d]
    BY <1>6, <1>8 DEF AlsoStructWords, IsResult, IsList
  <2> HIDE DEF d, b
  <2> QED
    BY <1>6, <2>1 DEF IsList
<1>10. HoldsAt(b.args, StructAt(a, q, n, side), own) /\ b.aptr = q + size /\ b.anum = l.anum
  BY <1>0, <1>1, <1>7 DEF StructPlaced, Stays
<1> QED
  BY <1>0, <1>4, <1>9, <1>10 DEF PlaceTaken

LEMMA PlaceStructTaken ==
  ASSUME NEW a, a \in ABISet, a.cpu \in PlaceStructCpus, NEW v, IsVaList(v),
         NEW t, NEW n, n = t.size, n \in Nat, a.cpu = "sparc64" => n <= 16,
         NEW q, q = VA!AlignUp(v.aptr, t.align), q \in Int,
         NEW size, size = AlignUp(n, 8),
         NEW f, f = VA!va_arg_struct(a, v, t)
  PROVE  /\ Reads(v, f, VA!Get(v.mem, StructAt(a, q, n, StructSide(a)), n), q + size)
         /\ f.va.anum = v.anum + CeilDiv(n, 8)
         /\ f.va.ianum = v.ianum /\ f.va.fanum = v.fanum
<1> DEFINE A == [v EXCEPT !.aptr = q]
           side == StructSide(a)
           p == StructAt(a, q, n, side)
           y == IF side = "right" /\ n < W(a) THEN A.aptr + size - n
                ELSE A.aptr + size - size
<1>1. /\ W(a) = 8 /\ a.cpu \in Cpus /\ a.cpu \in CountsPlaces
      /\ a.cpu \notin {"hppa", "armhf", "powerpc_sysv4", "hppa64"}
      /\ size \in Nat /\ size \div W(a) = CeilDiv(n, 8)
  BY Orders, CpuWords DEF PlaceStructCpus, MipsWide, CountsPlaces, AlignUp, CeilDiv
<1>2. IsVaList(A) /\ MovedTo(v, A, q)
  BY AlignedList
<1>3. f = VA!va_arg_at(a, A, n, side)
  <2>1. CASE a.cpu = "sparc64"
    <3>1. side = "left"
      BY <2>1 DEF StructSide, CountsPlaces
    <3>2. t.size <= 16
      BY <2>1
    <3> HIDE DEF side
    <3> QED
      BY <2>1, <3>1, <3>2 DEF VA!va_arg_struct, VA!SysV, VA!MipsWide, VA!Arm64, VA!RiscV, VA!S390
  <2>2. CASE a.cpu \in MipsWide
    <3>1. side = IF a.cc = "vendor" THEN "left" ELSE "right"
      BY <2>2 DEF StructSide, CountsPlaces, MipsWide
    <3> HIDE DEF side
    <3> QED
      BY <2>2, <3>1
         DEF VA!va_arg_struct, VA!SysV, VA!MipsWide, VA!Arm64, VA!RiscV, VA!S390, MipsWide
  <2> QED
    BY <2>1, <2>2 DEF PlaceStructCpus
<1>4. y = p
  <2>1. A.aptr = q
    BY <1>2 DEF MovedTo
  <2>2. p = IF side = "right" /\ n < W(a) THEN q + size - n ELSE q
    BY <1>1 DEF StructAt
  <2>3. y = IF side = "right" /\ n < W(a) THEN q + size - n ELSE q + size - size
    BY <2>1
  <2> HIDE DEF y, p
  <2> QED
    BY <1>1, <2>2, <2>3
<1> HIDE DEF A, side, p, y
<1>5. Took(A, VA!va_arg_at(a, A, n, side), VA!Get(A.mem, y, n), A.aptr + size,
           IF a.cpu \in CountsPlaces THEN A.anum + size \div W(a) ELSE A.anum, A.ianum)
  <2>1. /\ a.cpu \in Cpus /\ a.cpu \notin {"hppa", "armhf", "powerpc_sysv4"}
        /\ IsVaList(A) /\ n \in Nat /\ (a.cpu = "hppa64" => n <= 8)
        /\ size = AlignUp(n, W(a))
        /\ y = (IF side = "right" /\ n < W(a) THEN A.aptr + size - n
                ELSE A.aptr + size - size)
    BY <1>1, <1>2 DEF y
  <2> QED
    BY ONLY <2>1, TakesAt
<1>6. /\ Reads(v, f, VA!Get(v.mem, p, n), q + size)
      /\ f.va.anum = v.anum + CeilDiv(n, 8) /\ f.va.ianum = v.ianum /\ f.va.fanum = v.fanum
  BY <1>1, <1>2, <1>3, <1>4, <1>5 DEF Took, Reads, MovedTo, Moved, SameCounts
<1> QED
  BY <1>6 DEF p, side

LEMMA PlaceStructArrives ==
  ASSUME NEW a, a \in ABISet, a.cpu \in PlaceStructCpus, NEW l, NEW v, Ready(a, l, v),
         NEW t \in CTypes(a), t.kind = "struct", ~DisputedStruct(a, l, t),
         NEW i, NEW own, own = Own(i, t.size), NEW r, r = av_struct(a, l, own, t),
         r.res = 0, NEW m, m = r.list, Sees(a, m, v)
  PROVE  Arrives(a, m, own, v, VA!va_arg_struct(a, v, t)) /\ i = i
<1> DEFINE n == t.size
           al == t.align
           f == VA!va_arg_struct(a, v, t)
           q == l.aptr
           side == StructSide(a)
           size == AlignUp(n, 8)
           p == StructAt(a, q, n, side)
<1>1. /\ a.cpu \in Cpus /\ a.cpu \notin RiscV /\ a.cpu # "mips" /\ a.cpu \in CountsPlaces
      /\ a.cpu # "hppa" /\ a.cpu # "hppa64" /\ a.cpu \notin HasIargs \cup {"armhf"}
      /\ a.cpu \notin CountsFloats /\ W(a) = 8
  BY Orders, CpuWords
     DEF PlaceStructCpus, RiscV, CountsPlaces, MipsWide, PPC64, HasIargs, Arm64, SysV, S390,
         CountsFloats, FloatsFillRegisters
<1>2. /\ RegInv(a, l) /\ v.aptr = l.aptr /\ IsVaList(v) /\ l.aptr \in Int
      /\ v.anum = l.anum /\ l.aptr = 8 * l.anum /\ l.anum \in Nat
      /\ v.ianum \in Nat /\ v.fanum \in Nat
  BY <1>1, ListTypes DEF Ready, Match, Cursor
<1>3. Aligns(l.aptr, W(a), n, al) /\ n \in Nat
  BY StructAligns DEF Aligns
<1>4. a.cpu = "sparc64" => n <= 16
  BY <1>3 DEF DisputedStruct, MipsWide, SysV, Arm64, RiscV, S390
<1>5. /\ n = t.size /\ al = t.align /\ f = VA!va_arg_struct(a, v, t) /\ q = l.aptr
      /\ own = Own(i, n) /\ size = AlignUp(n, 8) /\ size = AlignUp(n, W(a))
      /\ side = StructSide(a) /\ p = StructAt(a, q, n, side)
  BY <1>1
<1> HIDE DEF n, al, f, q, side, size, p
<1>6. /\ HoldsAt(m.args, p, own) /\ m.aptr = q + size /\ m.anum = l.anum + CeilDiv(n, 8)
      /\ q = AlignUp(l.aptr, al)
  <2>1. /\ a \in ABISet /\ a.cpu \in PlaceStructCpus /\ RegInv(a, l) /\ n = t.size
        /\ al = t.align /\ Aligns(l.aptr, W(a), n, al) /\ ~DisputedStruct(a, l, t)
        /\ own = Own(i, n) /\ q = l.aptr /\ r = av_struct(a, l, own, t) /\ r.res = 0
        /\ m = r.list /\ side = StructSide(a)
    BY <1>2, <1>3, <1>5
  <2>2. PlaceTaken(a, l, m, q, n, own, side)
    BY ONLY <2>1, PlaceStructPushed
  <2>3. q = AlignUp(l.aptr, al)
    <3>1. q \in Int /\ al \in {1, 2, 4, 8, 16} /\ q % al = 0
      <4>1. ~(l.aptr % t.align # 0)
        BY DEF DisputedStruct, PlaceStructCpus, MipsWide, SysV, Arm64, RiscV, S390
      <4>2. q \in Int /\ al \in {1, 2, 4, 8, 16}
        BY <1>2, <1>3, <1>5 DEF Aligns
      <4> QED
        BY <1>5, <4>1, <4>2
    <3>2. AlignUp(q, al) = q
      BY ONLY <3>1, UpToItself
    <3> QED
      BY <1>5, <3>2
  <2> QED
    BY <1>5, <2>2, <2>3 DEF PlaceTaken
<1>7. /\ q \in Int /\ q % W(a) = 0 /\ size \in Nat /\ size % W(a) = 0
      /\ p \in Int /\ p + n <= q + size
  <2> DEFINE u == l.aptr
  <2>1. /\ Aligns(u, W(a), n, al) /\ q = AlignUp(u, al) /\ size = AlignUp(n, W(a))
        /\ p = StructAt(a, q, n, side)
    BY <1>3, <1>5, <1>6
  <2> HIDE DEF u
  <2> QED
    BY ONLY <2>1, StructAtFits
<1>8. /\ Reads(v, f, VA!Get(v.mem, p, n), q + size)
      /\ f.va.anum = v.anum + CeilDiv(n, 8) /\ f.va.ianum = v.ianum /\ f.va.fanum = v.fanum
  <2>1. q = VA!AlignUp(v.aptr, t.align)
    BY <1>2, <1>5, <1>6 DEF VA!AlignUp, AlignUp
  <2>2. /\ Reads(v, f, VA!Get(v.mem, StructAt(a, q, n, StructSide(a)), n), q + size)
        /\ f.va.anum = v.anum + CeilDiv(n, 8)
        /\ f.va.ianum = v.ianum /\ f.va.fanum = v.fanum
    BY <1>2, <1>3, <1>4, <1>5, <1>7, <2>1, PlaceStructTaken
  <2> QED
    BY <1>5, <2>2
<1>9. /\ CeilDiv(n, 8) \in Nat /\ size = 8 * CeilDiv(n, 8)
  BY <1>3, <1>5 DEF CeilDiv, AlignUp
<1>10. /\ Whole(a, m) /\ NotMarked(a, l, m) /\ p + n <= m.aptr
       /\ Reads(v, f, VA!Get(v.mem, p, n), m.aptr)
  BY <1>1, <1>2, <1>5, <1>6, <1>7, <1>8 DEF Whole, NotMarked
<1>11. Counts(a, m, f.va)
  <2> DEFINE c == CeilDiv(n, 8)
  <2>1. c \in Nat /\ m.aptr = q + size /\ size = 8 * c /\ q = 8 * l.anum /\ m.anum = l.anum + c
        /\ f.va.anum = v.anum + c
    BY <1>2, <1>5, <1>6, <1>8, <1>9
  <2> HIDE DEF c
  <2>2. m.aptr = 8 * m.anum /\ f.va.anum = m.anum /\ m.anum \in Nat
    BY <1>2, <2>1
  <2> QED
    BY <1>1, <1>2, <1>8, <2>2 DEF Counts
<1>12. Arrives(a, m, own, v, f)
  BY <1>1, <1>3, <1>5, <1>6, <1>7, <1>10, <1>11, OwnOnStack
<1> QED
  BY <1>5, <1>12

-----------------------------------------------------------------------------
(* Structs that travel as a pointer to a copy.                             *)
CopyCpus == Arm64 \cup S390 \cup {"sparc"}

LEMMA PutKeepsHeld ==
  ASSUME NEW mem, NEW at \in Int, NEW bytes, Len(bytes) \in Nat, HoldsAt(mem, at, bytes),
         NEW x \in Int, NEW other, Len(other) \in Nat, x + Len(other) <= at
  PROVE  HoldsAt(Put(mem, x, other), at, bytes)
<1> DEFINE n == Len(bytes)
           k == Len(other)
<1>1. SUFFICES ASSUME NEW j \in 1..n
               PROVE  /\ at + j - 1 \in DOMAIN Put(mem, x, other)
                      /\ Put(mem, x, other)[at + j - 1] = bytes[j]
  BY DEF HoldsAt
<1>2. at + j - 1 \in DOMAIN mem /\ mem[at + j - 1] = bytes[j]
  BY DEF HoldsAt
<1>3. at + j - 1 \notin x..(x + k - 1)
  OBVIOUS
<1> HIDE DEF n, k
<1>4. x..(x + k - 1) = x..(x + Len(other) - 1)
  BY DEF k
<1> QED
  BY <1>2, <1>3, <1>4 DEF Put, Override

Copied(a, l, m, copy, own) ==
  /\ HoldsAt(m.args, copy, own)
  /\ m.anum = l.anum /\ m.fanum = l.fanum /\ m.fmask = l.fmask /\ m.dmask = l.dmask
  /\ IF NextInIarg(a, l)
     THEN /\ HoldsAt(m.iargs, R(a) * l.ianum, Address(copy, R(a)))
          /\ m.ianum = l.ianum + 1 /\ m.aptr = l.aptr
     ELSE /\ HoldsAt(m.args, l.aptr, Address(copy, P(a)))
          /\ m.ianum = l.ianum /\ m.aptr = l.aptr + P(a)

LEMMA CopyPushed ==
  ASSUME NEW a, a.cpu \in Cpus, NEW l, RegInv(a, l), NEW i, NEW n \in Nat,
         NEW own, own = Own(i, n), NEW copy, copy = l.eptr - AlignUp(n, 8),
         NEW r, r = ByCopy(a, l, own), r.res = 0, NEW m, m = r.list
  PROVE  Copied(a, l, m, copy, own) /\ copy \in Int /\ i = i
<1> DEFINE inReg == a.cpu \in HasIargs /\ l.ianum < IargNum(a)
           to    == IF inReg THEN l.aptr ELSE l.aptr + P(a)
           l1    == [l EXCEPT !.eptr = copy, !.aptr = to]
           mem   == Put(l1.args, copy, own)
           l2    == [l1 EXCEPT !.args = mem]
           mem2  == Put(l2.args, l.aptr, Address(copy, P(a)))
           l3    == [l2 EXCEPT !.args = mem2]
<1>1. Len(own) = n
  BY LengthOwn
<1>2. r = CASE l1.aptr > copy -> Fail(l1)
            [] l1.aptr <= copy /\ inReg -> InIarg(a, l2, Address(copy, R(a)))
            [] l1.aptr <= copy /\ ~inReg -> Done(l3)
  <2>1. /\ l1 = [l EXCEPT !.eptr = copy, !.aptr = IF inReg THEN @ ELSE @ + P(a)]
        /\ l2 = [l1 EXCEPT !.args = Put(@, copy, own)]
        /\ l3 = [l2 EXCEPT !.args = Put(@, l.aptr, Address(copy, P(a)))]
    BY DEF RegInv, IsList
  <2>2. copy = l.eptr - AlignUp(Len(own), 8)
    BY <1>1
  <2> QED
    BY <2>1, <2>2 DEF ByCopy
<1>3. /\ IsList(l) /\ l.aptr \in Int /\ l.eptr \in Int /\ l.ianum \in Nat
      /\ P(a) \in {4, 8} /\ R(a) \in {4, 8}
  <2>1. IsList(l)
    BY DEF RegInv
  <2>2. l.aptr \in Int /\ l.eptr \in Int /\ l.ianum \in Nat
    BY ListTypes
  <2>3. P(a) \in {4, 8} /\ R(a) \in {4, 8}
    BY WordSizes
  <2> QED
    BY <2>1, <2>2, <2>3
<1>4. copy \in Int /\ to \in Int
  <2>1. AlignUp(n, 8) \in Int
    BY DEF AlignUp
  <2> QED
    BY <1>3, <2>1
<1>5. Len(Address(copy, P(a))) = P(a) /\ Len(Address(copy, R(a))) = R(a)
  <2>1. P(a) \in Nat /\ R(a) \in Nat
    BY <1>3
  <2> QED
    BY <2>1, LengthAddress
<1>6. inReg <=> NextInIarg(a, l)
  BY DEF NextInIarg
<1> HIDE DEF inReg, to, mem
<1>7. IsList(l1) /\ l1.aptr = to /\ Stays(l, l1) /\ l1.args = l.args /\ l1.iargs = l.iargs
  BY <1>3 DEF IsList, Stays
<1> HIDE DEF l1
<1>8. /\ IsList(l2) /\ l2.aptr = to /\ Stays(l, l2) /\ l2.args = mem /\ l2.iargs = l.iargs
  BY <1>7 DEF IsList, Stays
<1>9. HoldsAt(mem, copy, own)
  BY <1>1, <1>4, PutHoldsAt DEF mem
<1> HIDE DEF l2, mem2
<1>10. IsList(l3) /\ l3.aptr = to /\ Stays(l, l3) /\ l3.args = mem2
  BY <1>8 DEF IsList, Stays
<1> HIDE DEF l3
<1>11. l1.aptr <= copy
  <2>1. CASE l1.aptr > copy
    <3>1. r = Fail(l1)
      <4>1. ~(l1.aptr <= copy)
        BY <1>4, <1>7, <2>1
      <4> QED
        BY <1>2, <2>1, <4>1
    <3> QED
      BY <3>1 DEF Fail
  <2> QED
    BY <1>4, <1>7, <2>1
<1>12. ~(l1.aptr > copy)
  BY <1>4, <1>7, <1>11
<1>13. CASE inReg
  <2> DEFINE word == Address(copy, R(a))
             at == R(a) * l.ianum
  <2>1. r = InIarg(a, l2, word)
    BY <1>2, <1>11, <1>12, <1>13
  <2>2. /\ m.ianum = l2.ianum + 1 /\ m.iargs = Put(l2.iargs, R(a) * l2.ianum, word)
        /\ m.aptr = l2.aptr /\ m.anum = l2.anum /\ m.fanum = l2.fanum
        /\ m.fmask = l2.fmask /\ m.dmask = l2.dmask /\ m.args = l2.args
    <3> DEFINE y == Put(l2.iargs, R(a) * l2.ianum, word)
    <3>1. r = Done([l2 EXCEPT !.ianum = l2.ianum + 1, !.iargs = y])
      BY <2>1 DEF InIarg
    <3> HIDE DEF y, word
    <3>2. m = [l2 EXCEPT !.ianum = l2.ianum + 1, !.iargs = y]
      BY <3>1 DEF Done
    <3>3. m.iargs = y
      BY <1>8, <3>2 DEF IsList
    <3> QED
      BY <1>8, <3>2, <3>3 DEF IsList, y
  <2>3. at \in Int /\ Len(word) \in Nat
    BY <1>3, <1>5
  <2>4. to = l.aptr
    BY <1>13 DEF to
  <2>5. l2.ianum = l.ianum
    BY <1>8 DEF Stays
  <2>6. m.iargs = Put(l2.iargs, at, word)
    BY <2>2, <2>5
  <2> HIDE DEF at, word
  <2>7. HoldsAt(m.iargs, at, word)
    BY <2>3, <2>6, PutHoldsAt
  <2>8. Copied(a, l, m, copy, own)
    BY <1>6, <1>8, <1>9, <1>13, <2>2, <2>4, <2>5, <2>7 DEF Copied, Stays, at, word
  <2> QED
    BY <1>4, <2>8
<1>14. CASE ~inReg
  <2> DEFINE word == Address(copy, P(a))
             at == l.aptr
  <2>1. r = Done(l3) /\ m = l3
    BY <1>2, <1>11, <1>12, <1>14 DEF Done
  <2>2. to = l.aptr + P(a)
    BY <1>14 DEF to
  <2>3. Len(word) \in Nat /\ at \in Int /\ at + Len(word) <= copy
    BY <1>3, <1>4, <1>5, <1>7, <1>11, <2>2
  <2>4. mem2 = Put(mem, at, word)
    BY <1>8 DEF mem2
  <2> HIDE DEF at, word
  <2>5. HoldsAt(mem2, at, word)
    BY <2>3, <2>4, PutHoldsAt
  <2>6. HoldsAt(mem2, copy, own)
    BY <1>1, <1>4, <1>9, <2>3, <2>4, PutKeepsHeld
  <2>7. Copied(a, l, m, copy, own)
    BY <1>6, <1>10, <1>14, <2>1, <2>2, <2>5, <2>6 DEF Copied, Stays, at, word
  <2> QED
    BY <1>4, <2>7
<1> QED
  BY <1>13, <1>14

LEMMA AddressPart ==
  ASSUME NEW x, NEW n \in Nat, NEW word, word = Address(x, n), NEW off, off = 0
  PROVE  PartAt(word, off, word, n) /\ Len(word) = n /\ (n >= 1 => word[1][1] = x)
<1>1. word = [k \in 1..n |-> <<x, "ptr", k>>] /\ Len(word) = n
  BY LengthAddress DEF Address, Bytes
<1>2. word = [k \in 1..n |-> word[k]]
  BY <1>1
<1>3. n >= 1 => word[1][1] = x
  BY <1>1
<1> QED
  BY <1>1, <1>2, <1>3 DEF PartAt

LEMMA CopyTypes ==
  ASSUME NEW a, a \in ABISet, a.cpu \in CopyCpus
  PROVE  /\ a.cpu \in Cpus /\ P(a) = R(a) /\ P(a) \in {4, 8} /\ VA!P(a) = P(a)
         /\ a.cpu \notin RiscV \cup {"hppa", "hppa64", "armhf", "powerpc_sysv4"}
         /\ a.cpu \in IargCpus \/ (a.cpu = "sparc" /\ W(a) = 4 /\ P(a) = 4)
         /\ W(a) \in {4, 8} /\ W(a) <= P(a) /\ a.cpu \notin CountsArguments
         /\ a.cpu \in HasIargs <=> a.cpu \in IargCpus
<1>1. a.cpu \in Cpus /\ P(a) = R(a) /\ P(a) \in {4, 8} /\ VA!P(a) = P(a) /\ W(a) \in {4, 8}
  BY Orders, WordSizes, CpuWords, SameSizes DEF CopyCpus, Arm64, S390
<1>2. W(a) <= P(a) /\ (a.cpu = "sparc" => W(a) = 4 /\ P(a) = 4)
  BY <1>1, CpuWords DEF CopyCpus, Arm64, S390
<1> QED
  BY <1>1, <1>2
     DEF CopyCpus, IargCpus, Arm64, S390, SysV, RiscV, CountsArguments, MipsWide, HasIargs

LEMMA PointerArrives ==
  ASSUME NEW a, a \in ABISet, a.cpu \in CopyCpus, NEW l, NEW v, Ready(a, l, v),
         NEW m, NEW copy, NEW own, Copied(a, l, m, copy, own), Sees(a, m, v),
         NEW word, word = Address(copy, P(a))
  PROVE  Arrives(a, m, word, v, VA!va_arg_ptr(a, v)) /\ own = own
<1> DEFINE n == P(a)
           f == VA!va_arg_adjusted(a, v, n)
           off == 0
<1>1. /\ a.cpu \in Cpus /\ n \in {4, 8} /\ n = R(a)
      /\ a.cpu \in IargCpus \/ (a.cpu = "sparc" /\ W(a) = 4 /\ P(a) = 4)
      /\ a.cpu \notin RiscV \cup {"hppa", "hppa64", "armhf", "powerpc_sysv4"}
      /\ W(a) \in {4, 8} /\ W(a) <= n /\ a.cpu \notin CountsArguments
      /\ a.cpu \in HasIargs <=> a.cpu \in IargCpus
  BY CopyTypes
<1>2. VA!va_arg_ptr(a, v) = f
  BY CopyTypes DEF VA!va_arg_ptr
<1>3. word = Address(copy, n) /\ n \in Nat /\ off = 0
  BY <1>1
<1> HIDE DEF n, f, off
<1>4. PartAt(word, off, word, n) /\ Len(word) = n
  BY <1>3, AddressPart
<1>5. CASE NextInIarg(a, l)
  <2>1. WordPushed(a, l, m, word)
    BY <1>1, <1>4, <1>5 DEF WordPushed, WordPlaced, Copied, n
  <2>2. PartAt(word, Offset(a, R(a), n), word, n)
    <3>1. Offset(a, R(a), n) = off
      BY <1>1 DEF Offset, off
    <3> QED
      BY <1>4, <3>1
  <2>3. n \in Nat /\ 1 <= n /\ n <= R(a)
    BY <1>1
  <2>4. Arrives(a, m, word, v, f)
    BY <1>5, <2>1, <2>2, <2>3, WordInIarg DEF f
  <2> QED
    BY <1>2, <2>4
<1>6. CASE ~NextInIarg(a, l) /\ a.cpu = "sparc"
  <2>1. W(a) = n /\ n = 4 /\ a.cpu \in OneWordCpus
    BY <1>1, <1>6 DEF OneWordCpus, n, IargCpus, Arm64, S390, SysV
  <2>2. WordPushed(a, l, m, word)
    BY <1>1, <1>4, <1>6, <2>1 DEF WordPushed, WordPlaced, Copied, n
  <2>3. PartAt(word, IF a.order = "little" THEN 0 ELSE Len(word) - n, word, n)
    BY <1>4, <2>1 DEF off
  <2>4. Arrives(a, m, word, v, f)
    <3>1. n \in Nat /\ 1 <= n /\ n <= W(a)
      BY <2>1
    <3> QED
      BY <2>1, <2>2, <2>3, <3>1, WordOnStack DEF f
  <2> QED
    BY <1>2, <2>4
<1>7. CASE ~NextInIarg(a, l) /\ a.cpu # "sparc"
  <2>1. a.cpu \in IargCpus /\ a.cpu \in HasIargs
    BY <1>1, <1>7
  <2>2. /\ v.aptr = l.aptr /\ v.ianum = l.ianum /\ IsVaList(v) /\ v.ianum \in Nat
        /\ v.anum \in Nat /\ v.fanum \in Nat /\ v.fanum = l.fanum /\ l.aptr \in Int
        /\ l.aptr % W(a) = 0 /\ v.ianum = IargNum(a)
    <3>1. RegInv(a, l) /\ Match(a, l, v) /\ a.cpu \in CountsFloats /\ IargNum(a) \in Nat
      BY <2>1, IargTypes DEF Ready
    <3>2. l.aptr \in Int /\ l.ianum \in Nat
      BY <1>1, <3>1, ListTypes
    <3>3. l.ianum \in 0..IargNum(a) /\ ~(l.ianum < IargNum(a))
      BY <1>7, <2>1, <3>1 DEF RegInv, Registers, NextInIarg
    <3>4. l.ianum = IargNum(a)
      BY <3>1, <3>3
    <3> QED
      BY <1>1, <2>1, <3>1, <3>2, <3>4 DEF Match, Cursor
  <2> DEFINE words == CeilDiv(n, R(a))
             size == AlignUp(n, W(a))
             p == IF a.cpu \in S390 /\ n < W(a) THEN v.aptr + size - n
                  ELSE v.aptr + size - size
  <2>3. words = 1 /\ size = n
    BY <1>1 DEF CeilDiv, AlignUp
  <2>4. p = l.aptr
    <3>1. ~(n < W(a))
      BY <1>1
    <3>2. p = v.aptr + size - size
      BY <3>1
    <3> HIDE DEF p
    <3> QED
      BY <1>3, <2>2, <2>3, <3>2
  <2>5. a.cpu \in SysV => IargNum(a) = 6
    BY <2>1, IargTypes
  <2>6. /\ a.cpu \notin SysV => v.ianum + words > IargNum(a)
        /\ a.cpu \in SysV => n > 16 \/ v.ianum + words > 6
        /\ words = CeilDiv(n, R(a)) /\ size = AlignUp(n, W(a)) /\ words \in Nat
        /\ p = IF a.cpu \in S390 /\ n < W(a) THEN v.aptr + size - n
               ELSE v.aptr + size - size
        /\ a \in ABISet /\ a.cpu \in IargCpus /\ IsVaList(v) /\ v.ianum \in Nat /\ n \in Nat
        /\ f = VA!va_arg_adjusted(a, v, n)
    BY <1>3, <2>1, <2>2, <2>3, <2>5 DEF f
  <2> HIDE DEF words, size, p
  <2>7. /\ Reads(v, f, VA!Get(v.mem, p, n), v.aptr + size)
        /\ f.va.ianum = IF a.cpu \in SysV THEN v.ianum ELSE IargNum(a)
        /\ f.va.anum = v.anum /\ f.va.fanum = v.fanum
    BY ONLY <2>6, BehindTaken
  <2>8. /\ HoldsAt(m.args, p, word) /\ m.aptr = l.aptr + n /\ m.ianum = l.ianum
        /\ m.fanum = l.fanum
    BY <1>3, <1>7, <2>4 DEF Copied, n
  <2>9. Counts(a, m, f.va)
    BY <1>1, <2>1, <2>2, <2>7, <2>8, IargTypes DEF Counts
  <2>10. Whole(a, m) /\ NotMarked(a, l, m)
    <3> DEFINE w == W(a)
    <3>1. w \in {4, 8} /\ l.aptr % w = 0 /\ l.aptr \in Int /\ n \in {4, 8} /\ w <= n
          /\ m.aptr = l.aptr + n
      BY <1>1, <2>2, <2>8
    <3> HIDE DEF w
    <3>2. m.aptr \in Int /\ m.aptr % w = 0
      BY <3>1
    <3> QED
      BY <1>1, <3>2 DEF Whole, NotMarked, w
  <2>11. p \in Int /\ p + Len(word) <= m.aptr /\ p = p + off /\ Len(word) \in Nat
         /\ Reads(v, f, VA!Get(v.mem, p, n), m.aptr)
    BY <1>3, <1>4, <2>2, <2>3, <2>4, <2>7, <2>8 DEF off
  <2>12. Arrives(a, m, word, v, f)
    BY <1>1, <1>4, <2>8, <2>9, <2>10, <2>11, StackArrives
  <2> QED
    BY <1>2, <2>12
<1> QED
  BY <1>5, <1>6, <1>7

LEMMA CopyArrives ==
  ASSUME NEW a, a \in ABISet, a.cpu \in CopyCpus, NEW l, NEW v, Ready(a, l, v),
         NEW i, NEW n \in Nat, NEW own, own = Own(i, n), NEW r, r = ByCopy(a, l, own),
         r.res = 0, NEW m, m = r.list, Sees(a, m, v)
  PROVE  Arrives(a, m, own, v, VA!Pointed(a, v, n)) /\ i = i
<1> DEFINE copy == l.eptr - AlignUp(n, 8)
           word == Address(copy, P(a))
           g == VA!va_arg_ptr(a, v)
           f == VA!Pointed(a, v, n)
<1>1. Copied(a, l, m, copy, own) /\ copy \in Int
  BY CopyTypes, CopyPushed DEF Ready
<1>2. Arrives(a, m, word, v, g)
  <2> HIDE DEF copy
  <2> QED
    BY <1>1, PointerArrives
<1>3. word[1][1] = copy /\ VA!Address(copy, VA!P(a)) = word
  <2>1. P(a) \in Nat /\ P(a) >= 1 /\ VA!P(a) = P(a)
    BY CopyTypes
  <2> HIDE DEF copy
  <2> QED
    BY <2>1, AddressPart DEF VA!Address, VA!Bytes, Address, Bytes
<1>4. VA!Get(v.callers, copy, n) = own
  <2>1. HoldsAt(m.args, copy, own) /\ Len(own) = n
    BY <1>1, LengthOwn DEF Copied
  <2>2. HoldsAt(v.callers, copy, own)
    <3> HIDE DEF copy
    <3> QED
      BY <1>1, <2>1, SeenByPointer
  <2> DEFINE off == 0
  <2>3. PartAt(own, off, own, n) /\ off = 0
    BY OwnPart
  <2>4. copy = copy + off
    BY <1>1
  <2> HIDE DEF off, copy
  <2> QED
    BY <1>1, <2>1, <2>2, <2>3, <2>4, GetHeldAt
<1> HIDE DEF word, copy
<1>5. g.value = word /\ DOMAIN g = {"va", "value"}
  BY <1>2 DEF Arrives
<1>6. f = [g EXCEPT !.value = own]
  BY <1>3, <1>4, <1>5 DEF VA!Pointed
<1> HIDE DEF f, g
<1>7. f.va = g.va /\ f.value = own /\ DOMAIN f = {"va", "value"}
  BY <1>5, <1>6
<1>8. Arrives(a, m, own, v, f)
  BY <1>2, <1>7 DEF Arrives
<1> QED
  BY <1>8 DEF f

-----------------------------------------------------------------------------
(* Structs in integer registers, or behind the last of them.               *)
LEMMA IargCursor ==
  ASSUME NEW a, a \in ABISet, a.cpu \in IargCpus, NEW l, NEW v, Ready(a, l, v)
  PROVE  /\ v.aptr = l.aptr /\ v.ianum = l.ianum /\ IsVaList(v) /\ v.ianum \in Nat
         /\ v.anum \in Nat /\ v.fanum \in Nat /\ v.fanum = l.fanum /\ l.aptr \in Int
         /\ l.aptr % W(a) = 0 /\ IsList(l) /\ l.ianum \in 0..IargNum(a)
<1>1. RegInv(a, l) /\ Match(a, l, v)
  BY DEF Ready
<1>2. /\ a.cpu \in Cpus /\ a.cpu \in HasIargs /\ a.cpu \in CountsFloats
      /\ a.cpu \notin RiscV
  BY IargTypes
<1>3. l.aptr \in Int
  BY <1>1, <1>2, ListTypes
<1>4. IsList(l) /\ l.ianum \in 0..IargNum(a)
  BY <1>1 DEF RegInv, Registers
<1> QED
  BY <1>1, <1>2, <1>3, <1>4 DEF Match, Cursor

InIargWords(a, l, m, p, next, own) ==
  /\ HoldsAt(m.iargs, p, own) /\ m.ianum = next /\ m.aptr = l.aptr /\ m.fanum = l.fanum

LEMMA RegisterStructArrives ==
  ASSUME NEW a, a \in ABISet, a.cpu \in IargCpus, NEW l, NEW v, Ready(a, l, v),
         NEW i, NEW n \in Nat, NEW own, own = Own(i, n), NEW words, words = CeilDiv(n, R(a)),
         NEW next, next = l.ianum + words, next <= IargNum(a), a.cpu \in SysV => n <= 16,
         NEW p, p = IF a.cpu \in S390 THEN R(a) * next - n ELSE R(a) * l.ianum,
         NEW m, InIargWords(a, l, m, p, next, own), Sees(a, m, v),
         NEW A, IsVaList(A), MovedTo(v, A, v.aptr), NEW f, f = VA!va_arg_adjusted(a, A, n)
  PROVE  Arrives(a, m, own, v, f) /\ i = i
<1>1. /\ a.cpu \in Cpus /\ a.cpu \in HasIargs /\ R(a) \in {4, 8}
      /\ a.cpu \in CountsFloats /\ a.cpu \notin CountsPlaces
      /\ a.cpu \notin {"hppa", "hppa64", "armhf", "mips", "powerpc_sysv4"}
  BY IargTypes
<1>2. /\ v.aptr = l.aptr /\ v.ianum = l.ianum /\ IsVaList(v) /\ v.ianum \in Nat
      /\ v.anum \in Nat /\ v.fanum \in Nat /\ v.fanum = l.fanum /\ l.aptr \in Int
  BY IargCursor
<1>3. /\ A.ianum = v.ianum /\ A.anum = v.anum /\ A.fanum = v.fanum /\ A.aptr = v.aptr
      /\ A.iargs = v.iargs
  BY DEF MovedTo, SameCounts, Moved
<1>4. words \in Nat /\ n <= R(a) * words
  <2> DEFINE R0 == R(a)
  <2>1. R0 \in {4, 8} /\ words = CeilDiv(n, R0)
    BY <1>1
  <2> HIDE DEF R0
  <2>2. CASE R0 = 4
    <3>1. words = (n + 3) \div 4
      BY <2>1, <2>2 DEF CeilDiv
    <3> QED
      BY <2>2, <3>1 DEF R0
  <2>3. CASE R0 = 8
    <3>1. words = (n + 7) \div 8
      BY <2>1, <2>3 DEF CeilDiv
    <3> QED
      BY <2>3, <3>1 DEF R0
  <2> QED
    BY <2>1, <2>2, <2>3
<1>5. next \in Nat /\ next = A.ianum + words
      /\ p = IF a.cpu \in S390 THEN R(a) * next - n ELSE R(a) * A.ianum
  BY <1>2, <1>3, <1>4
<1>6. /\ Reads(A, f, VA!Get(A.iargs, p, n), A.aptr)
      /\ f.va.ianum = next /\ f.va.anum = A.anum /\ f.va.fanum = A.fanum
  <2>1. /\ a \in ABISet /\ a.cpu \in IargCpus /\ IsVaList(A) /\ A.ianum \in Nat
        /\ n \in Nat /\ words \in Nat /\ words = CeilDiv(n, R(a)) /\ next = A.ianum + words
        /\ next <= IargNum(a) /\ (a.cpu \in SysV => n <= 16)
        /\ p = (IF a.cpu \in S390 THEN R(a) * next - n ELSE R(a) * A.ianum)
        /\ f = VA!va_arg_adjusted(a, A, n)
    BY <1>2, <1>3, <1>4, <1>5
  <2> QED
    BY ONLY <2>1, RegistersTaken
<1>7. Reads(v, f, VA!Get(v.iargs, p, n), v.aptr)
  BY <1>3, <1>6 DEF Reads, Moved, MovedTo
<1>8. Counts(a, m, f.va)
  BY <1>1, <1>2, <1>3, <1>5, <1>6 DEF Counts, InIargWords
<1> DEFINE size == R(a)
<1>9. p \in Int /\ p + n <= size * m.ianum /\ size = R(a) /\ m.ianum \in Int
  <2>1. m.ianum = next /\ l.ianum \in Nat
    BY <1>2 DEF InIargWords
  <2>2. size \in {4, 8} /\ n <= size * words
    BY <1>1, <1>4
  <2>3. p = IF a.cpu \in S390 THEN size * next - n ELSE size * l.ianum
    OBVIOUS
  <2> HIDE DEF size
  <2>4. CASE size = 4
    BY <1>4, <1>5, <2>1, <2>2, <2>3, <2>4 DEF size
  <2>5. CASE size = 8
    BY <1>4, <1>5, <2>1, <2>2, <2>3, <2>5 DEF size
  <2> QED
    BY <2>2, <2>4, <2>5
<1>10. HoldsAt(m.iargs, p, own) /\ m.aptr = l.aptr
  BY DEF InIargWords
<1> HIDE DEF size
<1>11. Arrives(a, m, own, v, f)
  BY <1>1, <1>7, <1>8, <1>9, <1>10, OwnInIarg
<1> QED
  BY <1>11

BehindRegisters(a, l, m, p, size, own) ==
  /\ HoldsAt(m.args, p, own) /\ m.aptr = p + size /\ m.fanum = l.fanum
  /\ m.ianum = IF a.cpu \in SysV THEN l.ianum ELSE IargNum(a)

LEMMA StackStructArrives ==
  ASSUME NEW a, a \in ABISet, a.cpu \in IargCpus, NEW l, NEW v, Ready(a, l, v),
         NEW i, NEW n \in Nat, NEW own, own = Own(i, n), NEW words, words = CeilDiv(n, R(a)),
         a.cpu \notin SysV => l.ianum + words > IargNum(a),
         a.cpu \in SysV => n > 16 \/ l.ianum + words > 6,
         a.cpu \in S390 => ~(n < W(a)), NEW size, size = AlignUp(n, W(a)),
         NEW p, p = l.aptr, NEW m, BehindRegisters(a, l, m, p, size, own), Sees(a, m, v),
         NEW A, IsVaList(A), MovedTo(v, A, v.aptr), NEW f, f = VA!va_arg_adjusted(a, A, n)
  PROVE  Arrives(a, m, own, v, f) /\ i = i
<1>1. /\ a.cpu \in Cpus /\ a.cpu \in HasIargs /\ R(a) \in {4, 8} /\ W(a) \in {4, 8}
      /\ a.cpu \in CountsFloats /\ a.cpu \notin CountsPlaces \cup RiscV
      /\ a.cpu \notin {"hppa", "hppa64", "armhf", "mips", "powerpc_sysv4"}
      /\ IargNum(a) \in Nat
  BY IargTypes
<1>2. /\ v.aptr = l.aptr /\ v.ianum = l.ianum /\ IsVaList(v) /\ v.ianum \in Nat
      /\ v.anum \in Nat /\ v.fanum \in Nat /\ v.fanum = l.fanum /\ l.aptr \in Int
      /\ l.aptr % W(a) = 0
  BY IargCursor
<1>3. /\ A.ianum = v.ianum /\ A.anum = v.anum /\ A.fanum = v.fanum /\ A.aptr = v.aptr
      /\ A.mem = v.mem
  BY DEF MovedTo, SameCounts, Moved
<1>4. words \in Nat /\ size \in Nat /\ n <= size /\ (p + size) % W(a) = 0
  <2>1. words \in Nat
    <3> DEFINE R0 == R(a)
    <3>1. R0 \in {4, 8} /\ words = CeilDiv(n, R0)
      BY <1>1
    <3> HIDE DEF R0
    <3>2. CASE R0 = 4
      BY <3>1, <3>2 DEF CeilDiv
    <3>3. CASE R0 = 8
      BY <3>1, <3>3 DEF CeilDiv
    <3> QED
      BY <3>1, <3>2, <3>3
  <2>2. size \in Nat /\ n <= size /\ (p + size) % W(a) = 0
    <3> DEFINE w == W(a)
    <3>1. w \in {4, 8} /\ size = AlignUp(n, w) /\ p \in Int /\ p % w = 0
      BY <1>1, <1>2
    <3> HIDE DEF w
    <3>2. CASE w = 4
      <4>1. size = ((n + 3) \div 4) * 4
        BY <3>1, <3>2 DEF AlignUp
      <4>2. size \in Nat /\ n <= size /\ (p + size) % 4 = 0
        BY <3>1, <3>2, <4>1
      <4> QED
        BY <3>2, <4>2 DEF w
    <3>3. CASE w = 8
      <4>1. size = ((n + 7) \div 8) * 8
        BY <3>1, <3>3 DEF AlignUp
      <4>2. size \in Nat /\ n <= size /\ (p + size) % 8 = 0
        BY <3>1, <3>3, <4>1
      <4> QED
        BY <3>3, <4>2 DEF w
    <3> QED
      BY <3>1, <3>2, <3>3
  <2> QED
    BY <2>1, <2>2
<1>5. p = IF a.cpu \in S390 /\ n < W(a) THEN A.aptr + size - n ELSE A.aptr + size - size
  BY <1>2, <1>3, <1>4
<1>6. /\ Reads(A, f, VA!Get(A.mem, p, n), A.aptr + size)
      /\ f.va.ianum = IF a.cpu \in SysV THEN A.ianum ELSE IargNum(a)
      /\ f.va.anum = A.anum /\ f.va.fanum = A.fanum
  <2>1. /\ a \in ABISet /\ a.cpu \in IargCpus /\ IsVaList(A) /\ A.ianum \in Nat
        /\ n \in Nat /\ words \in Nat /\ words = CeilDiv(n, R(a))
        /\ (a.cpu \notin SysV => A.ianum + words > IargNum(a))
        /\ (a.cpu \in SysV => n > 16 \/ A.ianum + words > 6)
        /\ size = AlignUp(n, W(a))
        /\ p = (IF a.cpu \in S390 /\ n < W(a) THEN A.aptr + size - n
                ELSE A.aptr + size - size)
        /\ f = VA!va_arg_adjusted(a, A, n)
    BY <1>2, <1>3, <1>4, <1>5
  <2> QED
    BY ONLY <2>1, BehindTaken
<1>7. Reads(v, f, VA!Get(v.mem, p, n), m.aptr)
  BY <1>2, <1>3, <1>6 DEF Reads, Moved, MovedTo, BehindRegisters
<1>8. Counts(a, m, f.va)
  BY <1>1, <1>2, <1>3, <1>6 DEF Counts, BehindRegisters
<1>9. /\ Whole(a, m) /\ NotMarked(a, l, m) /\ p \in Int /\ p + n <= m.aptr
      /\ HoldsAt(m.args, p, own)
  BY <1>1, <1>2, <1>4 DEF Whole, NotMarked, BehindRegisters
<1>10. Arrives(a, m, own, v, f)
  BY <1>1, <1>7, <1>8, <1>9, OwnOnStack
<1> QED
  BY <1>10

LEMMA NoMoreEffect ==
  ASSUME NEW a, NEW s, IsResult(s), s.res \in {0, -1}, NEW r, r = NoMoreIargs(a, s), r.res = 0
  PROVE  /\ s.res = 0 /\ r.list.args = s.list.args /\ r.list.aptr = s.list.aptr
         /\ r.list.fanum = s.list.fanum /\ r.list.ianum = IargNum(a)
<1>1. s.res = 0
  BY DEF NoMoreIargs
<1> DEFINE b == s.list
           N == IargNum(a)
<1>2. r = [s EXCEPT !.list.ianum = N]
  BY <1>1 DEF NoMoreIargs
<1> HIDE DEF N
<1>3. r.list = [b EXCEPT !.ianum = N]
  BY <1>2 DEF IsResult
<1>4. IsList(b)
  BY DEF IsResult
<1> HIDE DEF b
<1>5. r.list.args = b.args /\ r.list.aptr = b.aptr /\ r.list.fanum = b.fanum /\ r.list.ianum = N
  BY <1>3, <1>4 DEF IsList
<1> QED
  BY <1>1, <1>5 DEF b, N

LEMMA NoMove ==
  ASSUME NEW v, IsVaList(v)
  PROVE  MovedTo(v, v, v.aptr)
BY DEF MovedTo, Moved, SameCounts

(* Where the stack goes on with whole words, left-adjusted.                *)
LEMMA LeftBehind ==
  ASSUME NEW a, a \in ABISet, a.cpu \in IargCpus, a.cpu \notin SysV, NEW l, IsList(l),
         NEW n, NEW al, Aligns(l.aptr, W(a), n, al), l.aptr % al = 0 \/ al <= W(a),
         NEW i, NEW own, own = Own(i, n), NEW s, s = LeftAdjusted(a, l, l.aptr, own, al),
         NEW r, r = NoMoreIargs(a, s), r.res = 0, NEW m, m = r.list,
         NEW size, size = AlignUp(n, W(a)), NEW p, p = l.aptr
  PROVE  BehindRegisters(a, l, m, p, size, own) /\ i = i
<1>1. Keeps(l, s)
  <2>1. Unmarking(l, l)
    BY DEF Unmarking
  <2> QED
    BY <2>1, AdjustedKeep
<1>2. IsResult(s) /\ s.res \in {0, -1}
  BY <1>1 DEF Keeps
<1>3. /\ s.res = 0 /\ m.args = s.list.args /\ m.aptr = s.list.aptr
      /\ m.fanum = s.list.fanum /\ m.ianum = IargNum(a)
  BY <1>2, NoMoreEffect
<1> DEFINE q == AlignUp(l.aptr, al)
           b == s.list
<1>4. StructPlaced(a, l, b, q, n, own, "left")
  BY <1>3, LeftPlaced
<1>5. q = p
  <2> DEFINE w == W(a)
             x == l.aptr
             end == AlignUp(x + n, al)
             nx == AlignUp(end, w)
             sz == AlignUp(n, w)
  <2>1. Aligns(x, w, n, al) /\ q = AlignUp(x, al) /\ sz = AlignUp(n, w)
        /\ end = AlignUp(x + n, al) /\ nx = AlignUp(end, w) /\ (x % al = 0 \/ al <= w)
        /\ x = l.aptr
    OBVIOUS
  <2> HIDE DEF w, x, end, nx, sz, q
  <2>2. x % al = 0 \/ al <= w => q = x
    BY <2>1, AlignedBy
  <2> QED
    BY <2>1, <2>2
<1> HIDE DEF q, b
<1>6. HoldsAt(b.args, p, own) /\ b.aptr = p + size /\ b.fanum = l.fanum
  BY <1>4, <1>5 DEF StructPlaced, StructAt, Stays
<1> QED
  BY <1>3, <1>6 DEF BehindRegisters, b

LEMMA Arm64StructArrives ==
  ASSUME NEW a, a \in ABISet, a.cpu \in Arm64, NEW l, NEW v, Ready(a, l, v),
         NEW t \in CTypes(a), t.kind = "struct", ~DisputedStruct(a, l, t),
         NEW i, NEW own, own = Own(i, t.size), NEW r, r = av_struct(a, l, own, t),
         r.res = 0, NEW m, m = r.list, Sees(a, m, v)
  PROVE  Arrives(a, m, own, v, VA!va_arg_struct(a, v, t)) /\ i = i
<1> DEFINE n == t.size
           al == t.align
           f == VA!va_arg_struct(a, v, t)
           left == LeftAdjusted(a, l, l.aptr, own, al)
           e == AlignUp(8 * l.ianum + n, al)
           words == CeilDiv(n, R(a))
           next == l.ianum + words
           at == R(a) * l.ianum
<1>1. /\ a.cpu \in IargCpus /\ a.cpu \in CopyCpus /\ a.cpu \notin S390 /\ a.cpu \notin SysV
      /\ R(a) = 8 /\ IargNum(a) = 8 /\ a.cpu \in Cpus
  BY Orders, CpuWords, RegisterCounts DEF IargCpus, CopyCpus, Arm64, S390, SysV
<1>2. /\ v.aptr = l.aptr /\ v.ianum = l.ianum /\ IsVaList(v) /\ IsList(l) /\ l.ianum \in 0..8
  BY <1>1, IargCursor
<1>3. /\ Aligns(l.aptr, W(a), n, al) /\ n \in Nat /\ n >= 1 /\ al \in {1, 2, 4, 8, 16}
      /\ n % al = 0
  BY StructAligns DEF Aligns
<1>4. n <= 16 /\ e > 64 => l.aptr % al = 0
  <2>1. n <= 16 /\ AlignUp(R(a) * l.ianum + t.size, t.align) > R(a) * IargNum(a)
          => ~(l.aptr % t.align # 0)
    BY <1>1 DEF DisputedStruct, Arm64, MipsWide, SysV, RiscV, S390
  <2>2. R(a) * IargNum(a) = 64 /\ R(a) * l.ianum = 8 * l.ianum
    BY <1>1
  <2> QED
    BY <2>1, <2>2
<1>5. r = IF n > 16 THEN ByCopy(a, l, own)
          ELSE IF e <= 64
               THEN Done([l EXCEPT !.ianum = next, !.iargs = Put(@, at, own)])
               ELSE NoMoreIargs(a, left)
  <2>1. StructWords(t, R(a)) = words
    <3>1. AlignUp(n, al) = n
      <4>1. n \in Int
        BY <1>3
      <4> HIDE DEF n, al
      <4> QED
        BY <1>3, <4>1, UpToItself
    <3> QED
      BY <3>1 DEF StructWords
  <2>2. R(a) * IargNum(a) = 64 /\ R(a) * l.ianum = 8 * l.ianum
    BY <1>1
  <2>3. r = IF t.size > 16 THEN ByCopy(a, l, own)
            ELSE IF AlignUp(R(a) * l.ianum + t.size, t.align) <= R(a) * IargNum(a)
                 THEN Done([l EXCEPT !.ianum = l.ianum + StructWords(t, R(a)),
                                     !.iargs = Put(@, R(a) * l.ianum, own)])
                 ELSE NoMoreIargs(a, LeftAdjusted(a, l, l.aptr, own, t.align))
    BY DEF av_struct, MipsWide, PPC64, Arm64, SysV, S390, RiscV
  <2> HIDE DEF words
  <2> QED
    BY <2>1, <2>2, <2>3
<1>6. f = IF n <= 16 THEN VA!va_arg_adjusted(a, v, n) ELSE VA!Pointed(a, v, n)
  <2>1. VA!R(a) = 8
    BY <1>1, SameSizes
  <2>2. 2 * VA!R(a) = 16
    BY <2>1
  <2> QED
    BY <2>2 DEF VA!va_arg_struct, VA!SysV, VA!MipsWide, VA!Arm64, VA!RiscV, VA!S390, Arm64
<1>7. MovedTo(v, v, v.aptr)
  BY <1>2, NoMove
<1>8. n = t.size /\ own = Own(i, n) /\ words = CeilDiv(n, R(a)) /\ next = l.ianum + words
      /\ at = R(a) * l.ianum /\ e = AlignUp(8 * l.ianum + n, al)
      /\ left = LeftAdjusted(a, l, l.aptr, own, al)
  OBVIOUS
<1> HIDE DEF n, al, f, left, e, words, next, at
<1>9. CASE n > 16
  <2>1. r = ByCopy(a, l, own) /\ f = VA!Pointed(a, v, n)
    BY <1>3, <1>5, <1>6, <1>9
  <2>2. Arrives(a, m, own, v, VA!Pointed(a, v, n))
    BY <1>1, <1>3, <1>8, <2>1, CopyArrives
  <2> QED
    BY <2>1, <2>2 DEF f
<1>10. ASSUME ~(n > 16)
       PROVE  (e <= 64 <=> next <= 8) /\ words \in Nat /\ f = VA!va_arg_adjusted(a, v, n)
              /\ n <= 16
  <2>1. n \in 1..16 /\ words = CeilDiv(n, 8)
    BY <1>1, <1>3, <1>8, <1>10
  <2> DEFINE k == l.ianum
             y == 8 * k + n
  <2>2. /\ k \in 0..8 /\ n \in 1..16 /\ al \in {1, 2, 4, 8, 16} /\ n % al = 0
        /\ y = 8 * k + n /\ e = AlignUp(y, al) /\ words = CeilDiv(n, 8)
        /\ next = k + words
    BY <1>2, <1>3, <1>8, <2>1
  <2> HIDE DEF k, y
  <2>3. words \in Nat /\ 8 * words >= n /\ 8 * words < n + 8
    <3>1. words = (n + 7) \div 8
      BY <2>1 DEF CeilDiv
    <3> QED
      BY ONLY <2>1, <3>1
  <2>4. y \in Nat /\ (next <= 8 <=> y <= 64)
    BY ONLY <2>2, <2>3
  <2>5. e <= 64 <=> y <= 64
    <3>1. e = AlignUp(y, al)
      BY <2>2
    <3>2. CASE al = 1
      BY ONLY <2>4, <3>1, <3>2 DEF AlignUp
    <3>3. CASE al = 2
      BY ONLY <2>4, <3>1, <3>3 DEF AlignUp
    <3>4. CASE al = 4
      BY ONLY <2>4, <3>1, <3>4 DEF AlignUp
    <3>5. CASE al = 8
      BY ONLY <2>4, <3>1, <3>5 DEF AlignUp
    <3>6. CASE al = 16
      BY ONLY <2>4, <3>1, <3>6 DEF AlignUp
    <3> QED
      BY <2>2, <3>2, <3>3, <3>4, <3>5, <3>6
  <2> QED
    BY <1>6, <2>1, <2>3, <2>4, <2>5
<1>11. CASE ~(n > 16) /\ e <= 64
  <2>1. r = Done([l EXCEPT !.ianum = next, !.iargs = Put(@, at, own)])
    BY <1>5, <1>11
  <2>2. m = [l EXCEPT !.ianum = next, !.iargs = Put(@, at, own)]
    BY <2>1 DEF Done
  <2>3. at \in Int /\ Len(own) \in Nat
    <3>1. Len(own) = n
      BY <1>3, <1>8, LengthOwn
    <3> QED
      BY <1>1, <1>2, <1>3, <1>8, <3>1
  <2>4. InIargWords(a, l, m, at, next, own)
    <3> DEFINE y == Put(l.iargs, at, own)
    <3>1. /\ IsList(l) /\ at \in Int /\ Len(own) \in Nat /\ y = Put(l.iargs, at, own)
          /\ m = [l EXCEPT !.ianum = next, !.iargs = y]
      BY <1>2, <2>2, <2>3
    <3> HIDE DEF y
    <3>2. HoldsAt(y, at, own)
      BY ONLY <3>1, PutHoldsAt
    <3>3. m.iargs = y /\ m.ianum = next /\ m.aptr = l.aptr /\ m.fanum = l.fanum
      BY ONLY <3>1 DEF IsList
    <3> QED
      BY ONLY <3>2, <3>3 DEF InIargWords
  <2>5. /\ a \in ABISet /\ a.cpu \in IargCpus /\ Ready(a, l, v) /\ n \in Nat
        /\ own = Own(i, n) /\ words = CeilDiv(n, R(a)) /\ next = l.ianum + words
        /\ next <= IargNum(a) /\ (a.cpu \in SysV => n <= 16)
        /\ at = (IF a.cpu \in S390 THEN R(a) * next - n ELSE R(a) * l.ianum)
        /\ InIargWords(a, l, m, at, next, own) /\ Sees(a, m, v)
        /\ IsVaList(v) /\ MovedTo(v, v, v.aptr) /\ f = VA!va_arg_adjusted(a, v, n)
    BY <1>1, <1>2, <1>3, <1>7, <1>8, <1>10, <1>11, <2>4
  <2>6. Arrives(a, m, own, v, f)
    BY ONLY <2>5, RegisterStructArrives
  <2> QED
    BY <2>6 DEF f
<1>12. CASE ~(n > 16) /\ ~(e <= 64)
  <2> DEFINE size == AlignUp(n, W(a))
             p == l.aptr
  <2>1. r = NoMoreIargs(a, left)
    BY <1>5, <1>12
  <2>2. e > 64 /\ l.aptr % al = 0 /\ next > 8
    <3>1. e \in Int
      <4>1. l.ianum \in Nat
        BY <1>2
      <4> QED
        BY <1>3, <1>8, <4>1 DEF AlignUp
    <3>2. e > 64
      BY <1>12, <3>1
    <3>3. next \in Nat
      BY <1>2, <1>8, <1>10, <1>12
    <3> QED
      BY <1>4, <1>10, <1>12, <3>2, <3>3
  <2>3. size = AlignUp(n, W(a)) /\ p = l.aptr
    OBVIOUS
  <2> HIDE DEF size, p
  <2>4. BehindRegisters(a, l, m, p, size, own)
    <3>1. /\ a \in ABISet /\ a.cpu \in IargCpus /\ a.cpu \notin SysV /\ IsList(l)
          /\ Aligns(l.aptr, W(a), n, al) /\ (l.aptr % al = 0 \/ al <= W(a))
          /\ own = Own(i, n) /\ left = LeftAdjusted(a, l, l.aptr, own, al)
          /\ r = NoMoreIargs(a, left) /\ r.res = 0 /\ m = r.list
          /\ size = AlignUp(n, W(a)) /\ p = l.aptr
      BY <1>1, <1>2, <1>3, <1>8, <2>1, <2>2, <2>3
    <3> QED
      BY ONLY <3>1, LeftBehind
  <2>5. /\ a \in ABISet /\ a.cpu \in IargCpus /\ Ready(a, l, v) /\ n \in Nat
        /\ own = Own(i, n) /\ words = CeilDiv(n, R(a))
        /\ (a.cpu \notin SysV => l.ianum + words > IargNum(a))
        /\ (a.cpu \in SysV => n > 16 \/ l.ianum + words > 6)
        /\ (a.cpu \in S390 => ~(n < W(a))) /\ size = AlignUp(n, W(a)) /\ p = l.aptr
        /\ BehindRegisters(a, l, m, p, size, own) /\ Sees(a, m, v)
        /\ IsVaList(v) /\ MovedTo(v, v, v.aptr) /\ f = VA!va_arg_adjusted(a, v, n)
    BY <1>1, <1>2, <1>3, <1>7, <1>8, <1>10, <1>12, <2>2, <2>3, <2>4
  <2>6. Arrives(a, m, own, v, f)
    BY ONLY <2>5, StackStructArrives
  <2> QED
    BY <2>6 DEF f
<1> QED
  BY <1>9, <1>11, <1>12

LEMMA S390Fits ==
  ASSUME NEW w \in {4, 8}, NEW k \in 0..5, NEW n \in {1, 2, 4, 8}, NEW al \in {1, 2, 4, 8, 16},
         n % al = 0, NEW e, e = AlignUp(w * k + n, al), NEW words, words = CeilDiv(n, w),
         NEW next, next = k + words
  PROVE  /\ words \in Nat /\ AlignUp(n, al) = n
         /\ e <= 5 * w => next <= 5
         /\ ~(e <= 5 * w) /\ ~(n < w) /\ (al > w => k >= 4) => next > 5
<1>1. al \in {1, 2, 4, 8} /\ al <= n
  BY Z3
<1>2. CASE w = 4
  <2>1. CASE n \in {1, 2, 4}
    <3>1. words = 1
      BY <1>2, <2>1 DEF CeilDiv
    <3>2. CASE al = 1
      BY <1>2, <2>1, <3>1, <3>2 DEF AlignUp
    <3>3. CASE al = 2
      BY <1>2, <2>1, <3>1, <3>3 DEF AlignUp
    <3>4. CASE al = 4
      BY <1>1, <1>2, <2>1, <3>1, <3>4 DEF AlignUp
    <3> QED
      BY <1>1, <2>1, <3>2, <3>3, <3>4
  <2>2. CASE n = 8
    <3>1. words = 2
      BY <1>2, <2>2 DEF CeilDiv
    <3>2. CASE al = 1
      BY <1>2, <2>2, <3>1, <3>2 DEF AlignUp
    <3>3. CASE al = 2
      BY <1>2, <2>2, <3>1, <3>3 DEF AlignUp
    <3>4. CASE al = 4
      BY <1>2, <2>2, <3>1, <3>4 DEF AlignUp
    <3>5. CASE al = 8
      BY <1>2, <2>2, <3>1, <3>5 DEF AlignUp
    <3> QED
      BY <1>1, <3>2, <3>3, <3>4, <3>5
  <2> QED
    BY <2>1, <2>2
<1>3. CASE w = 8
  <2>1. words = 1
    <3>1. words = (n + 7) \div 8
      BY <1>3 DEF CeilDiv
    <3> QED
      BY <3>1
  <2>2. CASE al = 1
    BY <1>3, <2>1, <2>2 DEF AlignUp
  <2>3. CASE al = 2
    BY <1>3, <2>1, <2>3 DEF AlignUp
  <2>4. CASE al = 4
    BY <1>1, <1>3, <2>1, <2>4 DEF AlignUp
  <2>5. CASE al = 8
    BY <1>1, <1>3, <2>1, <2>5 DEF AlignUp
  <2> QED
    BY <1>1, <2>2, <2>3, <2>4, <2>5
<1> QED
  BY <1>2, <1>3

LEMMA S390StructArrives ==
  ASSUME NEW a, a \in ABISet, a.cpu \in S390, NEW l, NEW v, Ready(a, l, v),
         NEW t \in CTypes(a), t.kind = "struct", ~DisputedStruct(a, l, t),
         NEW i, NEW own, own = Own(i, t.size), NEW r, r = av_struct(a, l, own, t),
         r.res = 0, NEW m, m = r.list, Sees(a, m, v)
  PROVE  Arrives(a, m, own, v, VA!va_arg_struct(a, v, t)) /\ i = i
<1> DEFINE n == t.size
           al == t.align
           f == VA!va_arg_struct(a, v, t)
           w == W(a)
           left == LeftAdjusted(a, l, l.aptr, own, al)
           e == AlignUp(w * l.ianum + n, al)
           words == CeilDiv(n, R(a))
           next == l.ianum + words
           at == R(a) * next - n
<1>1. /\ a.cpu \in IargCpus /\ a.cpu \in CopyCpus /\ a.cpu \notin Arm64 /\ a.cpu \notin SysV
      /\ R(a) = w /\ w \in {4, 8} /\ IargNum(a) = 5 /\ a.cpu \in Cpus
  BY Orders, CpuWords, RegisterCounts DEF IargCpus, CopyCpus, Arm64, S390, SysV
<1>2. /\ v.aptr = l.aptr /\ v.ianum = l.ianum /\ IsVaList(v) /\ IsList(l) /\ l.ianum \in 0..5
  BY <1>1, IargCursor
<1>3. /\ Aligns(l.aptr, W(a), n, al) /\ n \in Nat /\ n >= 1 /\ al \in {1, 2, 4, 8, 16}
      /\ n % al = 0 /\ l.aptr \in Int /\ l.aptr % w = 0
  BY StructAligns DEF Aligns
<1>4. n \in {1, 2, 4, 8} /\ ~(e <= 5 * w)
        => ~(n < w) /\ (al > w => l.ianum >= 4 /\ l.aptr % al = 0)
  <2>1. t.size \in {1, 2, 4, 8} /\ AlignUp(R(a) * l.ianum + t.size, t.align) > R(a) * IargNum(a)
          => ~(t.size < W(a))
             /\ (t.align > W(a) => ~(l.aptr % t.align # 0) /\ ~(l.ianum < 4))
    BY <1>1 DEF DisputedStruct, Arm64, MipsWide, SysV, RiscV, S390
  <2>2. R(a) * IargNum(a) = 5 * w /\ R(a) * l.ianum = w * l.ianum
    BY <1>1
  <2>3. e \in Int
    <3>1. l.ianum \in Nat /\ w \in Nat
      BY <1>1, <1>2
    <3>2. w * l.ianum \in Int
      BY <3>1
    <3> DEFINE z == w * l.ianum
    <3> HIDE DEF z
    <3>3. e = AlignUp(z + n, al)
      BY DEF z
    <3> QED
      BY <1>3, <3>2, <3>3 DEF AlignUp, z
  <2>4. e = AlignUp(R(a) * l.ianum + t.size, t.align)
    BY <2>2
  <2>5. l.ianum \in Nat /\ 5 * w \in Int
    BY <1>1, <1>2
  <2> HIDE DEF e
  <2> QED
    BY <1>3, <2>1, <2>2, <2>3, <2>4, <2>5
<1>5. r = IF n \notin {1, 2, 4, 8} THEN ByCopy(a, l, own)
          ELSE IF e <= 5 * w THEN InIargsUpTo(a, l, l.ianum + StructWords(t, R(a)), own)
               ELSE NoMoreIargs(a, left)
  <2>1. R(a) * IargNum(a) = 5 * w /\ R(a) * l.ianum = w * l.ianum
    BY <1>1
  <2>2. r = IF ~(t.size \in {1, 2, 4, 8}) THEN ByCopy(a, l, own)
            ELSE IF AlignUp(R(a) * l.ianum + t.size, t.align) <= R(a) * IargNum(a)
                 THEN InIargsUpTo(a, l, l.ianum + StructWords(t, R(a)), own)
                 ELSE NoMoreIargs(a, LeftAdjusted(a, l, l.aptr, own, t.align))
    BY DEF av_struct, MipsWide, PPC64, Arm64, SysV, S390, RiscV
  <2> QED
    BY <2>1, <2>2
<1>6. f = IF n \in {1, 2, 4, 8} THEN VA!va_arg_adjusted(a, v, n) ELSE VA!Pointed(a, v, n)
  BY DEF VA!va_arg_struct, VA!SysV, VA!MipsWide, VA!Arm64, VA!RiscV, VA!S390, S390
<1>7. MovedTo(v, v, v.aptr)
  BY <1>2, NoMove
<1>8. n = t.size /\ own = Own(i, n) /\ words = CeilDiv(n, R(a)) /\ next = l.ianum + words
      /\ at = R(a) * next - n /\ e = AlignUp(w * l.ianum + n, al) /\ w = W(a)
      /\ left = LeftAdjusted(a, l, l.aptr, own, al)
  OBVIOUS
<1>9. StructWords(t, R(a)) = CeilDiv(AlignUp(n, al), R(a))
  BY DEF StructWords
<1> HIDE DEF n, al, f, left, e, words, next, at, w
<1>10. CASE n \notin {1, 2, 4, 8}
  <2>1. r = ByCopy(a, l, own) /\ f = VA!Pointed(a, v, n)
    BY <1>5, <1>6, <1>10
  <2>2. Arrives(a, m, own, v, VA!Pointed(a, v, n))
    BY <1>1, <1>3, <1>8, <2>1, CopyArrives
  <2> QED
    BY <2>1, <2>2 DEF f
<1>11. ASSUME n \in {1, 2, 4, 8}
       PROVE  /\ words \in Nat /\ AlignUp(n, al) = n
              /\ e <= 5 * w => next <= 5
              /\ ~(e <= 5 * w) /\ ~(n < w) /\ (al > w => l.ianum >= 4) => next > 5
  <2> DEFINE k == l.ianum
  <2>1. /\ w \in {4, 8} /\ k \in 0..5 /\ n \in {1, 2, 4, 8} /\ al \in {1, 2, 4, 8, 16}
        /\ n % al = 0 /\ e = AlignUp(w * k + n, al) /\ words = CeilDiv(n, w)
        /\ next = k + words
    BY <1>1, <1>2, <1>3, <1>8, <1>11
  <2> HIDE DEF k
  <2>2. /\ words \in Nat /\ AlignUp(n, al) = n
        /\ e <= 5 * w => next <= 5
        /\ ~(e <= 5 * w) /\ ~(n < w) /\ (al > w => k >= 4) => next > 5
    BY ONLY <2>1, S390Fits
  <2> QED
    BY <2>2 DEF k
<1>12. CASE n \in {1, 2, 4, 8} /\ e <= 5 * w
  <2>1. r = InIargsUpTo(a, l, next, own) /\ next <= IargNum(a)
    BY <1>1, <1>5, <1>8, <1>9, <1>11, <1>12
  <2>2. at \in Int
    BY <1>1, <1>2, <1>3, <1>8, <1>11, <1>12
  <2>3. InIargWords(a, l, m, at, next, own)
    <3>1. /\ IsList(l) /\ n \in Nat /\ own = Own(i, n) /\ r = InIargsUpTo(a, l, next, own)
          /\ at \in Int /\ at = R(a) * next - n /\ m = r.list
      BY <1>2, <1>3, <1>8, <2>1, <2>2
    <3> QED
      BY ONLY <3>1, OwnInIargs DEF InIargWords
  <2>5. /\ a \in ABISet /\ a.cpu \in IargCpus /\ Ready(a, l, v) /\ n \in Nat
        /\ own = Own(i, n) /\ words = CeilDiv(n, R(a)) /\ next = l.ianum + words
        /\ next <= IargNum(a) /\ (a.cpu \in SysV => n <= 16)
        /\ at = (IF a.cpu \in S390 THEN R(a) * next - n ELSE R(a) * l.ianum)
        /\ InIargWords(a, l, m, at, next, own) /\ Sees(a, m, v)
        /\ IsVaList(v) /\ MovedTo(v, v, v.aptr) /\ f = VA!va_arg_adjusted(a, v, n)
    BY <1>1, <1>2, <1>3, <1>6, <1>7, <1>8, <1>12, <2>1, <2>3
  <2>6. Arrives(a, m, own, v, f)
    BY ONLY <2>5, RegisterStructArrives
  <2> QED
    BY <2>6 DEF f
<1>13. CASE n \in {1, 2, 4, 8} /\ ~(e <= 5 * w)
  <2> DEFINE size == AlignUp(n, W(a))
             p == l.aptr
  <2>1. r = NoMoreIargs(a, left)
    BY <1>5, <1>13
  <2>2. ~(n < W(a)) /\ next > IargNum(a)
    BY <1>1, <1>4, <1>8, <1>11, <1>13
  <2>3. l.aptr % al = 0 \/ al <= W(a)
    BY <1>1, <1>3, <1>4, <1>8, <1>13
  <2>4. size = AlignUp(n, W(a)) /\ p = l.aptr
    OBVIOUS
  <2> HIDE DEF size, p
  <2>5. BehindRegisters(a, l, m, p, size, own)
    <3>1. /\ a \in ABISet /\ a.cpu \in IargCpus /\ a.cpu \notin SysV /\ IsList(l)
          /\ Aligns(l.aptr, W(a), n, al) /\ (l.aptr % al = 0 \/ al <= W(a))
          /\ own = Own(i, n) /\ left = LeftAdjusted(a, l, l.aptr, own, al)
          /\ r = NoMoreIargs(a, left) /\ r.res = 0 /\ m = r.list
          /\ size = AlignUp(n, W(a)) /\ p = l.aptr
      BY <1>1, <1>2, <1>3, <1>8, <2>1, <2>3, <2>4
    <3> QED
      BY ONLY <3>1, LeftBehind
  <2>6. /\ a \in ABISet /\ a.cpu \in IargCpus /\ Ready(a, l, v) /\ n \in Nat
        /\ own = Own(i, n) /\ words = CeilDiv(n, R(a))
        /\ (a.cpu \notin SysV => l.ianum + words > IargNum(a))
        /\ (a.cpu \in SysV => n > 16 \/ l.ianum + words > 6)
        /\ (a.cpu \in S390 => ~(n < W(a))) /\ size = AlignUp(n, W(a)) /\ p = l.aptr
        /\ BehindRegisters(a, l, m, p, size, own) /\ Sees(a, m, v)
        /\ IsVaList(v) /\ MovedTo(v, v, v.aptr) /\ f = VA!va_arg_adjusted(a, v, n)
    BY <1>1, <1>2, <1>3, <1>6, <1>7, <1>8, <1>13, <2>2, <2>4, <2>5
  <2>7. Arrives(a, m, own, v, f)
    BY ONLY <2>6, StackStructArrives
  <2> QED
    BY <2>7 DEF f
<1> QED
  BY <1>10, <1>12, <1>13

LEMMA SysVStructArrives ==
  ASSUME NEW a, a \in ABISet, a.cpu \in SysV, NEW l, NEW v, Ready(a, l, v),
         NEW t \in CTypes(a), t.kind = "struct", ~DisputedStruct(a, l, t),
         NEW i, NEW own, own = Own(i, t.size), NEW r, r = av_struct(a, l, own, t),
         r.res = 0, NEW m, m = r.list, Sees(a, m, v)
  PROVE  Arrives(a, m, own, v, VA!va_arg_struct(a, v, t)) /\ i = i
<1> DEFINE n == t.size
           al == t.align
           f == VA!va_arg_struct(a, v, t)
           words == CeilDiv(n, 8)
           next == l.ianum + words
           at == 8 * l.ianum
           end == l.aptr + n
           q == AlignUp(v.aptr, al)
           A == [v EXCEPT !.aptr = q]
<1>1. /\ a.cpu \in IargCpus /\ a.cpu \notin Arm64 /\ a.cpu \notin S390
      /\ R(a) = 8 /\ W(a) = 8 /\ IargNum(a) = 6 /\ a.cpu \in Cpus
  BY Orders, CpuWords, RegisterCounts DEF IargCpus, CopyCpus, Arm64, S390, SysV
<1>2. /\ v.aptr = l.aptr /\ v.ianum = l.ianum /\ IsVaList(v) /\ IsList(l) /\ l.ianum \in 0..6
  BY <1>1, IargCursor
<1>3. /\ Aligns(l.aptr, W(a), n, al) /\ n \in Nat /\ n >= 1 /\ al \in {1, 2, 4, 8, 16}
      /\ n % al = 0 /\ l.aptr \in Int /\ l.aptr % W(a) = 0
  BY StructAligns DEF Aligns
<1>4. AlignUp(n, al) = n
  <2>1. n \in Int
    BY <1>3
  <2> HIDE DEF n, al
  <2> QED
    BY <1>3, <2>1, UpToItself
<1>5. /\ l.aptr % al = 0
      /\ n % 8 # 0 => ~(n > 16) /\ ~(l.ianum + words > 6)
  BY DEF DisputedStruct, Arm64, MipsWide, SysV, RiscV, S390
<1>6. q = v.aptr
  <2>1. l.aptr \in Int /\ al \in {1, 2, 4, 8, 16} /\ l.aptr % al = 0 /\ q = AlignUp(l.aptr, al)
    BY <1>2, <1>3, <1>5
  <2> HIDE DEF q, al
  <2> QED
    BY <1>2, <2>1, UpToItself
<1>7. IsVaList(A) /\ MovedTo(v, A, v.aptr)
  <2>1. IsVaList(v) /\ A = [v EXCEPT !.aptr = q]
    BY <1>2
  <2> HIDE DEF A, q
  <2>2. IsVaList(A) /\ MovedTo(v, A, q)
    BY ONLY <2>1, AlignedList
  <2> QED
    BY <1>6, <2>2
<1>8. r = IF n <= 16 /\ next <= 6
          THEN Done([l EXCEPT !.ianum = next, !.iargs = Put(@, at, own)])
          ELSE IF end > l.eptr THEN Fail(l) ELSE Stacked(l, end, l.aptr, own)
  <2>1. r = IF t.size <= 16 /\ l.ianum + CeilDiv(t.size, 8) <= IargNum(a)
            THEN Done([l EXCEPT !.ianum = @ + CeilDiv(t.size, 8),
                                !.iargs = Put(@, 8 * l.ianum, own)])
            ELSE IF l.aptr + AlignUp(t.size, t.align) > l.eptr THEN Fail(l)
                 ELSE Stacked(l, l.aptr + AlignUp(t.size, t.align), l.aptr, own)
    BY DEF av_struct, MipsWide, PPC64, Arm64, SysV, S390, RiscV
  <2>2. [l EXCEPT !.ianum = @ + CeilDiv(t.size, 8), !.iargs = Put(@, 8 * l.ianum, own)]
          = [l EXCEPT !.ianum = next, !.iargs = Put(@, at, own)]
    BY <1>2 DEF IsList
  <2> QED
    BY <1>1, <1>4, <2>1, <2>2
<1>9. f = VA!va_arg_adjusted(a, A, n)
  BY DEF VA!va_arg_struct, VA!SysV, VA!MipsWide, VA!Arm64, VA!RiscV, VA!S390, SysV, VA!AlignUp,
         AlignUp
<1>10. n = t.size /\ own = Own(i, n) /\ words = CeilDiv(n, R(a)) /\ next = l.ianum + words
       /\ at = R(a) * l.ianum /\ end = l.aptr + n
  BY <1>1
<1> HIDE DEF n, al, f, words, next, at, end, A, q
<1>11. words \in Nat /\ 8 * words >= n /\ 8 * words < n + 8 /\ next \in Nat
  <2>1. words = (n + 7) \div 8
    BY <1>1, <1>10 DEF CeilDiv
  <2> QED
    BY <1>2, <1>3, <1>10, <2>1
<1>12. CASE n <= 16 /\ next <= 6
  <2> DEFINE y == Put(l.iargs, at, own)
  <2>1. m = [l EXCEPT !.ianum = next, !.iargs = y]
    BY <1>8, <1>12 DEF Done
  <2>2. at \in Int /\ Len(own) \in Nat
    <3>1. Len(own) = n
      BY <1>3, <1>10, LengthOwn
    <3> QED
      BY <1>1, <1>2, <1>3, <1>10, <3>1
  <2>3. y = Put(l.iargs, at, own)
    OBVIOUS
  <2> HIDE DEF y
  <2>4. HoldsAt(y, at, own)
    BY ONLY <2>2, <2>3, PutHoldsAt
  <2>5. m.iargs = y /\ m.ianum = next /\ m.aptr = l.aptr /\ m.fanum = l.fanum
    BY ONLY <1>2, <2>1 DEF IsList
  <2>6. InIargWords(a, l, m, at, next, own)
    BY ONLY <2>4, <2>5 DEF InIargWords
  <2>7. /\ a \in ABISet /\ a.cpu \in IargCpus /\ Ready(a, l, v) /\ n \in Nat
        /\ own = Own(i, n) /\ words = CeilDiv(n, R(a)) /\ next = l.ianum + words
        /\ next <= IargNum(a) /\ (a.cpu \in SysV => n <= 16)
        /\ at = (IF a.cpu \in S390 THEN R(a) * next - n ELSE R(a) * l.ianum)
        /\ InIargWords(a, l, m, at, next, own) /\ Sees(a, m, v)
        /\ IsVaList(A) /\ MovedTo(v, A, v.aptr) /\ f = VA!va_arg_adjusted(a, A, n)
    BY <1>1, <1>2, <1>3, <1>7, <1>9, <1>10, <1>12, <2>6
  <2>8. Arrives(a, m, own, v, f)
    BY ONLY <2>7, RegisterStructArrives
  <2> QED
    BY <2>8 DEF f
<1>13. CASE ~(n <= 16 /\ next <= 6)
  <2> DEFINE size == AlignUp(n, W(a))
             p == l.aptr
  <2>1. n > 16 \/ next > 6
    BY <1>3, <1>11, <1>13
  <2>2. n % 8 = 0
    BY <1>5, <1>10, <2>1
  <2>3. size = n
    <3>1. n \in Int /\ 8 \in {1, 2, 4, 8, 16} /\ size = AlignUp(n, 8)
      BY <1>1, <1>3
    <3> HIDE DEF size
    <3> QED
      BY <2>2, <3>1, UpToItself
  <2>4. r = Stacked(l, end, l.aptr, own)
    <3>1. Fail(l).res = -1
      BY DEF Fail
    <3>2. ~(end > l.eptr)
      BY <1>8, <1>13, <3>1
    <3> QED
      BY <1>8, <1>13, <3>2
  <2>5. p \in Int /\ p = l.aptr /\ Len(own) \in Nat
    BY <1>3, <1>10, LengthOwn
  <2>6. size = AlignUp(n, W(a))
    OBVIOUS
  <2> HIDE DEF size, p
  <2>7. BehindRegisters(a, l, m, p, size, own)
    <3>1. /\ IsList(l) /\ p \in Int /\ Len(own) \in Nat /\ r = Stacked(l, end, p, own)
      BY <1>2, <2>4, <2>5
    <3>2. HoldsAt(r.list.args, p, own) /\ r.list.aptr = end /\ Stays(l, r.list)
      BY ONLY <3>1, StackedEffect
    <3>3. end = p + size
      BY <1>10, <2>3, <2>5
    <3> QED
      BY <1>1, <3>2, <3>3 DEF BehindRegisters, Stays
  <2>8. /\ a \in ABISet /\ a.cpu \in IargCpus /\ Ready(a, l, v) /\ n \in Nat
        /\ own = Own(i, n) /\ words = CeilDiv(n, R(a))
        /\ (a.cpu \notin SysV => l.ianum + words > IargNum(a))
        /\ (a.cpu \in SysV => n > 16 \/ l.ianum + words > 6)
        /\ (a.cpu \in S390 => ~(n < W(a))) /\ size = AlignUp(n, W(a)) /\ p = l.aptr
        /\ BehindRegisters(a, l, m, p, size, own) /\ Sees(a, m, v)
        /\ IsVaList(A) /\ MovedTo(v, A, v.aptr) /\ f = VA!va_arg_adjusted(a, A, n)
    BY <1>1, <1>2, <1>3, <1>7, <1>9, <1>10, <2>1, <2>5, <2>6, <2>7
  <2>9. Arrives(a, m, own, v, f)
    BY ONLY <2>8, StackStructArrives
  <2> QED
    BY <2>9 DEF f
<1> QED
  BY <1>12, <1>13

(* av_struct and va_arg_struct, on every CPU of FetchedCpus.               *)
LEMMA StructArrives ==
  ASSUME NEW a, a \in ABISet, a.cpu \in FetchedCpus, NEW l, NEW v, Ready(a, l, v),
         NEW t \in CTypes(a), t.kind = "struct", ~DisputedStruct(a, l, t),
         NEW i, NEW own, own = Own(i, t.size), NEW r, r = av_struct(a, l, own, t),
         r.res = 0, NEW m, m = r.list, Sees(a, m, v)
  PROVE  Arrives(a, m, own, v, VA!va_arg_struct(a, v, t)) /\ i = i
<1>1. CASE a.cpu \in StackStructCpus
  BY <1>1, PlainStructArrives
<1>2. CASE a.cpu \in PlaceStructCpus
  BY <1>2, PlaceStructArrives
<1>3. CASE a.cpu \in Arm64
  BY <1>3, Arm64StructArrives
<1>4. CASE a.cpu \in S390
  BY <1>4, S390StructArrives
<1>5. CASE a.cpu \in SysV
  BY <1>5, SysVStructArrives
<1>6. CASE a.cpu = "sparc"
  <2> DEFINE n == t.size
  <2>1. n \in Nat /\ own = Own(i, n)
    BY DEF CTypes
  <2>2. r = ByCopy(a, l, own)
    BY <1>6 DEF av_struct, MipsWide, PPC64, Arm64, SysV, S390, RiscV
  <2>3. VA!va_arg_struct(a, v, t) = VA!Pointed(a, v, n)
    BY <1>6 DEF VA!va_arg_struct, VA!SysV, VA!MipsWide, VA!Arm64, VA!RiscV, VA!S390
  <2> HIDE DEF n
  <2>4. Arrives(a, m, own, v, VA!Pointed(a, v, n))
    BY <1>6, <2>1, <2>2, CopyArrives DEF CopyCpus
  <2> QED
    BY <2>3, <2>4
<1>7. a.cpu # "x86_64_ms"
  BY DEF DisputedStruct, Arm64, MipsWide, SysV, RiscV, S390
<1> QED
  BY <1>1, <1>2, <1>3, <1>4, <1>5, <1>6, <1>7
     DEF FetchedCpus, Cpus, Cpus32, LongIs64, RiscV, PPC64, Arm64, SysV, S390, MipsWide,
         StackStructCpus, PlaceStructCpus

-----------------------------------------------------------------------------
(* What av_<type> put into the list is what va_arg_<type> takes out of it. *)
LEMMA ArgumentArrives ==
  ASSUME NEW a, a \in ABISet, a.cpu \in FetchedCpus, NEW l, NEW v, Ready(a, l, v),
         NEW t \in CTypes(a), ~Disputed(a, l, t),
         NEW i, NEW own, own = Own(i, t.size), NEW r, r = Push(a, l, i, t), r.res = 0,
         NEW m, m = r.list, Sees(a, m, v)
  PROVE  Arrives(a, m, own, v, VA!va_arg(a, v, t))
<1>1. CASE t.kind # "struct"
  BY <1>1, ScalarArrives
<1>2. CASE t.kind = "struct"
  <2>1. r = av_struct(a, l, own, t) /\ ~DisputedStruct(a, l, t)
    BY <1>2 DEF Push, Disputed
  <2>2. VA!va_arg(a, v, t) = VA!va_arg_struct(a, v, t)
    BY <1>2 DEF VA!va_arg
  <2>3. Arrives(a, m, own, v, VA!va_arg_struct(a, v, t))
    BY <1>2, <2>1, StructArrives
  <2> QED
    BY <2>2, <2>3
<1> QED
  BY <1>1, <1>2

(* The list that av_start made, and the va_alist after va_start.           *)
LEMMA StartLists ==
  ASSUME NEW a, a.cpu \in FetchedCpus, NEW words, NEW kind \in {"none", "register", "memory"},
         kind = "memory" => a.cpu # "mipsn32",
         NEW l, l = av_start(a, words, kind)
  PROVE  /\ l.fregs = <<>> /\ l.fmask = {} /\ l.dmask = {} /\ l.fanum = 0
         /\ IF kind = "memory" /\ a.cpu \notin SpecialRegister
            THEN IF a.cpu \in HasIargs THEN l.aptr = 0 /\ l.ianum = 1 /\ l.anum = 0
                 ELSE /\ l.aptr = P(a) /\ l.ianum = 0
                      /\ l.anum = IF a.cpu \in CountsArguments THEN 1 ELSE 0
            ELSE l.aptr = 0 /\ l.ianum = 0 /\ l.anum = 0
<1> DEFINE n == NewList(a, words)
           word == Extended(a, Bytes(0, "raddr", P(a)), W(a))
<1>1. /\ IsList(n) /\ n.aptr = 0 /\ n.anum = 0 /\ n.ianum = 0 /\ n.fanum = 0
      /\ n.fregs = <<>> /\ n.fmask = {} /\ n.dmask = {}
  BY NewListFields DEF FetchedCpus
<1>2. /\ kind # "memory" \/ a.cpu \in SpecialRegister => l = n
      /\ kind = "memory" /\ a.cpu \in HasIargs \ SpecialRegister => l = InIarg(a, n, word).list
      /\ kind = "memory" /\ a.cpu \in CountsArguments \ SpecialRegister
           => l = [n EXCEPT !.aptr = W(a), !.args = Put(@, 0, word), !.anum = 1]
      /\ kind = "memory" /\ a.cpu \notin SpecialRegister \cup HasIargs \cup CountsArguments
           => l = [n EXCEPT !.aptr = W(a), !.args = Put(@, 0, word)]
  BY DEF av_start, HasIargs, SpecialRegister, CountsArguments, MipsWide, SysV, S390, Arm64,
         FetchedCpus
<1>3. kind = "memory" /\ a.cpu \notin SpecialRegister \cup HasIargs => W(a) = P(a)
  BY DEF W, P, SpecialRegister, HasIargs, Arm64, SysV, FetchedCpus, Cpus
<1>4. a.cpu \in HasIargs => a.cpu \notin CountsArguments
  BY DEF HasIargs, CountsArguments, MipsWide, SysV, S390, Arm64
<1> DEFINE x == n.iargs
           y == Put(n.args, 0, word)
           w == W(a)
<1>5. /\ InIarg(a, n, word).list
           = [n EXCEPT !.ianum = 1, !.iargs = Put(x, R(a) * n.ianum, word)]
      /\ [n EXCEPT !.aptr = W(a), !.args = Put(@, 0, word)] = [n EXCEPT !.aptr = w, !.args = y]
      /\ [n EXCEPT !.aptr = W(a), !.args = Put(@, 0, word), !.anum = 1]
           = [n EXCEPT !.aptr = w, !.args = y, !.anum = 1]
  <2> HIDE DEF n, word
  <2> QED
    BY <1>1 DEF InIarg, Done, IsList
<1> DEFINE z == Put(x, R(a) * n.ianum, word)
<1> HIDE DEF n, word, y, z
<1>6. CASE kind # "memory" \/ a.cpu \in SpecialRegister
  BY <1>1, <1>2, <1>6
<1>7. CASE kind = "memory" /\ a.cpu \in HasIargs \ SpecialRegister
  <2>1. l = [n EXCEPT !.ianum = 1, !.iargs = z]
    BY <1>2, <1>5, <1>7 DEF z
  <2> QED
    BY <1>1, <1>7, <2>1 DEF IsList
<1>8. CASE kind = "memory" /\ a.cpu \in CountsArguments \ SpecialRegister
  <2>1. l = [n EXCEPT !.aptr = w, !.args = y, !.anum = 1]
    BY <1>2, <1>5, <1>8
  <2>2. w = P(a)
    BY <1>3, <1>4, <1>8
  <2> HIDE DEF w
  <2> QED
    BY <1>1, <1>4, <1>8, <2>1, <2>2 DEF IsList
<1>9. CASE kind = "memory" /\ a.cpu \notin SpecialRegister \cup HasIargs \cup CountsArguments
  <2>1. l = [n EXCEPT !.aptr = w, !.args = y]
    BY <1>2, <1>5, <1>9
  <2>2. w = P(a)
    BY <1>3, <1>9
  <2> HIDE DEF w
  <2> QED
    BY <1>1, <1>9, <2>1, <2>2 DEF IsList
<1> QED
  BY <1>6, <1>7, <1>8, <1>9

LEMMA StartFunction ==
  ASSUME NEW a, a.cpu \in FetchedCpus, NEW kind \in {"none", "register", "memory"},
         NEW c, NEW mem, NEW v, Received(a, c, mem, v), NEW w, w = VA!va_start(a, v, kind).va
  PROVE  /\ IsVaList(w) /\ Moved(v, w) /\ w.fanum = 0
         /\ IF kind = "memory" /\ a.cpu \notin SpecialRegister
            THEN IF a.cpu \in SysV \cup S390 THEN w.aptr = 0 /\ w.ianum = 1 /\ w.anum = 0
                 ELSE /\ w.aptr = P(a) /\ w.ianum = 0
                      /\ w.anum = IF a.cpu \in CountsArguments THEN 1 ELSE 0
            ELSE w.aptr = 0 /\ w.ianum = 0 /\ w.anum = 0
<1> DEFINE f == VA!va_start(a, v, kind)
<1>1. VA!P(a) = P(a) /\ VA!R(a) = R(a)
  BY SameSizes
<1>2. /\ v.aptr = 0 /\ v.anum = 0 /\ v.ianum = 0 /\ v.fanum = 0 /\ IsVaList(v)
  BY DEF Received
<1>3. CASE kind # "memory" \/ a.cpu \in SpecialRegister
  <2>1. w = v
    BY <1>3 DEF VA!va_start, VA!va_start_struct2, VA!Fetched, FetchedCpus, SpecialRegister,
           Arm64, VA!Arm64, VA!PPC64, VA!MipsWide, VA!SysV, VA!S390, VA!RiscV
  <2> QED
    BY <1>2, <1>3, <2>1 DEF Moved
<1>4. CASE kind = "memory" /\ a.cpu \in SysV \cup S390
  <2>1. w = [v EXCEPT !.ianum = @ + 1]
    BY <1>4 DEF VA!va_start, VA!va_start_struct2, VA!Fetched, VA!FromIarg, SysV, S390,
           VA!Arm64, VA!PPC64, VA!MipsWide, VA!SysV, VA!S390, VA!RiscV
  <2>2. a.cpu \notin SpecialRegister
    BY <1>4 DEF SysV, S390, SpecialRegister, Arm64
  <2>3. Moved(v, w) /\ w.ianum = 1 /\ w.aptr = 0 /\ w.anum = 0 /\ w.fanum = 0
    BY ONLY <1>2, <2>1 DEF Moved, IsVaList
  <2> QED
    BY <1>4, <2>2, <2>3 DEF Moved
<1>5. CASE kind = "memory" /\ a.cpu \in CountsArguments \ SpecialRegister
  <2>1. w = [[v EXCEPT !.aptr = @ + P(a)] EXCEPT !.anum = @ + 1]
    BY <1>1, <1>5 DEF VA!va_start, VA!va_start_struct2, VA!Fetched, VA!FromMem, VA!Counted,
           CountsArguments, MipsWide, FetchedCpus,
           VA!Arm64, VA!PPC64, VA!MipsWide, VA!SysV, VA!S390, VA!RiscV
  <2>2. a.cpu \notin SysV \cup S390 /\ P(a) \in Nat
    BY <1>5 DEF SysV, S390, CountsArguments, MipsWide, P
  <2> DEFINE p == P(a)
  <2>3. v.aptr + P(a) = p /\ p = P(a)
    BY <1>2, <2>2
  <2> HIDE DEF p
  <2>4. Moved(v, w) /\ w.ianum = 0 /\ w.aptr = p /\ w.anum = 1 /\ w.fanum = 0
    BY ONLY <1>2, <2>1, <2>3 DEF Moved, IsVaList
  <2> QED
    BY <1>5, <2>2, <2>3, <2>4 DEF Moved
<1>6. CASE /\ kind = "memory"
           /\ a.cpu \notin SpecialRegister \cup CountsArguments \cup SysV \cup S390
  <2>1. a.cpu \in {"i386", "alpha", "arm", "powerpc_aix"} \cup PPC64
    BY <1>6 DEF FetchedCpus, Cpus, Cpus32, LongIs64, SpecialRegister, CountsArguments, SysV,
           S390, RiscV, PPC64, MipsWide, Arm64
  <2>2. w = [v EXCEPT !.aptr = @ + P(a)]
    BY <1>1, <1>6, <2>1 DEF VA!va_start, VA!va_start_struct2, VA!Fetched, VA!FromMem,
           PPC64, VA!Arm64, VA!PPC64, VA!MipsWide, VA!SysV, VA!S390, VA!RiscV
  <2>3. P(a) \in Nat
    BY DEF P
  <2> DEFINE p == P(a)
  <2>4. w = [v EXCEPT !.aptr = p]
    BY <1>2, <2>2, <2>3 DEF IsVaList
  <2> HIDE DEF p
  <2>5. Moved(v, w) /\ w.ianum = 0 /\ w.aptr = p /\ w.anum = 0 /\ w.fanum = 0
    BY ONLY <1>2, <2>4 DEF Moved, IsVaList
  <2> QED
    BY <1>6, <2>5 DEF Moved, p
<1> QED
  BY <1>3, <1>4, <1>5, <1>6

LEMMA StartMatches ==
  ASSUME NEW a, a.cpu \in FetchedCpus, NEW words, NEW kind \in {"none", "register", "memory"},
         kind = "memory" => a.cpu # "mipsn32", NEW l, l = av_start(a, words, kind),
         NEW c, NEW mem, NEW v, Received(a, c, mem, v), NEW w, w = VA!va_start(a, v, kind).va
  PROVE  Match(a, l, w) /\ Moved(v, w)
<1>1. /\ l.fanum = 0
      /\ IF kind = "memory" /\ a.cpu \notin SpecialRegister
         THEN IF a.cpu \in HasIargs THEN l.aptr = 0 /\ l.ianum = 1 /\ l.anum = 0
              ELSE /\ l.aptr = P(a) /\ l.ianum = 0
                   /\ l.anum = IF a.cpu \in CountsArguments THEN 1 ELSE 0
         ELSE l.aptr = 0 /\ l.ianum = 0 /\ l.anum = 0
  BY StartLists
<1>2. /\ IsVaList(w) /\ Moved(v, w) /\ w.fanum = 0
      /\ IF kind = "memory" /\ a.cpu \notin SpecialRegister
         THEN IF a.cpu \in SysV \cup S390 THEN w.aptr = 0 /\ w.ianum = 1 /\ w.anum = 0
              ELSE /\ w.aptr = P(a) /\ w.ianum = 0
                   /\ w.anum = IF a.cpu \in CountsArguments THEN 1 ELSE 0
         ELSE w.aptr = 0 /\ w.ianum = 0 /\ w.anum = 0
  BY StartFunction
<1>3. a.cpu \notin SpecialRegister => (a.cpu \in HasIargs <=> a.cpu \in SysV \cup S390)
  BY DEF FetchedCpus, HasIargs, SpecialRegister
<1>4. w.aptr = l.aptr /\ w.ianum = l.ianum /\ w.anum = l.anum /\ w.fanum = l.fanum
  BY <1>1, <1>2, <1>3
<1>5. /\ a.cpu \in Cpus /\ a.cpu \notin RiscV /\ a.cpu # "mips" /\ W(a) \in {4, 8}
      /\ P(a) \in {4, 8}
  BY DEF FetchedCpus, W, P
<1>6. l.aptr \in {0, P(a)} /\ l.ianum \in {0, 1} /\ l.anum \in {0, 1}
  BY <1>1
<1>7. l.aptr = P(a) => P(a) = W(a)
  <2>1. l.aptr # 0 => kind = "memory" /\ a.cpu \notin SpecialRegister \cup HasIargs
    BY <1>1
  <2>2. kind = "memory" /\ a.cpu \notin SpecialRegister \cup HasIargs => W(a) = P(a)
    BY DEF W, P, SpecialRegister, HasIargs, Arm64, SysV, FetchedCpus, Cpus
  <2> QED
    BY <1>5, <2>1, <2>2
<1>8. l.aptr % W(a) = 0
  BY <1>5, <1>6, <1>7
<1>9. a.cpu \in CountsPlaces => l.aptr = 8 * l.anum
  <2> SUFFICES ASSUME a.cpu \in CountsPlaces PROVE l.aptr = 8 * l.anum
    OBVIOUS
  <2>1. a.cpu \notin SpecialRegister \cup HasIargs /\ a.cpu \in CountsArguments
    BY DEF CountsPlaces, CountsArguments, SpecialRegister, HasIargs, MipsWide, Arm64, SysV, S390
  <2>2. a.cpu # "mipsn32" => P(a) = 8
    BY DEF CountsPlaces, MipsWide, P, Cpus32
  <2> QED
    BY <1>1, <2>1, <2>2
<1>10. Cursor(w)
  BY <1>2, <1>4, <1>5, <1>6 DEF Cursor
<1> QED
  BY <1>1, <1>2, <1>4, <1>5, <1>8, <1>9, <1>10 DEF Match

LEMMA StartMarks ==
  ASSUME NEW a, a.cpu \in FetchedCpus, NEW words, NEW kind \in {"none", "register", "memory"},
         kind = "memory" => a.cpu # "mipsn32", NEW l, l = av_start(a, words, kind), RegInv(a, l)
  PROVE  MarkInv(a, l) /\ Marks(a, l, l) /\ l.dmask = {}
<1>1. l.fregs = <<>> /\ l.fmask = {} /\ l.dmask = {}
  BY StartLists
<1>2. DOMAIN l.fregs = {}
  BY <1>1
<1>3. Pos(a, l) \in Int
  BY PosTypes DEF FetchedCpus, FetchedPos
<1> QED
  BY <1>1, <1>2, <1>3 DEF MarkInv, Marks

LEMMA SeesMoved ==
  ASSUME NEW a, NEW l, NEW v, NEW w, Sees(a, l, v), Moved(v, w)
  PROVE  Sees(a, l, w)
BY DEF Sees, SeesWords, SeesFregs, Same, Loaded, Moved

-----------------------------------------------------------------------------
(* The inductive invariant: h[i] is what the list was after i pushes.      *)

(* h[i] is the list after i pushes, h[0] the one of av_start_<type>.       *)
Started(h) == \E words : h[0] = av_start(abi, words, AvKind(abi, ret))

Built(h) ==
  /\ \A i \in 1..Len(args) :
       /\ args[i] \in CTypes(abi)
       /\ Push(abi, h[i - 1], i, args[i]).res = 0
       /\ h[i] = Push(abi, h[i - 1], i, args[i]).list
       /\ i \notin disputed => ~Disputed(abi, h[i - 1], args[i])
  /\ \A i \in 0..Len(args) :
       /\ RegInv(abi, h[i]) /\ SpaceInv(abi, h[i]) /\ MarkInv(abi, h[i])
       /\ Since(abi, h[i], list) /\ Marks(abi, h[i], list)
  /\ phase = "build" => list = h[Len(args)]

(* No push was disputed whose argument is fetched by now.                  *)
Agreed == \A d \in disputed : Len(received) < d

(* While the function runs it sees the whole of every h[i], and has        *)
(* fetched what h[Len(received)] holds.                                    *)
Passing(h) ==
  /\ phase \in {"build", "full", "called"} => Len(received) = 0
  /\ phase = "called" => \E c, mem : Received(abi, c, mem, va)
  /\ phase \in {"called", "running"} /\ Agreed => \A i \in 0..Len(args) : Sees(abi, h[i], va)
  /\ phase = "running" /\ Agreed => Match(abi, h[Len(received)], va)

(* The inductive invariant. That the arguments fetched arrived is not: it  *)
(* needs to be known that the next one will be found, hence what the list  *)
(* was when it was pushed, and that this has stayed. The list of the       *)
(* caller at the time of the call does not tell.                           *)
AInv ==
  /\ RInv
  /\ abi.cpu \in FetchedCpus /\ 0 \notin disputed =>
       (\E h : Started(h) /\ Built(h) /\ Passing(h)) /\ ArgumentsArrive

LEMMA InitArrives == Init => AInv
<1> SUFFICES ASSUME Init PROVE AInv
  OBVIOUS
<1>1. RInv /\ IInv
  BY InitReturn DEF RInv
<1>2. abi \in ABISet /\ abi.cpu \in Cpus
  BY <1>1, CallTypes, ABIsAssumption
<1>3. ASSUME abi.cpu \in FetchedCpus, 0 \notin disputed
      PROVE  (\E h : Started(h) /\ Built(h) /\ Passing(h)) /\ ArgumentsArrive
  <2> DEFINE h == [i \in {0} |-> list]
  <2>1. h[0] = list
    OBVIOUS
  <2>2. /\ args = <<>> /\ received = <<>> /\ phase = "build"
        /\ \E words : list = av_start(abi, words, AvKind(abi, ret))
    BY DEF Init
  <2>3. Len(args) = 0 /\ Len(received) = 0
    BY <2>2
  <2>4. PICK words : list = av_start(abi, words, AvKind(abi, ret))
    BY <2>2
  <2>5. AvKind(abi, ret) \in {"none", "register", "memory"}
    BY DEF AvKind, Kind
  <2>6. AvKind(abi, ret) = "memory" => abi.cpu # "mipsn32"
    BY <1>1, <1>3 DEF RInv
  <2>7. RegInv(abi, list) /\ SpaceInv(abi, list)
    BY <1>1, <1>3, <2>2 DEF IInv
  <2>8. MarkInv(abi, list) /\ Marks(abi, list, list)
    BY <1>3, <2>4, <2>5, <2>6, <2>7, StartMarks
  <2>9. Since(abi, list, list)
    BY <1>2, <2>7, SinceReflexive
  <2> HIDE DEF h
  <2>10. Started(h)
    BY <2>1, <2>4 DEF Started
  <2>11. 1..0 = {} /\ 0..0 = {0}
    OBVIOUS
  <2>12. Built(h)
    BY <2>1, <2>3, <2>7, <2>8, <2>9, <2>11 DEF Built
  <2>13. Passing(h)
    BY <2>2, <2>3 DEF Passing
  <2>14. ArgumentsArrive
    BY <2>3, <2>11 DEF ArgumentsArrive
  <2> QED
    BY <2>10, <2>12, <2>13, <2>14
<1> QED
  BY <1>1, <1>3 DEF AInv

LEMMA AppendedElements ==
  ASSUME NEW s, IsSequence(s), NEW e, NEW n, n = Len(s)
  PROVE  /\ n \in Nat /\ Len(Append(s, e)) = n + 1 /\ Append(s, e)[n + 1] = e
         /\ \A k \in 1..n : Append(s, e)[k] = s[k]
<1> DEFINE S == {s[k] : k \in DOMAIN s}
           T == S \cup {e}
<1>1. s \in Seq(S)
  BY DEF IsSequence
<1> HIDE DEF S
<1>2. s \in Seq(T) /\ e \in T
  BY <1>1, SeqDef
<1> HIDE DEF T
<1>3. Len(s) \in Nat
  BY <1>2, LenProperties
<1> QED
  BY <1>2, <1>3, AppendProperties

(* A push, whether or not it succeeds, keeps all earlier lists.            *)
LEMMA PushedList ==
  ASSUME AInv, NEW t, PushArg(t), abi.cpu \in FetchedCpus, 0 \notin disputed',
         NEW h, Built(h), NEW i \in 0..Len(args)
  PROVE  /\ RegInv(abi, h[i]) /\ SpaceInv(abi, h[i]) /\ MarkInv(abi, h[i])
         /\ Since(abi, h[i], list') /\ Marks(abi, h[i], list')
         /\ RegInv(abi, list') /\ MarkInv(abi, list') /\ Marks(abi, list', list')
         /\ Since(abi, list', list')
<1> DEFINE n == Len(args)
           m == list'
<1>1. IInv /\ abi \in ABISet /\ abi.cpu \in Cpus
  BY CallTypes, ABIsAssumption DEF AInv, RInv
<1>2. /\ phase = "build" /\ list = h[n] /\ t \in NextTypes /\ abi' = abi
      /\ m = Push(abi, list, n + 1, t).list
  BY DEF PushArg, Built
<1>3. n \in Nat /\ n \in 0..n
  <2>1. n \in Nat
    BY <1>1, LongerSequence DEF IInv
  <2> QED
    BY <2>1
<1>4. RegInv(abi, list) /\ MarkInv(abi, list)
  BY <1>2, <1>3 DEF Built
<1>5. t \in CTypes(abi)
  BY <1>1, <1>2, NextIsCType
<1>6. RegInv(abi, m) /\ MarkInv(abi, m) /\ Marks(abi, list, m)
  <2> DEFINE r == Push(abi, list, n + 1, t)
  <2>1. RegInv(abi, r.list) /\ MarkInv(abi, r.list) /\ Marks(abi, list, r.list)
    BY <1>1, <1>4, <1>5, PushMarks
  <2> QED
    BY <1>2, <2>1
<1>7. Since(abi, list, m)
  BY <1>1, PushStep
<1>8. /\ RegInv(abi, h[i]) /\ SpaceInv(abi, h[i]) /\ MarkInv(abi, h[i])
      /\ Since(abi, h[i], list) /\ Marks(abi, h[i], list)
  BY DEF Built
<1> HIDE DEF m, n
<1>9. Since(abi, h[i], m) /\ Since(abi, m, m)
  BY <1>1, <1>4, <1>6, <1>7, <1>8, SinceTransitive, SinceReflexive
<1>10. Marks(abi, h[i], m)
  BY <1>4, <1>6, <1>8, MarksTransitive
<1>11. Marks(abi, m, m)
  BY <1>6 DEF Marks
<1> QED
  BY <1>6, <1>8, <1>9, <1>10, <1>11 DEF m

(* A push: the history gets one list longer, or, if the push fails, ends.  *)
LEMMA PushArrives ==
  ASSUME AInv, NEW t, PushArg(t)
  PROVE  AInv'
<1>1. RInv /\ RInv' /\ IInv /\ IInv' /\ abi \in ABISet /\ abi.cpu \in Cpus
  BY ReturnPush, CallTypes, ABIsAssumption DEF AInv, RInv
<1> SUFFICES ASSUME abi'.cpu \in FetchedCpus, 0 \notin disputed'
             PROVE  (\E h : Started(h) /\ Built(h) /\ Passing(h))' /\ ArgumentsArrive'
  BY <1>1 DEF AInv
<1> DEFINE n == Len(args)
           r == Push(abi, list, n + 1, t)
<1>2. /\ phase = "build" /\ t \in NextTypes /\ abi' = abi /\ ret' = ret /\ received' = received
      /\ list' = r.list
      /\ \/ r.res = 0  /\ args' = Append(args, t) /\ phase' = "build"
         \/ r.res = -1 /\ args' = args /\ phase' = "full"
      /\ disputed \subseteq disputed'
      /\ r.res = 0 /\ n + 1 \notin disputed' => ~Disputed(abi, list, t)
  <2>1. n \in Nat
    BY <1>1, LongerSequence DEF IInv
  <2>2. n + 1 # 0
    BY <2>1
  <2> QED
    BY <2>2 DEF PushArg
<1>3. abi.cpu \in FetchedCpus /\ 0 \notin disputed
  BY <1>2
<1>4. PICK h : Started(h) /\ Built(h) /\ Passing(h)
  BY <1>3 DEF AInv
<1>5. t \in CTypes(abi)
  BY <1>1, <1>2, NextIsCType
<1>6. Len(received) = 0 /\ Len(received') = 0
  BY <1>2, <1>4 DEF Passing
<1>7. ArgumentsArrive'
  <2>1. 1..0 = {}
    OBVIOUS
  <2> QED
    BY <1>6, <2>1 DEF ArgumentsArrive
<1>8. list = h[n]
  BY <1>2, <1>4 DEF Built
<1>9. /\ n \in Nat /\ n = Len(args) /\ Len(Append(args, t)) = n + 1
      /\ Append(args, t)[n + 1] = t /\ \A k \in 1..n : Append(args, t)[k] = args[k]
  BY <1>1, AppendedElements DEF IInv
<1>10. \A i \in 0..n :
         /\ RegInv(abi, h[i]) /\ SpaceInv(abi, h[i]) /\ MarkInv(abi, h[i])
         /\ Since(abi, h[i], list') /\ Marks(abi, h[i], list')
         /\ RegInv(abi, list') /\ MarkInv(abi, list') /\ Marks(abi, list', list')
         /\ Since(abi, list', list')
  BY <1>3, <1>4, PushedList
<1> HIDE DEF n
<1>11. CASE r.res = 0 /\ args' = Append(args, t) /\ phase' = "build"
  <2>1. PICK g : g[n + 1] = list' /\ \A i \in 0..n : g[i] = h[i] /\ i # n + 1
    <3> DEFINE k == [i \in 0..(n + 1) |-> IF i = n + 1 THEN list' ELSE h[i]]
    <3>1. k[n + 1] = list' /\ \A i \in 0..n : k[i] = h[i] /\ i # n + 1
      BY <1>9
    <3> QED
      BY <3>1
  <2>2. Len(args') = n + 1 /\ args'[n + 1] = t /\ \A k \in 1..n : args'[k] = args[k]
    BY <1>9, <1>11
  <2> HIDE DEF r
  <2>3. 0 \in 0..n /\ n \in 0..n /\ n + 1 \notin 0..n
    BY <1>9
  <2>4. Started(g)'
    BY <1>2, <1>4, <2>1, <2>3 DEF Started
  <2>5. ASSUME NEW i \in 1..(n + 1)
        PROVE  /\ args'[i] \in CTypes(abi')
               /\ Push(abi', g[i - 1], i, args'[i]).res = 0
               /\ g[i] = Push(abi', g[i - 1], i, args'[i]).list
               /\ i \notin disputed' => ~Disputed(abi', g[i - 1], args'[i])
    <3>1. CASE i = n + 1
      <4>1. i - 1 = n /\ g[i] = list' /\ g[i - 1] = list /\ args'[i] = t
        BY <1>8, <1>9, <2>1, <2>2, <2>3, <3>1
      <4> QED
        BY <1>2, <1>5, <1>9, <1>11, <3>1, <4>1 DEF r
    <3>2. CASE i # n + 1
      <4>1. i \in 1..n /\ i \in 0..n /\ i - 1 \in 0..n
        BY <1>9, <3>2
      <4>2. g[i] = h[i] /\ g[i - 1] = h[i - 1] /\ args'[i] = args[i]
        BY <2>1, <2>2, <4>1
      <4>3. /\ args[i] \in CTypes(abi)
            /\ Push(abi, h[i - 1], i, args[i]).res = 0
            /\ h[i] = Push(abi, h[i - 1], i, args[i]).list
            /\ i \notin disputed => ~Disputed(abi, h[i - 1], args[i])
        BY <1>4, <4>1 DEF Built, n
      <4> QED
        BY <1>2, <4>2, <4>3
    <3> QED
      BY <3>1, <3>2
  <2>6. ASSUME NEW i \in 0..(n + 1)
        PROVE  /\ RegInv(abi', g[i]) /\ SpaceInv(abi', g[i]) /\ MarkInv(abi', g[i])
               /\ Since(abi', g[i], list') /\ Marks(abi', g[i], list')
    <3>1. CASE i = n + 1
      <4>1. SpaceInv(abi', list')
        BY <1>1, <1>11 DEF IInv
      <4> QED
        BY <1>2, <1>10, <2>1, <2>3, <3>1, <4>1
    <3>2. CASE i # n + 1
      <4>1. i \in 0..n
        BY <1>9, <3>2
      <4> QED
        BY <1>2, <1>10, <2>1, <4>1
    <3> QED
      BY <3>1, <3>2
  <2>7. Built(g)'
    BY <2>1, <2>2, <2>5, <2>6 DEF Built
  <2>8. Passing(g)'
    BY <1>6, <1>11 DEF Passing
  <2> QED
    BY <1>7, <2>4, <2>7, <2>8
<1>12. CASE r.res = -1 /\ args' = args /\ phase' = "full"
  <2> HIDE DEF r
  <2>1. Started(h)'
    BY <1>2, <1>4 DEF Started
  <2>2. Built(h)'
    <3>1. Len(args') = n
      BY <1>9, <1>12
    <3>2. \A i \in 1..n :
            /\ args[i] \in CTypes(abi)
            /\ Push(abi, h[i - 1], i, args[i]).res = 0
            /\ h[i] = Push(abi, h[i - 1], i, args[i]).list
            /\ i \notin disputed => ~Disputed(abi, h[i - 1], args[i])
      BY <1>4 DEF Built, n
    <3>3. \A i \in 1..n :
            /\ args'[i] \in CTypes(abi')
            /\ Push(abi', h[i - 1], i, args'[i]).res = 0
            /\ h[i] = Push(abi', h[i - 1], i, args'[i]).list
            /\ i \notin disputed' => ~Disputed(abi', h[i - 1], args'[i])
      BY <1>2, <1>12, <3>2
    <3> QED
      BY <1>2, <1>10, <1>12, <3>1, <3>3 DEF Built
  <2>3. Passing(h)'
    BY <1>6, <1>12 DEF Passing
  <2> QED
    BY <1>7, <2>1, <2>2, <2>3
<1> QED
  BY <1>2, <1>11, <1>12

(* av_call and the receiver: the function sees the lists.                  *)
LEMMA CallArrives ==
  ASSUME AInv, Call
  PROVE  AInv'
<1>1. RInv /\ RInv' /\ IInv /\ abi \in ABISet /\ abi.cpu \in Cpus
  BY ReturnCall, CallTypes, ABIsAssumption DEF AInv, RInv
<1>2. /\ abi' = abi /\ ret' = ret /\ list' = list /\ args' = args /\ received' = received
      /\ disputed' = disputed /\ phase' = "called" /\ phase \in {"full", "build"}
      /\ va' = VA!vacall_receiver(abi, avcall_call(abi, list, AvKind(abi, ret)),
                                  list.args, list.end)
  BY DEF Call
<1> SUFFICES ASSUME abi.cpu \in FetchedCpus, 0 \notin disputed
             PROVE  (\E h : Started(h) /\ Built(h) /\ Passing(h))' /\ ArgumentsArrive'
  BY <1>1, <1>2 DEF AInv
<1>3. PICK h : Started(h) /\ Built(h) /\ Passing(h)
  BY DEF AInv
<1>4. ArgumentsArrive'
  BY <1>2 DEF AInv, ArgumentsArrive
<1>5. Started(h)' /\ Built(h)'
  BY <1>2, <1>3 DEF Started, Built
<1> DEFINE c == avcall_call(abi, list, AvKind(abi, ret))
           w == VA!vacall_receiver(abi, c, list.args, list.end)
<1>6. Passed(abi, list, c)
  BY CallPasses
<1>7. Received(abi, c, list.args, w)
  <2> HIDE DEF c
  <2> QED
    BY ReceiverReceives
<1>8. va' = w
  BY <1>2
<1> HIDE DEF c, w
<1>9. abi.cpu \notin MarksDoubles => list.dmask = {}
  <2>1. PICK words : h[0] = av_start(abi, words, AvKind(abi, ret))
    BY <1>3 DEF Started
  <2>2. Len(args) \in Nat
    BY <1>1, LongerSequence DEF IInv
  <2>3. 0 \in 0..Len(args)
    BY <2>2
  <2>4. RegInv(abi, h[0]) /\ Marks(abi, h[0], list)
    BY <1>3, <2>3 DEF Built
  <2>5. AvKind(abi, ret) \in {"none", "register", "memory"}
    BY DEF AvKind, Kind
  <2>6. AvKind(abi, ret) = "memory" => abi.cpu # "mipsn32"
    BY <1>1 DEF RInv
  <2>7. h[0].dmask = {}
    BY <2>1, <2>4, <2>5, <2>6, StartMarks
  <2> QED
    BY <2>4, <2>7 DEF Marks
<1>10. ASSUME NEW i \in 0..Len(args) PROVE Sees(abi, h[i], w)
  <2> DEFINE l == h[i]
  <2>1. RegInv(abi, l) /\ SpaceInv(abi, l) /\ MarkInv(abi, l) /\ Since(abi, l, list)
        /\ Marks(abi, l, list)
    BY <1>3 DEF Built
  <2>2. \A x \in DOMAIN l.args : x \in Int
    BY <2>1 DEF SpaceInv, Stored
  <2>3. RegInv(abi, list)
    BY <1>1 DEF IInv
  <2> HIDE DEF l
  <2>4. Sees(abi, l, w)
    BY <1>1, <1>6, <1>7, <1>9, <2>1, <2>2, <2>3, CallSees
  <2> QED
    BY <2>4 DEF l
<1>11. Passing(h)'
  <2>1. Len(received) = 0
    BY <1>2, <1>3 DEF Passing
  <2> QED
    BY <1>2, <1>7, <1>8, <1>10, <2>1 DEF Passing
<1> QED
  BY <1>4, <1>5, <1>11

(* va_start_<type>: the cursors agree.                                     *)
LEMMA StartArrives ==
  ASSUME AInv, Start
  PROVE  AInv'
<1>1. RInv /\ RInv' /\ IInv /\ abi \in ABISet /\ abi.cpu \in Cpus
  BY ReturnStart, CallTypes, ABIsAssumption DEF AInv, RInv
<1>2. /\ abi' = abi /\ ret' = ret /\ list' = list /\ args' = args /\ received' = received
      /\ disputed' = disputed /\ phase' = "running" /\ phase = "called"
      /\ va' = VA!va_start(abi, va, VaKind(abi, ret)).va
  BY DEF Start
<1> SUFFICES ASSUME abi.cpu \in FetchedCpus, 0 \notin disputed
             PROVE  (\E h : Started(h) /\ Built(h) /\ Passing(h))' /\ ArgumentsArrive'
  BY <1>1, <1>2 DEF AInv
<1>3. PICK h : Started(h) /\ Built(h) /\ Passing(h)
  BY DEF AInv
<1>4. ArgumentsArrive'
  BY <1>2 DEF AInv, ArgumentsArrive
<1>5. Started(h)' /\ Built(h)'
  BY <1>2, <1>3 DEF Started, Built
<1>6. Len(received) = 0
  BY <1>2, <1>3 DEF Passing
<1> DEFINE kind == AvKind(abi, ret)
           w == VA!va_start(abi, va, kind).va
<1>7. va' = w
  <2>1. AvKind(abi, ret) = VaKind(abi, ret)
    BY <1>1, SameDecision
  <2> QED
    BY <1>2, <2>1
<1>8. kind \in {"none", "register", "memory"} /\ (kind = "memory" => abi.cpu # "mipsn32")
  BY <1>1 DEF AvKind, Kind, RInv
<1>9. PICK words : h[0] = av_start(abi, words, kind)
  BY <1>3 DEF Started
<1>10. PICK c, mem : Received(abi, c, mem, va)
  BY <1>2, <1>3 DEF Passing
<1> HIDE DEF kind
<1>11. Match(abi, h[0], w) /\ Moved(va, w)
  BY <1>8, <1>9, <1>10, StartMatches
<1> HIDE DEF w
<1>12. ASSUME Agreed, NEW i \in 0..Len(args) PROVE Sees(abi, h[i], w)
  <2>1. Sees(abi, h[i], va)
    BY <1>2, <1>3, <1>12 DEF Passing
  <2> QED
    BY <1>11, <2>1, SeesMoved
<1>13. Passing(h)'
  <2>1. Agreed' <=> Agreed
    BY <1>2 DEF Agreed
  <2> QED
    BY <1>2, <1>6, <1>7, <1>11, <1>12, <2>1 DEF Passing
<1> QED
  BY <1>4, <1>5, <1>13

(* va_arg_<type>: one argument more has arrived.                           *)
LEMMA FetchArrives ==
  ASSUME AInv, Fetch
  PROVE  AInv'
<1>1. RInv /\ RInv' /\ IInv /\ IInv' /\ abi \in ABISet /\ abi.cpu \in Cpus
  BY ReturnRest, CallTypes, ABIsAssumption DEF AInv, RInv
<1> DEFINE n == Len(received)
           i == n + 1
           f == VA!va_arg(abi, va, args[i])
<1>2. /\ abi' = abi /\ ret' = ret /\ list' = list /\ args' = args
      /\ received' = Append(received, f.value) /\ va' = f.va /\ i <= Len(args)
      /\ disputed' = disputed /\ phase' = "running" /\ phase = "running"
  BY DEF Fetch
<1> SUFFICES ASSUME abi.cpu \in FetchedCpus, 0 \notin disputed
             PROVE  (\E h : Started(h) /\ Built(h) /\ Passing(h))' /\ ArgumentsArrive'
  BY <1>1, <1>2 DEF AInv
<1>3. PICK h : Started(h) /\ Built(h) /\ Passing(h)
  BY DEF AInv
<1>4. Started(h)' /\ Built(h)'
  BY <1>2, <1>3 DEF Started, Built
<1>5. /\ n \in Nat /\ Len(received') = i /\ received'[i] = f.value
      /\ \A k \in 1..n : received'[k] = received[k]
  <2> DEFINE e == f.value
  <2>1. received' = Append(received, e)
    BY <1>2
  <2> HIDE DEF e
  <2>2. /\ n \in Nat /\ Len(Append(received, e)) = n + 1 /\ Append(received, e)[n + 1] = e
        /\ \A k \in 1..n : Append(received, e)[k] = received[k]
    BY <1>1, AppendedElements DEF IInv
  <2> QED
    BY <2>1, <2>2 DEF e
<1>6. Len(args) \in Nat /\ disputed \subseteq 0..Len(args)
  BY <1>1, LongerSequence DEF IInv
<1>7. i \in 1..Len(args) /\ i \in 0..Len(args) /\ n \in 0..Len(args) /\ i - 1 = n
  BY <1>2, <1>5, <1>6
<1>8. ASSUME \A d \in disputed : i < d
      PROVE  /\ received'[i] = Own(i, args[i].size)
             /\ Match(abi, h[i], va')
             /\ \A k \in 0..Len(args) : Sees(abi, h[k], va')
  <2>1. Agreed
    BY <1>5, <1>6, <1>8 DEF Agreed
  <2>2. i \notin disputed
    BY <1>5, <1>8
  <2> DEFINE l == h[i - 1]
             m == h[i]
             t == args[i]
             r == Push(abi, l, i, t)
             own == Own(i, t.size)
  <2>3. t \in CTypes(abi) /\ r.res = 0 /\ m = r.list /\ ~Disputed(abi, l, t)
    BY <1>3, <1>7, <2>2 DEF Built
  <2>4. RegInv(abi, l) /\ SpaceInv(abi, l) /\ MarkInv(abi, l)
    BY <1>3, <1>7 DEF Built
  <2>5. Match(abi, l, va) /\ \A k \in 0..Len(args) : Sees(abi, h[k], va)
    BY <1>2, <1>3, <1>7, <2>1 DEF Passing
  <2>6. Ready(abi, l, va) /\ Sees(abi, m, va)
    BY <1>7, <2>4, <2>5 DEF Ready
  <2>7. own = Own(i, t.size) /\ r = Push(abi, l, i, t) /\ f = VA!va_arg(abi, va, t)
    OBVIOUS
  <2> HIDE DEF l, m, t, r, own, f, i
  <2>8. Arrives(abi, m, own, va, VA!va_arg(abi, va, t))
    BY <1>1, <2>3, <2>6, <2>7, ArgumentArrives
  <2>9. f.value = own /\ Moved(va, f.va) /\ Match(abi, m, f.va)
    BY <2>7, <2>8 DEF Arrives
  <2>10. \A k \in 0..Len(args) : Sees(abi, h[k], f.va)
    BY <2>5, <2>9, SeesMoved
  <2> QED
    BY <1>2, <1>5, <2>7, <2>9, <2>10 DEF m, t
<1> HIDE DEF i, f
<1>9. ArgumentsArrive'
  <2> SUFFICES ASSUME NEW k \in 1..Len(received'), \A d \in disputed' : k < d
               PROVE  received'[k] = Own(k, args'[k].size)
    BY DEF ArgumentsArrive
  <2>1. CASE k = i
    BY <1>2, <1>8, <2>1
  <2>2. CASE k # i
    <3>1. k \in 1..n
      BY <1>5, <2>2 DEF i
    <3>2. received[k] = Own(k, args[k].size)
      BY <1>2, <3>1 DEF AInv, ArgumentsArrive
    <3> QED
      BY <1>2, <1>5, <3>1, <3>2
  <2> QED
    BY <2>1, <2>2
<1>10. Passing(h)'
  <2>1. Agreed' => \A d \in disputed : i < d
    BY <1>2, <1>5 DEF Agreed
  <2> QED
    BY <1>2, <1>5, <1>8, <2>1 DEF Passing
<1> QED
  BY <1>4, <1>9, <1>10

LEMMA RestArrives ==
  ASSUME AInv, Return \/ UNCHANGED vars
  PROVE  AInv'
<1>1. RInv /\ RInv'
  BY ReturnReturn, ReturnRest DEF AInv
<1>2. /\ abi' = abi /\ ret' = ret /\ list' = list /\ args' = args /\ received' = received
      /\ disputed' = disputed /\ va' = va
      /\ phase' = phase \/ phase' = "returned"
  BY DEF Return, vars
<1> SUFFICES ASSUME abi.cpu \in FetchedCpus, 0 \notin disputed
             PROVE  (\E h : Started(h) /\ Built(h) /\ Passing(h))' /\ ArgumentsArrive'
  BY <1>1, <1>2 DEF AInv
<1>3. PICK h : Started(h) /\ Built(h) /\ Passing(h)
  BY DEF AInv
<1>4. ArgumentsArrive'
  BY <1>2 DEF AInv, ArgumentsArrive
<1>5. Started(h)' /\ Built(h)'
  BY <1>2, <1>3 DEF Started, Built
<1>6. Agreed' <=> Agreed
  BY <1>2 DEF Agreed
<1>7. Passing(h)'
  BY <1>2, <1>3, <1>6 DEF Passing
<1> QED
  BY <1>4, <1>5, <1>7

(* AInv is an invariant of every caller and function.                      *)
THEOREM ArrivalInvariance == Spec => []AInv
<1>1. Init => AInv
  BY InitArrives
<1>2. AInv /\ [Next]_vars => AInv'
  BY PushArrives, CallArrives, StartArrives, FetchArrives, RestArrives DEF Next
<1> QED
  BY <1>1, <1>2, PTL DEF Spec

(* Every argument that the function fetches with va_arg_<type> is the one  *)
(* that the caller passed with av_<type>, on 19 of the 27 CPUs, under      *)
(* every byte order and compiler they are used with, whatever the types of *)
(* the arguments, how many there are and how large the array is; up to the *)
(* first argument that the two headers are known to disagree on.           *)
THEOREM ArgumentsArrived == Spec => [](abi.cpu \in FetchedCpus => ArgumentsArrive)
<1>1. AInv => (abi.cpu \in FetchedCpus => ArgumentsArrive)
  <2> SUFFICES ASSUME AInv, abi.cpu \in FetchedCpus PROVE ArgumentsArrive
    OBVIOUS
  <2>1. CASE 0 \in disputed
    BY <2>1 DEF ArgumentsArrive
  <2>2. CASE 0 \notin disputed
    BY <2>2 DEF AInv
  <2> QED
    BY <2>1, <2>2
<1> QED
  BY <1>1, ArrivalInvariance, PTL

=============================================================================
