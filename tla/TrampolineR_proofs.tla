------------------------ MODULE TrampolineR_proofs ------------------------
(***************************************************************************)
(* Proofs about TrampolineR, for any number of threads, pages and slots.   *)
(*                                                                         *)
(* The properties are not inductive.  IInv adds what makes them so: the    *)
(* two mappings of a page are each other's inverse (MapInv), what each     *)
(* thread's locals are at each point and who is in the critical section    *)
(* (ControlInv), that no slot is in two hands (DisjointInv), the shape of  *)
(* the free chain (ChainInv), stated without following it: free slots link *)
(* only to free slots, no two of them to the same one, and none to the     *)
(* head; and the contents of the slots being built or held (ContentInv).   *)
(***************************************************************************)
EXTENDS TrampolineR, TLAPS, FiniteSetTheorems, WellFoundedInduction

WPointers == {q \in Pointers : maps[q[1]].prot = "rw"}
XPointers == {q \in Pointers : maps[q[1]].prot = "rx"}

MapInv ==
  /\ \A v \in VPages : maps[v] # Unmapped =>
       /\ maps[v].page < file_length
       /\ LET p == maps[v].page
          IN  /\ maps[v].prot = "rw" =>
                   /\ v + link[p] \in VPages
                   /\ maps[v + link[p]] = [page |-> p, prot |-> "rx"]
              /\ maps[v].prot = "rx" =>
                   /\ v - link[p] \in VPages
                   /\ maps[v - link[p]] = [page |-> p, prot |-> "rw"]
  /\ \A u, v \in VPages : maps[u] # Unmapped /\ maps[u] = maps[v] => u = v

Critical   == {"a_test", "a_grow", "a_pop", "a_next", "a_unlock",
               "f_link", "f_head", "f_unlock"}
OnWritable == {"a_next", "a_unlock", "a_find", "a_code", "a_data", "a_flush",
               "a_return", "f_lock", "f_link", "f_head"}

OnceInv ==
  /\ once => file_fd = FD
  /\ ~once => file_length = 0 /\ pagesize = 0

ControlOf(t) ==
  /\ pc[t] \in Critical <=> freelist_lock = t
  /\ pc[t] \in Allocating => request[t] \in Requests
  /\ pc[t] \in OnWritable => function[t] \in WPointers
  /\ pc[t] = "f_xlate" => function[t] \in XPointers
  /\ pc[t] \in {"a_code", "a_data", "a_flush", "a_return"} =>
       function_x[t] = ToExecutable(function[t])
  /\ pc[t] = "a_grow" => freelist = NULL
  /\ pc[t] = "a_pop" => freelist # NULL
  /\ pc[t] = "a_next" => freelist = function[t]
  /\ pc[t] = "f_head" => mem[CellOf(function[t])].word0 = freelist
  /\ pc[t] \in {"a_size", "a_lock", "a_test", "a_grow"} => once
  /\ pc[t] = "a_grow" /\ StoresOrdered => fd[t] = FD

ControlInv == \A t \in Threads : ControlOf(t)

DisjointInv ==
  /\ DOMAIN held \subseteq XPointers
  /\ \A t, u \in Threads :
       /\ pc[t] \in Owning /\ pc[u] \in Owning
       /\ CellOf(function[t]) = CellOf(function[u])
       => t = u
  /\ \A t \in Threads, f \in DOMAIN held :
       pc[t] \in Owning => CellOf(function[t]) # CellOf(f)

Free(c)     == c \in FileCells /\ ~InUse(c)
FreePtr(q)  == q \in WPointers /\ Free(CellOf(q))

ChainInv ==
  /\ freelist # NULL => FreePtr(freelist)
  /\ \A c \in Cells : Free(c) /\ mem[c].word0 # NULL =>
       FreePtr(mem[c].word0) /\ mem[c].word0 # freelist
  /\ \A c, d \in Cells :
       Free(c) /\ Free(d) /\ mem[c].word0 # NULL /\ mem[c].word0 = mem[d].word0
       => c = d

Filled(c, q, r) ==
  mem[c].word0 = CODE /\ mem[c].target = r.address /\ mem[c].dptr = q

ContentOf(t) ==
  LET c == CellOf(function[t])
  IN  /\ pc[t] \in {"a_data", "a_flush", "a_return"} =>
           Filled(c, function[t], request[t])
      /\ pc[t] \in {"a_flush", "a_return"} => mem[c].data = request[t].data
      /\ pc[t] = "a_return" => c \notin icache

Complete(f, r) ==
  LET c == CellOf(f)
  IN  Filled(c, ToWritable(f), r) /\ mem[c].data = r.data /\ c \notin icache

ContentInv ==
  /\ \A t \in Threads : ContentOf(t)
  /\ \A f \in DOMAIN held : Complete(f, held[f])

(* The inductive invariant: who holds each slot, what the slot contains,   *)
(* and how the free ones are linked.                                       *)
IInv ==
  /\ TypeOK /\ OnceInv /\ MapInv /\ ControlInv
  /\ DisjointInv /\ ChainInv /\ ContentInv
-----------------------------------------------------------------------------
(* What the pointers and the two mappings of a page are to each other.     *)

LEMMA PointerCells ==
  ASSUME TypeOK, MapInv, NEW q \in WPointers \cup XPointers
  PROVE  CellOf(q) \in FileCells /\ CellOf(q) \in Cells
<1>1. /\ q[1] \in VPages /\ q[2] \in Slots /\ maps[q[1]] # Unmapped
  BY DEF WPointers, XPointers, Pointers, Unmapped
<1>2. /\ maps[q[1]].page \in FilePages
      /\ maps[q[1]].page < file_length
  BY <1>1 DEF TypeOK, MapInv, Mapping
<1>3. maps[q[1]].page \in 0..(file_length - 1)
  BY <1>2, SizesAssumption DEF TypeOK, FilePages
<1> QED
  BY <1>1, <1>2, <1>3 DEF CellOf, FileCells, Cells

LEMMA OneWritablePointer ==
  ASSUME TypeOK, MapInv, NEW q \in WPointers, NEW r \in WPointers,
         CellOf(q) = CellOf(r)
  PROVE  q = r
<1>1. q \in VPages \X Slots /\ r \in VPages \X Slots
  BY DEF WPointers, Pointers
<1>2. /\ maps[q[1]] \in Mapping /\ maps[q[1]].prot = "rw"
      /\ maps[r[1]] \in Mapping /\ maps[r[1]].prot = "rw"
      /\ maps[q[1]].page = maps[r[1]].page /\ q[2] = r[2]
  BY <1>1 DEF WPointers, CellOf, TypeOK
<1>3. maps[q[1]] = maps[r[1]] /\ maps[q[1]] # Unmapped
  BY <1>2 DEF Mapping, Unmapped
<1> QED
  BY <1>1, <1>2, <1>3 DEF MapInv

LEMMA OneExecutablePointer ==
  ASSUME TypeOK, MapInv, NEW q \in XPointers, NEW r \in XPointers,
         CellOf(q) = CellOf(r)
  PROVE  q = r
<1>1. q \in VPages \X Slots /\ r \in VPages \X Slots
  BY DEF XPointers, Pointers
<1>2. /\ maps[q[1]] \in Mapping /\ maps[q[1]].prot = "rx"
      /\ maps[r[1]] \in Mapping /\ maps[r[1]].prot = "rx"
      /\ maps[q[1]].page = maps[r[1]].page /\ q[2] = r[2]
  BY <1>1 DEF XPointers, CellOf, TypeOK
<1>3. maps[q[1]] = maps[r[1]] /\ maps[q[1]] # Unmapped
  BY SMTT(60), <1>2 DEF Mapping, Unmapped
<1> QED
  BY <1>1, <1>2, <1>3 DEF MapInv

(* `function + link' and `function - link' lead from one mapping to the    *)
(* other and back, to the same bytes.                                      *)
LEMMA Executable ==
  ASSUME TypeOK, MapInv, NEW q \in WPointers
  PROVE  /\ ToExecutable(q) \in XPointers
         /\ CellOf(ToExecutable(q)) = CellOf(q)
         /\ ToWritable(ToExecutable(q)) = q
<1> DEFINE p == maps[q[1]].page
           x == q[1] + link[p]
<1>1. /\ q \in VPages \X Slots /\ maps[q[1]].prot = "rw"
      /\ maps[q[1]] # Unmapped /\ q[1] \in Int
  BY SizesAssumption DEF WPointers, Pointers, Unmapped, VPages
<1>2. x \in VPages /\ maps[x] = [page |-> p, prot |-> "rx"]
  BY <1>1 DEF MapInv
<1>3. p \in FilePages /\ link[p] \in Int
  BY <1>1 DEF TypeOK, Mapping
<1>4. ToExecutable(q) = <<x, q[2]>> /\ x - link[p] = q[1]
  BY <1>1, <1>3 DEF ToExecutable
<1>5. q = <<q[1], q[2]>> /\ q[2] \in Slots
  BY <1>1
<1>6. CellOf(q) = <<p, q[2]>>
  BY DEF CellOf
<1> HIDE DEF p, x
<1> DEFINE r == <<x, q[2]>>
<1>7. r \in Pointers /\ r[1] = x /\ r[2] = q[2]
  BY <1>2, <1>5 DEF Pointers
<1>8. maps[r[1]].page = p /\ maps[r[1]].prot = "rx"
  BY <1>2, <1>7
<1> HIDE DEF r
<1>9. ToExecutable(q) = r
  BY <1>4 DEF r
<1>10. r \in XPointers /\ CellOf(r) = CellOf(q)
  BY <1>6, <1>7, <1>8 DEF XPointers, CellOf
<1>11. ToWritable(r) = q
  BY <1>4, <1>5, <1>7, <1>8 DEF ToWritable
<1> QED
  BY <1>9, <1>10, <1>11

LEMMA Writable ==
  ASSUME TypeOK, MapInv, NEW q \in XPointers
  PROVE  ToWritable(q) \in WPointers /\ CellOf(ToWritable(q)) = CellOf(q)
<1> DEFINE p == maps[q[1]].page
           w == q[1] - link[p]
<1>1. /\ q \in VPages \X Slots /\ maps[q[1]].prot = "rx"
      /\ maps[q[1]] # Unmapped
  BY DEF XPointers, Pointers, Unmapped
<1>2. w \in VPages /\ maps[w] = [page |-> p, prot |-> "rw"]
  BY <1>1 DEF MapInv
<1>3. ToWritable(q) = <<w, q[2]>>
  BY <1>1 DEF ToWritable
<1> QED
  BY <1>1, <1>2, <1>3 DEF WPointers, Pointers, CellOf

(* A step that maps no page leaves the pointers alone.                     *)
LEMMA SamePages ==
  ASSUME UNCHANGED page_vars
  PROVE  /\ WPointers' = WPointers /\ XPointers' = XPointers
         /\ FileCells' = FileCells /\ MapInv' = MapInv
         /\ \A q : /\ CellOf(q)' = CellOf(q)
                  /\ ToExecutable(q)' = ToExecutable(q)
                  /\ ToWritable(q)' = ToWritable(q)
BY DEF page_vars, WPointers, XPointers, FileCells, MapInv, CellOf,
       ToExecutable, ToWritable

-----------------------------------------------------------------------------
(* What a step of thread t leaves alone: every step but the one that maps  *)
(* a page writes only to the slot t owns, and to freelist only under the   *)
(* lock.                                                                   *)
OthersKeep(t) ==
  /\ \A u \in Threads \ {t} :
       /\ pc'[u] = pc[u] /\ request'[u] = request[u]
       /\ function'[u] = function[u] /\ function_x'[u] = function_x[u]
       /\ fd'[u] = fd[u]
       /\ freelist_lock' = u <=> freelist_lock = u
  /\ \A c \in Cells : ~Owns(t, c) =>
       mem'[c] = mem[c] /\ (c \in icache' => c \in icache)
  /\ freelist' = freelist \/ freelist_lock = t
  /\ once => once'
  /\ UNCHANGED page_vars

LEMMA OthersFrame ==
  ASSUME IInv, NEW t \in Threads, OthersKeep(t), NEW u \in Threads \ {t}
  PROVE  ControlOf(u)' /\ ContentOf(u)'
<1> DEFINE c == CellOf(function[u])
<1> USE SamePages DEF OthersKeep
<1>1. ControlOf(u) /\ ContentOf(u)
  BY DEF IInv, ControlInv, ContentInv
<1>2. pc[u] \in Critical => pc[u] # "idle" /\ freelist_lock = u /\ freelist_lock # t
  BY <1>1 DEF ControlOf, Critical
<1>3. CellOf(function[u])' = c
  OBVIOUS
<1>4. pc[u] \in Owning => c \in Cells /\ mem'[c] = mem[c] /\ (c \in icache' => c \in icache)
  <2>1. SUFFICES ASSUME pc[u] \in Owning
                 PROVE  c \in Cells /\ ~Owns(t, c)
    OBVIOUS
  <2>2. function[u] \in WPointers \cup XPointers
    BY <1>1, <2>1 DEF ControlOf, Owning, OnWritable
  <2> QED
    BY <2>1, <2>2, PointerCells DEF IInv, DisjointInv, Owns
<1>5. ControlOf(u)'
  BY <1>1, <1>2, <1>3, <1>4 DEF ControlOf, Critical, Owning
<1>6. ContentOf(u)'
  BY <1>1, <1>3, <1>4 DEF ContentOf, Filled, Owning
<1> QED
  BY <1>5, <1>6

LEMMA HeldFrame ==
  ASSUME IInv, NEW t \in Threads, OthersKeep(t), NEW f \in DOMAIN held,
         f \in DOMAIN held', held'[f] = held[f]
  PROVE  Complete(f, held[f])'
<1> DEFINE c == CellOf(f)
<1>1. c \in Cells
  BY PointerCells DEF IInv, DisjointInv
<1>2. ~Owns(t, c)
  BY DEF IInv, DisjointInv, Owns
<1>3. mem'[c] = mem[c] /\ (c \in icache' => c \in icache)
  BY <1>1, <1>2 DEF OthersKeep
<1>4. Complete(f, held[f])
  BY DEF IInv, ContentInv
<1>5. CellOf(f)' = c /\ ToWritable(f)' = ToWritable(f)
  BY SamePages DEF OthersKeep
<1> QED
  BY <1>3, <1>4, <1>5 DEF Complete, Filled

(* A step that neither takes nor gives a slot.                             *)
SlotsKeep(t) ==
  /\ OthersKeep(t) /\ UNCHANGED <<held, freelist>>
  /\ pc'[t] \in Owning <=> pc[t] \in Owning
  /\ pc[t] \in Owning => CellOf(function[t])' = CellOf(function[t])

(* Nor does it change the free chain.                                      *)
FreesKeep ==
  /\ freelist' = freelist
  /\ \A c : Free(c)' <=> Free(c)
  /\ \A c \in Cells : Free(c) => mem'[c].word0 = mem[c].word0
  /\ \A q : CellOf(q)' = CellOf(q)

LEMMA SlotsFrame ==
  ASSUME IInv, NEW t \in Threads, SlotsKeep(t)
  PROVE  /\ DisjointInv' /\ ChainInv' /\ FreesKeep
         /\ (\A f \in DOMAIN held : Complete(f, held[f]))'
<1> USE SamePages DEF SlotsKeep, OthersKeep
<1>1. \A u \in Threads :
        /\ pc'[u] \in Owning <=> pc[u] \in Owning
        /\ pc[u] \in Owning => CellOf(function[u])' = CellOf(function[u])
  <2> TAKE u \in Threads
  <2> QED
    BY DEF Owning
<1>2. DisjointInv'
  BY <1>1 DEF IInv, DisjointInv
<1>3. \A c : InUse(c)' <=> InUse(c)
  BY <1>1 DEF InUse, Owns
<1>4. \A c : Free(c)' <=> Free(c)
  BY <1>3 DEF Free
<1>5. \A q : FreePtr(q)' <=> FreePtr(q)
  BY <1>4 DEF FreePtr
<1>6. \A c \in Cells : Free(c) => mem'[c] = mem[c]
  BY DEF Free, InUse
<1>7. ChainInv'
  BY <1>4, <1>5, <1>6 DEF IInv, ChainInv
<1>8. (\A f \in DOMAIN held : Complete(f, held[f]))'
  BY HeldFrame
<1>9. FreesKeep
  BY <1>4, <1>6 DEF FreesKeep
<1> QED
  BY <1>2, <1>7, <1>8, <1>9

(* What remains to be shown of a step that takes or gives no slot.         *)
LEMMA KeepsIInv ==
  ASSUME IInv, NEW t \in Threads, SlotsKeep(t),
         TypeOK', OnceInv', ControlOf(t)', ContentOf(t)'
  PROVE  IInv' /\ FreesKeep
<1>1. MapInv'
  BY SamePages DEF SlotsKeep, OthersKeep, IInv
<1>2. \A u \in Threads \ {t} : ControlOf(u)' /\ ContentOf(u)'
  BY OthersFrame DEF SlotsKeep
<1>3. ControlInv' /\ ContentInv'
  BY <1>2, SlotsFrame DEF ControlInv, ContentInv
<1> QED
  BY <1>1, <1>3, SlotsFrame DEF IInv

-----------------------------------------------------------------------------
(* Each action keeps the invariant.                                        *)

LEMMA CheckPagesizeKeeps ==
  ASSUME IInv, NEW t \in Threads, CheckPagesize(t)
  PROVE  IInv' /\ FreesKeep
<1> USE SamePages DEF IInv, CheckPagesize, At, Goto, args, shared,
        once_vars, page_vars, lock_vars
<1>1. ControlOf(t) /\ ContentOf(t) /\ pc \in [Threads -> Labels]
  BY DEF ControlInv, ContentInv, TypeOK
<1>2. TypeOK'
  BY <1>1 DEF TypeOK, Labels
<1>3. OnceInv'
  BY <1>1 DEF OnceInv
<1>4. SlotsKeep(t)
  BY <1>1 DEF SlotsKeep, OthersKeep, Owning
<1>5. ControlOf(t)'
  BY <1>1 DEF ControlOf, Critical, Allocating, OnWritable, OnceInv
<1>6. ContentOf(t)'
  BY <1>1 DEF ContentOf, Filled
<1> QED
  BY <1>2, <1>3, <1>4, <1>5, <1>6, KeepsIInv

LEMMA MmapInitKeeps ==
  ASSUME IInv, NEW t \in Threads, MmapInit(t)
  PROVE  IInv' /\ FreesKeep
<1> USE SamePages DEF IInv, MmapInit, At, Goto, args, shared,
        once_vars, page_vars, lock_vars
<1>1. ControlOf(t) /\ ContentOf(t) /\ pc \in [Threads -> Labels]
  BY DEF ControlInv, ContentInv, TypeOK
<1>a. once' \in BOOLEAN /\ file_fd' \in {0, FD}
  BY DEF TypeOK
<1>c. file_length' \in 0..MaxFilePages
  BY SizesAssumption DEF TypeOK
<1>d. synced' \subseteq Threads
  BY DEF TypeOK
<1>b. pc' \in [Threads -> Labels]
  BY <1>1 DEF Labels
<1>2. TypeOK'
  BY <1>1, <1>a, <1>b, <1>c, <1>d DEF TypeOK, Labels
<1>3. OnceInv'
  BY <1>1 DEF OnceInv
<1>4. SlotsKeep(t)
  BY <1>1 DEF SlotsKeep, OthersKeep, Owning, OnceInv
<1>5. ControlOf(t)'
  BY <1>1 DEF ControlOf, Critical, Allocating, OnWritable
<1>6. ContentOf(t)'
  BY <1>1 DEF ContentOf, Filled
<1> QED
  BY <1>2, <1>3, <1>4, <1>5, <1>6, KeepsIInv

LEMMA MmapInitFailsKeeps ==
  ASSUME IInv, NEW t \in Threads, MmapInitFails(t)
  PROVE  IInv' /\ FreesKeep
<1> USE SamePages DEF IInv, MmapInitFails, At, Goto, Abort, args, shared,
        once_vars, page_vars, lock_vars
<1>1. ControlOf(t) /\ ContentOf(t) /\ pc \in [Threads -> Labels]
  BY DEF ControlInv, ContentInv, TypeOK
<1>2. TypeOK'
  BY <1>1 DEF TypeOK, Labels
<1>3. OnceInv'
  BY <1>1 DEF OnceInv
<1>4. SlotsKeep(t)
  BY <1>1 DEF SlotsKeep, OthersKeep, Owning
<1>5. ControlOf(t)'
  BY <1>1 DEF ControlOf, Critical, Allocating, OnWritable
<1>6. ContentOf(t)'
  BY <1>1 DEF ContentOf, Filled
<1> QED
  BY <1>2, <1>3, <1>4, <1>5, <1>6, KeepsIInv

LEMMA SetPagesizeKeeps ==
  ASSUME IInv, NEW t \in Threads, SetPagesize(t)
  PROVE  IInv' /\ FreesKeep
<1> USE SamePages DEF IInv, SetPagesize, At, Goto, args, shared,
        once_vars, page_vars, lock_vars
<1>1. ControlOf(t) /\ ContentOf(t) /\ pc \in [Threads -> Labels]
  BY DEF ControlInv, ContentInv, TypeOK
<1>2. TypeOK'
  BY <1>1 DEF TypeOK, Labels
<1>3. OnceInv'
  BY <1>1 DEF OnceInv, ControlOf
<1>4. SlotsKeep(t)
  BY <1>1 DEF SlotsKeep, OthersKeep, Owning
<1>5. ControlOf(t)'
  BY <1>1 DEF ControlOf, Critical, Allocating, OnWritable
<1>6. ContentOf(t)'
  BY <1>1 DEF ContentOf, Filled
<1> QED
  BY <1>2, <1>3, <1>4, <1>5, <1>6, KeepsIInv

LEMMA LockAllocKeeps ==
  ASSUME IInv, NEW t \in Threads, LockAlloc(t)
  PROVE  IInv' /\ FreesKeep
<1> USE SamePages DEF IInv, LockAlloc, At, Goto, Lock, args, shared,
        once_vars, page_vars, lock_vars
<1>1. ControlOf(t) /\ ContentOf(t) /\ pc \in [Threads -> Labels]
  BY DEF ControlInv, ContentInv, TypeOK
<1>2. TypeOK'
  BY <1>1 DEF TypeOK, Labels
<1>3. OnceInv'
  BY <1>1 DEF OnceInv
<1>4. SlotsKeep(t)
  BY <1>1, DistinctAssumption DEF SlotsKeep, OthersKeep, Owning, ControlOf, Critical
<1>5. ControlOf(t)'
  BY <1>1 DEF ControlOf, Critical, Allocating, OnWritable
<1>6. ContentOf(t)'
  BY <1>1 DEF ContentOf, Filled
<1> QED
  BY <1>2, <1>3, <1>4, <1>5, <1>6, KeepsIInv

LEMMA TestFreelistKeeps ==
  ASSUME IInv, NEW t \in Threads, TestFreelist(t)
  PROVE  IInv' /\ FreesKeep
<1> USE SamePages DEF IInv, TestFreelist, At, Goto, args, shared,
        once_vars, page_vars, lock_vars
<1>1. ControlOf(t) /\ ContentOf(t) /\ pc \in [Threads -> Labels]
  BY DEF ControlInv, ContentInv, TypeOK
<1>a. \A u \in Threads \ {t} : fd'[u] = fd[u] /\ pc'[u] = pc[u]
  BY <1>1 DEF TypeOK
<1>b. pc'[t] \notin Owning /\ pc[t] \notin Owning
  BY <1>1 DEF Owning
<1>2. TypeOK'
  BY <1>1 DEF TypeOK, Labels, VisibleFd
<1>3. OnceInv'
  BY <1>1 DEF OnceInv
<1>4. SlotsKeep(t)
  BY <1>1, <1>a, <1>b DEF SlotsKeep, OthersKeep, Owning
<1>5. ControlOf(t)'
  BY <1>1 DEF ControlOf, Critical, Allocating, OnWritable, VisibleFd, OnceInv, TypeOK
<1>6. ContentOf(t)'
  BY <1>1 DEF ContentOf, Filled
<1> QED
  BY <1>2, <1>3, <1>4, <1>5, <1>6, KeepsIInv

LEMMA GrowFailsKeeps ==
  ASSUME IInv, NEW t \in Threads, GrowFails(t)
  PROVE  IInv' /\ FreesKeep
<1> USE SamePages DEF IInv, GrowFails, At, Goto, Abort, args, shared,
        once_vars, page_vars, lock_vars
<1>1. ControlOf(t) /\ ContentOf(t) /\ pc \in [Threads -> Labels]
  BY DEF ControlInv, ContentInv, TypeOK
<1>2. TypeOK'
  BY <1>1 DEF TypeOK, Labels
<1>3. OnceInv'
  BY <1>1 DEF OnceInv
<1>4. SlotsKeep(t)
  BY <1>1 DEF SlotsKeep, OthersKeep, Owning
<1>5. ControlOf(t)'
  BY <1>1 DEF ControlOf, Critical, Allocating, OnWritable
<1>6. ContentOf(t)'
  BY <1>1 DEF ContentOf, Filled
<1> QED
  BY <1>2, <1>3, <1>4, <1>5, <1>6, KeepsIInv

LEMMA PopHeadKeeps ==
  ASSUME IInv, NEW t \in Threads, PopHead(t)
  PROVE  IInv' /\ FreesKeep
<1> USE SamePages DEF IInv, PopHead, At, Goto, args, shared,
        once_vars, page_vars, lock_vars
<1>1. ControlOf(t) /\ ContentOf(t) /\ pc \in [Threads -> Labels]
  BY DEF ControlInv, ContentInv, TypeOK
<1>a. freelist \in WPointers /\ freelist \in Pointers
  BY <1>1 DEF ControlOf, ChainInv, FreePtr, WPointers
<1>2. TypeOK'
  BY <1>1, <1>a DEF TypeOK, Labels
<1>3. OnceInv'
  BY <1>1 DEF OnceInv
<1>4. SlotsKeep(t)
  BY <1>1 DEF SlotsKeep, OthersKeep, Owning
<1>5. ControlOf(t)'
  BY <1>1, <1>a DEF ControlOf, Critical, Allocating, OnWritable, TypeOK
<1>6. ContentOf(t)'
  BY <1>1 DEF ContentOf, Filled
<1> QED
  BY <1>2, <1>3, <1>4, <1>5, <1>6, KeepsIInv

LEMMA UnlockAllocKeeps ==
  ASSUME IInv, NEW t \in Threads, UnlockAlloc(t)
  PROVE  IInv' /\ FreesKeep
<1> USE SamePages DEF IInv, UnlockAlloc, At, Goto, Unlock, args, shared,
        once_vars, page_vars, lock_vars
<1>1. ControlOf(t) /\ ContentOf(t) /\ pc \in [Threads -> Labels]
  BY DEF ControlInv, ContentInv, TypeOK
<1>2. TypeOK'
  BY <1>1 DEF TypeOK, Labels
<1>3. OnceInv'
  BY <1>1 DEF OnceInv
<1>4. SlotsKeep(t)
  BY <1>1, DistinctAssumption DEF SlotsKeep, OthersKeep, Owning, ControlOf, Critical
<1>5. ControlOf(t)'
  BY <1>1, DistinctAssumption DEF ControlOf, Critical, Allocating, OnWritable
<1>6. ContentOf(t)'
  BY <1>1 DEF ContentOf, Filled
<1> QED
  BY <1>2, <1>3, <1>4, <1>5, <1>6, KeepsIInv

LEMMA FindExecutableKeeps ==
  ASSUME IInv, NEW t \in Threads, FindExecutable(t)
  PROVE  IInv' /\ FreesKeep
<1> USE SamePages DEF IInv, FindExecutable, At, Goto, args, shared,
        once_vars, page_vars, lock_vars
<1>1. ControlOf(t) /\ ContentOf(t) /\ pc \in [Threads -> Labels]
  BY DEF ControlInv, ContentInv, TypeOK
<1>a. /\ function[t] \in WPointers /\ function[t] \in Pointers
      /\ CellOf(function[t]) \in Cells
  BY <1>1, PointerCells DEF ControlOf, OnWritable, WPointers
<1>b. ToExecutable(function[t]) \in Pointers
  BY <1>a, Executable DEF XPointers
<1>2. TypeOK'
  BY <1>1, <1>a, <1>b DEF TypeOK, Labels
<1>3. OnceInv'
  BY <1>1 DEF OnceInv
<1>4. SlotsKeep(t)
  BY <1>1 DEF SlotsKeep, OthersKeep, Owning
<1>5. ControlOf(t)'
  BY <1>1 DEF ControlOf, Critical, Allocating, OnWritable, TypeOK
<1>6. ContentOf(t)'
  BY <1>1 DEF ContentOf, Filled
<1> QED
  BY <1>2, <1>3, <1>4, <1>5, <1>6, KeepsIInv

LEMMA FillCodeKeeps ==
  ASSUME IInv, NEW t \in Threads, FillCode(t)
  PROVE  IInv' /\ FreesKeep
<1> USE SamePages DEF IInv, FillCode, At, Goto, args, shared,
        once_vars, page_vars, lock_vars
<1>1. ControlOf(t) /\ ContentOf(t) /\ pc \in [Threads -> Labels]
  BY DEF ControlInv, ContentInv, TypeOK
<1>a. /\ function[t] \in WPointers /\ function[t] \in Pointers
      /\ CellOf(function[t]) \in Cells
  BY <1>1, PointerCells DEF ControlOf, OnWritable, WPointers
<1>b. mem[CellOf(function[t])] \in Cell /\ request[t] \in Requests
  BY <1>1, <1>a DEF TypeOK, ControlOf, Allocating
<1>c. [mem[CellOf(function[t])] EXCEPT !.word0 = CODE,
          !.target = request[t].address, !.dptr = function[t]] \in Cell
  BY <1>a, <1>b DEF Requests, Cell
<1>2. TypeOK'
  BY <1>1, <1>a, <1>b, <1>c DEF TypeOK, Labels
<1>3. OnceInv'
  BY <1>1 DEF OnceInv
<1>4. SlotsKeep(t)
  BY <1>1, <1>a DEF SlotsKeep, OthersKeep, Owning, Owns
<1>5. ControlOf(t)'
  BY <1>1, <1>a DEF ControlOf, Critical, Allocating, OnWritable
<1>6. ContentOf(t)'
  BY <1>1, <1>a DEF ContentOf, Filled, TypeOK, Cell
<1> QED
  BY <1>2, <1>3, <1>4, <1>5, <1>6, KeepsIInv

LEMMA FillDataKeeps ==
  ASSUME IInv, NEW t \in Threads, FillData(t)
  PROVE  IInv' /\ FreesKeep
<1> USE SamePages DEF IInv, FillData, At, Goto, args, shared,
        once_vars, page_vars, lock_vars
<1>1. ControlOf(t) /\ ContentOf(t) /\ pc \in [Threads -> Labels]
  BY DEF ControlInv, ContentInv, TypeOK
<1>a. /\ function[t] \in WPointers /\ function[t] \in Pointers
      /\ CellOf(function[t]) \in Cells
  BY <1>1, PointerCells DEF ControlOf, OnWritable, WPointers
<1>b. mem[CellOf(function[t])] \in Cell /\ request[t] \in Requests
  BY <1>1, <1>a DEF TypeOK, ControlOf, Allocating
<1>c. [mem[CellOf(function[t])] EXCEPT !.data = request[t].data] \in Cell
  BY <1>b DEF Requests, Cell
<1>2. TypeOK'
  BY <1>1, <1>a, <1>c DEF TypeOK, Labels
<1>3. OnceInv'
  BY <1>1 DEF OnceInv
<1>4. SlotsKeep(t)
  BY <1>1, <1>a DEF SlotsKeep, OthersKeep, Owning, Owns, TypeOK, Cell
<1>5. ControlOf(t)'
  BY <1>1, <1>a DEF ControlOf, Critical, Allocating, OnWritable
<1>6. ContentOf(t)'
  BY <1>1, <1>a DEF ContentOf, Filled, TypeOK, Cell
<1> QED
  BY <1>2, <1>3, <1>4, <1>5, <1>6, KeepsIInv

LEMMA FlushIcacheKeeps ==
  ASSUME IInv, NEW t \in Threads, FlushIcache(t)
  PROVE  IInv' /\ FreesKeep
<1> USE SamePages DEF IInv, FlushIcache, At, Goto, args, shared,
        once_vars, page_vars, lock_vars
<1>1. ControlOf(t) /\ ContentOf(t) /\ pc \in [Threads -> Labels]
  BY DEF ControlInv, ContentInv, TypeOK
<1>a. /\ function[t] \in WPointers /\ function[t] \in Pointers
      /\ CellOf(function[t]) \in Cells
  BY <1>1, PointerCells DEF ControlOf, OnWritable, WPointers
<1>b. CellOf(function_x[t]) = CellOf(function[t])
  BY <1>1, <1>a, Executable DEF ControlOf
<1>2. TypeOK'
  BY <1>1 DEF TypeOK, Labels
<1>3. OnceInv'
  BY <1>1 DEF OnceInv
<1>4. SlotsKeep(t)
  BY <1>1, <1>b DEF SlotsKeep, OthersKeep, Owning, Owns
<1>5. ControlOf(t)'
  BY <1>1 DEF ControlOf, Critical, Allocating, OnWritable
<1>6. ContentOf(t)'
  BY <1>1, <1>a, <1>b DEF ContentOf, Filled, TypeOK
<1> QED
  BY <1>2, <1>3, <1>4, <1>5, <1>6, KeepsIInv

LEMMA FindWritableKeeps ==
  ASSUME IInv, NEW t \in Threads, FindWritable(t)
  PROVE  IInv' /\ FreesKeep
<1> USE SamePages DEF IInv, FindWritable, At, Goto, args, shared,
        once_vars, page_vars, lock_vars
<1>1. ControlOf(t) /\ ContentOf(t) /\ pc \in [Threads -> Labels]
  BY DEF ControlInv, ContentInv, TypeOK
<1>a. /\ ToWritable(function[t]) \in WPointers
      /\ ToWritable(function[t]) \in Pointers
      /\ CellOf(ToWritable(function[t])) = CellOf(function[t])
  BY <1>1, Writable DEF ControlOf, WPointers
<1>2. TypeOK'
  BY <1>1, <1>a DEF TypeOK, Labels
<1>3. OnceInv'
  BY <1>1 DEF OnceInv
<1>4. SlotsKeep(t)
  BY <1>1, <1>a DEF SlotsKeep, OthersKeep, Owning, TypeOK
<1>5. ControlOf(t)'
  BY <1>1, <1>a DEF ControlOf, Critical, Allocating, OnWritable, TypeOK
<1>6. ContentOf(t)'
  BY <1>1 DEF ContentOf, Filled
<1> QED
  BY <1>2, <1>3, <1>4, <1>5, <1>6, KeepsIInv

LEMMA LockFreeKeeps ==
  ASSUME IInv, NEW t \in Threads, LockFree(t)
  PROVE  IInv' /\ FreesKeep
<1> USE SamePages DEF IInv, LockFree, At, Goto, Lock, args, shared,
        once_vars, page_vars, lock_vars
<1>1. ControlOf(t) /\ ContentOf(t) /\ pc \in [Threads -> Labels]
  BY DEF ControlInv, ContentInv, TypeOK
<1>2. TypeOK'
  BY <1>1 DEF TypeOK, Labels
<1>3. OnceInv'
  BY <1>1 DEF OnceInv
<1>4. SlotsKeep(t)
  BY <1>1, DistinctAssumption DEF SlotsKeep, OthersKeep, Owning, ControlOf, Critical
<1>5. ControlOf(t)'
  BY <1>1 DEF ControlOf, Critical, Allocating, OnWritable
<1>6. ContentOf(t)'
  BY <1>1 DEF ContentOf, Filled
<1> QED
  BY <1>2, <1>3, <1>4, <1>5, <1>6, KeepsIInv

LEMMA PushLinkKeeps ==
  ASSUME IInv, NEW t \in Threads, PushLink(t)
  PROVE  IInv' /\ FreesKeep
<1> USE SamePages DEF IInv, PushLink, At, Goto, args, shared,
        once_vars, page_vars, lock_vars
<1>1. ControlOf(t) /\ ContentOf(t) /\ pc \in [Threads -> Labels]
  BY DEF ControlInv, ContentInv, TypeOK
<1>a. /\ function[t] \in WPointers /\ function[t] \in Pointers
      /\ CellOf(function[t]) \in Cells
  BY <1>1, PointerCells DEF ControlOf, OnWritable, WPointers
<1>2. TypeOK'
  BY SMTT(60), <1>1, <1>a DEF TypeOK, Labels, Cell
<1>3. OnceInv'
  BY <1>1 DEF OnceInv
<1>4. SlotsKeep(t)
  BY <1>1, <1>a DEF SlotsKeep, OthersKeep, Owning, Owns, TypeOK
<1>5. ControlOf(t)'
  BY <1>1, <1>a DEF ControlOf, Critical, Allocating, OnWritable, TypeOK, Cell
<1>6. ContentOf(t)'
  BY <1>1 DEF ContentOf, Filled
<1> QED
  BY <1>2, <1>3, <1>4, <1>5, <1>6, KeepsIInv

LEMMA UnlockFreeKeeps ==
  ASSUME IInv, NEW t \in Threads, UnlockFree(t)
  PROVE  IInv' /\ FreesKeep
<1> USE SamePages DEF IInv, UnlockFree, At, Goto, Unlock, args, shared,
        once_vars, page_vars, lock_vars
<1>1. ControlOf(t) /\ ContentOf(t) /\ pc \in [Threads -> Labels]
  BY DEF ControlInv, ContentInv, TypeOK
<1>2. TypeOK'
  BY <1>1 DEF TypeOK, Labels
<1>3. OnceInv'
  BY <1>1 DEF OnceInv
<1>4. SlotsKeep(t)
  BY <1>1, DistinctAssumption DEF SlotsKeep, OthersKeep, Owning, ControlOf, Critical
<1>5. ControlOf(t)'
  BY <1>1, DistinctAssumption DEF ControlOf, Critical, Allocating, OnWritable
<1>6. ContentOf(t)'
  BY <1>1 DEF ContentOf, Filled
<1> QED
  BY <1>2, <1>3, <1>4, <1>5, <1>6, KeepsIInv

LEMMA ReturnFreeKeeps ==
  ASSUME IInv, NEW t \in Threads, ReturnFree(t)
  PROVE  IInv' /\ FreesKeep
<1> USE SamePages DEF IInv, ReturnFree, At, Goto, Leave, args, shared,
        once_vars, page_vars, lock_vars
<1>1. ControlOf(t) /\ ContentOf(t) /\ pc \in [Threads -> Labels]
  BY DEF ControlInv, ContentInv, TypeOK
<1>2. TypeOK'
  BY <1>1 DEF TypeOK, Labels
<1>3. OnceInv'
  BY <1>1 DEF OnceInv
<1>4. SlotsKeep(t)
  BY <1>1 DEF SlotsKeep, OthersKeep, Owning
<1>5. ControlOf(t)'
  BY <1>1 DEF ControlOf, Critical, Allocating, OnWritable
<1>6. ContentOf(t)'
  BY <1>1 DEF ContentOf, Filled
<1> QED
  BY <1>2, <1>3, <1>4, <1>5, <1>6, KeepsIInv

LEMMA CallAllocKeeps ==
  ASSUME IInv, NEW t \in Threads, NEW r \in Requests, CallAlloc(t, r)
  PROVE  IInv' /\ FreesKeep
<1> USE SamePages DEF IInv, CallAlloc, At, Goto, shared, once_vars, page_vars,
        lock_vars
<1>1. ControlOf(t) /\ ContentOf(t) /\ pc \in [Threads -> Labels]
  BY DEF ControlInv, ContentInv, TypeOK
<1>2. TypeOK'
  BY <1>1 DEF TypeOK, Labels
<1>3. OnceInv'
  BY DEF OnceInv
<1>4. SlotsKeep(t)
  BY <1>1 DEF SlotsKeep, OthersKeep, Owning, TypeOK
<1>5. ControlOf(t)' /\ ContentOf(t)'
  BY <1>1 DEF ControlOf, ContentOf, Critical, Allocating, OnWritable, TypeOK
<1> QED
  BY <1>2, <1>3, <1>4, <1>5, KeepsIInv

(* The steps that take a slot from the free chain, give one back, or pass  *)
(* one between a thread and the client change who holds it.                *)
HeadPopped ==
  LET c == CellOf(freelist)
  IN  /\ c \in Cells /\ freelist' = mem[c].word0 /\ mem' = mem
      /\ \A d : Free(d)' <=> Free(d) /\ d # c
      /\ \A q : CellOf(q)' = CellOf(q)

LEMMA PopNextKeeps ==
  ASSUME IInv, NEW t \in Threads, PopNext(t)
  PROVE  IInv' /\ HeadPopped
<1> DEFINE c == CellOf(freelist)
<1> USE SamePages DEF IInv, PopNext, At, Goto, args, shared, once_vars,
        page_vars, lock_vars
<1>1. ControlOf(t) /\ ContentOf(t) /\ pc \in [Threads -> Labels]
  BY DEF ControlInv, ContentInv, TypeOK
<1>2. /\ function[t] = freelist /\ freelist_lock = t
      /\ freelist \in WPointers /\ freelist \in Pointers /\ freelist # NULL
  BY <1>1, DistinctAssumption DEF ControlOf, OnWritable, Critical, WPointers
<1>3. FreePtr(freelist) /\ c \in Cells /\ Free(c)
  BY <1>2, PointerCells DEF ChainInv, FreePtr
<1>4. freelist' # NULL => /\ FreePtr(freelist') /\ freelist' # freelist
                          /\ freelist' \in Pointers
                          /\ CellOf(freelist') # c
  <2>1. freelist' = mem[c].word0
    OBVIOUS
  <2>2. freelist' # NULL => FreePtr(freelist') /\ freelist' # freelist
    BY <1>3, <2>1 DEF ChainInv
  <2> QED
    BY <1>2, <2>2, OneWritablePointer DEF FreePtr, WPointers
<1>5. TypeOK'
  BY <1>1, <1>4 DEF TypeOK, Labels
<1>6. OnceInv' /\ MapInv'
  BY DEF OnceInv
<1>7. OthersKeep(t)
  BY <1>1, <1>2 DEF OthersKeep
<1>8. ControlOf(t)' /\ ContentOf(t)'
  BY <1>1, <1>2 DEF ControlOf, ContentOf, Critical, Allocating, OnWritable
<1>9. \A u \in Threads : pc'[u] \in Owning <=> pc[u] \in Owning \/ u = t
  BY <1>1 DEF Owning
<1>10. \A d : InUse(d)' <=> InUse(d) \/ d = c
  BY <1>2, <1>9 DEF InUse, Owns
<1>11. DisjointInv'
  BY <1>2, <1>3, <1>9 DEF DisjointInv, Free, InUse, Owns
<1>12. \A d : Free(d)' <=> Free(d) /\ d # c
  BY <1>10 DEF Free
<1>13. \A q : FreePtr(q)' <=> FreePtr(q) /\ CellOf(q) # c
  BY <1>12 DEF FreePtr
<1>14. ChainInv'
  <2>1. freelist' # NULL => FreePtr(freelist)'
    BY <1>4, <1>13
  <2>2. ASSUME NEW d \in Cells, Free(d)', mem[d].word0 # NULL
        PROVE  FreePtr(mem[d].word0)' /\ mem[d].word0 # freelist'
    <3>1. Free(d) /\ d # c
      BY <2>2, <1>12
    <3>2. FreePtr(mem[d].word0) /\ mem[d].word0 # freelist
      BY <2>2, <3>1 DEF ChainInv
    <3>3. CellOf(mem[d].word0) # c
      BY <1>2, <3>2, OneWritablePointer DEF FreePtr
    <3>4. mem[d].word0 # mem[c].word0
      BY <1>3, <2>2, <3>1 DEF ChainInv
    <3> QED
      BY <1>13, <3>2, <3>3, <3>4
  <2>3. ASSUME NEW d \in Cells, NEW e \in Cells, Free(d)', Free(e)',
               mem[d].word0 # NULL, mem[d].word0 = mem[e].word0
        PROVE  d = e
    BY <2>3, <1>12 DEF ChainInv
  <2> QED
    BY <2>1, <2>2, <2>3 DEF ChainInv
<1>15. ControlInv' /\ ContentInv'
  BY <1>7, <1>8, OthersFrame, HeldFrame DEF ControlInv, ContentInv
<1>16. HeadPopped
  BY <1>3, <1>12 DEF HeadPopped
<1> QED
  BY <1>5, <1>6, <1>11, <1>14, <1>15, <1>16

HeadPushed ==
  LET c == CellOf(freelist')
  IN  /\ c \in Cells /\ freelist' # NULL /\ mem[c].word0 = freelist
      /\ mem' = mem
      /\ \A d : Free(d)' <=> Free(d) \/ d = c
      /\ \A q : CellOf(q)' = CellOf(q)

LEMMA PushHeadKeeps ==
  ASSUME IInv, NEW t \in Threads, PushHead(t)
  PROVE  IInv' /\ HeadPushed
<1> DEFINE c == CellOf(function[t])
<1> USE SamePages DEF IInv, PushHead, At, Goto, args, shared, once_vars,
        page_vars, lock_vars
<1>1. ControlOf(t) /\ ContentOf(t) /\ pc \in [Threads -> Labels]
  BY DEF ControlInv, ContentInv, TypeOK
<1>2. /\ function[t] \in WPointers /\ function[t] \in Pointers
      /\ function[t] # NULL /\ freelist_lock = t /\ mem[c].word0 = freelist
      /\ c \in Cells /\ c \in FileCells /\ pc[t] \in Owning
  BY <1>1, DistinctAssumption, PointerCells
     DEF ControlOf, OnWritable, Critical, WPointers, Owning
<1>3. TypeOK'
  BY <1>1, <1>2 DEF TypeOK, Labels
<1>4. OnceInv' /\ MapInv'
  BY DEF OnceInv
<1>5. OthersKeep(t)
  BY <1>1, <1>2 DEF OthersKeep
<1>6. ControlOf(t)' /\ ContentOf(t)'
  BY <1>1, <1>2 DEF ControlOf, ContentOf, Critical, Allocating, OnWritable
<1>7. \A u \in Threads : pc'[u] \in Owning <=> pc[u] \in Owning /\ u # t
  BY <1>1 DEF Owning
<1>8. DisjointInv'
  BY <1>7 DEF DisjointInv
<1>9. \A d : InUse(d)' <=> InUse(d) /\ d # c
  <2>1. \A u \in Threads : Owns(u, c) => u = t
    BY <1>2 DEF DisjointInv, Owns
  <2>2. \A f \in DOMAIN held : CellOf(f) # c
    BY <1>2 DEF DisjointInv
  <2> QED
    BY <1>7, <2>1, <2>2 DEF InUse, Owns
<1>10. \A d : Free(d)' <=> Free(d) \/ d = c
  BY <1>2, <1>9 DEF Free
<1>11. ~Free(c)
  BY <1>2 DEF Free, InUse, Owns
<1>12. \A q : FreePtr(q) => FreePtr(q)' /\ q # function[t]
  BY <1>10, <1>11 DEF FreePtr
<1>13. FreePtr(function[t])'
  BY <1>2, <1>10 DEF FreePtr
<1>14. ChainInv'
  <2>1. ASSUME NEW d \in Cells, Free(d)', mem[d].word0 # NULL
        PROVE  FreePtr(mem[d].word0)' /\ mem[d].word0 # freelist'
    <3>1. CASE d = c
      BY <1>2, <1>12, <2>1, <3>1 DEF ChainInv
    <3>2. CASE d # c
      BY <1>10, <1>12, <2>1, <3>2 DEF ChainInv
    <3> QED
      BY <3>1, <3>2
  <2>2. ASSUME NEW d \in Cells, NEW e \in Cells, Free(d)', Free(e)',
               mem[d].word0 # NULL, mem[d].word0 = mem[e].word0
        PROVE  d = e
    BY <1>2, <1>10, <2>2 DEF ChainInv
  <2> QED
    BY <1>13, <2>1, <2>2 DEF ChainInv
<1>15. ControlInv' /\ ContentInv'
  BY <1>5, <1>6, OthersFrame, HeldFrame DEF ControlInv, ContentInv
<1>16. HeadPushed
  BY <1>2, <1>10 DEF HeadPushed
<1> QED
  BY <1>3, <1>4, <1>8, <1>14, <1>15, <1>16

LEMMA ReturnAllocKeeps ==
  ASSUME IInv, NEW t \in Threads, ReturnAlloc(t)
  PROVE  IInv' /\ FreesKeep
<1> DEFINE c == CellOf(function[t])
           x == function_x[t]
<1> USE SamePages DEF IInv, ReturnAlloc, Leave, At, Goto, shared, once_vars,
        page_vars, lock_vars
<1>1. ControlOf(t) /\ ContentOf(t) /\ pc \in [Threads -> Labels]
  BY DEF ControlInv, ContentInv, TypeOK
<1>2. /\ function[t] \in WPointers /\ request[t] \in Requests
      /\ x = ToExecutable(function[t]) /\ pc[t] \in Owning
  BY <1>1 DEF ControlOf, OnWritable, Allocating, Owning
<1>3. /\ x \in XPointers /\ CellOf(x) = c /\ ToWritable(x) = function[t]
      /\ x \in Pointers
  BY <1>2, Executable DEF XPointers
<1>4. \A f \in DOMAIN held : CellOf(f) # c
  BY <1>2 DEF DisjointInv
<1>5. /\ DOMAIN held' = DOMAIN held \cup {x} /\ held'[x] = request[t]
      /\ \A f \in DOMAIN held : held'[f] = held[f]
  BY <1>3, <1>4
<1>6. TypeOK'
  <2>1. DOMAIN held' \subseteq Pointers /\ held' \in [DOMAIN held' -> Requests]
    BY <1>2, <1>3, <1>5 DEF TypeOK
  <2> QED
    BY <1>1, <2>1 DEF TypeOK, Labels
<1>7. OnceInv' /\ MapInv'
  BY DEF OnceInv
<1>8. OthersKeep(t)
  BY <1>1 DEF OthersKeep, TypeOK
<1>9. ControlOf(t)' /\ ContentOf(t)'
  BY <1>1 DEF ControlOf, ContentOf, Critical, Allocating, OnWritable
<1>10. \A u \in Threads : /\ pc'[u] \in Owning <=> pc[u] \in Owning /\ u # t
                          /\ u # t => function'[u] = function[u]
  BY <1>1, <1>8 DEF Owning, OthersKeep
<1>11. DisjointInv'
  <2>1. ASSUME NEW u \in Threads, NEW f \in DOMAIN held', pc'[u] \in Owning
        PROVE  CellOf(function'[u]) # CellOf(f)
    BY <1>2, <1>3, <1>5, <1>10, <2>1 DEF DisjointInv
  <2> QED
    BY <1>3, <1>5, <1>10, <2>1 DEF DisjointInv
<1>12. \A d : InUse(d)' <=> InUse(d)
  BY <1>2, <1>3, <1>5, <1>10 DEF InUse, Owns
<1>13. ChainInv'
  <2>1. \A d : Free(d)' <=> Free(d)
    BY <1>12 DEF Free
  <2>2. \A q : FreePtr(q)' <=> FreePtr(q)
    BY <2>1 DEF FreePtr
  <2> QED
    BY <2>1, <2>2 DEF ChainInv
<1>14. \A f \in DOMAIN held : Complete(f, held[f])'
  BY <1>5, <1>8, HeldFrame
<1>15. Complete(x, request[t])
  BY <1>1, <1>3 DEF ContentOf, Complete, Filled
<1>16. ControlInv' /\ ContentInv'
  <2>1. ControlInv' /\ \A u \in Threads : ContentOf(u)'
    BY <1>8, <1>9, OthersFrame DEF ControlInv
  <2>2. (\A f \in DOMAIN held : Complete(f, held[f]))'
    BY <1>5, <1>14, <1>15 DEF Complete, Filled
  <2> QED
    BY <2>1, <2>2 DEF ContentInv
<1>17. FreesKeep
  BY <1>12 DEF FreesKeep, Free
<1> QED
  BY <1>6, <1>7, <1>11, <1>13, <1>16, <1>17

LEMMA CallFreeKeeps ==
  ASSUME IInv, NEW t \in Threads, NEW x \in DOMAIN held, CallFree(t, x)
  PROVE  IInv' /\ FreesKeep
<1> USE SamePages DEF IInv, CallFree, At, Goto, shared, once_vars, page_vars,
        lock_vars
<1>1. ControlOf(t) /\ ContentOf(t) /\ pc \in [Threads -> Labels]
  BY DEF ControlInv, ContentInv, TypeOK
<1>2. x \in XPointers /\ x \in Pointers /\ function'[t] = x
  BY DEF DisjointInv, XPointers, TypeOK
<1>3. /\ DOMAIN held' = DOMAIN held \ {x}
      /\ \A f \in DOMAIN held' : held'[f] = held[f]
  OBVIOUS
<1>4. TypeOK'
  <2>1. DOMAIN held' \subseteq Pointers /\ held' \in [DOMAIN held' -> Requests]
    BY <1>3 DEF TypeOK
  <2> QED
    BY <1>1, <1>2, <2>1 DEF TypeOK, Labels
<1>5. OnceInv' /\ MapInv'
  BY DEF OnceInv
<1>6. OthersKeep(t)
  BY <1>1 DEF OthersKeep, TypeOK
<1>7. ControlOf(t)' /\ ContentOf(t)'
  BY <1>1, <1>2 DEF ControlOf, ContentOf, Critical, Allocating, OnWritable
<1>8. \A u \in Threads : /\ pc'[u] \in Owning <=> pc[u] \in Owning \/ u = t
                         /\ u # t => function'[u] = function[u]
  BY <1>1, <1>6 DEF Owning, OthersKeep
<1>9. \A f \in DOMAIN held' : CellOf(f) # CellOf(x)
  BY <1>2, <1>3, OneExecutablePointer DEF DisjointInv
<1>10. DisjointInv'
  <2>1. ASSUME NEW u \in Threads, NEW f \in DOMAIN held', pc'[u] \in Owning
        PROVE  CellOf(function'[u]) # CellOf(f)
    BY <1>2, <1>3, <1>8, <1>9, <2>1 DEF DisjointInv
  <2>2. ASSUME NEW u \in Threads, NEW v \in Threads, pc'[u] \in Owning,
               pc'[v] \in Owning, CellOf(function'[u]) = CellOf(function'[v])
        PROVE  u = v
    BY <1>2, <1>8, <2>2 DEF DisjointInv
  <2> QED
    BY <1>3, <2>1, <2>2 DEF DisjointInv
<1>11. \A d : InUse(d)' <=> InUse(d)
  <2> TAKE d
  <2>1. (\E f \in DOMAIN held : CellOf(f) = d) <=>
           (\E f \in DOMAIN held' : CellOf(f) = d) \/ d = CellOf(x)
    BY <1>3
  <2>2. (\E u \in Threads : Owns(u, d)') <=>
           (\E u \in Threads : Owns(u, d)) \/ d = CellOf(x)
    BY <1>1, <1>2, <1>8 DEF Owns, Owning
  <2> QED
    BY <2>1, <2>2 DEF InUse
<1>12. ChainInv'
  <2>1. \A d : Free(d)' <=> Free(d)
    BY <1>11 DEF Free
  <2>2. \A q : FreePtr(q)' <=> FreePtr(q)
    BY <2>1 DEF FreePtr
  <2> QED
    BY <2>1, <2>2 DEF ChainInv
<1>13. \A f \in DOMAIN held' : Complete(f, held[f])'
  BY <1>3, <1>6, HeldFrame
<1>14. ControlInv' /\ ContentInv'
  <2>1. ControlInv' /\ \A u \in Threads : ContentOf(u)'
    BY <1>6, <1>7, OthersFrame DEF ControlInv
  <2> QED
    BY <1>13, <2>1 DEF ContentInv
<1>15. FreesKeep
  BY <1>11 DEF FreesKeep, Free
<1> QED
  BY <1>4, <1>5, <1>10, <1>12, <1>14, <1>15

(* A new page: its slots were in nobody's hands, the pointers to the       *)
(* others lead where they led, and the chain is the new page's.            *)
PageChained(p, w) ==
  /\ freelist = NULL /\ freelist' = <<w, 1>> /\ freelist' # NULL
  /\ \A c : Free(c)' <=> Free(c) \/ \E i \in Slots : c = <<p, i>>
  /\ \A i \in Slots :
       /\ <<p, i>> \in Cells /\ CellOf(<<w, i>>)' = <<p, i>>
       /\ i < SlotsPerPage => /\ mem'[<<p, i>>].word0 = <<w, i + 1>>
                              /\ mem'[<<p, i>>].word0 # NULL

LEMMA GrowFileKeeps ==
  ASSUME IInv, NEW t \in Threads, GrowFile(t)
  PROVE  IInv' /\ \E w : PageChained(file_length, w)
<1> DEFINE p == file_length
<1> USE DEF IInv
<1>1. ControlOf(t) /\ ContentOf(t) /\ pc \in [Threads -> Labels]
  BY DEF ControlInv, ContentInv, TypeOK
<1>2. /\ pc[t] = "a_grow" /\ pc' = [pc EXCEPT ![t] = "a_pop"]
      /\ p \in Nat /\ p < MaxFilePages /\ p \in FilePages
      /\ file_length' = p + 1 /\ freelist = NULL /\ freelist_lock = t /\ once
      /\ icache' = icache \cup ({p} \X Slots)
      /\ UNCHANGED <<once_vars, lock_vars, args, aborted, held>>
  BY <1>1, SizesAssumption
     DEF GrowFile, At, Goto, TypeOK, FilePages, ControlOf, Critical
<1>3. PICK w \in VPages, x \in VPages :
        /\ maps[w] = Unmapped /\ maps[x] = Unmapped /\ w # x
        /\ maps' = [maps EXCEPT ![w] = [page |-> p, prot |-> "rw"],
                                ![x] = [page |-> p, prot |-> "rx"]]
        /\ link' = [link EXCEPT ![p] = x - w]
        /\ mem' = [c \in Cells |-> IF c[1] = p
                                   THEN Chained(w, c[2]) ELSE mem[c]]
        /\ freelist' = <<w, 1>>
  BY DEF GrowFile
<1>4. /\ w \in Int /\ x \in Int
      /\ maps'[w] = [page |-> p, prot |-> "rw"]
      /\ maps'[x] = [page |-> p, prot |-> "rx"]
      /\ \A v \in VPages \ {w, x} : maps'[v] = maps[v]
      /\ link'[p] = x - w
      /\ \A k \in FilePages \ {p} : link'[k] = link[k]
  BY <1>2, <1>3, SizesAssumption DEF TypeOK, VPages
<1>5. ASSUME NEW q \in WPointers \cup XPointers
      PROVE  /\ q \in Pointers /\ q[1] \in VPages \ {w, x}
             /\ maps'[q[1]] = maps[q[1]] /\ maps[q[1]].page \in FilePages \ {p}
             /\ CellOf(q)' = CellOf(q) /\ CellOf(q) \in Cells
             /\ mem'[CellOf(q)] = mem[CellOf(q)]
             /\ CellOf(q) \in icache' => CellOf(q) \in icache
             /\ ToExecutable(q)' = ToExecutable(q)
             /\ ToWritable(q)' = ToWritable(q)
  <2>1. q \in Pointers /\ q[1] \in VPages \ {w, x} /\ maps[q[1]] # Unmapped
    BY <1>3 DEF WPointers, XPointers, Pointers, Unmapped
  <2>2. /\ maps'[q[1]] = maps[q[1]] /\ maps[q[1]].page \in FilePages
        /\ maps[q[1]].page < p
    BY <1>4, <2>1 DEF TypeOK, MapInv, Mapping
  <2>3. maps[q[1]].page # p
    BY <1>2, <2>2
  <2>4. CellOf(q) \in Cells
    BY PointerCells
  <2> QED
    BY ZenonT(60), <1>2, <1>3, <1>4, <2>1, <2>2, <2>3, <2>4
       DEF CellOf, ToExecutable, ToWritable
<1>6. MapInv'
  <2>1. ASSUME NEW v \in VPages \ {w, x}, maps[v] # Unmapped
        PROVE  /\ maps[v].page \in FilePages \ {p} /\ maps[v].page < p
               /\ link'[maps[v].page] = link[maps[v].page]
    <3>1. maps[v].page \in FilePages /\ maps[v].page < p
      BY <2>1 DEF TypeOK, MapInv, Mapping
    <3> QED
      BY <1>2, <1>4, <3>1
  <2>2. ASSUME NEW v \in VPages \ {w, x}, maps[v] # Unmapped, maps[v].prot = "rw"
        PROVE  /\ v + link[maps[v].page] \in VPages \ {w, x}
               /\ maps'[v + link[maps[v].page]] =
                    [page |-> maps[v].page, prot |-> "rx"]
    <3>1. /\ v + link[maps[v].page] \in VPages
          /\ maps[v + link[maps[v].page]] = [page |-> maps[v].page, prot |-> "rx"]
      BY <2>2 DEF MapInv
    <3>2. maps[v + link[maps[v].page]].prot = "rx" /\ Unmapped.prot = "none"
      BY <3>1 DEF Unmapped
    <3> QED
      BY <1>3, <1>4, <3>1, <3>2
  <2>3. ASSUME NEW v \in VPages \ {w, x}, maps[v] # Unmapped, maps[v].prot = "rx"
        PROVE  /\ v - link[maps[v].page] \in VPages \ {w, x}
               /\ maps'[v - link[maps[v].page]] =
                    [page |-> maps[v].page, prot |-> "rw"]
    <3>1. /\ v - link[maps[v].page] \in VPages
          /\ maps[v - link[maps[v].page]] = [page |-> maps[v].page, prot |-> "rw"]
      BY <2>3 DEF MapInv
    <3>2. maps[v - link[maps[v].page]].prot = "rw" /\ Unmapped.prot = "none"
      BY <3>1 DEF Unmapped
    <3> QED
      BY <1>3, <1>4, <3>1, <3>2
  <2>4. ASSUME NEW v \in VPages, maps'[v] # Unmapped
        PROVE  /\ maps'[v].page < file_length'
               /\ maps'[v].prot = "rw" =>
                    /\ v + link'[maps'[v].page] \in VPages
                    /\ maps'[v + link'[maps'[v].page]] =
                         [page |-> maps'[v].page, prot |-> "rx"]
               /\ maps'[v].prot = "rx" =>
                    /\ v - link'[maps'[v].page] \in VPages
                    /\ maps'[v - link'[maps'[v].page]] =
                         [page |-> maps'[v].page, prot |-> "rw"]
    <3>1. CASE v = w
      BY <1>2, <1>4, <3>1
    <3>2. CASE v = x
      BY <1>2, <1>4, <3>2
    <3>3. CASE v \in VPages \ {w, x}
      <4>1. maps'[v] = maps[v]
        BY <1>4, <3>3
      <4>2. maps[v].page < p + 1
        BY <1>2, <2>1, <2>4, <3>3, <4>1 DEF FilePages
      <4> QED
        BY <1>2, <2>1, <2>2, <2>3, <2>4, <3>3, <4>1, <4>2
    <3> QED
      BY <3>1, <3>2, <3>3
  <2>5. ASSUME NEW u \in VPages, NEW v \in VPages, maps'[u] # Unmapped,
               maps'[u] = maps'[v]
        PROVE  u = v
    BY <1>4, <2>1, <2>5 DEF MapInv
  <2> QED
    BY <2>4, <2>5 DEF MapInv
<1>7. /\ \A q \in Pointers : q \in WPointers' <=> q \in WPointers \/ q[1] = w
      /\ \A q \in Pointers : q \in XPointers' <=> q \in XPointers \/ q[1] = x
  <2>1. Unmapped.prot = "none" /\ maps'[w].prot = "rw" /\ maps'[x].prot = "rx"
    BY <1>4 DEF Unmapped
  <2>2. \A q \in Pointers : q[1] \in VPages
    BY DEF Pointers
  <2> QED
    BY ZenonT(60), <1>3, <1>4, <2>1, <2>2 DEF WPointers, XPointers
<1>8. \A i \in Slots : /\ <<w, i>> \in Pointers /\ <<w, i>> \in WPointers'
                       /\ CellOf(<<w, i>>)' = <<p, i>> /\ <<p, i>> \in Cells
                       /\ mem'[<<p, i>>] = Chained(w, i)
  <2> TAKE i \in Slots
  <2>1. <<w, i>> \in Pointers /\ <<p, i>> \in Cells
    BY <1>2 DEF Pointers, Cells
  <2>2. <<w, i>> \in WPointers'
    BY <1>7, <2>1
  <2>3. CellOf(<<w, i>>)' = <<p, i>>
    BY <1>4 DEF CellOf
  <2>4. mem'[<<p, i>>] = Chained(w, i)
    BY <1>3, <2>1
  <2> QED
    BY <2>1, <2>2, <2>3, <2>4
<1>9. TypeOK'
  <2>1. maps' \in [VPages -> Mapping]
    BY <1>2, <1>3 DEF TypeOK, Mapping
  <2>2. link' \in [FilePages -> Int]
    BY <1>2, <1>3, <1>4 DEF TypeOK
  <2>3. 1 \in Slots /\ freelist' \in Pointers
    BY <1>3, SizesAssumption DEF Slots, Pointers
  <2>4. \A i \in Slots : i < SlotsPerPage => i + 1 \in Slots
    BY SizesAssumption DEF Slots
  <2>5. \A i \in Slots : Chained(w, i) \in Cell
    BY <2>4 DEF Chained, BlankCell, Cell, Pointers
  <2>6. mem' \in [Cells -> Cell]
    BY <1>3, <2>5 DEF TypeOK, Cells
  <2>7. icache' \subseteq Cells /\ file_length' \in 0..MaxFilePages
    BY <1>2, SizesAssumption DEF TypeOK, Cells
  <2>8. pc' \in [Threads -> Labels]
    BY <1>1, <1>2 DEF Labels
  <2> QED
    BY <1>2, <2>1, <2>2, <2>3, <2>6, <2>7, <2>8
       DEF TypeOK, once_vars, lock_vars, args
<1>10. OnceInv'
  BY <1>2 DEF OnceInv, once_vars
<1>11. \A u \in Threads : /\ u # t => pc'[u] = pc[u]
                          /\ pc'[u] \in Owning <=> pc[u] \in Owning
                          /\ pc[u] \in OnWritable \cup Owning =>
                               u # t /\ function[u] \in WPointers \cup XPointers
  BY <1>1, <1>2 DEF Owning, OnWritable, ControlInv, ControlOf
<1>12. ControlInv'
  <2>1. ControlOf(t)'
    <3>1. pc'[t] = "a_pop" /\ freelist' # NULL
      BY <1>1, <1>2, <1>9, <1>3, DistinctAssumption, SizesAssumption
         DEF Pointers, Slots
    <3> QED
      BY <1>1, <1>2, <3>1 DEF ControlOf, Critical, Allocating, OnWritable,
         once_vars, lock_vars, args
  <2>2. ASSUME NEW u \in Threads, u # t
        PROVE  ControlOf(u)'
    <3>1. ControlOf(u) /\ pc'[u] = pc[u] /\ pc[u] \notin Critical
      BY <1>2, <1>11, <2>2 DEF ControlInv, ControlOf
    <3> QED
      BY <1>2, <1>5, <1>7, <1>11, <2>2, <3>1
         DEF ControlOf, Critical, OnWritable, once_vars, lock_vars, args
  <2> QED
    BY <2>1, <2>2 DEF ControlInv
<1>13. DOMAIN held \subseteq XPointers
  BY DEF DisjointInv
<1>14. DisjointInv'
  <2>1. DOMAIN held' \subseteq XPointers'
    BY <1>2, <1>5, <1>7, <1>13
  <2> QED
    BY <1>2, <1>5, <1>11, <1>13, <2>1 DEF DisjointInv, args
<1>15. \A c : InUse(c)' <=> InUse(c)
  BY <1>2, <1>5, <1>11, <1>13 DEF InUse, Owns, args
<1>16. \A i \in Slots : ~InUse(<<p, i>>)
  <2>1. \A q \in WPointers \cup XPointers : CellOf(q)[1] # p
    BY <1>5 DEF CellOf
  <2> QED
    BY <1>11, <1>13, <2>1 DEF InUse, Owns
<1>17. \A c : Free(c)' <=> Free(c) \/ \E i \in Slots : c = <<p, i>>
  <2>1. \A c : c \in FileCells' <=> c \in FileCells \/ \E i \in Slots : c = <<p, i>>
    <3>1. 0..((p + 1) - 1) = 0..(p - 1) \cup {p}
      BY <1>2
    <3> QED
      BY <1>2, <3>1 DEF FileCells
  <2> QED
    BY <1>15, <1>16, <2>1 DEF Free
<1>18. \A q : FreePtr(q) => FreePtr(q)' /\ q[1] # w
  BY <1>5, <1>7, <1>17 DEF FreePtr
<1>19. \A i \in Slots : FreePtr(<<w, i>>)'
  BY <1>8, <1>17 DEF FreePtr
<1>20. \A c \in Cells : Free(c) => mem'[c] = mem[c]
  BY <1>2, <1>3 DEF Free, FileCells
<1>21. \A i \in Slots :
         mem'[<<p, i>>].word0 = IF i < SlotsPerPage THEN <<w, i + 1>> ELSE NULL
  BY <1>8 DEF Chained, BlankCell
<1>22. ChainInv'
  <2>1. FreePtr(freelist)'
    BY <1>3, <1>19, SizesAssumption DEF Slots
  <2>2. ASSUME NEW c \in Cells, Free(c)', mem'[c].word0 # NULL
        PROVE  /\ FreePtr(mem[c].word0)' /\ mem'[c].word0 # freelist'
    <3>1. CASE Free(c)
      BY <1>3, <1>18, <1>20, <2>2, <3>1 DEF ChainInv
    <3>2. CASE \E i \in Slots : c = <<p, i>>
      <4>1. PICK i \in Slots : c = <<p, i>>
        BY <3>2
      <4>2. i + 1 \in Slots /\ mem'[c].word0 = <<w, i + 1>> /\ i + 1 # 1
        <5>1. mem'[<<p, i>>].word0 # NULL
          BY <2>2, <4>1
        <5>2. i < SlotsPerPage
          BY <1>21, <5>1
        <5>3. i + 1 \in Slots /\ i + 1 # 1
          BY <5>2, SizesAssumption DEF Slots
        <5> QED
          BY <1>21, <4>1, <5>2, <5>3
      <4> QED
        BY <1>3, <1>19, <4>2
    <3> QED
      BY <1>17, <2>2, <3>1, <3>2
  <2>3. ASSUME NEW c \in Cells, NEW d \in Cells, Free(c)', Free(d)',
               mem'[c].word0 # NULL, mem'[c].word0 = mem'[d].word0
        PROVE  c = d
    <3>1. \A e \in Cells : Free(e) /\ mem'[e].word0 # NULL => mem'[e].word0[1] # w
      BY <1>18, <1>20 DEF ChainInv
    <3>2. ASSUME NEW i \in Slots, mem'[<<p, i>>].word0 # NULL
          PROVE  mem'[<<p, i>>].word0 = <<w, i + 1>>
      BY <1>21, <3>2
    <3>3. CASE Free(c) /\ Free(d)
      BY <1>20, <2>3, <3>3 DEF ChainInv
    <3>4. CASE \E i, j \in Slots : c = <<p, i>> /\ d = <<p, j>>
      BY <2>3, <3>2, <3>4, SizesAssumption DEF Slots
    <3> QED
      BY <1>17, <2>3, <3>1, <3>2, <3>3, <3>4
  <2> QED
    BY <2>1, <2>2, <2>3 DEF ChainInv
<1>23. ContentInv'
  <2>1. ASSUME NEW u \in Threads
        PROVE  ContentOf(u)'
    <3>1. ContentOf(u)
      BY DEF ContentInv
    <3> QED
      BY <1>1, <1>2, <1>5, <1>11, <3>1
         DEF ContentOf, Filled, Owning, args
  <2>2. ASSUME NEW f \in DOMAIN held
        PROVE  Complete(f, held[f])'
    <3>1. Complete(f, held[f])
      BY DEF ContentInv
    <3> QED
      BY <1>2, <1>5, <1>13, <3>1 DEF Complete, Filled
  <2> QED
    BY <1>2, <2>1, <2>2 DEF ContentInv
<1>24. PageChained(p, w)
  <2>1. \A i \in Slots : i < SlotsPerPage =>
          /\ mem'[<<p, i>>].word0 = <<w, i + 1>>
          /\ mem'[<<p, i>>].word0 # NULL
    <3> TAKE i \in Slots
    <3> HAVE i < SlotsPerPage
    <3>1. i + 1 \in Slots
      BY SizesAssumption DEF Slots
    <3>2. mem'[<<p, i>>].word0 = <<w, i + 1>> /\ <<w, i + 1>> \in Pointers
      BY <1>8, <1>21, <3>1
    <3> QED
      BY <3>2, DistinctAssumption
  <2>2. 1 \in Slots
    BY SizesAssumption DEF Slots
  <2>3. freelist' # NULL
    BY <1>3, <1>8, <2>2, DistinctAssumption
  <2> QED
    BY <1>2, <1>3, <1>8, <1>17, <2>1, <2>3 DEF PageChained
<1> QED
  BY <1>6, <1>9, <1>10, <1>12, <1>14, <1>22, <1>23, <1>24

-----------------------------------------------------------------------------
LEMMA InitIInv == Init => IInv
<1> SUFFICES ASSUME Init PROVE IInv
  OBVIOUS
<1>1. TypeOK
  <2>1. DOMAIN held \subseteq Pointers /\ held \in [DOMAIN held -> Requests]
    BY DEF Init
  <2>2. mem \in [Cells -> Cell] /\ maps \in [VPages -> Mapping]
    BY DEF Init, BlankCell, Cell, Mapping
  <2>3. pc \in [Threads -> Labels]
    BY DEF Init, Labels
  <2>4. file_length \in 0..MaxFilePages
    BY SizesAssumption DEF Init
  <2>5. /\ link \in [FilePages -> Int] /\ icache \subseteq Cells
        /\ freelist \in Pointers \cup {NULL} /\ synced \subseteq Threads
        /\ freelist_lock \in Threads \cup {NoThread}
    BY DEF Init
  <2>6. /\ request \in [Threads -> Requests \cup {NULL}]
        /\ fd \in [Threads -> {0, FD}]
        /\ function \in [Threads -> Pointers \cup {NULL}]
        /\ function_x \in [Threads -> Pointers \cup {NULL}]
    BY DEF Init
  <2>7. /\ pagesize \in {0, 1} /\ once \in BOOLEAN /\ file_fd \in {0, FD}
        /\ unlock_synced \in BOOLEAN /\ aborted \in BOOLEAN
    BY DEF Init
  <2> QED
    BY <2>1, <2>2, <2>3, <2>4, <2>5, <2>6, <2>7 DEF TypeOK
<1>2. OnceInv /\ MapInv
  BY DEF Init, OnceInv, MapInv
<1>3. ControlInv
  BY DistinctAssumption
     DEF Init, ControlInv, ControlOf, Critical, Allocating, OnWritable
<1>4. DisjointInv /\ ContentInv
  BY DEF Init, DisjointInv, ContentInv, ContentOf, Owning
<1>5. ChainInv
  BY SizesAssumption DEF Init, ChainInv, Free, FileCells
<1> QED
  BY <1>1, <1>2, <1>3, <1>4, <1>5 DEF IInv

LEMMA NextIInv == IInv /\ [Next]_vars => IInv'
<1> SUFFICES ASSUME IInv, [Next]_vars PROVE IInv'
  OBVIOUS
<1>1. ASSUME NEW t \in Threads, NEW r \in Requests, CallAlloc(t, r)
      PROVE  IInv'
  BY <1>1, CallAllocKeeps
<1>2. ASSUME NEW t \in Threads, NEW f \in DOMAIN held, CallFree(t, f)
      PROVE  IInv'
  BY <1>2, CallFreeKeeps
<1>3. ASSUME NEW t \in Threads, AllocStep(t)
      PROVE  IInv'
  BY <1>3, CheckPagesizeKeeps, MmapInitKeeps, MmapInitFailsKeeps,
     SetPagesizeKeeps, LockAllocKeeps, TestFreelistKeeps, GrowFileKeeps,
     GrowFailsKeeps, PopHeadKeeps, PopNextKeeps, UnlockAllocKeeps,
     FindExecutableKeeps, FillCodeKeeps, FillDataKeeps, FlushIcacheKeeps,
     ReturnAllocKeeps
     DEF AllocStep
<1>4. ASSUME NEW t \in Threads, FreeStep(t)
      PROVE  IInv'
  BY <1>4, FindWritableKeeps, LockFreeKeeps, PushLinkKeeps, PushHeadKeeps,
     UnlockFreeKeeps, ReturnFreeKeeps
     DEF FreeStep
<1>5. CASE UNCHANGED vars
  <2> USE <1>5, SamePages
      DEF vars, shared, args, once_vars, page_vars, lock_vars
  <2>1. TypeOK' /\ OnceInv' /\ MapInv'
    BY DEF IInv, TypeOK, OnceInv
  <2>2. ControlInv'
    BY DEF IInv, ControlInv, ControlOf
  <2>3. DisjointInv' /\ ChainInv'
    BY DEF IInv, DisjointInv, ChainInv, FreePtr, Free, InUse, Owns
  <2>4. ContentInv'
    BY DEF IInv, ContentInv, ContentOf, Complete, Filled
  <2> QED
    BY <2>1, <2>2, <2>3, <2>4 DEF IInv
<1> QED
  BY <1>1, <1>2, <1>3, <1>4, <1>5 DEF Next, Step, Aborted

(* The inductive invariant holds, for any number of threads and pages.     *)
THEOREM Invariance == Spec => []IInv
BY InitIInv, NextIInv, PTL DEF Spec

(* Every variable has its type.                                            *)
THEOREM TypeCorrectness == Spec => []TypeOK
<1>1. IInv => TypeOK
  BY DEF IInv
<1> QED
  BY <1>1, Invariance, PTL

LEMMA IInvClosureIntact == IInv => ClosureIntact
<1> SUFFICES ASSUME IInv, NEW f \in DOMAIN held
             PROVE  Invoke(f) = held[f]
  BY DEF ClosureIntact
<1>1. /\ f \in XPointers /\ held[f] \in Requests /\ Complete(f, held[f])
  BY DEF IInv, DisjointInv, ContentInv, TypeOK
<1>2. CellOf(ToWritable(f)) = CellOf(f)
  BY <1>1, Writable DEF IInv
<1>3. Invoke(f) = [address |-> held[f].address, data |-> held[f].data]
  BY <1>1, <1>2 DEF Invoke, Complete, Filled
<1> QED
  BY <1>1, <1>3 DEF Requests

(* A trampoline the client holds calls its address with its data, whatever *)
(* the threads of the program are doing in the allocator.                  *)
THEOREM IndefiniteExtent == Spec => []ClosureIntact
BY IInvClosureIntact, Invariance, PTL

(* On a processor that shows stores in order, only the temporary file is   *)
(* extended and mapped.                                                    *)
THEOREM OnlyTheFile ==
  ASSUME StoresOrdered
  PROVE  Spec => []RightFile
<1>1. IInv => RightFile
  BY DEF IInv, ControlInv, ControlOf, RightFile
<1> QED
  BY <1>1, Invariance, PTL

LEMMA IInvQueriesAgree == IInv => QueriesAgree
<1> SUFFICES ASSUME IInv, NEW f \in Pointers, maps[f[1]].prot = "rx",
                    \A t \in Threads : ~Owns(t, CellOf(f))
             PROVE  /\ is_trampoline_r(f) <=> f \in DOMAIN held
                    /\ f \in DOMAIN held =>
                         held[f] = [address |-> trampoline_r_address(f),
                                    data    |-> trampoline_r_data(f)]
  BY DEF QueriesAgree
<1>1. f \in XPointers /\ CellOf(f) \in FileCells /\ CellOf(f) \in Cells
  BY PointerCells DEF IInv, XPointers
<1>2. CASE f \in DOMAIN held
  <2>1. Complete(f, held[f]) /\ held[f] \in Requests
    BY <1>2 DEF IInv, ContentInv, TypeOK
  <2> QED
    BY <1>2, <2>1 DEF Complete, Filled, is_trampoline_r,
       trampoline_r_address, trampoline_r_data, Requests
<1>3. CASE f \notin DOMAIN held
  <2>1. \A g \in DOMAIN held : CellOf(g) # CellOf(f)
    BY <1>1, <1>3, OneExecutablePointer DEF IInv, DisjointInv
  <2>2. Free(CellOf(f))
    BY <1>1, <2>1 DEF Free, InUse
  <2>3. mem[CellOf(f)].word0 # CODE
    BY <1>1, <2>2, DistinctAssumption
       DEF IInv, ChainInv, FreePtr, WPointers
  <2> QED
    BY <1>3, <2>3 DEF is_trampoline_r
<1> QED
  BY <1>2, <1>3

(* is_trampoline_r and the accessors tell the truth about every trampoline *)
(* that no thread is building or freeing.                                  *)
THEOREM TruthfulQueries == Spec => []QueriesAgree
BY IInvQueriesAgree, Invariance, PTL

-----------------------------------------------------------------------------
(* trampoline_r.c loses no slot.  IInv says that no slot is in two hands   *)
(* and that the free ones link only to free ones; what is missing is that  *)
(* following the links from `freelist' reaches every free slot.  Reachable *)
(* says so without following them: a set that has the head, and with each  *)
(* free slot the one it links to, has all free slots.                      *)

FreeClosed(S) ==
  /\ freelist # NULL => CellOf(freelist) \in S
  /\ \A c \in S : Free(c) /\ mem[c].word0 # NULL => CellOf(mem[c].word0) \in S

Reachable == \A S \in SUBSET Cells : FreeClosed(S) => \A c : Free(c) => c \in S

-----------------------------------------------------------------------------
(* A set with the first slot of a page, and with each slot the next one,   *)
(* has all slots: the least one it lacks would follow one that it has.     *)
LEMMA EverySlot ==
  ASSUME NEW T, 1 \in T,
         \A i \in Slots : i \in T /\ i < SlotsPerPage => i + 1 \in T
  PROVE  Slots \subseteq T
<1> DEFINE Lacks == Slots \ T
<1>1. SUFFICES ASSUME Lacks # {}
               PROVE  FALSE
  OBVIOUS
<1>2. Lacks \subseteq Nat
  BY DEF Slots
<1>3. PICK k \in Lacks : \A j \in Lacks : ~(<<j, k>> \in OpToRel(<, Nat))
  <2> HIDE DEF Lacks
  <2> QED
    BY <1>1, <1>2, WFMin, NatLessThanWellFounded
<1>4. k \in Nat /\ k # 1 /\ k \in 1..SlotsPerPage /\ k \notin T
  BY <1>2 DEF Slots
<1>5. k - 1 \in Slots /\ k - 1 \in Nat /\ k - 1 < SlotsPerPage /\ (k - 1) + 1 = k
  BY <1>4, SizesAssumption DEF Slots
<1>6. k - 1 \in Lacks
  BY <1>4, <1>5
<1>7. <<k - 1, k>> \in OpToRel(<, Nat)
  BY <1>4, <1>5 DEF OpToRel
<1> QED
  BY <1>3, <1>6, <1>7

LEMMA InitReachable == Init => Reachable
BY SizesAssumption DEF Init, Reachable, Free, FileCells

(* A step that does not change the chain.                                  *)
LEMMA FreesKeepReachable ==
  ASSUME IInv, Reachable, FreesKeep
  PROVE  Reachable'
<1> SUFFICES ASSUME NEW S \in SUBSET Cells, FreeClosed(S)',
                    NEW c, Free(c)'
             PROVE  c \in S
  BY DEF Reachable
<1>1. FreeClosed(S)
  BY DEF FreesKeep, FreeClosed
<1> QED
  BY <1>1 DEF FreesKeep, Reachable

(* `freelist = *(char** )freelist;': what reaches the others from the next *)
(* slot reaches them from the head once the head is added.                 *)
LEMMA PopReachable ==
  ASSUME IInv, Reachable, HeadPopped
  PROVE  Reachable'
<1> DEFINE h == CellOf(freelist)
<1>1. SUFFICES ASSUME NEW S \in SUBSET Cells, FreeClosed(S)',
                      NEW c, Free(c)'
               PROVE  c \in S
  BY DEF Reachable
<1>2. FreeClosed(S \cup {h})
  BY <1>1 DEF HeadPopped, FreeClosed
<1>3. S \cup {h} \in SUBSET Cells
  BY DEF HeadPopped
<1> QED
  BY <1>1, <1>2, <1>3 DEF HeadPopped, Reachable

(* `freelist = (char* )function;': the new head links to the old one.      *)
LEMMA PushReachable ==
  ASSUME IInv, Reachable, HeadPushed
  PROVE  Reachable'
<1> DEFINE h == CellOf(freelist')
<1>1. SUFFICES ASSUME NEW S \in SUBSET Cells, FreeClosed(S)',
                      NEW c, Free(c)'
               PROVE  c \in S
  BY DEF Reachable
<1>2. /\ CellOf(freelist)' \in S
      /\ \A d \in S : Free(d)' /\ mem[d].word0 # NULL => CellOf(mem[d].word0) \in S
  BY <1>1 DEF HeadPushed, FreeClosed
<1>3. FreeClosed(S)
  BY <1>2 DEF HeadPushed, FreeClosed
<1> QED
  BY <1>1, <1>2, <1>3 DEF HeadPushed, Reachable

(* A new page: nothing was free, and the chain runs through all its slots. *)
LEMMA GrowReachable ==
  ASSUME IInv, Reachable, NEW p, NEW w, PageChained(p, w)
  PROVE  Reachable'
<1>1. SUFFICES ASSUME NEW S \in SUBSET Cells, FreeClosed(S)',
                      NEW c, Free(c)'
               PROVE  c \in S
  BY DEF Reachable
<1>2. FreeClosed({})
  BY DEF PageChained, FreeClosed
<1>3. PICK k \in Slots : c = <<p, k>>
  BY <1>1, <1>2 DEF PageChained, Reachable
<1> DEFINE T == {i \in Slots : <<p, i>> \in S}
<1>4. 1 \in T
  <2>1. 1 \in Slots
    BY SizesAssumption DEF Slots
  <2>2. CellOf(freelist)' = <<p, 1>> /\ CellOf(freelist)' \in S
    BY <1>1, <2>1 DEF PageChained, FreeClosed
  <2> QED
    BY <2>1, <2>2
<1>5. ASSUME NEW i \in Slots, i \in T, i < SlotsPerPage
      PROVE  i + 1 \in T
  <2>1. i + 1 \in Slots
    BY <1>5, SizesAssumption DEF Slots
  <2>2. /\ Free(<<p, i>>)' /\ mem'[<<p, i>>].word0 = <<w, i + 1>>
        /\ mem'[<<p, i>>].word0 # NULL
    BY <1>5 DEF PageChained
  <2>3. CellOf(<<w, i + 1>>)' \in S
    BY <1>1, <1>5, <2>2 DEF FreeClosed
  <2>4. CellOf(<<w, i + 1>>)' = <<p, i + 1>>
    BY <2>1 DEF PageChained
  <2> QED
    BY <2>1, <2>3, <2>4
<1>6. k \in T
  <2> HIDE DEF T
  <2> QED
    BY <1>4, <1>5, EverySlot
<1> QED
  BY <1>3, <1>6

LEMMA NextReachable == IInv /\ Reachable /\ [Next]_vars => Reachable'
<1> SUFFICES ASSUME IInv, Reachable, [Next]_vars
             PROVE  Reachable'
  OBVIOUS
<1>1. ASSUME NEW t \in Threads, NEW r \in Requests, CallAlloc(t, r)
      PROVE  Reachable'
  BY <1>1, CallAllocKeeps, FreesKeepReachable
<1>2. ASSUME NEW t \in Threads, NEW f \in DOMAIN held, CallFree(t, f)
      PROVE  Reachable'
  BY <1>2, CallFreeKeeps, FreesKeepReachable
<1>3. ASSUME NEW t \in Threads, AllocStep(t)
      PROVE  Reachable'
  <2>1. CASE GrowFile(t)
    <3>1. PICK w : PageChained(file_length, w)
      BY <2>1, GrowFileKeeps
    <3> QED
      BY <3>1, GrowReachable
  <2>2. CASE PopNext(t)
    BY <2>2, PopNextKeeps, PopReachable
  <2>3. CASE ~GrowFile(t) /\ ~PopNext(t)
    BY <1>3, <2>3, FreesKeepReachable, CheckPagesizeKeeps, MmapInitKeeps,
       MmapInitFailsKeeps, SetPagesizeKeeps, LockAllocKeeps,
       TestFreelistKeeps, GrowFailsKeeps, PopHeadKeeps, UnlockAllocKeeps,
       FindExecutableKeeps, FillCodeKeeps, FillDataKeeps, FlushIcacheKeeps,
       ReturnAllocKeeps
       DEF AllocStep
  <2> QED
    BY <2>1, <2>2, <2>3
<1>4. ASSUME NEW t \in Threads, FreeStep(t)
      PROVE  Reachable'
  <2>1. CASE PushHead(t)
    BY <2>1, PushHeadKeeps, PushReachable
  <2>2. CASE ~PushHead(t)
    BY <1>4, <2>2, FreesKeepReachable, FindWritableKeeps, LockFreeKeeps,
       PushLinkKeeps, UnlockFreeKeeps, ReturnFreeKeeps
       DEF FreeStep
  <2> QED
    BY <2>1, <2>2
<1>5. CASE UNCHANGED vars
  <2>1. FreesKeep
    BY <1>5 DEF vars, shared, args, once_vars, page_vars, lock_vars,
       FreesKeep, Free, FileCells, InUse, Owns, CellOf
  <2> QED
    BY <2>1, FreesKeepReachable
<1> QED
  BY <1>1, <1>2, <1>3, <1>4, <1>5 DEF Next, Step, Aborted

LEMMA Reachability == Spec => []Reachable
BY InitIInv, NextIInv, InitReachable, NextReachable, PTL DEF Spec

-----------------------------------------------------------------------------
(* The free chain is the slots that nobody uses.                           *)
LEMMA ChainIsFree ==
  ASSUME IInv, Reachable, NEW c \in FileCells
  PROVE  c \in ChainCells <=> ~InUse(c)
<1>1. FileCells \subseteq Cells
  <2>1. 0..(file_length - 1) \subseteq FilePages
    BY SizesAssumption DEF IInv, TypeOK, FilePages
  <2> QED
    BY <2>1 DEF FileCells, Cells
<1>2. \A d \in Cells : Free(d) /\ mem[d].word0 # NULL =>
        mem[d].word0 \in Pointers /\ Free(CellOf(mem[d].word0))
  BY DEF IInv, ChainInv, FreePtr, WPointers
<1>3. freelist # NULL => freelist \in Pointers /\ Free(CellOf(freelist))
  BY DEF IInv, ChainInv, FreePtr, WPointers
<1>4. NULL \notin Pointers
  BY DistinctAssumption
<1>5. ASSUME c \in ChainCells
      PROVE  Free(c)
  <2> DEFINE F == {d \in Cells : Free(d)}
  <2>1. \A d : Free(d) => d \in Cells
    BY <1>1 DEF Free
  <2>2. ChainClosed(F)
    BY <1>2, <1>3, <1>4, <2>1 DEF ChainClosed
  <2>3. F \in SUBSET Cells
    OBVIOUS
  <2> QED
    BY <1>5, <2>2, <2>3 DEF ChainCells
<1>6. ASSUME Free(c), NEW S \in SUBSET Cells, ChainClosed(S)
      PROVE  c \in S
  <2>1. FreeClosed(S)
    BY <1>2, <1>3, <1>6 DEF ChainClosed, FreeClosed
  <2> QED
    BY <1>6, <2>1 DEF Reachable
<1> QED
  BY <1>1, <1>5, <1>6 DEF ChainCells, Free

LEMMA ReachableConserves == IInv /\ Reachable => SlotConservation
<1> SUFFICES ASSUME IInv, Reachable, NEW c \in FileCells
             PROVE  LET holders == {f \in DOMAIN held : CellOf(f) = c}
                        owners  == {t \in Threads : Owns(t, c)}
                        chain   == IF c \in ChainCells THEN 1 ELSE 0
                    IN  Cardinality(holders) + Cardinality(owners) + chain = 1
  BY DEF SlotConservation
<1> DEFINE holders == {f \in DOMAIN held : CellOf(f) = c}
           owners  == {t \in Threads : Owns(t, c)}
           chain   == IF c \in ChainCells THEN 1 ELSE 0
<1>1. chain = IF holders = {} /\ owners = {} THEN 1 ELSE 0
  BY ChainIsFree DEF InUse
<1>2. holders # {} => \E f : holders = {f}
  <2>1. \A f, g \in holders : f = g
    BY OneExecutablePointer DEF IInv, DisjointInv
  <2> QED
    BY <2>1
<1>3. owners # {} => \E t : owners = {t}
  BY DEF IInv, DisjointInv, Owns
<1>4. holders = {} \/ owners = {}
  BY DEF IInv, DisjointInv, Owns
<1>5. Cardinality(holders) = IF holders = {} THEN 0 ELSE 1
  <2> HIDE DEF holders
  <2> QED
    BY <1>2, FS_EmptySet, FS_Singleton
<1>6. Cardinality(owners) = IF owners = {} THEN 0 ELSE 1
  <2> HIDE DEF owners
  <2> QED
    BY <1>3, FS_EmptySet, FS_Singleton
<1> HIDE DEF holders, owners, chain
<1>7. Cardinality(holders) + Cardinality(owners) + chain = 1
  BY <1>1, <1>4, <1>5, <1>6
<1> QED
  BY <1>7 DEF holders, owners, chain

(* Every slot of the file is on the free chain, or with the client, or     *)
(* with one thread: alloc_trampoline_r and free_trampoline_r, run by any   *)
(* number of threads, neither leak a slot nor hand it out twice.           *)
THEOREM Conservation == Spec => []SlotConservation
BY ReachableConserves, Invariance, Reachability, PTL

LEMMA GrowsFull ==
  IInv /\ Reachable /\ [Next]_vars =>
    (file_length' > file_length => \A c \in FileCells : InUse(c))
<1> SUFFICES ASSUME IInv, Reachable, [Next]_vars, file_length' > file_length,
                    NEW c \in FileCells
             PROVE  InUse(c)
  OBVIOUS
<1>1. file_length \in Nat /\ (~once => file_length = 0)
  BY SizesAssumption DEF IInv, TypeOK, OnceInv
<1>2. PICK t \in Threads : GrowFile(t)
  <2>1. ASSUME file_length' = file_length \/ file_length' = 0
        PROVE  FALSE
    BY <1>1, <2>1
  <2> QED
    BY ZenonT(60), <2>1 DEF Next, Step, AllocStep, FreeStep, Aborted, vars, shared, args,
       once_vars, page_vars, lock_vars, CallAlloc, CallFree, CheckPagesize,
       MmapInit, MmapInitFails, SetPagesize, LockAlloc, TestFreelist,
       GrowFails, PopHead, PopNext, UnlockAlloc, FindExecutable, FillCode,
       FillData, FlushIcache, ReturnAlloc, FindWritable, LockFree, PushLink,
       PushHead, UnlockFree, ReturnFree, Leave
<1>3. freelist = NULL
  BY <1>2, GrowFileKeeps DEF PageChained
<1>4. FreeClosed({})
  BY <1>3 DEF FreeClosed
<1> QED
  BY <1>4 DEF Reachable, Free

(* Memory is reused: the file is extended only when every slot in it is in *)
(* use or still being given back.                                          *)
THEOREM Reuse == Spec => GrowOnlyWhenFull
<1>1. IInv /\ Reachable /\ [Next]_vars =>
        [file_length' > file_length => \A c \in FileCells : InUse(c)]_vars
  BY GrowsFull
<1> QED
  BY <1>1, Invariance, Reachability, PTL DEF Spec, GrowOnlyWhenFull

-----------------------------------------------------------------------------
(***************************************************************************)
(* TrampolineR implements ClosureAPI.  ClosureIntact, an invariant, makes  *)
(* the abstract closures equal to `held', so that only the six steps at    *)
(* the edge of a call are not stutters.                                    *)
(***************************************************************************)
absClosures == [f \in DOMAIN held |-> Invoke(f)]
absPending  == [t \in Threads |-> CallOf(t)]

Faithful == absClosures = held

LEMMA FaithfulNow == IInv => Faithful
<1>1. IInv => ClosureIntact /\ held \in [DOMAIN held -> Requests]
  BY IInvClosureIntact DEF IInv, TypeOK
<1> QED
  BY <1>1 DEF ClosureIntact, Faithful, absClosures

LEMMA FaithfulNext == IInv' => Faithful'
BY FaithfulNow, PTL

LEMMA InitRefines == Init => API!Init
BY DEF Init, API!Init, CallOf, API!NoCall

(* The threads other than t stay in the call they are in.                  *)
LEMMA PendingFrame ==
  ASSUME TypeOK, NEW t \in Threads, NEW l \in Labels, Goto(t, l),
         \A u \in Threads \ {t} : request'[u] = request[u]
  PROVE  absPending' = [absPending EXCEPT ![t] = CallOf(t)']
BY DEF absPending, CallOf, TypeOK, Goto

(* A step inside a call is a stutter.                                      *)
LEMMA InnerStep ==
  ASSUME IInv, IInv', NEW t \in Threads, NEW l \in Labels, Goto(t, l),
         pc[t] \in Labels \ {"idle"}, l # "idle",
         l \in Allocating <=> pc[t] \in Allocating,
         UNCHANGED <<request, held, aborted>>
  PROVE  UNCHANGED API!vars
<1>1. absClosures' = absClosures
  BY FaithfulNow, FaithfulNext DEF Faithful
<1>2. absPending' = absPending
  BY PendingFrame DEF IInv, TypeOK, CallOf, absPending, Goto
<1> QED
  BY <1>1, <1>2 DEF API!vars, absClosures, absPending

LEMMA InnerSteps ==
  ASSUME IInv, IInv', NEW t \in Threads,
         \/ CheckPagesize(t) \/ MmapInit(t) \/ SetPagesize(t) \/ LockAlloc(t)
         \/ TestFreelist(t) \/ GrowFile(t) \/ PopHead(t) \/ PopNext(t)
         \/ UnlockAlloc(t) \/ FindExecutable(t) \/ FillCode(t) \/ FillData(t)
         \/ FlushIcache(t) \/ FindWritable(t) \/ LockFree(t) \/ PushLink(t)
         \/ PushHead(t) \/ UnlockFree(t)
  PROVE  UNCHANGED API!vars
<1>1. PICK l \in Labels : /\ Goto(t, l) /\ l # "idle" /\ pc[t] # "idle"
                          /\ l \in Allocating <=> pc[t] \in Allocating
  <2> USE DEF At, Goto, Lock, Unlock, Labels, Allocating
  <2>1. CASE CheckPagesize(t) \/ MmapInit(t) \/ SetPagesize(t) \/ LockAlloc(t)
    BY <2>1 DEF CheckPagesize, MmapInit, SetPagesize, LockAlloc
  <2>2. CASE TestFreelist(t) \/ GrowFile(t) \/ PopHead(t) \/ PopNext(t)
    BY <2>2 DEF TestFreelist, GrowFile, PopHead, PopNext
  <2>3. CASE UnlockAlloc(t) \/ FindExecutable(t) \/ FillCode(t) \/ FillData(t)
             \/ FlushIcache(t)
    BY <2>3 DEF UnlockAlloc, FindExecutable, FillCode, FillData, FlushIcache
  <2>4. CASE FindWritable(t) \/ LockFree(t) \/ PushLink(t) \/ PushHead(t)
             \/ UnlockFree(t)
    BY <2>4 DEF FindWritable, LockFree, PushLink, PushHead, UnlockFree
  <2> QED
    BY <2>1, <2>2, <2>3, <2>4
<1>2. UNCHANGED <<request, held, aborted>>
  BY DEF CheckPagesize, MmapInit, SetPagesize, LockAlloc, TestFreelist,
         GrowFile, PopHead, PopNext, UnlockAlloc, FindExecutable, FillCode,
         FillData, FlushIcache, FindWritable, LockFree, PushLink, PushHead,
         UnlockFree, Lock, Unlock, args, shared
<1>3. pc[t] \in Labels
  BY DEF IInv, TypeOK
<1> QED
  BY <1>1, <1>2, <1>3, InnerStep

(* The steps at the edge of a call.                                        *)
LEMMA CallAllocRefines ==
  ASSUME IInv, IInv', NEW t \in Threads, NEW r \in Requests, CallAlloc(t, r)
  PROVE  API!CallAlloc(t, r)
<1> USE DEF CallAlloc, At, Goto, shared
<1>1. absClosures' = absClosures
  BY FaithfulNow, FaithfulNext DEF Faithful
<1>2. request'[t] = r /\ pc'[t] = "a_check" /\ pc[t] = "idle"
  BY DEF IInv, TypeOK
<1>3. absPending' = [absPending EXCEPT ![t] = CallOf(t)']
  BY PendingFrame DEF IInv, TypeOK, Labels
<1>4. CallOf(t) = API!NoCall /\ CallOf(t)' = API!Alloc(r)
  BY <1>2 DEF CallOf, Allocating, API!NoCall, API!Alloc
<1> QED
  BY <1>1, <1>3, <1>4 DEF API!CallAlloc, API!Call, absClosures, absPending

LEMMA ReturnAllocRefines ==
  ASSUME IInv, IInv', NEW t \in Threads, ReturnAlloc(t)
  PROVE  \E f \in Pointers : API!ReturnAlloc(t, f)
<1> DEFINE f == function_x[t]
<1> USE DEF ReturnAlloc, Leave, At, Goto, shared
<1>1. /\ absClosures = held /\ absClosures' = held'
      /\ ~aborted /\ pc[t] = "a_return" /\ pc'[t] = "idle"
  BY FaithfulNow, FaithfulNext DEF Faithful, IInv, TypeOK
<1>2. function[t] \in WPointers /\ f = ToExecutable(function[t])
  BY <1>1 DEF IInv, ControlInv, ControlOf, OnWritable
<1>3. f \in Pointers /\ CellOf(f) = CellOf(function[t])
  BY <1>2, Executable DEF IInv, XPointers
<1>4. f \notin DOMAIN held
  BY <1>1, <1>3 DEF IInv, DisjointInv, Owning
<1>5. absPending' = [absPending EXCEPT ![t] = CallOf(t)']
  BY PendingFrame DEF IInv, TypeOK, Labels
<1>6. /\ CallOf(t) = [op |-> "alloc", what |-> request[t]]
      /\ CallOf(t)' = API!NoCall
  BY <1>1 DEF CallOf, Allocating, API!NoCall
<1>7. API!ReturnAlloc(t, f)
  <2>1. absPending[t] = CallOf(t)
    BY DEF absPending
  <2>2. held' = [g \in DOMAIN held \cup {f} |->
                   IF g = f THEN absPending[t].what ELSE held[g]]
    BY <1>6, <2>1
  <2> QED
    BY <1>1, <1>4, <1>5, <1>6, <2>1, <2>2
       DEF API!ReturnAlloc, absClosures, absPending
<1> QED
  BY <1>3, <1>7

LEMMA CallFreeRefines ==
  ASSUME IInv, IInv', NEW t \in Threads, NEW f \in DOMAIN held, CallFree(t, f)
  PROVE  f \in Pointers /\ API!CallFree(t, f)
<1> USE DEF CallFree, At, Goto, shared
<1>1. absClosures = held /\ absClosures' = held'
  BY FaithfulNow, FaithfulNext DEF Faithful
<1>2. f \in Pointers /\ pc[t] = "idle" /\ pc'[t] = "f_xlate" /\ ~aborted
  BY DEF IInv, TypeOK
<1>3. absPending' = [absPending EXCEPT ![t] = CallOf(t)']
  BY PendingFrame DEF IInv, TypeOK, Labels
<1>4. CallOf(t) = API!NoCall /\ CallOf(t)' = API!Free
  BY <1>2 DEF CallOf, Allocating, API!NoCall, API!Free
<1> QED
  BY <1>1, <1>2, <1>3, <1>4
     DEF API!CallFree, API!Call, absClosures, absPending

LEMMA ReturnFreeRefines ==
  ASSUME IInv, IInv', NEW t \in Threads, ReturnFree(t)
  PROVE  API!ReturnFree(t)
<1> USE DEF ReturnFree, Leave, At, Goto, shared
<1>1. absClosures' = absClosures
  BY FaithfulNow, FaithfulNext DEF Faithful
<1>2. pc[t] = "f_return" /\ pc'[t] = "idle" /\ ~aborted
  BY DEF IInv, TypeOK
<1>3. absPending' = [absPending EXCEPT ![t] = CallOf(t)']
  BY PendingFrame DEF IInv, TypeOK, Labels
<1>4. CallOf(t) = API!Free /\ CallOf(t)' = API!NoCall
  BY <1>2 DEF CallOf, Allocating, API!NoCall, API!Free
<1> QED
  BY <1>1, <1>2, <1>3, <1>4 DEF API!ReturnFree, absClosures, absPending

LEMMA FailureRefines ==
  ASSUME IInv, IInv', NEW t \in Threads, MmapInitFails(t) \/ GrowFails(t)
  PROVE  API!Abort
<1> USE DEF MmapInitFails, GrowFails, Abort, At, args
<1>1. absClosures' = absClosures
  BY FaithfulNow, FaithfulNext DEF Faithful
<1>2. absPending' = absPending /\ absPending[t].op = "alloc"
  BY DEF absPending, CallOf, Allocating
<1> QED
  BY <1>1, <1>2 DEF API!Abort, absClosures, absPending

LEMMA NextRefines ==
  ASSUME IInv, IInv', [Next]_vars
  PROVE  [API!Next]_(API!vars)
<1>1. ASSUME NEW t \in Threads, NEW r \in Requests, CallAlloc(t, r)
      PROVE  API!Next
  BY <1>1, CallAllocRefines DEF API!Next
<1>2. ASSUME NEW t \in Threads, NEW f \in DOMAIN held, CallFree(t, f)
      PROVE  API!Next
  BY <1>2, CallFreeRefines DEF API!Next
<1>3. ASSUME NEW t \in Threads, Step(t)
      PROVE  API!Next \/ UNCHANGED API!vars
  <2>1. CASE ReturnAlloc(t)
    BY <2>1, ReturnAllocRefines DEF API!Next
  <2>2. CASE ReturnFree(t)
    BY <2>2, ReturnFreeRefines DEF API!Next
  <2>3. CASE MmapInitFails(t) \/ GrowFails(t)
    BY <2>3, FailureRefines DEF API!Next
  <2> QED
    BY <1>3, <2>1, <2>2, <2>3, InnerSteps DEF Step, AllocStep, FreeStep
<1>4. CASE UNCHANGED vars
  <2>1. absClosures' = absClosures
    BY <1>4, FaithfulNow, FaithfulNext DEF Faithful, vars
  <2>2. absPending' = absPending
    BY <1>4 DEF absPending, CallOf, vars, args
  <2> QED
    BY <1>4, <2>1, <2>2 DEF API!vars, absClosures, absPending, vars, shared
<1> QED
  BY <1>1, <1>2, <1>3, <1>4 DEF Next, Aborted

(* trampoline.c implements what callback.h and trampoline_r.h promise.     *)
THEOREM Refinement == Spec => ImplementsAPI
<1>1. IInv /\ IInv' /\ [Next]_vars => [API!Next]_(API!vars)
  BY NextRefines
<1> QED
  BY <1>1, InitRefines, Invariance, PTL DEF Spec, ImplementsAPI, API!Spec

=============================================================================
