---------------------------- MODULE TrampolineR ----------------------------
(***************************************************************************)
(* callback/trampoline_r/trampoline.c, as configured on Linux              *)
(* (EXECUTABLE_VIA_MMAP_FILE_SHARED): threads that allocate, use and free  *)
(* trampolines carved out of pages of a temporary file.  Each page is      *)
(* mapped twice, once writable and once executable; free trampolines are   *)
(* chained through their own first word, starting at `freelist'.           *)
(*                                                                         *)
(* A pointer is <<v, i>>: a virtual page and an offset.  Offset 0 is the   *)
(* word that links the two mappings of a page, offset i in 1..SlotsPerPage *)
(* is its i-th trampoline.  Both mappings of a file page reach the same    *)
(* bytes, so memory is indexed by the file page.                           *)
(***************************************************************************)
EXTENDS Integers, FiniteSets

CONSTANTS
  Threads,        \* the threads of the process
  SlotsPerPage,   \* trampolines that fit in a page behind its link word
  MaxFilePages,   \* bound: pages the temporary file can have
  MaxPage,        \* bound: pages of virtual memory mmap() can hand out
  Addresses,      \* functions a trampoline can jump to
  Datas,          \* values of the pair (data0, data1)
  NULL,           \* the null pointer
  CODE,           \* the first word of a filled trampoline: machine code
  NoThread,
  StoresOrdered   \* TRUE: the CPU shows a thread's stores in program order

ASSUME SizesAssumption ==
  /\ SlotsPerPage \in Nat \ {0}
  /\ MaxFilePages \in Nat
  /\ MaxPage \in Nat
  /\ StoresOrdered \in BOOLEAN

VPages    == 1..MaxPage
FilePages == 0..(MaxFilePages - 1)
Slots     == 1..SlotsPerPage
Pointers  == VPages \X Slots
Cells     == FilePages \X Slots
Requests  == [address : Addresses, data : Datas]

FD == 3            \* what open() returns; file_fd is 0 before that

ASSUME DistinctAssumption ==
  /\ NULL \notin Pointers \cup {CODE} \cup Addresses \cup Datas \cup Requests
  /\ CODE \notin Pointers
  /\ NoThread \notin Threads

VARIABLES
  pagesize,       \* is the static variable `pagesize' set?
  once,           \* has for_mmap_init() run (state of for_mmap_once)?
  file_fd,
  file_length,    \* in pages
  freelist_lock,
  freelist,
  maps,           \* the address space: what each virtual page is mapped to
  link,           \* word 0 of each file page: page_x - page
  mem,            \* the trampolines in the file
  icache,         \* the cells whose instructions the icache may hold stale
  synced,         \* threads ordered after for_mmap_init() by a gl_once or lock
  unlock_synced,  \* was the last thread to unlock freelist_lock synced?
  aborted,        \* abort() was called
  pc,             \* where each thread is
  request,        \* the arguments of alloc_trampoline_r
  fd,             \* the descriptor ftruncate() and mmap() are called with
  function,       \* the locals of alloc_trampoline_r and free_trampoline_r
  function_x,
  held            \* the client's trampolines, with what it asked of each

once_vars == <<pagesize, once, file_fd>>
page_vars == <<file_length, maps, link>>
lock_vars == <<freelist_lock, synced, unlock_synced>>
shared    == <<once_vars, page_vars, lock_vars, freelist, mem, icache, aborted>>
args      == <<request, fd, function, function_x>>
vars      == <<shared, args, pc, held>>

Unmapped  == [page |-> -1, prot |-> "none"]
Mapping   == {Unmapped} \cup [page : FilePages, prot : {"rw", "rx"}]

BlankCell == [word0 |-> NULL, target |-> NULL, dptr |-> NULL, data |-> NULL]
Cell      == [word0  : Pointers \cup {NULL, CODE},
              target : Addresses \cup {NULL},
              dptr   : Pointers \cup {NULL},
              data   : Datas \cup {NULL}]

Labels == {"idle", "a_check", "a_once", "a_size", "a_lock", "a_test",
           "a_grow", "a_pop", "a_next", "a_unlock", "a_find", "a_code",
           "a_data", "a_flush", "a_return",
           "f_xlate", "f_lock", "f_link", "f_head", "f_unlock", "f_return"}

(* The bytes a pointer reaches through its mapping.                        *)
CellOf(q) == <<maps[q[1]].page, q[2]>>

(* `function + *(intptr_t* )page': from a writable pointer to the          *)
(* executable one, and back; `page' is the pointer rounded down to a page. *)
ToExecutable(q) == <<q[1] + link[maps[q[1]].page], q[2]>>
ToWritable(q)   == <<q[1] - link[maps[q[1]].page], q[2]>>

-----------------------------------------------------------------------------
Init ==
  /\ pagesize = 0 /\ once = FALSE
  /\ file_fd = 0 /\ file_length = 0
  /\ freelist_lock = NoThread /\ freelist = NULL
  /\ maps = [v \in VPages |-> Unmapped]
  /\ link = [p \in FilePages |-> 0]
  /\ mem = [c \in Cells |-> BlankCell]
  /\ icache = {}
  /\ synced = {} /\ unlock_synced = FALSE
  /\ aborted = FALSE
  /\ pc = [t \in Threads |-> "idle"]
  /\ request = [t \in Threads |-> NULL]
  /\ fd = [t \in Threads |-> 0]
  /\ function = [t \in Threads |-> NULL]
  /\ function_x = [t \in Threads |-> NULL]
  /\ held = <<>>

At(t, label)   == ~aborted /\ pc[t] = label
Goto(t, label) == pc' = [pc EXCEPT ![t] = label]

Abort(t) == aborted' = TRUE /\ UNCHANGED pc

Lock(t, next) ==
  /\ freelist_lock = NoThread
  /\ freelist_lock' = t
  /\ synced' = IF unlock_synced THEN synced \cup {t} ELSE synced
  /\ Goto(t, next)

Unlock(t, next) ==
  /\ freelist_lock' = NoThread
  /\ unlock_synced' = (t \in synced)
  /\ Goto(t, next)

-----------------------------------------------------------------------------
(* alloc_trampoline_r                                                      *)

CallAlloc(t, r) ==
  /\ At(t, "idle")
  /\ request' = [request EXCEPT ![t] = r]
  /\ Goto(t, "a_check")
  /\ UNCHANGED <<shared, fd, function, function_x, held>>

(* Mutant: pagesize assigned before for_mmap_init() is invoked, as it was   *)
(* until 2020-07-19.                                                       *)
CheckPagesizeEarly(t) ==
  /\ At(t, "a_check")
  /\ Goto(t, IF pagesize = 0 THEN "a_once" ELSE "a_lock")
  /\ pagesize' = 1
  /\ UNCHANGED <<once, file_fd, page_vars, lock_vars, args, freelist, mem,
                 icache, aborted, held>>

(* `if (!pagesize)', read without synchronisation                          *)
CheckPagesize(t) ==
  /\ At(t, "a_check")
  /\ Goto(t, IF pagesize = 0 THEN "a_once" ELSE "a_lock")
  /\ UNCHANGED <<args, shared, held>>

(* gl_once (for_mmap_once, for_mmap_init): one thread runs it, the others  *)
(* wait for it to be done.  Creating the file may fail.                    *)
MmapInit(t) ==
  /\ At(t, "a_once")
  /\ \/ /\ ~once
        /\ once' = TRUE /\ file_fd' = FD /\ file_length' = 0
     \/ once /\ UNCHANGED <<once, file_fd, file_length>>
  /\ synced' = synced \cup {t}
  /\ Goto(t, "a_size")
  /\ UNCHANGED <<args, pagesize, freelist_lock, freelist, maps, link, mem,
                 icache, unlock_synced, aborted, held>>

MmapInitFails(t) ==
  /\ At(t, "a_once") /\ ~once
  /\ Abort(t)
  /\ UNCHANGED <<once_vars, page_vars, lock_vars, args, freelist, mem,
                 icache, held>>

SetPagesize(t) ==
  /\ At(t, "a_size")
  /\ pagesize' = 1
  /\ Goto(t, "a_lock")
  /\ UNCHANGED <<page_vars, lock_vars, args, once, file_fd, freelist, mem,
                 icache, aborted, held>>

LockAlloc(t) ==
  /\ At(t, "a_lock")
  /\ Lock(t, "a_test")
  /\ UNCHANGED <<once_vars, page_vars, args, freelist, mem, icache,
                 unlock_synced, aborted, held>>

(* Which values a thread can read from file_fd: unless it is ordered after *)
(* for_mmap_init(), a weakly ordered CPU may still show it the initial 0.  *)
VisibleFd(t) ==
  IF t \in synced \/ StoresOrdered THEN {file_fd} ELSE {file_fd, 0}

(* Mutant: a new page already when the last free trampoline is reached.    *)
TestFreelistEarly(t) ==
  /\ At(t, "a_test")
  /\ IF IF freelist = NULL THEN TRUE ELSE mem[CellOf(freelist)].word0 = NULL
     THEN /\ \E d \in VisibleFd(t) : fd' = [fd EXCEPT ![t] = d]
          /\ Goto(t, "a_grow")
     ELSE Goto(t, "a_pop") /\ UNCHANGED fd
  /\ UNCHANGED <<shared, request, function, function_x, held>>

TestFreelist(t) ==
  /\ At(t, "a_test")
  /\ \/ /\ freelist = NULL
        /\ \E d \in VisibleFd(t) : fd' = [fd EXCEPT ![t] = d]
        /\ Goto(t, "a_grow")
     \/ freelist # NULL /\ Goto(t, "a_pop") /\ UNCHANGED fd
  /\ UNCHANGED <<shared, request, function, function_x, held>>

(* Mutant: the chain of a page is not terminated with NULL.                *)
ChainedOnwards(v, i) == [BlankCell EXCEPT !.word0 = <<v, i + 1>>]

(* The chain of free trampolines in a page that was just mapped at v.      *)
Chained(v, i) ==
  [BlankCell EXCEPT !.word0 = IF i < SlotsPerPage THEN <<v, i + 1>> ELSE NULL]

(* Extend the file by one page, map it twice, link the two mappings and    *)
(* fill the page with free trampolines.  Nothing else can look at the page *)
(* before the lock is released, so this is one step.                       *)
GrowFile(t) ==
  /\ At(t, "a_grow")
  /\ fd[t] = FD /\ file_length < MaxFilePages
  /\ \E w, x \in {v \in VPages : maps[v] = Unmapped} :
       /\ w # x
       /\ maps' = [maps EXCEPT ![w] = [page |-> file_length, prot |-> "rw"],
                               ![x] = [page |-> file_length, prot |-> "rx"]]
       /\ link' = [link EXCEPT ![file_length] = x - w]
       /\ mem' = [c \in Cells |-> IF c[1] = file_length
                                  THEN Chained(w, c[2]) ELSE mem[c]]
       /\ freelist' = <<w, 1>>
  /\ file_length' = file_length + 1
  /\ icache' = icache \cup ({file_length} \X Slots)
  /\ Goto(t, "a_pop")
  /\ UNCHANGED <<once_vars, lock_vars, args, aborted, held>>

(* ftruncate() or one of the mmap() calls fails.                           *)
GrowFails(t) ==
  /\ At(t, "a_grow")
  /\ Abort(t)
  /\ UNCHANGED <<once_vars, page_vars, lock_vars, args, freelist, mem,
                 icache, held>>

(* Mutant: the lock covers only `function = freelist;'.                    *)
PopHeadUnlocks(t) ==
  /\ At(t, "a_pop")
  /\ function' = [function EXCEPT ![t] = freelist]
  /\ Unlock(t, "a_next")
  /\ UNCHANGED <<once_vars, page_vars, freelist, mem, icache, synced, aborted,
                 request, fd, function_x, held>>

(* `function = freelist;'                                                  *)
PopHead(t) ==
  /\ At(t, "a_pop")
  /\ function' = [function EXCEPT ![t] = freelist]
  /\ Goto(t, "a_next")
  /\ UNCHANGED <<shared, request, fd, function_x, held>>

(* `freelist = *(char** )freelist;'                                        *)
PopNext(t) ==
  /\ At(t, "a_next")
  /\ freelist' = mem[CellOf(freelist)].word0
  /\ Goto(t, "a_unlock")
  /\ UNCHANGED <<once_vars, page_vars, lock_vars, args, mem, icache, aborted,
                 held>>

(* Mutant: the lock is kept when the call leaves the critical section.     *)
UnlockAllocForgotten(t) ==
  /\ At(t, "a_unlock")
  /\ Goto(t, "a_find")
  /\ UNCHANGED <<shared, args, held>>

UnlockAlloc(t) ==
  /\ At(t, "a_unlock")
  /\ Unlock(t, "a_find")
  /\ UNCHANGED <<once_vars, page_vars, args, freelist, mem, icache, synced,
                 aborted, held>>

FindExecutable(t) ==
  /\ At(t, "a_find")
  /\ function_x' = [function_x EXCEPT ![t] = ToExecutable(function[t])]
  /\ Goto(t, "a_code")
  /\ UNCHANGED <<shared, request, fd, function, held>>

(* The machine code: load the register with `data', jump to `address'.     *)
FillCode(t) ==
  /\ At(t, "a_code")
  /\ LET c == CellOf(function[t])
     IN  /\ mem' = [mem EXCEPT ![c] =
                      [@ EXCEPT !.word0  = CODE,
                                !.target = request[t].address,
                                !.dptr   = function[t]]]
         /\ icache' = icache \cup {c}
  /\ Goto(t, "a_data")
  /\ UNCHANGED <<once_vars, page_vars, lock_vars, args, freelist, aborted,
                 held>>

FillData(t) ==
  /\ At(t, "a_data")
  /\ mem' = [mem EXCEPT ![CellOf(function[t])].data = request[t].data]
  /\ Goto(t, "a_flush")
  /\ UNCHANGED <<once_vars, page_vars, lock_vars, args, freelist, icache,
                 aborted, held>>

(* Mutant: the instruction cache is not flushed.                           *)
FlushIcacheSkipped(t) ==
  /\ At(t, "a_flush")
  /\ Goto(t, "a_return")
  /\ UNCHANGED <<shared, args, held>>

(* The flush is by the executable address.                                 *)
FlushIcache(t) ==
  /\ At(t, "a_flush")
  /\ icache' = icache \ {CellOf(function_x[t])}
  /\ Goto(t, "a_return")
  /\ UNCHANGED <<once_vars, page_vars, lock_vars, args, freelist, mem,
                 aborted, held>>

Leave(t) ==
  /\ Goto(t, "idle")
  /\ request' = [request EXCEPT ![t] = NULL]
  /\ fd' = [fd EXCEPT ![t] = 0]
  /\ function' = [function EXCEPT ![t] = NULL]
  /\ function_x' = [function_x EXCEPT ![t] = NULL]
  /\ UNCHANGED shared

ReturnAlloc(t) ==
  /\ At(t, "a_return")
  /\ held' = [f \in DOMAIN held \cup {function_x[t]} |->
                IF f = function_x[t] THEN request[t] ELSE held[f]]
  /\ Leave(t)

-----------------------------------------------------------------------------
(* free_trampoline_r: the client may free any trampoline it holds, from    *)
(* any thread, and does not use it any more.                               *)

CallFree(t, f) ==
  /\ At(t, "idle") /\ f \in DOMAIN held
  /\ held' = [g \in DOMAIN held \ {f} |-> held[g]]
  /\ function' = [function EXCEPT ![t] = f]
  /\ Goto(t, "f_xlate")
  /\ UNCHANGED <<shared, request, fd, function_x>>

FindWritable(t) ==
  /\ At(t, "f_xlate")
  /\ function' = [function EXCEPT ![t] = ToWritable(function[t])]
  /\ Goto(t, "f_lock")
  /\ UNCHANGED <<shared, request, fd, function_x, held>>

(* Mutant: free_trampoline_r does not take freelist_lock, as was the       *)
(* case until 2020-07-19.                                                  *)
LockFreeMissing(t) ==
  /\ At(t, "f_lock")
  /\ Goto(t, "f_link")
  /\ UNCHANGED <<shared, args, held>>

LockFree(t) ==
  /\ At(t, "f_lock")
  /\ Lock(t, "f_link")
  /\ UNCHANGED <<once_vars, page_vars, args, freelist, mem, icache,
                 unlock_synced, aborted, held>>

(* `*(char** )function = freelist;'                                        *)
PushLink(t) ==
  /\ At(t, "f_link")
  /\ LET c == CellOf(function[t])
     IN  /\ mem' = [mem EXCEPT ![c].word0 = freelist]
         /\ icache' = icache \cup {c}
  /\ Goto(t, "f_head")
  /\ UNCHANGED <<once_vars, page_vars, lock_vars, args, freelist, aborted,
                 held>>

(* `freelist = (char* )function;'                                          *)
PushHead(t) ==
  /\ At(t, "f_head")
  /\ freelist' = function[t]
  /\ Goto(t, "f_unlock")
  /\ UNCHANGED <<once_vars, page_vars, lock_vars, args, mem, icache, aborted,
                 held>>

(* Mutant: free_trampoline_r keeps the lock.                               *)
UnlockFreeForgotten(t) ==
  /\ At(t, "f_unlock")
  /\ Goto(t, "f_return")
  /\ UNCHANGED <<shared, args, held>>

UnlockFree(t) ==
  /\ At(t, "f_unlock")
  /\ Unlock(t, "f_return")
  /\ UNCHANGED <<once_vars, page_vars, args, freelist, mem, icache, synced,
                 aborted, held>>

ReturnFree(t) ==
  /\ At(t, "f_return")
  /\ Leave(t)
  /\ UNCHANGED held

-----------------------------------------------------------------------------
AllocStep(t) ==
  \/ CheckPagesize(t) \/ MmapInit(t) \/ MmapInitFails(t) \/ SetPagesize(t)
  \/ LockAlloc(t) \/ TestFreelist(t) \/ GrowFile(t) \/ GrowFails(t)
  \/ PopHead(t) \/ PopNext(t) \/ UnlockAlloc(t) \/ FindExecutable(t)
  \/ FillCode(t) \/ FillData(t) \/ FlushIcache(t) \/ ReturnAlloc(t)

FreeStep(t) ==
  \/ FindWritable(t) \/ LockFree(t) \/ PushLink(t) \/ PushHead(t)
  \/ UnlockFree(t) \/ ReturnFree(t)

(* A step of the code, as opposed to a call the client decides to make.    *)
Step(t) == AllocStep(t) \/ FreeStep(t)

(* abort() ends the process: this is not a deadlock.                       *)
Aborted == aborted /\ UNCHANGED vars

Next ==
  \/ \E t \in Threads :
       \/ \E r \in Requests : CallAlloc(t, r)
       \/ \E f \in DOMAIN held : CallFree(t, f)
       \/ Step(t)
  \/ Aborted

Spec == Init /\ [][Next]_vars

(* The scheduler runs every thread that can run; nothing is assumed about  *)
(* who gets freelist_lock when several threads wait for it.                *)
FairSpec == Spec /\ \A t \in Threads : WF_vars(Step(t))
-----------------------------------------------------------------------------
(* What the code does with a trampoline once it exists.                    *)

Crash == [address |-> NULL, data |-> NULL]

(* Calling f: the processor fetches the instructions at f, which load the  *)
(* register with the address of the data and jump to the target; the       *)
(* target reads the data through that register.                            *)
Invoke(f) ==
  LET code == mem[CellOf(f)]
  IN  IF CellOf(f) \in icache \/ code.word0 # CODE
      THEN Crash
      ELSE [address |-> code.target, data |-> mem[CellOf(code.dptr)].data]

(* Mutant: the executable address is compared with the data pointer.       *)
is_trampoline_untranslated(f) ==
  /\ mem[CellOf(f)].word0 = CODE
  /\ mem[CellOf(f)].dptr = f

(* The code pattern is there and points to the data behind it, by the      *)
(* writable address.                                                       *)
is_trampoline_r(f) ==
  /\ mem[CellOf(f)].word0 = CODE
  /\ mem[CellOf(f)].dptr = ToWritable(f)

trampoline_r_address(f) == mem[CellOf(f)].target

(* data0 and data1 are read behind the code of f itself.                   *)
trampoline_r_data(f) == mem[CellOf(f)].data

-----------------------------------------------------------------------------
(* Properties.                                                             *)

(* Every variable has its type.                                            *)
TypeOK ==
  /\ pagesize \in {0, 1} /\ once \in BOOLEAN /\ file_fd \in {0, FD}
  /\ file_length \in 0..MaxFilePages
  /\ maps \in [VPages -> Mapping]
  /\ link \in [FilePages -> Int]
  /\ freelist_lock \in Threads \cup {NoThread}
  /\ synced \subseteq Threads /\ unlock_synced \in BOOLEAN
  /\ freelist \in Pointers \cup {NULL}
  /\ mem \in [Cells -> Cell]
  /\ icache \subseteq Cells
  /\ aborted \in BOOLEAN
  /\ pc \in [Threads -> Labels]
  /\ request \in [Threads -> Requests \cup {NULL}]
  /\ fd \in [Threads -> {0, FD}]
  /\ function \in [Threads -> Pointers \cup {NULL}]
  /\ function_x \in [Threads -> Pointers \cup {NULL}]
  /\ DOMAIN held \subseteq Pointers
  /\ held \in [DOMAIN held -> Requests]

(* "The callback has indefinite extent. It can be accessed until a call to *)
(* free_callback()." (callback.h): whatever the other threads are doing,   *)
(* invoking a trampoline calls its address with its data.                  *)
ClosureIntact == \A f \in DOMAIN held : Invoke(f) = held[f]

(* The slots of the file: those of the pages it has grown to.              *)
FileCells == (0..(file_length - 1)) \X Slots

(* The slot a thread works on in the middle of a call, when it is neither  *)
(* the client's nor on the free chain.                                     *)
Owning == {"a_unlock", "a_find", "a_code", "a_data", "a_flush", "a_return",
           "f_xlate", "f_lock", "f_link", "f_head"}
Owns(t, c) == pc[t] \in Owning /\ CellOf(function[t]) = c

(* The free chain: what following the links from `freelist' reaches, that  *)
(* is, what every set has that is closed under following them.             *)
ChainClosed(S) ==
  /\ freelist \in Pointers => CellOf(freelist) \in S
  /\ \A c \in S : mem[c].word0 \in Pointers => CellOf(mem[c].word0) \in S

ChainCells == {c \in Cells : \A S \in SUBSET Cells : ChainClosed(S) => c \in S}

InUse(c) == (\E f \in DOMAIN held : CellOf(f) = c) \/ (\E t \in Threads : Owns(t, c))

(* No slot is lost and none is in two hands: every slot of the file is     *)
(* either on the free chain, or held by the client under one pointer, or   *)
(* being worked on by one thread.  (The chain is then also free of cycles, *)
(* and is not cut short.)                                                  *)
SlotConservation ==
  \A c \in FileCells :
    LET holders == {f \in DOMAIN held : CellOf(f) = c}
        owners  == {t \in Threads : Owns(t, c)}
        chain   == IF c \in ChainCells THEN 1 ELSE 0
    IN  Cardinality(holders) + Cardinality(owners) + chain = 1

(* callback.h on is_callback: "Tests whether a given pointer is a function *)
(* pointer returned by alloc_callback()".  Of the trampolines no thread is *)
(* building or freeing, the test answers yes for those the client holds    *)
(* and no others, and the accessors return what the client gave.           *)
QueriesAgree ==
  \A f \in Pointers :
    /\ maps[f[1]].prot = "rx"
    /\ \A t \in Threads : ~Owns(t, CellOf(f))
    => /\ is_trampoline_r(f) <=> f \in DOMAIN held
       /\ f \in DOMAIN held =>
            held[f] = [address |-> trampoline_r_address(f),
                       data    |-> trampoline_r_data(f)]

(* Only the temporary file is ever extended and mapped: no thread calls    *)
(* ftruncate() with file_fd before for_mmap_init() has set it.             *)
RightFile == \A t \in Threads : pc[t] = "a_grow" => fd[t] = FD

(* Memory is reused: the file grows only when every slot in it is in use   *)
(* or is still being given back.                                           *)
GrowOnlyWhenFull ==
  [][file_length' > file_length => \A c \in FileCells : InUse(c)]_vars

(* A thread that takes freelist_lock releases it.                          *)
LockReleased ==
  \A t \in Threads : freelist_lock = t ~> freelist_lock # t \/ aborted

(* Once the other threads stay out of the allocator, a call returns (or    *)
(* the process aborts for lack of memory).                                 *)
CallReturns ==
  \A t \in Threads :
    <>[](\A u \in Threads \ {t} : pc[u] = "idle")
      => [](pc[t] # "idle" => <>(pc[t] = "idle" \/ aborted))

-----------------------------------------------------------------------------
(* Refinement: the client sees the closures of ClosureAPI.                 *)

Allocating == {"a_check", "a_once", "a_size", "a_lock", "a_test", "a_grow",
               "a_pop", "a_next", "a_unlock", "a_find", "a_code", "a_data",
               "a_flush", "a_return"}

CallOf(t) ==
  IF pc[t] = "idle" THEN [op |-> "none"]
  ELSE IF pc[t] \in Allocating THEN [op |-> "alloc", what |-> request[t]]
       ELSE [op |-> "free"]

API == INSTANCE ClosureAPI WITH
         Behaviours <- Requests,
         closures   <- [f \in DOMAIN held |-> Invoke(f)],
         pending    <- [t \in Threads |-> CallOf(t)],
         dead       <- aborted

(* The trampoline allocator does what callback.h and trampoline_r.h        *)
(* promise.                                                                *)
ImplementsAPI == API!Spec
=============================================================================
