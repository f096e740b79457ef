# A TLA+ model of GNU libffcall

libffcall builds calls and closures at run time, for functions whose
signature is only known then. This directory models the parts of it that keep
state, run concurrently or do delicate arithmetic, checks them with TLC on
small instances and proves with TLAPS, for instances of any size, the allocator of
closures, the callbacks built on it, the return of structs in registers, that
argument lists keep what is pushed onto them, and that values come back through
every convention.

## The system

| Component | State | Operations | Talks to |
| --- | --- | --- | --- |
| `avcall` | an argument list (`av_alist`): words on the stack, integer and floating-point argument registers, where the result goes | `av_start_*`, one push per type, `av_call`, `av_overflown` | the called function, through the calling convention |
| `vacall` | an argument list under iteration (`va_alist`), a result; the global variable `vacall_function` | `va_start_*`, `va_arg_*`, `va_return_*`, from a function that `__vacall` calls | its caller, through the calling convention |
| `trampoline` | a list of free code slots with a lock, executable pages; the global variable each closure stores to | `alloc_trampoline`, `free_trampoline`, `is_trampoline`, accessors, calling it | the target function, through that variable |
| `callback/trampoline_r` | the same list; each closure has two data words that it passes in a register | `alloc_trampoline_r`, `free_trampoline_r`, `is_trampoline_r`, accessors, calling it | the target, through that register |
| `callback/vacall_r` | the vacall code compiled with `REENTRANT`: all state on the stack | `__vacall_r` | the callback's function |
| `callback` | none of its own | `alloc_callback`, `free_callback`, `is_callback`, accessors | `trampoline_r` for the closure, `vacall_r` for the call |
| code templates, cache flushing | none | the `tramp-<cpu>.s` files and the stores that fill them in; `cache-<cpu>.c` | `trampoline`, `trampoline_r` |
| `common` | none | structure copy; assembler text macros | `avcall`, `vacall` |
| `m4/codeexec.m4`, version, ports, build, tests | none | build time | chooses the variant of the allocator |

What is hard in it, and what makes each part correct:

* The allocator is shared by all threads. It has a one-time initialisation
  tested by a variable that is not the once-flag, a lock that is taken and
  released by hand, a free list threaded through the freed code itself, pages
  that exist at two addresses, and code that is executed while the page it is
  in is written. It is correct if no slot is lost or given out twice, if a
  closure does what was asked for from the return of `alloc` to the call of
  `free`, if the queries tell the truth, and if the lock is always released.
  ChangeLog 2020-07-19 has two bugs of this kind that had been in the code for
  years; both are mutants here.
* The glue between calling conventions is arithmetic on words that are not
  aligned, per CPU. It is correct if what one side puts in is what the other
  side takes out, and if memory around it is left alone. It claims to be
  multithread-safe, so "left alone" includes what another thread does.
* Argument lists have a fixed capacity and, on most CPUs, a choice between
  registers and stack that depends on everything pushed before. They are
  correct if the list of the callee agrees with the list of the caller.
* The non-reentrant packages pass data through global variables: nested and
  concurrent calls interfere, by design.

## Modules

| Module | What |
| --- | --- |
| `ClosureAPI` | what callback.h promises of closures, and nothing else |
| `TrampolineR` | the allocator of `callback/trampoline_r`, with the closures it builds |
| `TrampolineR_proofs` | its inductive invariant, safety theorems, that it loses no slot, and that it implements `ClosureAPI` |
| `Callback`, `Callback_proofs` | callbacks as trampolines that jump to the receiver, among others that do not |
| `StructReturn`, `StructReturn_proofs` | structs returned in registers, from vacall to avcall, at any alignment |
| `CodeTemplate`, `TemplatesR`, `TemplatesG`, `TrampolineLayout` | per CPU, the fields of the code template that alloc stores, the code loads and the queries read |
| `CallABI` | word sizes, register counts, argument types, and memory as bytes that know where they came from |
| `AvcallList`, `AvcallCall` | avcall's argument list: one operator per macro; what `av_call` then loads |
| `VacallList` | the receivers and the fetches of vacall and callback |
| `ReturnValue` | from `va_return_<type>` through the receiver and `av_call` to the caller's variable |
| `ArgPassing` | the composition: a caller and a function, one push, fetch or return at a time |
| `AvcallList_proofs`, `ArgPassing_proofs` | what each push does to the argument list, on every CPU; hence that no push stores outside the array or over an earlier argument |
| `ReturnValue_proofs` | on every CPU, that the address of a struct to be returned and the value of the function arrive |
| `Fetch_proofs`, `Arrival_proofs` | on 19 of the 27 CPUs, that the arguments arrive |

`MC<module>` gives each specification its instances.
`Callback` extends `TrampolineR`; `TrampolineR` instantiates
`ClosureAPI`. `ArgPassing` extends the caller's modules and
`ReturnValue`, and instantiates the callee's list, since avcall and vacall give
different things the same names.

## The allocator: `TrampolineR`

Models `src/callback/trampoline_r/trampoline.c` as configured on Linux
(`EXECUTABLE_VIA_MMAP_FILE_SHARED`), on a CPU with code in the trampoline and
`TRAMP_BIAS` 0.

| Model | Code |
| --- | --- |
| `pagesize`, `once`, `file_fd`, `file_length`, `freelist`, `freelist_lock` | the static variables; `pagesize` is only set or not, `file_length` counts pages |
| `maps` | the address space: which page of the file each virtual page shows, and whether it is the writable or the executable mapping |
| `link` | the first word of a page: the distance from one mapping to the other |
| `mem` | the slots behind it. A slot is its first word (the link of the free list, or the beginning of the code), the target and the data pointer in the code, and the data |
| `icache` | the slots of which the instruction cache may hold old contents |
| `synced`, `unlock_synced` | which threads are ordered after `for_mmap_init` by `gl_once` or by the lock; only used when `StoresOrdered` is FALSE |
| `pc`, `request`, `fd`, `function`, `function_x` | where each thread is in `alloc_trampoline_r` or `free_trampoline_r`, and its locals |
| `held` | the client: the pointers it holds and what it asked of each |

Every access to a shared variable is an action of its own: the test of
`pagesize`, the two halves of the pop and of the push, lock, unlock, each
group of stores to the slot, the flush. A page is taken from the file, mapped
and chained in one action, because it is done under the lock and nothing else
can look at the page before. Virtual pages are chosen freely, so that the
executable mapping may be below or above the writable one. `abort()` ends the
process: after it no action but `Aborted` is enabled. The client allocates,
frees any pointer it holds, from any thread, and follows callback.h in that it
does not use a pointer after the call of `free`.

`Invoke(f)` is what happens when `f` is called in a given state: it crashes if
the cache may be stale or the slot holds no code, else it passes the data that
the data pointer points to, to the target in the code.

Runs (`MCTrampolineR`, symmetric in the threads):

| Run | Instance | Checks |
| --- | --- | --- |
| `allocator` | 2 threads, 1 page of 2 slots, 2 targets of which one is the receiver | `TypeOK`, `ClosureIntact`, `SlotConservation`, `RightFile`, `CallbacksAgree`, `ImplementsAPI` |
| `allocator_pages` | 2 threads, 2 pages of 1 slot at 4 addresses, fair | `ClosureIntact`, `SlotConservation`, `QueriesAgree`, `GrowOnlyWhenFull`, `LockReleased`, `CallReturns` |
| `allocator_weak` | 2 threads, 1 slot, stores may be seen out of order | `RightFile`, violated: see Findings |

Two threads and two slots are enough for every pair of operations to overlap at
every step, for a slot to be recycled while another is being allocated, for the
list to be empty, to have one element and to have two. The second run is the
smallest in which the link of one page could be used for another. What the
bounds leave out is covered by the proofs, which have none.

How many slots fit into a page (`SlotsPerPage`) is a constant, not computed from
lengths as by the loop in trampoline.c:474-479. The model has where the chain
ends; that what is stored into a slot stays within the `TRAMP_TOTAL_LENGTH` that
the loop allows for it is `NextSlotKept` of `TrampolineLayout`.

Fairness (`FairSpec`) is weak fairness of each thread's next step inside a
call: a thread that can run does run. The calls themselves are not fair, since a
client need not allocate, and the mutex is not assumed to be fair: `CallReturns`
therefore says that a call returns once the other threads stay out of the
allocator, which is what the code guarantees.

### What is proved

For any set of threads, any number of slots, pages and addresses, and from the
two assumptions of the module on its constants:

| Theorem | Says |
| --- | --- |
| `TypeCorrectness` | `Spec => []TypeOK` |
| `IndefiniteExtent` | `Spec => []ClosureIntact` |
| `OnlyTheFile` | `StoresOrdered` implies `Spec => []RightFile` |
| `TruthfulQueries` | `Spec => []QueriesAgree` |
| `Conservation` | `Spec => []SlotConservation` |
| `Reuse` | `Spec => GrowOnlyWhenFull` |
| `Refinement` | `Spec => ImplementsAPI` |
| `CallbackQueries` | `Spec => []CallbacksAgree`, see below |

`ClosureIntact` is not inductive. It does not say that the slot a thread is
about to fill differs from that of every live closure, and this holds because
of the free list, which changes hands in two unprotected steps. The inductive
invariant `IInv` of `TrampolineR_proofs` adds, besides types:

* `OnceInv`: after the initialisation `file_fd` is the temporary file, before it
  nothing is mapped and `pagesize` is not set;
* `MapInv`: exactly the pages of the file are mapped, each once writable and
  once executable, and `link` is their distance, so that the two translations
  are inverse to each other;
* `ControlInv`: which locals are valid at which label, and that the threads
  inside the critical section are at most the one that holds the lock;
* `DisjointInv`: the slots of the threads' locals and of the closures are
  pairwise different. A slot is free if it is none of these;
* `ChainInv`: the free list, as far as it has to be known: its head is NULL or
  a free slot; the link of a free slot is NULL or a free slot other than the
  head; no two free slots have the same link. It is a local statement, kept by
  a pop and by a push, and needs no induction along the list. That no free
  slot drops off the list does not follow from it, see `Reachable`;
* `ContentInv`: what the slot of each closure, and of each thread that is
  filling one, contains so far.

`Invariance` shows `Init => IInv` and `IInv /\ [Next]_vars => IInv'` with one
lemma per action. The safety theorems follow from `IInv` in a step. For
`Refinement`, each action is shown to be the step of `ClosureAPI` it should be
or to leave the three abstract variables alone; the part that needs `IInv` is
that no action changes `Invoke(f)` of a live closure.

`Conservation` needs more: that following the links from `freelist` reaches
every free slot. `Reachable` says so in a form that
needs no induction along the list either: every set of slots that has the head,
and with each free slot the one it links to, has all free slots. A pop keeps it
(put the popped slot back into the set), a push keeps it (the new head links to
the old one), and a new page establishes it, because its chain runs through all
its slots (`EverySlot`, by the least slot that is left out). No other action
changes which slots are free or what they link to (`FreesKeep`, which the lemma
of each action states). With `ChainInv` the chain is then exactly the slots that
nobody uses, and with `DisjointInv` the count is one. `Reuse` is the instance of
`Reachable` for the empty set, which is closed when `freelist` is NULL.

Only model-checked: the liveness properties, which the prover does not handle.

## Callbacks: `Callback`

`callback/callback-libapi.c` has no state. `alloc_callback (f, data)` is
`alloc_trampoline_r` with the address of the receiver and the two words `f` and
`data`; a call of the closure goes to the receiver, which finds the two words
through a register and calls `f` with `data`. The actions are therefore those
of `TrampolineR`, with one of its targets called `Receiver`; requests for
another target are other users of `trampoline_r` in the same process.

`CallbacksAgree` says of every executable pointer that no thread is building or
freeing: `is_callback` holds exactly for the callbacks among the live closures,
not for a closure with another target nor for a freed slot whose code still
looks like one; `callback_address` and `callback_data` return what
`alloc_callback` was given; and calling it calls that function with that data.
`CallbackQueries` proves it from `TruthfulQueries`, `IndefiniteExtent` and
`IInv`, with the one further assumption `ReceiverAssumption`, that the receiver
is one of the addresses and that data are pairs.

## Structs in registers: `StructReturn`

A callback returns a struct: `vacall-<cpu>.c` loads it from memory into the
return registers, `avcall-<cpu>.c` in the caller stores it to memory. Both have
a reference version (`#if 0 /* Unoptimized */`) that goes byte by byte and the
version in use, which reads and writes aligned words with masks and shifts.

A word is its bytes in address order. A shift is then a move to higher or to
lower addresses, that brings in zeros or copies of the sign bit according to
the direction and the byte order; this is all in which little and big endian
CPUs differ, and the masks are the sets of bytes inside the struct.
`LeftStores` and `LeftLoads` are the code of all CPUs that put the first byte of
the struct at the low-address end of the first register, with two registers or
(sparc64) four. `RightStores` and `RightLoads` are hppa, where the last byte is
at the other end of the last register. `Ia64Stores` and `Ia64Loads` have the
shift counts of avcall-ia64.c and vacall-ia64.c. A byte is a set of two bits,
its sign bit and all others.

Each `wordaddr[k] ^= ...` is a `LoadWord` and a `StoreWord`, and another thread
may store to a byte that shares a word with the struct in between
(`NeighbourStores`, once).

| Run | Instance | Checks |
| --- | --- | --- |
| `struct_return` | words of 4 bytes, all CPUs but ia64 | `TypeOK`, `ReturnedUnlessNegative`, `BystandersKept` |
| `struct_return_sign` | x86_64 | `ReturnedExactly`, violated |
| `struct_return_shared` | x86_64 | `NeighboursKept`, violated |
| `struct_return_ia64` | ia64 | `BystandersKept`, violated |

All sizes that are returned in registers and all alignments on both sides are
tried. The contents are all structs of which all bytes but one are equal: the
operations move bytes and combine two of them with OR, so that one byte against
the others shows where it goes and what its sign does. Words of 4 bytes have
all relations that words of 8 have between start, end and word boundary.

`ReturnedUnlessNegative` says exactly what is left of `ReturnedExactly`: a
struct comes back if no byte of it has the sign bit, or if it fits one register
and lies in one word.

### What is proved

`StructReturn_proofs` has the three invariants of `struct_return` as theorems:

| Theorem | Says |
| --- | --- |
| `TypeCorrectness` | `Spec => []TypeOK` |
| `Bystanders` | `Spec => []BystandersKept` |
| `StructReturned` | `Spec => []ReturnedUnlessNegative` |

They hold for words of any width, every size, both alignments and every set of
contents, where the run has words of 4 bytes and contents with one byte that
differs. Their one hypothesis beside `ReturnAssumption` is
`Cpus \subseteq ProvedCpus`: all CPUs of the model but ia64, of which
`struct_return_ia64` shows that they are false. The argument has no induction
along the words, but relates each byte to its place:

* `Distributes` and `ShiftedWords`: shifting the words of a struct by its
  misalignment, each joined with what its neighbour shifts out, gives words
  that hold the same bytes further on, if what the shift brings in is zero:
  with the arithmetic shift of the code, if the byte at the end is not negative;
* `LeftLoadsHold`, `RightLoadsHold`: hence the registers hold the struct from
  the first byte on, or up to the last;
* `LeftStoresBytes`, `RightStoresBytes`: the mask of a word covers exactly the
  bytes of the struct in it, and the value under it has each byte in its place;
* `IInv`: between the stores, the words before `next` have their bytes of the
  struct (`StoredInv`), and the copy of a word that is about to be written back
  is stale at most where another thread has stored (`LoadedInv`). Without the
  latter `BystandersKept` is not inductive.

## Arguments and return values: `ArgPassing`

avcall and vacall are two halves of the same calling convention, written
separately for 27 of them. A function written with vacall, called through
avcall, should see what its caller passed; this is what the libraries' test
programs do on one CPU, for some signatures. `ArgPassing` is this call:

| Action | Code |
| --- | --- |
| `Init` | `av_start_<type>` |
| `PushArg` | `av_<type>`, `av_struct`; -1 if the list is full |
| `Call` | `av_call`, up to the receiver's call of the function |
| `Start` | `va_start_<type>` |
| `Fetch` | `va_arg_<type>` |
| `Return` | `va_return_<type>`, the end of the receiver, and of `av_call` |

An ABI is a CPU as ffcall-abi.h names it, a byte order and a compiler (gcc, or
the vendor's with its own rules for structs and floats). A byte in memory is a
symbol: the k-th byte of argument i, in one of the forms in which the code
writes it (as it is, extended, converted to double, or the address of a copy).
A fetch is right if it returns exactly the bytes of its argument, so that any
mistake in an offset, an adjustment or a count shows, whatever the values are.
Addresses are relative to the argument list, whose start is 16-aligned.

`AvcallList` has one operator per macro of avcall-internal.h, with an arm per
`#if`. `AvcallCall` is what each avcall-`<cpu>`.c copies to the stack and loads
into registers, `VacallList` what each vacall-`<cpu>`.c collects from there and
the fetch macros. `ReturnValue` decides between registers and memory once for
each side, and follows the value through registers. A float in a register that
holds doubles is its double, and comes back by conversion.

| Run | Instance | Checks |
| --- | --- | --- |
| `arguments` | all 39 ABIs | `TypeOK`, `ArgumentsArrive`, `StructAddressArrives`, `ReturnValueArrives`, `StoresInside`, `PushedKept` |
| `arguments_sysv` | x86_64 | `NextArgumentFetched`, violated |
| `return_sparc64` | sparc64 | `SpecifiedValueReturned`, violated |

What a caller has in mind is a record of `Calls`: how the function returns its
value, the types of the arguments that come first, how many more of any type
may follow, and the size of the array. The run has, as the first, none, all but
one, or all of the integer and floating-point registers' worth of ints and
doubles, and after them two of any of 12 types: chars, pointers, long longs,
floats, doubles, and structs of 1, 6, 8, 12, 16, 20 and 24 bytes with
alignments of 1, 2, 4, 8 and 16. What a push does depends on the earlier ones
only through the counts and the alignment of the next free word, which these
vary. Behind the first the array has room for 8 bytes, so that one of the two
fails, or for 64. With arguments the function returns nothing or a struct in
memory, which costs an argument register; without, it returns any type, and
structs of 1 to 40 bytes under every combination of the return flags.

### What is proved

| Theorem | Says |
| --- | --- |
| `Invariance` | `Spec => []IInv` |
| `TypeCorrectness` | `Spec => []TypeOK` |
| `ArgumentsStoredInside` | `Spec => []StoresInside` |
| `PushesKeepArguments` | `Spec => PushedKept` |
| `ReturnInvariance` | `Spec => []RInv` |
| `StructAddressArrived` | `Spec => []StructAddressArrives` |
| `ReturnValueArrived` | `Spec => []ReturnValueArrives` |
| `ArrivalInvariance` | `Spec => []AInv` |
| `ArgumentsArrived` | `Spec => [](abi.cpu \in FetchedCpus => ArgumentsArrive)` |

They hold for every ABI the model distinguishes (`ABIsAssumption`), and for
calls with any first arguments of types that C has (`CTypes`: scalars, and
structs of any size that is a multiple of their alignment, which is at most
that of the CPU's scalars), any number of further ones of any of these types,
an array of any size that is a multiple of 8 bytes, as that of an `av_alist`
is, and any return type: nothing, a scalar, or a struct of any size under any
flags (`CallsAssumption`). The instance of the run satisfies these assumptions,
and TLC evaluates them.

* `StoresInside` and `PushedKept` are not inductive: that the next push has room
  depends on what lies between the arguments and the copies of structs.
  `SpaceInv` says that this part of the array is free, that `eptr` is a multiple
  of 8 and, except on x86_64, `aptr` one of a word, since the code compares
  `aptr + size` with `eptr` for whole words; and that of armhf's first four
  words, which are registers, only those below `ianum` are taken.
* `RegInv` bounds the counts. On most CPUs a count is checked before a register
  is filled, on others (x86_64, arm64, riscv, s390) a struct or a `long long`
  may use up what is left and go to the stack.
* `PushGood`, in `AvcallList_proofs`, says that a push keeps both: for each way
  of storing an argument there is a lemma (on the stack, growing up or down, in
  one or several integer registers, in a floating-point register, in several of
  these at once, by copy), and for each macro one that goes through its `#if`s.
  A push that fails stores nothing; but a struct that is passed by reference,
  and has room for its copy and not for its address, leaves `aptr` and `eptr`
  out of order. So `IInv` asks for `SpaceInv` only while the caller pushes.
* `StartGood` says that `av_start_<type>` establishes both. The address of a
  returned struct is stored without a check, so that the array has to have
  room for it (`CallsAssumption`).

`Overruns` marks the pushes of which this is false. Its proof found an error of
the model, that a push which both overran and was disputed was recorded as only
one of the two.

For the way back `ReturnValue_proofs` strengthens `IInv` to `RInv`:

* The address of a struct to be returned in memory (`HasRaddr`): in the register
  that the CPU has for it, or in the first integer register or the first word of
  `args[]`, counted there. It stays through every push, because a push keeps
  the registers and words that are taken and never takes a count back (`Since`,
  a conjunct of `PushStep`); `HasRaddr` alone would not be inductive.
  `StartFindsRaddr` takes it from there through what `av_call` loads and the
  receiver of each CPU stores, to `va_start`.
* That the two headers decide alike between registers and memory
  (`SameDecision`), of which each has its own text.
* That what `va_return_<type>` leaves comes back through the receiver's loads and
  the stores of `av_call` as the bytes it was (`ReturnBack`, one lemma per way of
  returning: one register or a pair, words split over registers, extended
  integers, a float in a register of doubles). Sizes of structs are not bounded:
  those too large for the registers go through the address.

The exceptions are those of the properties: 0 in `disputed`, which is an address
that mipsn32 misreads or a push that overran, and `DisputedReturn`. The proof showed that no others are hidden
behind the sizes the run uses. It also found that the arms of `Single`, which
converts a float in a register of doubles, overlapped, so that `CASE` did not
say which one a register of 4 bytes on sparc64 takes; they are disjoint now.

That the arguments arrive is proved in `Fetch_proofs` and `Arrival_proofs`, for
the CPUs of `FetchedCpus`: i386, m68k, sparc, sparc64, alpha, mips64, mipsn32,
arm, arm64 in both conventions, powerpc AIX, powerpc64 in both, s390, s390x,
ia64, and x86_64 in its three.

* What a fetch returns depends on what the list was when its argument was
  pushed, on its having stayed since, and on what `av_call` and the receiver
  made of it. None of this is in the state while the function runs. So `AInv`
  says that there is a history `h`, with `h[i]` the list after `i` pushes
  (`Built`), that the `va_alist` holds all that any `h[i]` does (`Sees`), and
  that its counts are those of `h[Len(received)]` (`Match`). As it quantifies
  over histories, TLC does not evaluate it; TLC checks `ArgumentsArrive`.
* A push that fails leaves the history as it is: nothing that it stored on its
  way is fetched, and the earlier lists keep what they hold (`Since`, and
  `Marks` for the floating-point registers).
* `CallArrives` is `av_call` and the receiver: words of the stack, registers of
  either kind, and those that the receiver stores next to the stack.
* `FetchArrives` is one `va_arg_<type>`. `ArgumentArrives` has the value, by
  `ScalarArrives` and `StructArrives`: with a lemma for each way of passing,
  which takes a push and the fetch that belongs to it and shows that they agree
  on where the argument is and where the next one starts. The second half is
  what keeps `Match`.
* The fetch of an argument is right unless `Disputed` holds of its push, and so
  of those before it. Hence the bound of `ArgumentsArrive`, and why `Disputed`
  has to be complete. The proof found that it was not: it had been written from
  counterexamples on the run's types, and missed structs of sizes that the run
  does not have (on hppa those of 5 to 7 bytes, on armhf some in registers).

On mips, hppa, hppa64, armhf, powerpc sysv4, riscv32, riscv64 and loongarch64
`ArgumentsArrive` is only model-checked: they have conventions of their own, of
registers marked by place, pairs of float registers and core registers that
split an argument, words in pairs of registers, or one sequence of words of
which the first are in registers, and each would need its own lemma for every
macro. The other theorems hold for them too.

### Where the two headers disagree

`ArgumentsArrive` exempts, from the argument concerned on, the pushes for which
`Disputed` holds. Each arm of it was met as a counterexample, and the others
stay covered:

1. Structs of more than a word whose size is no multiple of one, where avcall
   lets every struct end with its last word and vacall only those of less than
   a word (`RightAdjusts`): powerpc64 big endian, powerpc AIX, mips64 and
   mipsn32 with gcc, and mips on its stack; arm and armhf big endian; m68k. On
   hppa, which puts structs at either end, those of 5 to 7 bytes.
2. hppa64: structs of more than 8 bytes and no multiple of 16. avcall rounds up
   the end to 16, vacall the beginning.
3. ia64 with `__AV_OLDGCC_STRUCT_ARGS`: structs of more than 8 bytes and an odd
   number of whole words, likewise.
4. armhf: structs in registers, little endian, of no whole number of words;
   structs aligned to 8 that begin in an odd last register, or in registers
   while `aptr` is odd; a `long long` in an odd last register (as on powerpc
   sysv4).
5. riscv, loongarch64, arm64, s390: structs aligned to more than a word, at an
   odd word of the stack. s390 and s390x: structs of less than a word on the
   stack, which avcall puts at its beginning and vacall reads at its end.
6. x86_64 System V: structs on the stack whose size is no multiple of 8, see
   Findings, or aligned to 16 at an odd word.
7. mipsn32: a struct returned in memory. vacall reads its address as 4 bytes,
   and steps over 4, of a word of 8 (vacall-internal.h:405-413); everything
   behind is misread.
8. mips o32: a struct while there were only floats before it. avcall counts it
   in `anum`, vacall does not.
9. `anum`, "redundant" in avcall-alist.h:106, 113 and 167, is not advanced for
   structs on x86_64 Windows, for structs by reference on sparc64 (marked FIXME
   in avcall-internal.h:1377), nor for the padding of 16-aligned structs.

Nor are these return values assigned as they were returned (`DisputedReturn`):
structs of more than 24 bytes on sparc64, see Findings; structs of 17 to 32
bytes but 24 on ia64, for that reason and that of `struct_return_ia64`; a
`long` on 64-bit Windows, where the library's `long` has 8 bytes and the
caller's 4, so that four more are stored; structs of 3 bytes on arm and armhf,
of which 4 are stored (avcall-arm.c:134, under a comment that explains the 3).

On arm64 macOS `av_double` checks for one word and stores two
(avcall-internal.h:859); on x86_64 a misaligned `aptr` makes a later check pass
too early. `Overruns` marks these, and `StoresInside` holds of the rest.

`av_overflown` is commented "Delayed overflow detection" (avcall.h:323). Since
the change of 2017-01-29 in which pushes check before they move `aptr`, it
stays 0 after most pushes that failed; only pushes by reference, and
ia64's old convention, still leave `aptr` behind `eptr`. The model therefore
lets a caller go on after a push that failed: what was pushed before arrives.

## Code templates: `TrampolineLayout`

`alloc_trampoline[_r]` builds a closure with stores of constants at constant
offsets, different for each CPU. `TemplatesR` (callback) and `TemplatesG` (the
closures with a global variable) have one definition per CPU that is compiled,
with three independent columns: where alloc stores a value, from where the
instructions take it, from where the query macros take it. A value may be cut
into pieces, such as the 22 and 10 bits of sparc's `sethi` and `or` or the
parts that x86_64 puts into aligned stores. On hppa, AIX and ia64 the slot is a
function descriptor, and the instructions are those of `tramp-<cpu>-*.S`.
`CodeTemplate` has the notation.

`TrampolineLayout` executes a template on a slot whose bits are symbols:
stores in the order of their addresses, the two words behind it, the flush of
the instruction cache, and then any call or query, until the slot is used again.
The instructions are symbols too, so that the constants of the opcodes, which
`is_tramp` compares, are not checked; displacements inside them are.

| Run | Instance | Checks |
| --- | --- | --- |
| `layout` | all templates in both byte orders in which they are used, except riscv32 of callback | `CallsAsAllocated`, `QueriesReadBack`, `NextSlotKept`, `StoresAligned` |
| `layout_riscv32` | riscv32 of callback | `CallsAsAllocated`, violated |

There is no bound: the slots have their real size. Equal templates count once.
Since the run goes through all of them, there is nothing left to prove.

## Findings

* `struct_return_sign`: `__avrword` and `__varword` are signed, and the code
  shifts words right as if they were not. On little endian CPUs `avcall` is
  affected: a struct of two `long`s `{-1, 2}`, aligned, is stored as
  `{-1, -1}` (avcall-x86_64.c:325 and the same text elsewhere). On big endian
  CPUs it is `vacall` (vacall-mips64.c:467), and `avcall` for structs
  that are not aligned. The reference version has no such effect.
* `struct_return_shared`: the read-modify-write of the words at both ends of
  the struct loses a store by another thread to data next to it, in a package
  documented as multithread-safe.
* `struct_return_ia64`: masks of structs of three and four words are computed
  with the wrong multiple of the word size, and the fourth word from the wrong
  registers (avcall-ia64.c:279-301). vacall-ia64.c computes its masks with the
  same multiples (lines 241, 247, 256 and 263): the last register also carries
  the bytes behind the callback's struct, which `avcall` then stores behind the
  caller's. (vacall-sparc64.c and avcall-sparc64.c, the other ones with four
  words, have the right multiples.)
* `layout_riscv32`: the store of the address is at offset 24, the instruction
  that loads it and the query use 20, and the slot ends at 24
  (callback/trampoline_r/trampoline.c:1227).
* `arguments_sysv`: on x86_64, a struct on the stack takes its size, rounded up
  to its alignment only. Of a struct of five `int`s the last one is not passed,
  and what is pushed after it is not where the function looks
  (avcall-internal.h:1484, avcall-x86_64.c:80).
* `return_sparc64`: vacall's buffer for a struct that is returned in registers
  has two words, while sparc64 and ia64 return up to four words in registers:
  a struct of more than 24 bytes overwrites the pointer to itself
  (vacall-internal.h:104).
* `allocator_weak`: the unsynchronised test of `pagesize` (trampoline.c:404).
  With `StoresOrdered` FALSE, a thread that is not ordered after
  `for_mmap_init` may read the initial value of `file_fd`. What would happen to
  descriptor 0 is not modelled further than that the allocation fails.

## Not modelled

* The other variants of the allocator (malloc and mprotect, anonymous mmap,
  VirtualAlloc): alternatives at build time that differ in where a page comes
  from; the lock and the list around them are the same text.
* The allocator of `trampoline`: the same text as that of `trampoline_r`, so
  that a model of it would say the same. Its closures, and `vacall` without
  `callback`, pass data in a global variable, which nested and concurrent calls
  overwrite; the manual pages say so (trampoline.3:106, vacall.3:270), so that
  no property is left to state. `TrampolineLayout` has its templates.
* `fork`: the two processes would share the pages of the file and not the list.
  Neither code nor documentation says anything of it.
* Structs returned in floating-point registers (mipsn32, mips64), and the
  struct conventions of the old Sun compilers on sparc, one of which uses a
  static buffer.
* Structs on the way into and out of registers are word aligned in
  `ReturnValue`; for all others see `StructReturn`.
* The assembler files are modelled through the C files they are generated from.
* `m4`, the version symbol, the ports, the assembler macros, structure copy and
  the tests have no state or no run-time behaviour of their own.
