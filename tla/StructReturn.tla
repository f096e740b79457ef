---------------------------- MODULE StructReturn ----------------------------
(***************************************************************************)
(* A struct returned in registers, from a callback to its caller.  In the  *)
(* callback, vacall-<cpu>.c loads the struct that va_return_struct left in *)
(* memory into the return registers; in the caller, avcall-<cpu>.c stores  *)
(* the return registers to the memory that av_start_struct was given.      *)
(* Both use whole words at word addresses: a struct that is not word       *)
(* aligned straddles words it shares with its neighbours in memory.        *)
(*                                                                         *)
(* A byte is a set of bits, of which only the sign bit is told from the    *)
(* others.  A word is its bytes in address order: byte 0 has the lowest    *)
(* address, whatever the endianness.                                       *)
(***************************************************************************)
EXTENDS Integers, FiniteSets, Sequences

CONSTANTS
  W,              \* sizeof (__avrword) = sizeof (__varword), in bytes
  Cpus,           \* the CPUs considered
  Bytes,          \* the bytes that structs are made of
  Concurrent      \* TRUE: another thread uses the memory next to the struct

Byte == SUBSET {"lo", "sign"}
Ones == {"lo", "sign"}

ASSUME ReturnAssumption ==
  W \in Nat \ {0} /\ Bytes \subseteq Byte /\ Concurrent \in BOOLEAN

Index == 0..(W - 1)
Word  == [Index -> Byte]

CeilDiv(a, b) == (a + b - 1) \div b

-----------------------------------------------------------------------------
(* __avrword and __varword, which are signed types: `>>' replicates the    *)
(* sign bit.  Shifts are by whole bytes.                                   *)

Fill(order, w) ==
  LET sign == w[IF order = "little" THEN W - 1 ELSE 0]
  IN  IF "sign" \in sign THEN Ones ELSE {}

(* The shift that moves bytes to higher addresses by n: `<<' on a little   *)
(* endian machine, `>>' on a big endian one.  n = W is written as two      *)
(* shifts by W/2, so that it is defined.                                   *)
Up(order, w, n) ==
  LET fill == IF order = "little" THEN {} ELSE Fill(order, w)
  IN  [a \in Index |-> IF a >= n THEN w[a - n] ELSE fill]

(* The shift that moves bytes to lower addresses.                          *)
Down(order, w, n) ==
  LET fill == IF order = "little" THEN Fill(order, w) ELSE {}
  IN  [a \in Index |-> IF a + n < W THEN w[a + n] ELSE fill]

Or(v, w) == [a \in Index |-> v[a] \cup w[a]]

And(w, mask) == [a \in Index |-> IF a \in mask THEN w[a] ELSE {}]

(* Mutant: a mask that is one byte too long.                               *)
MaskTooLong(start, n, k) ==
  {a \in Index : (k - 1) * W + a \in start..(start + n)}

(* The bytes of the k-th word that belong to a struct of n bytes at        *)
(* start_offset.                                                           *)
Mask(start, n, k) == {a \in Index : (k - 1) * W + a \in start..(start + n - 1)}

(* The words a struct of n bytes at start_offset overlaps, and the         *)
(* registers it fills.                                                     *)
Words(start, n)  == CeilDiv(start + n, W)
Registers(n)     == CeilDiv(n, W)

-----------------------------------------------------------------------------
(* avcall: `wordaddr[k-1] ^= (wordaddr[k-1] ^ value) & mask', for each k;  *)
(* `wordaddr[k-1] = value' is the case of a mask of ones.                  *)

(* Mutant: the two shift amounts of a word are the same.                   *)
LeftStoresUnshifted(order, start, n, r) ==
  [k \in 1..Words(start, n) |->
     [mask  |-> Mask(start, n, k),
      value |-> IF k = 1 THEN Up(order, r[1], start)
                ELSE IF k <= Registers(n)
                     THEN Or(Down(order, r[k - 1], start),
                             Up(order, r[k], start))
                     ELSE Down(order, r[k - 1], W - start)]]

(* The struct starts at the lowest address of the first register.          *)
LeftStores(order, start, n, r) ==
  [k \in 1..Words(start, n) |->
     [mask  |-> Mask(start, n, k),
      value |-> IF k = 1 THEN Up(order, r[1], start)
                ELSE IF k <= Registers(n)
                     THEN Or(Down(order, r[k - 1], W - start),
                             Up(order, r[k], start))
                     ELSE Down(order, r[k - 1], W - start)]]

(* The struct ends at the highest address of the last register.            *)
RightStores(order, start, n, r) ==
  LET words == Words(start, n)
      rest  == words * W - (start + n)
      reg   == [k \in 0..words |-> k - words + Registers(n)]
  IN  [k \in 1..words |->
         [mask  |-> Mask(start, n, k),
          value |-> IF k = words THEN Down(order, r[Registers(n)], rest)
                    ELSE IF reg[k] >= 1
                         THEN Or(Down(order, r[reg[k]], rest),
                                 Up(order, r[reg[k] + 1], W - rest))
                         ELSE Up(order, r[1], W - rest)]]

(* avcall-ia64.c: beyond two registers the last mask subtracts too few     *)
(* bits from end_offset, so that it is shifted by more than a word, which  *)
(* on this CPU yields 0, and less 1 a mask of ones; and the last word of   *)
(* four is made of iret and iret2 instead of iret3 and iret4.              *)
Ia64Stores(start, n, r) ==
  LET left  == LeftStores("little", start, n, r)
      last  == Len(left)
      wrong == Or(Down("little", r[1], W - start), Up("little", r[2], start))
  IN  IF Registers(n) <= 2 THEN left
      ELSE [left EXCEPT ![last] =
              [mask  |-> Index,
               value |-> IF last = 4 /\ Registers(n) = 4 THEN wrong
                         ELSE left[last].value]]

(* vacall: the registers from the words of memory.                         *)

WordAt(m, k) == [a \in Index |-> m[(k - 1) * W + a]]

(* Mutant: what a register has from the next word is left out.             *)
LeftLoadsUnjoined(order, start, n, m) ==
  [j \in 1..Registers(n) |-> Down(order, WordAt(m, j), start)]

LeftLoads(order, start, n, m) ==
  LET words == Words(start, n)
      word  == [k \in 1..words |->
                  IF k = words THEN And(WordAt(m, k), 0..((start + n - 1) % W))
                  ELSE WordAt(m, k)]
  IN  [j \in 1..Registers(n) |->
         IF j < words
         THEN Or(Down(order, word[j], start), Up(order, word[j + 1], W - start))
         ELSE Down(order, word[j], start)]

(* vacall-ia64.c: beyond two registers the mask is one of ones, for the    *)
(* reason that it is in avcall-ia64.c.  What is loaded is therefore the    *)
(* struct and what follows it, up to the end of its last word.             *)
Ia64Loads(start, n, m) ==
  LET toWordEnd == Words(start, n) * W - start
  IN  IF Registers(n) <= 2 THEN LeftLoads("little", start, n, m)
      ELSE SubSeq(LeftLoads("little", start, toWordEnd, m), 1, Registers(n))

RightLoads(order, start, n, m) ==
  LET words == Words(start, n)
      rest  == words * W - (start + n)
      word  == [k \in 1..words |->
                  IF k = 1 THEN And(WordAt(m, k), start..(W - 1))
                  ELSE WordAt(m, k)]
  IN  [j \in 1..Registers(n) |->
         LET k == j + words - Registers(n)
         IN  IF k > 1
             THEN Or(Up(order, word[k], rest), Down(order, word[k - 1], W - rest))
             ELSE Up(order, word[k], rest)]

-----------------------------------------------------------------------------
(* The CPUs: which structs are returned in registers, and how.             *)

avcall_x86_64(s, n, r)      == LeftStores("little", s, n, r)
avcall_arm64(s, n, r)       == LeftStores("little", s, n, r)
avcall_loongarch64(s, n, r) == LeftStores("little", s, n, r)
avcall_powerpc64(s, n, r)   == LeftStores("little", s, n, r)
avcall_riscv32(s, n, r)     == LeftStores("little", s, n, r)
avcall_riscv64(s, n, r)     == LeftStores("little", s, n, r)
avcall_windows(s, n, r)     == LeftStores("little", s, n, r)
avcall_mips64el(s, n, r)    == LeftStores("little", s, n, r)
avcall_mips64(s, n, r)      == LeftStores("big", s, n, r)
avcall_mipsn32(s, n, r)     == LeftStores("big", s, n, r)
avcall_hppa64(s, n, r)      == LeftStores("big", s, n, r)
avcall_sparc64(s, n, r)     == LeftStores("big", s, n, r)
avcall_hppa(s, n, r)        == RightStores("big", s, n, r)
avcall_ia64(s, n, r)        == Ia64Stores(s, n, r)

avcall(cpu, s, n, r) ==
  CASE cpu = "x86_64"      -> avcall_x86_64(s, n, r)
    [] cpu = "arm64"       -> avcall_arm64(s, n, r)
    [] cpu = "loongarch64" -> avcall_loongarch64(s, n, r)
    [] cpu = "powerpc64"   -> avcall_powerpc64(s, n, r)
    [] cpu = "riscv32"     -> avcall_riscv32(s, n, r)
    [] cpu = "riscv64"     -> avcall_riscv64(s, n, r)
    [] cpu = "windows"     -> avcall_windows(s, n, r)
    [] cpu = "mips64el"    -> avcall_mips64el(s, n, r)
    [] cpu = "mips64"      -> avcall_mips64(s, n, r)
    [] cpu = "mipsn32"     -> avcall_mipsn32(s, n, r)
    [] cpu = "hppa64"      -> avcall_hppa64(s, n, r)
    [] cpu = "sparc64"     -> avcall_sparc64(s, n, r)
    [] cpu = "hppa"        -> avcall_hppa(s, n, r)
    [] cpu = "ia64"        -> avcall_ia64(s, n, r)

vacall_x86_64(s, n, m)      == LeftLoads("little", s, n, m)
vacall_arm64(s, n, m)       == LeftLoads("little", s, n, m)
vacall_loongarch64(s, n, m) == LeftLoads("little", s, n, m)
vacall_powerpc64(s, n, m)   == LeftLoads("little", s, n, m)
vacall_riscv32(s, n, m)     == LeftLoads("little", s, n, m)
vacall_riscv64(s, n, m)     == LeftLoads("little", s, n, m)
vacall_windows(s, n, m)     == LeftLoads("little", s, n, m)
vacall_mips64el(s, n, m)    == LeftLoads("little", s, n, m)
vacall_ia64(s, n, m)        == Ia64Loads(s, n, m)
vacall_mips64(s, n, m)      == LeftLoads("big", s, n, m)
vacall_mipsn32(s, n, m)     == LeftLoads("big", s, n, m)
vacall_hppa64(s, n, m)      == LeftLoads("big", s, n, m)
vacall_sparc64(s, n, m)     == LeftLoads("big", s, n, m)
vacall_hppa(s, n, m)        == RightLoads("big", s, n, m)

vacall(cpu, s, n, m) ==
  CASE cpu = "x86_64"      -> vacall_x86_64(s, n, m)
    [] cpu = "arm64"       -> vacall_arm64(s, n, m)
    [] cpu = "loongarch64" -> vacall_loongarch64(s, n, m)
    [] cpu = "powerpc64"   -> vacall_powerpc64(s, n, m)
    [] cpu = "riscv32"     -> vacall_riscv32(s, n, m)
    [] cpu = "riscv64"     -> vacall_riscv64(s, n, m)
    [] cpu = "windows"     -> vacall_windows(s, n, m)
    [] cpu = "mips64el"    -> vacall_mips64el(s, n, m)
    [] cpu = "mips64"      -> vacall_mips64(s, n, m)
    [] cpu = "mipsn32"     -> vacall_mipsn32(s, n, m)
    [] cpu = "hppa64"      -> vacall_hppa64(s, n, m)
    [] cpu = "sparc64"     -> vacall_sparc64(s, n, m)
    [] cpu = "hppa"        -> vacall_hppa(s, n, m)
    [] cpu = "ia64"        -> vacall_ia64(s, n, m)

(* The sizes of the structs that are returned in registers.                *)
InRegisters(cpu) ==
  CASE cpu = "windows"             -> {1, 2, 4, 8} \cap (1..W)
    [] cpu \in {"sparc64", "ia64"} -> 1..(4 * W)
    [] OTHER                       -> 1..(2 * W)

-----------------------------------------------------------------------------
VARIABLES
  cpu, count,     \* the CPU, and rsize
  va_offset,      \* start_offset of the struct in the callback
  av_offset,      \* start_offset of the memory in its caller
  struct,         \* the callback's words, those that overlap the struct
  iret,           \* the return registers
  wordaddr,       \* the caller's words
  next,           \* the word that is stored next
  loaded,         \* its old contents, once they are in a register
  outside,        \* what the caller's other data must be
  pc

vars == <<cpu, count, va_offset, av_offset, struct, iret, wordaddr, next,
          loaded, outside, pc>>
call == <<cpu, count, va_offset, av_offset, struct>>

Memory(start, n) == 0..(Words(start, n) * W - 1)
InStruct(start, n, a) == a \in start..(start + n - 1)

(* The structs considered: all bytes are alike but one, which is enough to *)
(* tell where each byte goes and what its sign does to the others.         *)
Contents(n) ==
  {[i \in 0..(n - 1) |-> IF i = j THEN x ELSE y] :
     j \in 0..(n - 1), x \in Bytes, y \in Bytes}

Old == {"lo"}      \* what is in the caller's memory at first
New == Ones        \* what another thread stores next to the struct

Nothing == [a \in Index |-> {}]

Init ==
  /\ cpu \in Cpus
  /\ count \in InRegisters(cpu)
  /\ va_offset \in Index /\ av_offset \in Index
  /\ \E content \in Contents(count), other \in Bytes :
       struct = [a \in Memory(va_offset, count) |->
                   IF InStruct(va_offset, count, a)
                   THEN content[a - va_offset] ELSE other]
  /\ iret = <<>>
  /\ wordaddr = [a \in Memory(av_offset, count) |-> Old]
  /\ outside = [a \in {b \in Memory(av_offset, count) :
                         ~InStruct(av_offset, count, b)} |-> Old]
  /\ next = 1 /\ loaded = Nothing /\ pc = "return"

(* The callback returns: __vacall puts the struct into the registers.      *)
Return ==
  /\ pc = "return"
  /\ iret' = vacall(cpu, va_offset, count, struct)
  /\ pc' = "load"
  /\ UNCHANGED <<call, wordaddr, next, loaded, outside>>

(* `wordaddr[i] ^= ...' reads the word ...                                 *)
LoadWord ==
  /\ pc = "load"
  /\ loaded' = WordAt(wordaddr, next)
  /\ pc' = "store"
  /\ UNCHANGED <<call, iret, wordaddr, next, outside>>

(* Mutant: one word too many is stored.                                    *)
StoreWordTooMany ==
  /\ pc = "store"
  /\ LET store == avcall(cpu, av_offset, count, iret)[next]
         first == (next - 1) * W
     IN  wordaddr' = [a \in DOMAIN wordaddr |->
                        IF a - first \notin Index THEN wordaddr[a]
                        ELSE IF a - first \in store.mask
                             THEN store.value[a - first] ELSE loaded[a - first]]
  /\ loaded' = Nothing
  /\ next' = next + 1
  /\ pc' = IF next > Words(av_offset, count) THEN "done" ELSE "load"
  /\ UNCHANGED <<call, iret, outside>>

(* ... and writes it back, with the bytes of the struct replaced.          *)
StoreWord ==
  /\ pc = "store"
  /\ LET store == avcall(cpu, av_offset, count, iret)[next]
         first == (next - 1) * W
     IN  wordaddr' = [a \in DOMAIN wordaddr |->
                        IF a - first \notin Index THEN wordaddr[a]
                        ELSE IF a - first \in store.mask
                             THEN store.value[a - first] ELSE loaded[a - first]]
  /\ loaded' = Nothing
  /\ next' = next + 1
  /\ pc' = IF next = Words(av_offset, count) THEN "done" ELSE "load"
  /\ UNCHANGED <<call, iret, outside>>

(* Another thread assigns a variable of its own, next to the struct (once: *)
(* a bound).                                                               *)
NeighbourStores ==
  /\ Concurrent /\ \A a \in DOMAIN outside : outside[a] = Old
  /\ \E a \in DOMAIN outside :
       /\ outside' = [outside EXCEPT ![a] = New]
       /\ wordaddr' = [wordaddr EXCEPT ![a] = New]
  /\ UNCHANGED <<call, iret, next, loaded, pc>>

Returned == pc = "done" /\ UNCHANGED vars

Next == Return \/ LoadWord \/ StoreWord \/ NeighbourStores \/ Returned

Spec == Init /\ [][Next]_vars

-----------------------------------------------------------------------------
(* Properties.                                                             *)

(* The registers, the words and the position have their types: only words  *)
(* that overlap the struct are accessed.                                   *)
TypeOK ==
  /\ pc \in {"return", "load", "store", "done"}
  /\ iret \in Seq(Word) /\ Len(iret) <= 4
  /\ wordaddr \in [Memory(av_offset, count) -> Byte]
  /\ next \in 1..(Words(av_offset, count) + IF pc = "done" THEN 1 ELSE 0)
  /\ loaded \in Word

SameBytes ==
  \A i \in 0..(count - 1) : wordaddr[av_offset + i] = struct[va_offset + i]

(* A struct of long or pointer fields is word aligned.  What               *)
(* va_return_struct returns of it is what av_call stores: the caller finds *)
(* the bytes of the callback's struct.                                     *)
ReturnedExactly ==
  pc = "done" /\ va_offset = 0 /\ av_offset = 0 => SameBytes

(* The bytes whose sign bit would be replicated into another byte.         *)
NonNegative ==
  \A i \in 0..(count - 1) : "sign" \notin struct[va_offset + i]

(* The caller finds the bytes of the callback's struct, however the two    *)
(* are aligned and whatever the neighbours hold and do: if no byte has its *)
(* sign bit set, or if the struct fits a register and lies in one word of  *)
(* the callback's memory.                                                  *)
ReturnedUnlessNegative ==
  pc = "done" /\ (NonNegative \/ va_offset + count <= W) => SameBytes

(* Storing the struct does not change, even for a moment, the bytes of its *)
(* first and last word that belong to something else and that no other     *)
(* thread assigns.                                                         *)
BystandersKept ==
  \A a \in DOMAIN outside : outside[a] = Old => wordaddr[a] = Old

(* Nor does it undo what another thread assigns to them: avcall is         *)
(* multithread-safe.                                                       *)
NeighboursKept ==
  \A a \in DOMAIN outside : wordaddr[a] = outside[a]
=============================================================================
