-------------------------- MODULE TrampolineLayout --------------------------
(* One slot, from alloc_trampoline[_r] to free_trampoline[_r], bit by bit: the
   stores that make a closure of it, the flush of the instruction cache, and
   what a call of the closure and the queries then take out of it.

   Part 2 to 4 of alloc_trampoline_r (src/callback/trampoline_r/trampoline.c)
   and of alloc_trampoline (src/trampoline/trampoline.c). The CPU is chosen
   initially; modules TemplatesR and TemplatesG describe the CPUs.

   The values are symbolic. <<f, b, o>> is bit b of the f-th field, where o is
   what the code has subtracted from it besides the slot's address: 0, except
   for relative jumps. <<0, b, 0>> is bit b of the slot as the instructions of
   the template have it, and Old is a bit that was there before.             *)
EXTENDS CodeTemplate, FiniteSets

CONSTANTS TemplatesOfR,  \* templates of callback/trampoline_r
          TemplatesOfG   \* templates of trampoline

VARIABLES template,  \* of the CPU
          big,       \* is the CPU big-endian?
          tail,      \* words behind the template: data0, data1, or none
          slot,      \* the bits of the slot and of the first word after it
          icache,    \* the same, as instructions are fetched
          left,      \* <<field, piece>>, stores to do; field 0: instructions
          phase

vars == <<template, big, tail, slot, icache, left, phase>>

Old == <<-1, 0, 0>>

Fields == DOMAIN template.stores

TRAMP_TOTAL_LENGTH == template.length + tail * template.word

Stores(t) ==
  {<<0, p>> : p \in t.code} \cup
  UNION {{<<f, p>> : p \in t.stores[f]} : f \in DOMAIN t.stores}

Fresh(t, n) ==
  [m \in 0 .. 8 * (t.length + (n + 1) * t.word) - 1 |-> Old]

Init ==
  /\ \E n \in {0, 2} :
       /\ tail = n
       /\ template \in IF n = 2 THEN TemplatesOfR ELSE TemplatesOfG
  /\ big \in template.orders
  /\ slot = Fresh(template, tail)
  /\ icache = Fresh(template, tail)
  /\ left = Stores(template)
  /\ phase = "template"

(* The next store of the template. They are written down, and compiled, in the
   order of their addresses.                                                 *)
Fill ==
  /\ phase = "template"
  /\ \E s \in left :
       /\ \A r \in left : s[2].at <= r[2].at
       /\ LET Bit(b) == IF s[1] = 0 THEN <<0, 8 * s[2].at + b, 0>>
                        ELSE IF s[1] = Len(template.stores)  \* the address
                             THEN <<s[1], b, template.base[1]>>
                             ELSE <<s[1], b, 0>>
          IN slot' = Stored(slot, {s[2]}, Bit, big)
       /\ left' = left \ {s}
  /\ phase' = IF left' = {} THEN "data" ELSE "template"
  /\ UNCHANGED <<template, big, tail, icache>>

\* data[0] = data0; data[1] = data1. Bits of these have the field numbers 11, 12.
DataWord(k) == {Unit(template.length + k * template.word, template.word)}

FillData ==
  /\ phase = "data"
  /\ LET Bit(k, b) == <<11 + k, b, 0>>
         Bit0(b) == Bit(0, b)
         Bit1(b) == Bit(1, b)
     IN slot' = IF tail = 0 THEN slot
                ELSE Stored(Stored(slot, DataWord(0), Bit0, big), DataWord(1), Bit1, big)
  /\ phase' = "flush"
  /\ UNCHANGED <<template, big, tail, icache, left>>

(* The instruction cache. It has the old contents up to here, or, if other
   code of the same cache line was executed, any part of the new; the old are
   the worse.                                                                *)
Flush ==
  /\ phase = "flush"
  /\ icache' = [m \in DOMAIN slot |->
                  IF m \div 8 < template.flush THEN slot[m] ELSE icache[m]]
  /\ phase' = "ready"
  /\ UNCHANGED <<template, big, tail, slot, left>>

\* free_trampoline[_r], and the next closure in the same slot, for which all
\* contents are old.
Recycle ==
  /\ phase = "ready"
  /\ slot' = Fresh(template, tail)
  /\ icache' = Fresh(template, tail)
  /\ left' = Stores(template)
  /\ phase' = "template"
  /\ UNCHANGED <<template, big, tail>>

Next == Fill \/ FillData \/ Flush \/ Recycle

Spec == Init /\ [][Next]_vars
-----------------------------------------------------------------------------
\* Field f with o subtracted, as a set of bits.
Value(f, o) == {<<b, <<f, b, o>>>> : b \in 0 .. 8 * template.word - 1}

Base(k, f) == IF f = Len(template.stores) THEN template.base[k] ELSE 0

\* Where the instructions of the slot are fetched from. A slot without
\* instructions is data of the routine tramp[_r].
Text == IF template.flush = -1 THEN slot ELSE icache

Operands == IF template.operands = "icache" THEN icache ELSE slot

\* The bits of the slot that are part of its instructions, or its descriptor.
InstructionsIntact(mem) ==
  \A p \in template.fetched : \A m \in DOMAIN mem :
    Covers(p, m, big) => mem[m][1] = 0

(* A call of a closure runs the instructions of its template, with the values
   that were given to alloc_trampoline[_r] as operands: the address is called,
   the variable is stored to, and the data arrive, which for callbacks means
   both words that the data pointer points to. Neither the pieces into which
   values are cut, nor stores that are wider than what they store, nor the
   flushed range leave anything out.                                         *)
CallsAsAllocated ==
  phase = "ready" =>
    /\ InstructionsIntact(Text)
    /\ \A f \in Fields :
         Loaded(Operands, template.loads[f], big) = Value(f, Base(1, f))
    /\ template.base[1] = template.base[2]
    /\ tail = 2 => \A k \in {0, 1} :
                     Loaded(slot, DataWord(k), big) = Value(11 + k, 0)

(* The queries take out of a closure what was given to alloc_trampoline[_r]:
   is_tramp finds the instructions, tramp_address, tramp_variable and
   tramp_data the values, trampoline_r_data0 and trampoline_r_data1 the words
   behind them.                                                              *)
QueriesReadBack ==
  phase = "ready" =>
    /\ InstructionsIntact(slot)
    /\ \A f \in Fields :
         Loaded(slot, template.reads[f], big) = Value(f, Base(1, f))
    /\ template.base[1] = template.base[3]
    /\ tail = 2 => \A k \in {0, 1} :
                     Loaded(slot, DataWord(k), big) = Value(11 + k, 0)

(* Filling a slot changes nothing beyond it. The next slot of the page may
   begin TRAMP_TOTAL_LENGTH after this one.                                  *)
NextSlotKept ==
  \A m \in DOMAIN slot : m >= 8 * TRAMP_TOTAL_LENGTH => slot[m] = Old

(* Slots are aligned well enough for the stores of their template and of the
   words behind it, and for the link of the free list, on CPUs that cannot
   store to unaligned addresses. (All slots are multiples of TRAMP_ALIGN.)   *)
AlignedFor(p) ==
  LET need == IF p.size < template.unit THEN p.size ELSE template.unit
  IN p.at % need = 0 /\ template.align % need = 0

StoresAligned ==
  \A p \in {s[2] : s \in left} \cup {Unit(0, template.word)}
           \cup (IF tail = 2 THEN DataWord(0) \cup DataWord(1) ELSE {}) :
    AlignedFor(p)
=============================================================================
