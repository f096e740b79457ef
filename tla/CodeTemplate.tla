---------------------------- MODULE CodeTemplate ----------------------------
(* How the description of one code template is written down. A template says
   what alloc_trampoline[_r] stores into a slot on one CPU, what the CPU, or
   the routine tramp[_r] that the slot refers to, takes out of it, and what the
   macros tramp_address, tramp_variable and tramp_data take out of it.

   A piece is a group of bits of a value and where it lies: bits low, low + 1,
   ... of the value are the bits shift, shift + 1, ... of the unit of `size'
   bytes at offset `at' of the slot. A bit of the slot is numbered by its byte
   and its weight in that byte, so that the byte order decides which bytes of a
   unit a piece touches.                                                     *)
EXTENDS Integers, Sequences

Piece(at, size, shift, low, bits) ==
  [at |-> at, size |-> size, shift |-> shift, low |-> low, bits |-> bits]

\* A whole unit of instructions or data.
Unit(at, size) == Piece(at, size, 0, 0, 8 * size)

\* The bit of the value of piece p that is bit m of the slot.
UnitBit(p, m, big) ==
  LET byte == m \div 8
  IN 8 * (IF big THEN p.at + p.size - 1 - byte ELSE byte - p.at) + (m % 8)

ValueBit(p, m, big) == p.low + UnitBit(p, m, big) - p.shift

Covers(p, m, big) ==
  /\ m \div 8 \in p.at .. p.at + p.size - 1
  /\ UnitBit(p, m, big) \in p.shift .. p.shift + p.bits - 1

\* The slot after the pieces P of a value have been stored.
Stored(slot, P, value(_), big) ==
  [m \in DOMAIN slot |->
     IF \E p \in P : Covers(p, m, big)
     THEN value(ValueBit(CHOOSE p \in P : Covers(p, m, big), m, big))
     ELSE slot[m]]

\* The value that is put together from pieces P of the slot: its bits.
Loaded(slot, P, big) ==
  UNION {{<<ValueBit(p, m, big), slot[m]>> : m \in {i \in DOMAIN slot : Covers(p, i, big)}}
           : p \in P}

(* The two shapes of templates. In one the instructions load their operands
   from words that follow them, at the offsets given. `code' is the length of
   the instructions (or of the function descriptor, if there are none), `flush'
   the bytes that are flushed from the instruction cache, -1 if the slot holds
   no instructions. In the other the operands are in the instructions.       *)
DataWords(r) ==
  LET Words(offsets) == [i \in DOMAIN offsets |-> {Unit(offsets[i], r.word)}]
  IN [word |-> r.word, orders |-> r.orders, length |-> r.length,
      align |-> r.align, unit |-> r.word, flush |-> r.flush,
      code |-> {Unit(0, r.code)}, fetched |-> {Unit(0, r.code)},
      operands |-> "mem", base |-> <<0, 0, 0>>,
      stores |-> Words(r.stores), loads |-> Words(r.loads),
      reads |-> Words(r.reads)]

InCode(r) ==
  [word |-> r.word, orders |-> r.orders, length |-> r.length,
   align |-> r.align, unit |-> r.unit, flush |-> r.flush,
   code |-> r.code, fetched |-> r.fetched,
   operands |-> "icache", base |-> r.base,
   stores |-> r.stores, loads |-> r.loads, reads |-> r.reads]

\* Byte orders a CPU is used with: big-endian is TRUE.
Little == {FALSE}
Big == {TRUE}
Either == {FALSE, TRUE}
=============================================================================
