------------------------ MODULE StructReturn_proofs ------------------------
(***************************************************************************)
(* Proofs about StructReturn, for every width of a word, all alignments,   *)
(* sizes and contents of a struct, on the CPUs that use the code of        *)
(* LeftStores and LeftLoads or of RightStores and RightLoads.              *)
(*                                                                         *)
(* The argument has three parts.  The registers hold the bytes of the      *)
(* struct, from the first byte on or up to the last (LeftLoadsHold,        *)
(* RightLoadsHold): the words of memory are shifted by what the struct is  *)
(* misaligned, and a shift brings in zeros where the neighbouring word has *)
(* its part.  The bytes under the mask of each word that is stored are     *)
(* bytes of the struct, each in its place (LeftStoresBytes,                *)
(* RightStoresBytes).  And the stores, one word after the other, leave     *)
(* alone what is not under their masks (IInv).                             *)
(***************************************************************************)
EXTENDS StructReturn, SequenceTheorems, TLAPS

LittleCpus == {"x86_64", "arm64", "loongarch64", "powerpc64", "riscv32",
               "riscv64", "windows", "mips64el"}
BigCpus    == {"mips64", "mipsn32", "hppa64", "sparc64"}
LeftCpus   == LittleCpus \cup BigCpus

Order(c) == IF c \in LittleCpus THEN "little" ELSE "big"

(* How many bytes of the first register come before the struct.            *)
Pad(c, n) == IF c = "hppa" THEN Registers(n) * W - n ELSE 0

(* The registers r hold the n bytes s after pad others.                    *)
Holds(r, pad, n, s) ==
  \A j \in 1..Registers(n), a \in Index :
    (j - 1) * W + a - pad \in 0..(n - 1) => r[j][a] = s[(j - 1) * W + a - pad]

(* The bytes of a struct that lies in m from start on.                     *)
BytesOf(m, start, n) == [i \in 0..(n - 1) |-> m[start + i]]

Unsigned(n, s) == \A i \in 0..(n - 1) : "sign" \notin s[i]

-----------------------------------------------------------------------------
(* Words and bytes.                                                        *)

LEMMA WidthType == W \in Nat /\ W > 0 /\ W \in Int
BY ReturnAssumption

LEMMA Monotonic ==
  ASSUME NEW i \in Int, NEW j \in Int, i <= j
  PROVE  i * W <= j * W
BY WidthType

LEMMA Distributes ==
  ASSUME NEW i \in Int
  PROVE  /\ i * W \in Int
         /\ (i - 1) * W = i * W - W /\ (i + 1) * W = i * W + W
BY WidthType

(* The number of words that cover x bytes is the least that is enough.     *)
LEMMA WordsBound ==
  ASSUME NEW x \in Nat \ {0}
  PROVE  /\ CeilDiv(x, W) \in Nat \ {0}
         /\ (CeilDiv(x, W) - 1) * W < x /\ x <= CeilDiv(x, W) * W
<1> DEFINE words == (x + W - 1) \div W
<1>1. words \in Int /\ words * W <= x + W - 1 /\ x + W - 1 < words * W + W
  BY WidthType
<1> HIDE DEF words
<1>2. words >= 1
  <2>1. SUFFICES ASSUME words <= 0 PROVE FALSE
    BY <1>1
  <2>2. words * W <= 0 * W /\ 0 * W = 0
    BY <1>1, <2>1, WidthType, Monotonic
  <2> QED
    BY <1>1, <2>2, WidthType
<1>3. (words - 1) * W < x /\ x <= words * W
  BY <1>1, Distributes, WidthType
<1> QED
  BY <1>1, <1>2, <1>3 DEF CeilDiv, words

(* A struct that is shifted by less than a word overlaps as many words as  *)
(* it fills registers, or one more.                                        *)
LEMMA WordsAndRegisters ==
  ASSUME NEW n \in Nat \ {0}, NEW start \in Index
  PROVE  /\ Registers(n) \in Nat \ {0} /\ Words(start, n) \in Nat \ {0}
         /\ Words(start, n) \in {Registers(n), Registers(n) + 1}
         /\ (Registers(n) - 1) * W < n /\ n <= Registers(n) * W
         /\ (Words(start, n) - 1) * W < start + n
         /\ start + n <= Words(start, n) * W
<1> DEFINE r == Registers(n)
           w == Words(start, n)
<1>1. r \in Nat \ {0} /\ (r - 1) * W < n /\ n <= r * W
  BY WordsBound DEF Registers
<1>2. w \in Nat \ {0} /\ (w - 1) * W < start + n /\ start + n <= w * W
  <2>1. start + n \in Nat \ {0}
    BY DEF Index
  <2> QED
    BY <2>1, WordsBound DEF Words
<1> HIDE DEF r, w
<1>3. w >= r
  <2>1. SUFFICES ASSUME w <= r - 1 PROVE FALSE
    BY <1>1, <1>2
  <2>2. w * W <= (r - 1) * W
    BY <1>1, <1>2, <2>1, Monotonic
  <2> QED
    BY <1>1, <1>2, <2>2, Distributes, WidthType DEF Index
<1>4. w <= r + 1
  <2>1. SUFFICES ASSUME r + 1 <= w - 1 PROVE FALSE
    BY <1>1, <1>2
  <2>2. (r + 1) * W <= (w - 1) * W
    BY <1>1, <1>2, <2>1, Monotonic
  <2> QED
    BY <1>1, <1>2, <2>2, Distributes, WidthType DEF Index
<1> QED
  BY <1>1, <1>2, <1>3, <1>4 DEF r, w

(* Shifts, `|' and `&' make words of words.                                *)
LEMMA ShiftedWords ==
  ASSUME NEW w \in Word, NEW n \in Nat, NEW order
  PROVE  Up(order, w, n) \in Word /\ Down(order, w, n) \in Word
<1>1. Fill(order, w) \in Byte /\ {} \in Byte
  BY DEF Fill, Byte, Ones
<1>2. \A a \in Index : a >= n => a - n \in Index
  BY WidthType DEF Index
<1>3. \A a \in Index : a + n < W => a + n \in Index
  BY WidthType DEF Index
<1>4. Up(order, w, n) \in Word
  BY <1>1, <1>2 DEF Up, Word
<1>5. Down(order, w, n) \in Word
  BY <1>1, <1>3 DEF Down, Word
<1> QED
  BY <1>4, <1>5

LEMMA OrWords ==
  ASSUME NEW v \in Word, NEW w \in Word
  PROVE  Or(v, w) \in Word
BY DEF Or, Word, Byte

LEMMA MaskedWords ==
  ASSUME NEW w \in Word, NEW mask
  PROVE  And(w, mask) \in Word
BY DEF And, Word, Byte

-----------------------------------------------------------------------------
(* vacall: the registers hold the struct.                                  *)

LEMMA Remainder ==
  ASSUME NEW x \in Nat, NEW w \in Nat, w * W <= x, x < w * W + W
  PROVE  x % W = x - w * W
<1> DEFINE q == x \div W
<1>1. q \in Int /\ q * W <= x /\ x < q * W + W /\ x % W = x - q * W
  <2>1. x = W * q + (x % W) /\ x % W \in 0..(W - 1) /\ q \in Int
    BY WidthType
  <2> HIDE DEF q
  <2> QED
    BY <2>1, WidthType
<1> HIDE DEF q
<1>2. ASSUME q <= w - 1 PROVE FALSE
  <2>1. q * W <= (w - 1) * W
    BY <1>1, <1>2, Monotonic
  <2> QED
    BY <1>1, <2>1, Distributes, WidthType
<1>3. ASSUME w <= q - 1 PROVE FALSE
  <2>1. w * W <= (q - 1) * W
    BY <1>1, <1>3, Monotonic
  <2> QED
    BY <1>1, <2>1, Distributes, WidthType
<1>4. q = w
  BY <1>1, <1>2, <1>3
<1> QED
  BY <1>1, <1>4

(* The last word has end_offset bytes of the struct and of what precedes.  *)
LEMMA EndOffset ==
  ASSUME NEW n \in Nat \ {0}, NEW start \in Index
  PROVE  \A a \in Index : a \in 0..((start + n - 1) % W)
                          <=> (Words(start, n) - 1) * W + a < start + n
<1>1. start + n - 1 \in Nat /\ Words(start, n) - 1 \in Nat
  BY WordsAndRegisters DEF Index
<1>2. (Words(start, n) - 1) * W <= start + n - 1
  BY WordsAndRegisters, Distributes, WidthType DEF Index
<1>3. start + n - 1 < (Words(start, n) - 1) * W + W
  BY WordsAndRegisters, Distributes, WidthType DEF Index
<1> DEFINE x == start + n - 1
           w == Words(start, n) - 1
<1>4. /\ x \in Nat /\ w \in Nat /\ w * W <= x /\ x < w * W + W
  BY <1>1, <1>2, <1>3
<1>5. x % W = x - w * W
  <2> HIDE DEF x, w
  <2> QED
    BY <1>4, Remainder
<1>6. \A a \in Index : a <= x - w * W <=> w * W + a < start + n
  BY <1>4, WidthType DEF Index
<1> HIDE DEF x, w
<1>7. \A a \in Index : a \in 0..(x % W) <=> a <= x - w * W
  BY <1>4, <1>5, WidthType DEF Index
<1> QED
  BY <1>6, <1>7 DEF x, w

LEMMA WordsOfMemory ==
  ASSUME NEW n \in Nat \ {0}, NEW start \in Index,
         NEW m \in [Memory(start, n) -> Byte], NEW k \in 1..Words(start, n)
  PROVE  /\ WordAt(m, k) \in Word
         /\ \A a \in Index : /\ (k - 1) * W + a \in Memory(start, n)
                             /\ WordAt(m, k)[a] = m[(k - 1) * W + a]
<1>1. k * W <= Words(start, n) * W /\ 0 <= (k - 1) * W
  <2>1. /\ Words(start, n) \in Int /\ k \in Int /\ k <= Words(start, n)
        /\ 0 \in Int /\ k - 1 \in Int /\ 0 <= k - 1
    BY WordsAndRegisters
  <2>2. 0 * W <= (k - 1) * W /\ 0 * W = 0
    BY <2>1, Monotonic, WidthType
  <2> QED
    BY <2>1, <2>2, Monotonic
<1>2. (k - 1) * W = k * W - W /\ k * W \in Int /\ Words(start, n) * W \in Int
  BY WordsAndRegisters, Distributes
<1>3. \A a \in Index : (k - 1) * W + a \in Memory(start, n)
  BY <1>1, <1>2, WidthType DEF Memory, Index
<1> QED
  BY <1>3 DEF WordAt, Word

LEMMA LeftLoadsHold ==
  ASSUME NEW n \in Nat \ {0}, NEW start \in Index,
         NEW order \in {"little", "big"},
         NEW m \in [Memory(start, n) -> Byte]
  PROVE  /\ LeftLoads(order, start, n, m) \in [1..Registers(n) -> Word]
         /\ Unsigned(n, BytesOf(m, start, n)) \/ start + n <= W =>
              Holds(LeftLoads(order, start, n, m), 0, n, BytesOf(m, start, n))
<1> DEFINE words == Words(start, n)
           word  == [k \in 1..words |->
                       IF k = words
                       THEN And(WordAt(m, k), 0..((start + n - 1) % W))
                       ELSE WordAt(m, k)]
           r     == LeftLoads(order, start, n, m)
<1>0. /\ words \in Nat \ {0} /\ Registers(n) \in Nat \ {0}
      /\ words \in {Registers(n), Registers(n) + 1}
      /\ (words - 1) * W < start + n /\ start + n <= words * W
      /\ W - start \in Nat /\ start \in Nat /\ start < W
  BY WordsAndRegisters, WidthType DEF Index
<1>1. r = [j \in 1..Registers(n) |->
             IF j < words
             THEN Or(Down(order, word[j], start), Up(order, word[j + 1], W - start))
             ELSE Down(order, word[j], start)]
  BY DEF LeftLoads
<1>2. ASSUME NEW k \in 1..words
      PROVE  /\ word[k] \in Word
             /\ \A a \in Index :
                  word[k][a] = IF (k - 1) * W + a < start + n
                               THEN m[(k - 1) * W + a] ELSE {}
  <2>1. CASE k = words
    <3>1. word[k] = And(WordAt(m, k), 0..((start + n - 1) % W))
      BY <2>1
    <3>2. \A a \in Index : a \in 0..((start + n - 1) % W) <=> (k - 1) * W + a < start + n
      BY <2>1, EndOffset
    <3>3. word[k] \in Word
      BY <3>1, WordsOfMemory, MaskedWords
    <3>4. ASSUME NEW a \in Index
          PROVE  word[k][a] = IF (k - 1) * W + a < start + n
                              THEN WordAt(m, k)[a] ELSE {}
      BY <3>1, <3>2 DEF And
    <3> QED
      BY <3>3, <3>4, WordsOfMemory
  <2>2. CASE k # words
    <3>1. k * W <= (words - 1) * W
      BY <1>0, <2>2, Monotonic
    <3>2. \A a \in Index : (k - 1) * W + a < start + n
      BY <1>0, <3>1, Distributes, WidthType DEF Index
    <3> QED
      BY <2>2, <3>2, WordsOfMemory
  <2> QED
    BY <2>1, <2>2
<1> HIDE DEF words, word, r
<1>3. r \in [1..Registers(n) -> Word]
  <2>1. ASSUME NEW j \in 1..Registers(n)
        PROVE  /\ Down(order, word[j], start) \in Word
               /\ j < words =>
                    Or(Down(order, word[j], start),
                       Up(order, word[j + 1], W - start)) \in Word
    <3>1. j \in 1..words /\ (j < words => j + 1 \in 1..words)
      BY <1>0
    <3>2. Down(order, word[j], start) \in Word
      BY <1>0, <1>2, <3>1, ShiftedWords
    <3>3. j < words => Up(order, word[j + 1], W - start) \in Word
      BY <1>0, <1>2, <3>1, ShiftedWords
    <3> QED
      BY <3>2, <3>3, OrWords
  <2> QED
    BY <1>1, <2>1
<1>4. ASSUME Unsigned(n, BytesOf(m, start, n)) \/ start + n <= W,
             NEW j \in 1..Registers(n), NEW a \in Index,
             (j - 1) * W + a \in 0..(n - 1)
      PROVE  r[j][a] = BytesOf(m, start, n)[(j - 1) * W + a]
  <2> DEFINE b == (j - 1) * W
             e == start + b
  <2>1. /\ j \in 1..words /\ j \in Nat /\ b \in Int /\ e = start + b
        /\ b + W = ((j + 1) - 1) * W /\ b + a < n
    BY <1>0, <1>4, Distributes DEF Index
  <2>2. b >= 0
    <3>1. 0 * W <= (j - 1) * W /\ 0 * W = 0
      BY Monotonic, WidthType
    <3> QED
      BY <3>1
  <2>3. a \in Nat /\ a < W
    BY WidthType DEF Index
  <2>4. BytesOf(m, start, n)[b + a] = m[e + a]
    <3>1. b + a \in 0..(n - 1) /\ start + (b + a) = e + a
      BY <1>0, <2>1, <2>2, <2>3
    <3> QED
      BY <3>1 DEF BytesOf
  <2>5. ASSUME j < words
        PROVE  /\ e + (W - start) = b + W
               /\ b + W < start + n
               /\ \A i \in 0..(n - 1) : "sign" \notin m[start + i]
    <3>1. (j + 1) - 1 <= words - 1
      BY <1>0, <2>1, <2>5
    <3>2. ((j + 1) - 1) * W <= (words - 1) * W
      BY <1>0, <2>1, <3>1, Monotonic
    <3>3. b + W < start + n
      BY <1>0, <2>1, <3>2, Distributes, WidthType
    <3>4. ~(start + n <= W)
      BY <1>0, <2>1, <2>2, <3>3, WidthType
    <3>5. Unsigned(n, BytesOf(m, start, n))
      BY <1>4, <3>4
    <3>6. e + (W - start) = b + W
      BY <1>0, <2>1, WidthType
    <3> QED
      BY <3>3, <3>5, <3>6 DEF Unsigned, BytesOf
  <2>6. ASSUME NEW i \in Index
        PROVE  /\ word[j][i] = IF b + i < start + n THEN m[b + i] ELSE {}
               /\ j < words =>
                    word[j + 1][i] = IF (b + W) + i < start + n THEN m[(b + W) + i] ELSE {}
    <3>1. word[j][i] = IF b + i < start + n THEN m[b + i] ELSE {}
      BY <1>2, <2>1
    <3>2. ASSUME j < words
          PROVE  word[j + 1][i] = IF (b + W) + i < start + n THEN m[(b + W) + i] ELSE {}
      <4>1. j + 1 \in 1..words
        BY <1>0, <2>1, <3>2
      <4> QED
        BY <1>2, <2>1, <4>1
    <3> QED
      BY <3>1, <3>2
  <2>7. SUFFICES r[j][a] = m[e + a]
    BY <2>4
  <2> HIDE DEF b, e
  <2>8. ASSUME /\ Down(order, word[j], start)[a]
                   \cup (IF j < words THEN Up(order, word[j + 1], W - start)[a] ELSE {})
                     = m[e + a]
         PROVE  r[j][a] = m[e + a]
    <3>1. r[j] = IF j < words
                 THEN Or(Down(order, word[j], start), Up(order, word[j + 1], W - start))
                 ELSE Down(order, word[j], start)
      BY <1>1
    <3> QED
      BY <2>8, <3>1 DEF Or
  <2>9. CASE a + start < W
    <3>1. a + start \in Index /\ b + (a + start) = e + a /\ b + (a + start) < start + n
      BY <1>0, <2>1, <2>2, <2>3, <2>9, WidthType DEF Index
    <3>2. Down(order, word[j], start)[a] = m[e + a]
      BY <2>6, <2>9, <3>1 DEF Down
    <3>3. ASSUME j < words PROVE Up(order, word[j + 1], W - start)[a] = {}
      <4>1. ~(a >= W - start)
        BY <1>0, <2>3, <2>9, WidthType
      <4>2. 0 \in Index
        BY WidthType DEF Index
      <4>3. word[j + 1][0] = m[b + W]
        BY <2>1, <2>5, <2>6, <3>3, <4>2, WidthType
      <4>4. (b + W) - start \in 0..(n - 1) /\ start + ((b + W) - start) = b + W
        BY <1>0, <2>1, <2>2, <2>5, <3>3, WidthType
      <4>5. "sign" \notin m[b + W]
        BY <2>5, <3>3, <4>4
      <4> QED
        BY <4>1, <4>3, <4>5 DEF Up, Fill
    <3> QED
      BY <2>8, <3>2, <3>3
  <2>10. CASE a + start >= W
    <3>1. ASSUME ~(j < words) PROVE FALSE
      <4>1. words = j
        BY <1>0, <2>1, <3>1
      <4>2. start + n <= b + W
        BY <1>0, <2>1, <4>1, Distributes, WidthType
      <4> QED
        BY <1>0, <2>1, <2>3, <2>10, <4>2, WidthType
    <3>2. /\ a >= W - start /\ a - (W - start) \in Index
          /\ (b + W) + (a - (W - start)) = e + a /\ e + a < start + n
      BY <1>0, <2>1, <2>2, <2>3, <2>10, WidthType DEF Index
    <3>3. Up(order, word[j + 1], W - start)[a] = m[e + a]
      BY <2>6, <3>1, <3>2 DEF Up
    <3>4. Down(order, word[j], start)[a] = {}
      <4>1. ~(a + start < W)
        BY <1>0, <2>3, <2>10, WidthType
      <4>2. /\ W - 1 \in Index /\ b + (W - 1) < start + n
            /\ (b + (W - 1)) - start \in 0..(n - 1)
            /\ start + ((b + (W - 1)) - start) = b + (W - 1)
        BY <1>0, <2>1, <2>2, <2>3, <2>5, <2>10, <3>1, WidthType DEF Index
      <4>3. word[j][W - 1] = m[b + (W - 1)]
        BY <2>6, <4>2
      <4>4. "sign" \notin m[b + (W - 1)]
        BY <2>5, <3>1, <4>2
      <4> QED
        BY <1>0, <4>1, <4>3, <4>4 DEF Down, Fill
    <3> QED
      BY <2>8, <3>1, <3>3, <3>4
  <2>11. a + start < W \/ a + start >= W
    BY <1>0, <2>3, WidthType
  <2> QED
    BY <2>9, <2>10, <2>11
<1>5. \A j \in 1..Registers(n), a \in Index : (j - 1) * W + a - 0 = (j - 1) * W + a
  BY Distributes DEF Index
<1> QED
  BY <1>3, <1>4, <1>5 DEF Holds, r

-----------------------------------------------------------------------------
(* avcall: what is stored under the masks is the struct.                   *)

(* The first byte of the k-th word.                                        *)
LEMMA WordStart ==
  ASSUME NEW k \in Nat \ {0}
  PROVE  /\ (k - 1) * W \in Nat /\ ((k - 1) - 1) * W = (k - 1) * W - W
         /\ k = 1 => (k - 1) * W = 0
         /\ k > 1 => (k - 1) * W >= W
<1>1. k - 1 \in Int /\ 0 <= k - 1 /\ (k > 1 => 1 <= k - 1)
  OBVIOUS
<1>2. 0 * W <= (k - 1) * W /\ 0 * W = 0 /\ 1 * W = W
  BY <1>1, Monotonic, WidthType
<1>3. ((k - 1) - 1) * W = (k - 1) * W - W /\ (k - 1) * W \in Int
  BY <1>1, Distributes
<1>4. k > 1 => 1 * W <= (k - 1) * W
  BY <1>1, Monotonic
<1> QED
  BY <1>2, <1>3, <1>4

(* A byte under the mask of the k-th word is a byte of the struct.         *)
LEMMA MaskedByte ==
  ASSUME NEW n \in Nat \ {0}, NEW start \in Index,
         NEW k \in Nat \ {0}, NEW a \in Mask(start, n, k)
  PROVE  /\ a \in Index /\ a \in Nat /\ a < W
         /\ start \in Nat /\ start < W
         /\ ((k - 1) * W + a) - start \in 0..(n - 1)
<1> DEFINE b == (k - 1) * W
<1>1. b \in Nat
  BY WordStart
<1>2. a \in Index /\ b + a \in start..(start + n - 1)
  BY DEF Mask
<1> HIDE DEF b
<1>3. (b + a) - start \in 0..(n - 1)
  BY <1>1, <1>2, WidthType DEF Index
<1> QED
  BY <1>2, <1>3, WidthType DEF Index, b

LEMMA LeftStoresBytes ==
  ASSUME NEW n \in Nat \ {0}, NEW start \in Index,
         NEW order \in {"little", "big"},
         NEW r \in [1..Registers(n) -> Word], NEW s,
         Holds(r, 0, n, s), Unsigned(n, s) \/ Registers(n) = 1,
         NEW k \in 1..Words(start, n), NEW a \in Mask(start, n, k)
  PROVE  LeftStores(order, start, n, r)[k].value[a] = s[((k - 1) * W + a) - start]
<1> DEFINE b == (k - 1) * W
           e == (b + a) - start
           R == Registers(n)
<1>1. /\ R \in Nat \ {0} /\ k \in Nat \ {0} /\ k <= R + 1 /\ b \in Nat
      /\ (R - 1) * W < n /\ n <= R * W
      /\ a \in Index /\ a \in Nat /\ a < W /\ start \in Nat /\ start < W
      /\ e \in 0..(n - 1) /\ e = (b + a) - start
  <2>1. /\ R \in Nat \ {0} /\ (R - 1) * W < n /\ n <= R * W
        /\ Words(start, n) \in Nat /\ Words(start, n) \in {R, R + 1}
    BY WordsAndRegisters
  <2> HIDE DEF R
  <2>2. k \in Nat \ {0} /\ k <= R + 1
    BY <2>1
  <2> QED
    BY <2>1, <2>2, WordStart, MaskedByte
<1>2. ((k - 1) - 1) * W = b - W /\ (k > 1 => b >= W) /\ (k = 1 => b = 0)
  BY <1>1, WordStart
<1>3. k <= R => b < n
  <2> DEFINE x == (R - 1) * W
  <2>1. k <= R => b <= x
    BY <1>1, Monotonic
  <2>2. x \in Int /\ x < n
    <3>1. R - 1 \in Int
      BY <1>1
    <3>2. x \in Int
      BY <3>1, Distributes
    <3> QED
      BY <1>1, <3>2
  <2> HIDE DEF b, x
  <2> QED
    BY <1>1, <2>1, <2>2
<1>4. k > R => n <= b
  <2> DEFINE x == R * W
  <2>1. k > R => x <= b
    BY <1>1, Monotonic
  <2>2. x \in Int /\ n <= x
    BY <1>1, Distributes
  <2> HIDE DEF b, x
  <2> QED
    BY <1>1, <2>1, <2>2
<1>6. k > 1 /\ k <= R => \A i \in 0..(n - 1) : "sign" \notin s[i]
  BY SMTT(60), <1>1 DEF Unsigned
<1>8. LeftStores(order, start, n, r)[k].value
        = IF k = 1 THEN Up(order, r[1], start)
          ELSE IF k <= R
               THEN Or(Down(order, r[k - 1], W - start), Up(order, r[k], start))
               ELSE Down(order, r[k - 1], W - start)
  BY DEF LeftStores
<1>9. \A j \in 1..R, i \in Index :
        (j - 1) * W + i \in 0..(n - 1) => r[j][i] = s[(j - 1) * W + i]
  <2>1. \A j \in 1..R, i \in Index : (j - 1) * W + i - 0 = (j - 1) * W + i
    BY Distributes DEF Index
  <2> QED
    BY <2>1 DEF Holds
<1>10. \A i \in Index : k <= R /\ b + i \in 0..(n - 1) => r[k][i] = s[b + i]
  BY <1>1, <1>9
<1>11. \A i \in Index : k > 1 /\ (b - W) + i \in 0..(n - 1)
                         => r[k - 1][i] = s[(b - W) + i]
  BY SMTT(60), <1>1, <1>2, <1>9
<1> SUFFICES LeftStores(order, start, n, r)[k].value[a] = s[e]
  OBVIOUS
<1> HIDE DEF b, e, R
<1>12. ASSUME k <= R, a >= start PROVE Up(order, r[k], start)[a] = s[e]
  <2>1. a - start \in Index /\ b + (a - start) = e
    BY <1>1, <1>12, WidthType DEF Index
  <2> QED
    BY <1>1, <1>10, <1>12, <2>1 DEF Up
<1>13. ASSUME k > 1, a < start PROVE Down(order, r[k - 1], W - start)[a] = s[e]
  <2>1. a + (W - start) \in Index /\ (b - W) + (a + (W - start)) = e
    BY <1>1, <1>13, WidthType DEF Index
  <2>2. a + (W - start) < W
    BY <1>1, <1>13, WidthType
  <2> QED
    BY <1>1, <1>11, <1>13, <2>1, <2>2 DEF Down
<1>14. CASE k = 1
  <2>1. a >= start
    BY <1>1, <1>2, <1>14
  <2> QED
    BY <1>1, <1>8, <1>12, <1>14, <2>1
<1>15. CASE k > 1 /\ k <= R
  <2>1. ASSUME a >= start PROVE Down(order, r[k - 1], W - start)[a] = {}
    <3>1. ~(a + (W - start) < W)
      BY <1>1, <2>1, WidthType
    <3>2. W - 1 \in Index /\ (b - W) + (W - 1) = b - 1 /\ b - 1 \in 0..(n - 1)
      BY <1>1, <1>3, <1>2, <1>15, WidthType DEF Index
    <3>3. "sign" \notin r[k - 1][W - 1]
      BY <1>6, <1>11, <1>15, <3>2
    <3> QED
      BY <1>1, <3>1, <3>3 DEF Down, Fill
  <2>2. ASSUME a < start PROVE Up(order, r[k], start)[a] = {}
    <3>1. ~(a >= start)
      BY <1>1, <2>2
    <3>2. 0 \in Index /\ b + 0 = b /\ b \in 0..(n - 1)
      BY <1>1, <1>3, <1>2, <1>15, WidthType DEF Index
    <3>3. "sign" \notin r[k][0]
      BY <1>6, <1>10, <1>15, <3>2
    <3> QED
      BY <1>1, <3>1, <3>3 DEF Up, Fill
  <2>3. LeftStores(order, start, n, r)[k].value[a]
          = Down(order, r[k - 1], W - start)[a] \cup Up(order, r[k], start)[a]
    BY <1>1, <1>8, <1>15 DEF Or
  <2>4. a >= start \/ a < start
    BY <1>1
  <2> QED
    BY <1>12, <1>13, <1>15, <2>1, <2>2, <2>3, <2>4
<1>16. CASE k > R
  <2>1. k > 1 /\ a < start
    BY <1>1, <1>4, <1>16
  <2> QED
    BY SMTT(60), <1>1, <1>8, <1>13, <1>16, <2>1
<1> QED
  BY <1>1, <1>14, <1>15, <1>16

-----------------------------------------------------------------------------
(* The same for structs that end where a register ends.                    *)

(* The bytes after the struct, in memory and, before it, in the registers. *)
LEMMA RestAndPad ==
  ASSUME NEW n \in Nat \ {0}, NEW start \in Index
  PROVE  LET words == Words(start, n)
             R     == Registers(n)
             rest  == words * W - (start + n)
             pad   == R * W - n
         IN  /\ rest \in Nat /\ rest < W /\ pad \in Nat /\ pad < W
             /\ words * W = rest + (start + n) /\ R * W = pad + n
             /\ words = R => pad = start + rest
             /\ words = R + 1 => pad + W = start + rest
<1> DEFINE words == Words(start, n)
           R     == Registers(n)
<1>1. /\ R \in Nat /\ words \in Nat /\ start \in Nat
      /\ (R - 1) * W < n /\ n <= R * W
      /\ (words - 1) * W < start + n /\ start + n <= words * W
  BY WordsAndRegisters, WidthType DEF Index
<1> HIDE DEF words, R
<1>2. /\ (R - 1) * W = R * W - W /\ (words - 1) * W = words * W - W
      /\ R * W \in Int /\ words * W \in Int
      /\ words = R + 1 => words * W = R * W + W
  BY <1>1, Distributes
<1> DEFINE x == R * W
           y == words * W
<1>3. /\ x \in Int /\ y \in Int /\ x - W < n /\ n <= x
      /\ y - W < start + n /\ start + n <= y
      /\ words = R => y = x
      /\ words = R + 1 => y = x + W
  BY <1>1, <1>2
<1> HIDE DEF x, y
<1>4. /\ y - (start + n) \in Nat /\ y - (start + n) < W
      /\ x - n \in Nat /\ x - n < W
      /\ y = (y - (start + n)) + (start + n) /\ x = (x - n) + n
      /\ words = R => x - n = start + (y - (start + n))
      /\ words = R + 1 => (x - n) + W = start + (y - (start + n))
  BY <1>1, <1>3, WidthType
<1> QED
  BY <1>4 DEF x, y, words, R

LEMMA RightLoadsHold ==
  ASSUME NEW n \in Nat \ {0}, NEW start \in Index,
         NEW m \in [Memory(start, n) -> Byte]
  PROVE  /\ RightLoads("big", start, n, m) \in [1..Registers(n) -> Word]
         /\ Unsigned(n, BytesOf(m, start, n)) \/ start + n <= W =>
              Holds(RightLoads("big", start, n, m), Registers(n) * W - n, n,
                    BytesOf(m, start, n))
<1> DEFINE words == Words(start, n)
           R     == Registers(n)
           rest  == words * W - (start + n)
           pad   == R * W - n
           word  == [k \in 1..words |->
                       IF k = 1 THEN And(WordAt(m, k), start..(W - 1))
                       ELSE WordAt(m, k)]
           r     == RightLoads("big", start, n, m)
           K(j)  == j + words - R
<1>1. r = [j \in 1..R |->
             IF K(j) > 1
             THEN Or(Up("big", word[K(j)], rest), Down("big", word[K(j) - 1], W - rest))
             ELSE Up("big", word[K(j)], rest)]
  BY DEF RightLoads
<1>2. /\ words \in Nat \ {0} /\ R \in Nat \ {0} /\ words \in {R, R + 1}
      /\ (words - 1) * W < start + n /\ start \in Nat /\ start < W
      /\ rest \in Nat /\ rest < W /\ W - rest \in Nat /\ pad \in Nat /\ pad < W
      /\ words * W = rest + (start + n)
      /\ words = R => pad = start + rest
      /\ words = R + 1 => pad + W = start + rest
  <2>1. /\ rest \in Nat /\ rest < W /\ pad \in Nat /\ pad < W
        /\ words * W = rest + (start + n)
        /\ words = R => pad = start + rest
        /\ words = R + 1 => pad + W = start + rest
    BY RestAndPad
  <2>2. W - rest \in Nat
    <3> HIDE DEF rest
    <3> QED
      BY <2>1, WidthType
  <2> QED
    BY <2>1, <2>2, WordsAndRegisters, WidthType DEF Index
<1>3. ASSUME NEW k \in 1..words
      PROVE  /\ word[k] \in Word
             /\ \A a \in Index :
                  word[k][a] = IF k = 1 /\ a < start THEN {} ELSE m[(k - 1) * W + a]
  <2>1. \A a \in Index : a \in start..(W - 1) <=> ~(a < start)
    BY WidthType DEF Index
  <2>2. word[k] = IF k = 1 THEN And(WordAt(m, k), start..(W - 1)) ELSE WordAt(m, k)
    OBVIOUS
  <2>3. word[k] \in Word
    BY <2>2, WordsOfMemory, MaskedWords
  <2>4. \A a \in Index :
          word[k][a] = IF k = 1 /\ a < start THEN {} ELSE WordAt(m, k)[a]
    BY <2>1, <2>2 DEF And
  <2> QED
    BY <2>3, <2>4, WordsOfMemory
<1> SUFFICES /\ r \in [1..R -> Word]
             /\ Unsigned(n, BytesOf(m, start, n)) \/ start + n <= W =>
                  Holds(r, pad, n, BytesOf(m, start, n))
  OBVIOUS
<1> HIDE DEF word, r, rest, pad
<1>4. \A j \in 1..R : K(j) \in 1..words /\ (K(j) > 1 => K(j) - 1 \in 1..words)
  <2>1. words \in Nat \ {0} /\ R \in Nat \ {0} /\ words \in {R, R + 1}
    BY <1>2
  <2> HIDE DEF words, R
  <2> QED
    BY <2>1
<1>5. r \in [1..R -> Word]
  <2>1. ASSUME NEW j \in 1..R
        PROVE  /\ Up("big", word[K(j)], rest) \in Word
               /\ K(j) > 1 =>
                    Or(Up("big", word[K(j)], rest),
                       Down("big", word[K(j) - 1], W - rest)) \in Word
    <3>1. Up("big", word[K(j)], rest) \in Word
      BY <1>2, <1>3, <1>4, ShiftedWords
    <3>2. K(j) > 1 => Down("big", word[K(j) - 1], W - rest) \in Word
      BY <1>2, <1>3, <1>4, ShiftedWords
    <3> QED
      BY <3>1, <3>2, OrWords
  <2> QED
    BY <1>1, <2>1
<1>6. ASSUME Unsigned(n, BytesOf(m, start, n)) \/ start + n <= W,
             NEW j \in 1..R, NEW a \in Index,
             (j - 1) * W + a - pad \in 0..(n - 1)
      PROVE  r[j][a] = BytesOf(m, start, n)[(j - 1) * W + a - pad]
  <2> DEFINE i == (j - 1) * W + a - pad
             k == K(j)
             b == (k - 1) * W
             e == start + i
  <2>1. /\ k \in 1..words /\ k \in Nat \ {0} /\ b \in Nat
        /\ k = 1 => b = 0
        /\ k > 1 => b >= W /\ ((k - 1) - 1) * W = b - W /\ k - 1 \in 1..words
    BY SMTT(60), <1>4, WordStart
  <2>2. a \in Nat /\ a < W /\ i \in 0..(n - 1) /\ 0 \in Index
    BY <1>6, WidthType DEF Index
  <2>3. b < start + n
    <3> DEFINE x == (words - 1) * W
    <3>1. b <= x
      BY <1>2, <2>1, Monotonic
    <3>2. x \in Int /\ x < start + n
      BY <1>2, Distributes
    <3> HIDE DEF b, x
    <3> QED
      BY <1>2, <2>1, <3>1, <3>2
  <2>4. e + rest = b + a
    <3> DEFINE x == (j - 1) * W
    <3>1. words = R => b = x
      BY <1>2, <1>4
    <3>2. words = R + 1 => b = x + W
      <4>1. words = R + 1 => k - 1 = (j - 1) + 1
        BY <1>2
      <4> QED
        BY <4>1, Distributes
    <3>3. x \in Int
      BY Distributes
    <3> HIDE DEF b, x
    <3> QED
      BY SMTT(60), <1>2, <2>1, <2>2, <3>1, <3>2, <3>3, WidthType
  <2>5. e \in Nat /\ start <= e /\ e < start + n /\ BytesOf(m, start, n)[i] = m[e]
    <3>1. BytesOf(m, start, n)[i] = m[e]
      BY <2>2 DEF BytesOf
    <3> HIDE DEF i
    <3> QED
      BY <1>2, <2>2, <3>1
  <2>6. ASSUME NEW x \in Index
        PROVE  /\ word[k][x] = IF k = 1 /\ x < start THEN {} ELSE m[b + x]
               /\ k > 1 => word[k - 1][x] = IF k - 1 = 1 /\ x < start THEN {}
                                            ELSE m[(b - W) + x]
    BY <1>3, <2>1
  <2>7. ASSUME k > 1 PROVE \A x \in 0..(n - 1) : "sign" \notin m[start + x]
    <3>1. ~(start + n <= W)
      BY <1>2, <2>1, <2>3, <2>7, WidthType
    <3> QED
      BY <1>6, <3>1 DEF Unsigned, BytesOf
  <2>8. SUFFICES r[j][a] = m[e]
    BY <2>5
  <2>9. r[j] = IF k > 1
               THEN Or(Up("big", word[k], rest), Down("big", word[k - 1], W - rest))
               ELSE Up("big", word[k], rest)
    BY <1>1
  <2> HIDE DEF i, k, b, e
  <2>10. CASE a >= rest
    <3>1. a - rest \in Index /\ b + (a - rest) = e
      BY <1>2, <2>1, <2>2, <2>4, <2>5, <2>10, WidthType DEF Index
    <3>2. ~(k = 1 /\ a - rest < start)
      BY <1>2, <2>1, <2>5, <3>1, WidthType DEF Index
    <3>3. Up("big", word[k], rest)[a] = m[e]
      BY <2>6, <2>10, <3>1, <3>2 DEF Up
    <3>4. ~(a + (W - rest) < W)
      BY <1>2, <2>2, <2>10, WidthType
    <3>5. Down("big", word[k - 1], W - rest)[a] = {}
      BY <3>4 DEF Down
    <3> DEFINE u == Up("big", word[k], rest)
               v == Down("big", word[k - 1], W - rest)
    <3>6. Or(u, v)[a] = u[a] \cup v[a]
      BY DEF Or
    <3> HIDE DEF u, v
    <3>7. CASE k > 1
      BY <2>9, <3>3, <3>5, <3>6, <3>7 DEF u, v
    <3>8. CASE ~(k > 1)
      BY <2>9, <3>3, <3>8 DEF u
    <3> QED
      BY <3>7, <3>8
  <2>11. CASE a < rest
    <3>1. k > 1
      BY <1>2, <2>1, <2>2, <2>4, <2>5, <2>11, WidthType
    <3>2. /\ a + (W - rest) \in Index /\ (b - W) + (a + (W - rest)) = e
          /\ a + (W - rest) < W
      BY <1>2, <2>1, <2>2, <2>4, <2>5, <2>11, <3>1, WidthType DEF Index
    <3>3. ~(k - 1 = 1 /\ a + (W - rest) < start)
      <4>1. k - 1 = 1 => b = W
        BY WidthType DEF b
      <4> QED
        BY <1>2, <2>1, <2>2, <2>5, <3>2, <4>1, WidthType
    <3>4. Down("big", word[k - 1], W - rest)[a] = m[e]
      BY <2>6, <3>1, <3>2, <3>3 DEF Down
    <3>5. ~(a >= rest)
      BY <1>2, <2>2, <2>11
    <3>6. word[k][0] = m[b] /\ "sign" \notin m[b]
      <4>1. b + 0 = b /\ b - start \in 0..(n - 1) /\ start + (b - start) = b
        BY <1>2, <2>1, <2>3, <3>1, WidthType
      <4>2. word[k][0] = m[b]
        BY <2>1, <2>2, <2>6, <3>1, <4>1
      <4> QED
        BY <2>7, <3>1, <4>1, <4>2
    <3>7. Up("big", word[k], rest)[a] = {}
      BY <3>5, <3>6 DEF Up, Fill
    <3> QED
      BY <2>9, <3>1, <3>4, <3>7 DEF Or
  <2>12. a >= rest \/ a < rest
    BY <1>2, <2>2
  <2> QED
    BY <2>10, <2>11, <2>12
<1> QED
  BY <1>5, <1>6 DEF Holds

LEMMA RightStoresBytes ==
  ASSUME NEW n \in Nat \ {0}, NEW start \in Index,
         NEW r \in [1..Registers(n) -> Word], NEW s,
         Holds(r, Registers(n) * W - n, n, s), Unsigned(n, s) \/ Registers(n) = 1,
         NEW k \in 1..Words(start, n), NEW a \in Mask(start, n, k)
  PROVE  RightStores("big", start, n, r)[k].value[a] = s[((k - 1) * W + a) - start]
<1> DEFINE words == Words(start, n)
           R     == Registers(n)
           rest  == words * W - (start + n)
           pad   == R * W - n
           q     == k - words + R
           b     == (k - 1) * W
           c     == (q - 1) * W
           e     == (b + a) - start
<1>1. RightStores("big", start, n, r)[k].value
        = IF k = words THEN Down("big", r[R], rest)
          ELSE IF q >= 1
               THEN Or(Down("big", r[q], rest), Up("big", r[q + 1], W - rest))
               ELSE Up("big", r[1], W - rest)
  <2> DEFINE reg == [i \in 0..words |-> i - words + R]
  <2>1. RightStores("big", start, n, r)[k].value
          = IF k = words THEN Down("big", r[R], rest)
            ELSE IF reg[k] >= 1
                 THEN Or(Down("big", r[reg[k]], rest), Up("big", r[reg[k] + 1], W - rest))
                 ELSE Up("big", r[1], W - rest)
    BY DEF RightStores
  <2>2. reg[k] = q
    <3>1. k \in 0..words
      BY WordsAndRegisters
    <3> QED
      BY <3>1
  <2> QED
    BY <2>1, <2>2
<1>2. /\ words \in Nat \ {0} /\ R \in Nat \ {0} /\ words \in {R, R + 1}
      /\ (R - 1) * W < n /\ start \in Nat /\ start < W
      /\ rest \in Nat /\ rest < W /\ pad \in Nat /\ pad < W
      /\ words = R => pad = start + rest
      /\ words = R + 1 => pad + W = start + rest
      /\ words * W = rest + (start + n)
  <2>1. /\ rest \in Nat /\ rest < W /\ pad \in Nat /\ pad < W
        /\ words = R => pad = start + rest
        /\ words = R + 1 => pad + W = start + rest
        /\ words * W = rest + (start + n)
    BY RestAndPad
  <2> QED
    BY <2>1, WordsAndRegisters, WidthType DEF Index
<1> HIDE DEF rest, pad
<1>3. k \in Nat \ {0} /\ k \in 1..words
  BY WordsAndRegisters
<1>4. /\ a \in Index /\ a \in Nat /\ a < W /\ b \in Nat /\ e \in 0..(n - 1)
      /\ e = (b + a) - start /\ 0 \in Index /\ (k = 1 => b = 0)
  <2>1. 0 \in Index
    BY WidthType DEF Index
  <2> QED
    BY <1>3, <2>1, WordStart, MaskedByte
<1>5. /\ q \in Nat /\ q <= R /\ (k = words <=> q = R)
      /\ q >= 1 => q \in 1..R
      /\ q = 0 => words = R + 1 /\ k = 1
      /\ q < R => q + 1 \in 1..R
      /\ words = R => q = k
      /\ words = R + 1 => k - 1 = (q - 1) + 1
  <2> HIDE DEF words, R
  <2> QED
    BY <1>2, <1>3
<1>6. c \in Int /\ c + pad + W = b + (pad + W) - (b - c)
  <2>1. c \in Int
    BY <1>5, Distributes
  <2> HIDE DEF b, c
  <2> QED
    BY <1>2, <1>4, <2>1, WidthType
<1>7. b - (start + rest) = c - pad
  <2>1. words = R => b = c
    BY <1>5
  <2>2. words = R + 1 => b = c + W
    BY <1>5, Distributes
  <2> HIDE DEF b, c
  <2> QED
    BY SMTT(60), <1>2, <1>4, <1>6, <2>1, <2>2, WidthType
<1>8. \A j \in 1..R, i \in Index :
        (j - 1) * W + i - pad \in 0..(n - 1) => r[j][i] = s[(j - 1) * W + i - pad]
  BY DEF Holds, pad
<1>9. \A i \in Index : q >= 1 /\ c + i - pad \in 0..(n - 1)
                        => r[q][i] = s[c + i - pad]
  BY <1>5, <1>8
<1>10. \A i \in Index : q < R /\ (c + W) + i - pad \in 0..(n - 1)
                         => r[q + 1][i] = s[(c + W) + i - pad]
  <2>1. ((q + 1) - 1) * W = c + W
    BY <1>5, Distributes
  <2> QED
    BY <1>5, <1>8, <2>1
<1>11. q >= 1 /\ q < R =>
         (c + W) + 0 - pad \in 0..(n - 1) /\ "sign" \notin s[(c + W) + 0 - pad]
  <2> DEFINE x == (R - 1) * W
  <2>1. q < R => q * W <= x /\ q * W = c + W
    <3>1. q \in Int /\ R - 1 \in Int /\ (q < R => q <= R - 1)
      BY SMTT(60), <1>2, <1>5
    <3>2. q < R => q * W <= x
      BY <3>1, Monotonic
    <3>3. c = q * W - W /\ q * W \in Int
      BY <3>1, Distributes
    <3> HIDE DEF c, x
    <3> QED
      BY <3>2, <3>3, WidthType
  <2>2. q >= 1 => 0 <= c
    <3>1. q >= 1 => 0 * W <= c /\ 0 * W = 0
      BY <1>5, Monotonic, WidthType
    <3> QED
      BY <3>1
  <2>3. x \in Int /\ x < n
    <3>1. R - 1 \in Int
      BY <1>2
    <3> QED
      BY <1>2, <3>1, WidthType
  <2> HIDE DEF c, x
  <2>4. q >= 1 /\ q < R => (c + W) + 0 - pad \in 0..(n - 1)
    BY <1>2, <1>6, <2>1, <2>2, <2>3, WidthType
  <2> HIDE DEF q
  <2>5. q >= 1 /\ q < R => R # 1
    BY <1>2, <1>5
  <2> QED
    BY <2>4, <2>5 DEF Unsigned
<1> SUFFICES RightStores("big", start, n, r)[k].value[a] = s[e]
  OBVIOUS
<1>12. k = words => a + rest < W
  <2>1. k = words => b = words * W - W /\ words * W \in Int
    BY <1>3, Distributes
  <2> HIDE DEF b, words
  <2> QED
    BY <1>2, <1>4, <2>1, WidthType
<1>13. q = 0 => a + rest >= W
  BY <1>2, <1>4, <1>5, WidthType
<1> HIDE DEF b, c, e, q, words, R
<1>14. ASSUME q >= 1, a + rest < W PROVE Down("big", r[q], rest)[a] = s[e]
  <2>1. a + rest \in Index /\ c + (a + rest) - pad = e
    BY <1>2, <1>4, <1>6, <1>7, <1>14, WidthType DEF Index
  <2> QED
    BY <1>4, <1>9, <1>14, <2>1 DEF Down
<1>15. ASSUME q < R, a + rest >= W PROVE Up("big", r[q + 1], W - rest)[a] = s[e]
  <2>1. /\ a - (W - rest) \in Index /\ (c + W) + (a - (W - rest)) - pad = e
        /\ a >= W - rest
    BY <1>2, <1>4, <1>6, <1>7, <1>15, WidthType DEF Index
  <2> QED
    BY <1>4, <1>10, <1>15, <2>1 DEF Up
<1>16. CASE k = words
  BY <1>1, <1>2, <1>5, <1>12, <1>14, <1>16
<1>17. CASE k # words /\ q >= 1
  <2>1. ASSUME a + rest < W PROVE Up("big", r[q + 1], W - rest)[a] = {}
    <3>1. ~(a >= W - rest)
      BY <1>2, <1>4, <2>1, WidthType
    <3>2. "sign" \notin r[q + 1][0]
      BY SMTT(60), <1>2, <1>4, <1>5, <1>10, <1>11, <1>17
    <3> QED
      BY <1>4, <3>1, <3>2 DEF Up, Fill
  <2>2. ASSUME a + rest >= W PROVE Down("big", r[q], rest)[a] = {}
    <3>1. ~(a + rest < W)
      BY <1>2, <1>4, <2>2, WidthType
    <3> QED
      BY <1>4, <3>1 DEF Down
  <2>3. RightStores("big", start, n, r)[k].value[a]
          = Down("big", r[q], rest)[a] \cup Up("big", r[q + 1], W - rest)[a]
    BY <1>1, <1>4, <1>17 DEF Or
  <2>4. q < R /\ (a + rest < W \/ a + rest >= W)
    BY <1>2, <1>4, <1>5, <1>17, WidthType
  <2> QED
    BY <1>14, <1>15, <1>17, <2>1, <2>2, <2>3, <2>4
<1>18. CASE k # words /\ ~(q >= 1)
  <2>1. q = 0 /\ q < R /\ q + 1 = 1
    BY <1>2, <1>5, <1>18
  <2> QED
    BY <1>1, <1>13, <1>15, <1>18, <2>1
<1> QED
  BY <1>16, <1>17, <1>18

-----------------------------------------------------------------------------
(* What the CPUs have in common.                                           *)

ProvedCpus == LeftCpus \cup {"hppa"}

LEMMA CodeOfCpu ==
  ASSUME NEW c \in ProvedCpus, NEW start, NEW n, NEW r, NEW m
  PROVE  /\ vacall(c, start, n, m) =
              IF c = "hppa" THEN RightLoads("big", start, n, m)
              ELSE LeftLoads(Order(c), start, n, m)
         /\ avcall(c, start, n, r) =
              IF c = "hppa" THEN RightStores("big", start, n, r)
              ELSE LeftStores(Order(c), start, n, r)
         /\ Order(c) \in {"little", "big"}
BY DEF ProvedCpus, LeftCpus, LittleCpus, BigCpus, Order, vacall, avcall,
       vacall_x86_64, vacall_arm64, vacall_loongarch64, vacall_powerpc64,
       vacall_riscv32, vacall_riscv64, vacall_windows, vacall_mips64el,
       vacall_mips64, vacall_mipsn32, vacall_hppa64, vacall_sparc64, vacall_hppa,
       avcall_x86_64, avcall_arm64, avcall_loongarch64, avcall_powerpc64,
       avcall_riscv32, avcall_riscv64, avcall_windows, avcall_mips64el,
       avcall_mips64, avcall_mipsn32, avcall_hppa64, avcall_sparc64, avcall_hppa

(* The structs that are returned in registers fill at most four.           *)
LEMMA SizeInRegisters ==
  ASSUME NEW c \in ProvedCpus, NEW n \in InRegisters(c)
  PROVE  n \in Nat \ {0} /\ Registers(n) <= 4
<1>1. n \in Nat \ {0} /\ n <= 4 * W
  BY WidthType DEF InRegisters, ProvedCpus
<1>2. (Registers(n) - 1) * W < n /\ Registers(n) \in Nat
  BY <1>1, WordsBound DEF Registers
<1>3. ASSUME Registers(n) >= 5 PROVE FALSE
  <2>1. 4 * W <= (Registers(n) - 1) * W
    BY <1>2, <1>3, Monotonic
  <2> DEFINE x == (Registers(n) - 1) * W
  <2>2. x \in Int /\ 4 * W <= x /\ x < n
    BY <1>2, <2>1, WidthType
  <2> HIDE DEF x
  <2> QED
    BY <1>1, <2>2, WidthType
<1> QED
  BY <1>1, <1>2, <1>3

(* vacall puts the struct into the registers.                              *)
LEMMA Loads ==
  ASSUME NEW c \in ProvedCpus, NEW n \in Nat \ {0}, NEW start \in Index,
         NEW m \in [Memory(start, n) -> Byte]
  PROVE  /\ vacall(c, start, n, m) \in [1..Registers(n) -> Word]
         /\ Unsigned(n, BytesOf(m, start, n)) \/ start + n <= W =>
              Holds(vacall(c, start, n, m), Pad(c, n), n, BytesOf(m, start, n))
<1>1. CASE c = "hppa"
  <2>1. vacall(c, start, n, m) = RightLoads("big", start, n, m)
    BY <1>1, CodeOfCpu
  <2>2. Pad(c, n) = Registers(n) * W - n
    BY <1>1 DEF Pad
  <2> QED
    BY <2>1, <2>2, RightLoadsHold
<1>2. CASE c # "hppa"
  <2>1. vacall(c, start, n, m) = LeftLoads(Order(c), start, n, m)
    BY <1>2, CodeOfCpu
  <2>2. Pad(c, n) = 0 /\ Order(c) \in {"little", "big"}
    BY <1>2, CodeOfCpu DEF Pad
  <2> QED
    BY <2>1, <2>2, LeftLoadsHold
<1> QED
  BY <1>1, <1>2

LEMMA StoredWords ==
  ASSUME NEW n \in Nat \ {0}, NEW start \in Index, NEW order \in {"little", "big"},
         NEW r \in [1..Registers(n) -> Word], NEW k \in 1..Words(start, n)
  PROVE  /\ LeftStores(order, start, n, r)[k].mask = Mask(start, n, k)
         /\ LeftStores(order, start, n, r)[k].value \in Word
         /\ RightStores(order, start, n, r)[k].mask = Mask(start, n, k)
         /\ RightStores(order, start, n, r)[k].value \in Word
<1> DEFINE words == Words(start, n)
           R     == Registers(n)
           rest  == words * W - (start + n)
           reg   == [i \in 0..words |-> i - words + R]
<1>1. /\ words \in Nat \ {0} /\ R \in Nat \ {0} /\ words \in {R, R + 1}
      /\ start \in Nat /\ start < W
  BY WordsAndRegisters, WidthType DEF Index
<1>2. rest \in Nat /\ rest < W
  BY RestAndPad
<1>3. /\ LeftStores(order, start, n, r)[k].mask = Mask(start, n, k)
      /\ LeftStores(order, start, n, r)[k].value
           = IF k = 1 THEN Up(order, r[1], start)
             ELSE IF k <= R
                  THEN Or(Down(order, r[k - 1], W - start), Up(order, r[k], start))
                  ELSE Down(order, r[k - 1], W - start)
  BY DEF LeftStores
<1>4. /\ RightStores(order, start, n, r)[k].mask = Mask(start, n, k)
      /\ RightStores(order, start, n, r)[k].value
           = IF k = words THEN Down(order, r[R], rest)
             ELSE IF reg[k] >= 1
                  THEN Or(Down(order, r[reg[k]], rest), Up(order, r[reg[k] + 1], W - rest))
                  ELSE Up(order, r[1], W - rest)
  BY DEF RightStores
<1>5. reg[k] = k - words + R
  <2>1. k \in 0..words
    BY <1>1
  <2> QED
    BY <2>1
<1> HIDE DEF words, R, rest, reg
<1>6. W - rest \in Nat /\ W - start \in Nat
  BY <1>1, <1>2, WidthType
<1>7. \A j \in 1..R : r[j] \in Word
  BY DEF R
<1>8. \A j \in 1..R, i \in Nat : Up(order, r[j], i) \in Word /\ Down(order, r[j], i) \in Word
  BY <1>7, ShiftedWords
<1>9. k \in 1..words /\ 1 \in 1..R /\ R \in 1..R
  BY <1>1 DEF words
<1>10. LeftStores(order, start, n, r)[k].value \in Word
  <2>1. CASE k = 1
    BY <1>1, <1>3, <1>8, <1>9, <2>1
  <2>2. CASE k # 1 /\ k <= R
    <3>1. k \in 1..R /\ k - 1 \in 1..R
      BY <1>1, <1>9, <2>2
    <3> QED
      BY <1>1, <1>3, <1>6, <1>8, <2>2, <3>1, OrWords
  <2>3. CASE ~(k <= R)
    <3>1. k # 1 /\ k - 1 \in 1..R
      BY <1>1, <1>9, <2>3
    <3> QED
      BY <1>1, <1>3, <1>6, <1>8, <2>3, <3>1
  <2> QED
    BY <2>1, <2>2, <2>3
<1>11. RightStores(order, start, n, r)[k].value \in Word
  <2>1. CASE k = words
    BY <1>2, <1>4, <1>8, <1>9, <2>1
  <2>2. CASE k # words /\ reg[k] >= 1
    <3>1. reg[k] \in 1..R /\ reg[k] + 1 \in 1..R
      BY <1>1, <1>5, <1>9, <2>2
    <3> QED
      BY <1>2, <1>4, <1>6, <1>8, <2>2, <3>1, OrWords
  <2>3. CASE k # words /\ ~(reg[k] >= 1)
    BY <1>2, <1>4, <1>6, <1>8, <1>9, <2>3
  <2> QED
    BY <2>1, <2>2, <2>3
<1> QED
  BY <1>3, <1>4, <1>10, <1>11

(* avcall stores what the registers hold, and nothing else.                *)
LEMMA Stores ==
  ASSUME NEW c \in ProvedCpus, NEW n \in Nat \ {0}, NEW start \in Index,
         NEW r \in [1..Registers(n) -> Word], NEW k \in 1..Words(start, n)
  PROVE  /\ avcall(c, start, n, r)[k].mask = Mask(start, n, k)
         /\ avcall(c, start, n, r)[k].value \in Word
         /\ \A s : Holds(r, Pad(c, n), n, s) /\ (Unsigned(n, s) \/ Registers(n) = 1) =>
              \A a \in Mask(start, n, k) :
                avcall(c, start, n, r)[k].value[a] = s[((k - 1) * W + a) - start]
<1>1. CASE c = "hppa"
  <2>1. avcall(c, start, n, r) = RightStores("big", start, n, r)
    BY <1>1, CodeOfCpu
  <2>2. Pad(c, n) = Registers(n) * W - n
    BY <1>1 DEF Pad
  <2> QED
    BY <2>1, <2>2, StoredWords, RightStoresBytes
<1>2. CASE c # "hppa"
  <2>1. avcall(c, start, n, r) = LeftStores(Order(c), start, n, r)
    BY <1>2, CodeOfCpu
  <2>2. Pad(c, n) = 0 /\ Order(c) \in {"little", "big"}
    BY <1>2, CodeOfCpu DEF Pad
  <2> QED
    BY <2>1, <2>2, StoredWords, LeftStoresBytes
<1> QED
  BY <1>1, <1>2

-----------------------------------------------------------------------------
(* The inductive invariant.                                                *)

StructBytes == BytesOf(struct, va_offset, count)

(* The struct and its places; what vacall returned; the memory.            *)
CallInv ==
  /\ cpu \in Cpus /\ count \in InRegisters(cpu)
  /\ va_offset \in Index /\ av_offset \in Index
  /\ struct \in [Memory(va_offset, count) -> Byte]
  /\ iret = IF pc = "return" THEN <<>> ELSE vacall(cpu, va_offset, count, struct)

PlaceInv ==
  /\ pc \in {"return", "load", "store", "done"}
  /\ wordaddr \in [Memory(av_offset, count) -> Byte]
  /\ next \in Nat \ {0} /\ next <= Words(av_offset, count) + 1
  /\ next = Words(av_offset, count) + 1 <=> pc = "done"
  /\ loaded \in Word
  /\ DOMAIN outside = {a \in Memory(av_offset, count) :
                         ~InStruct(av_offset, count, a)}

(* The copy of a word that is about to be written back is stale only where *)
(* another thread has stored.                                              *)
LoadedInv ==
  pc = "store" =>
    \A a \in DOMAIN outside :
      LET i == a - (next - 1) * W
      IN  i \in Index /\ outside[a] = Old => loaded[i] = Old

(* The words before the next one hold their bytes of the struct.           *)
StoredInv ==
  NonNegative \/ va_offset + count <= W =>
    \A i \in 0..(count - 1) :
      av_offset + i < (next - 1) * W => wordaddr[av_offset + i] = struct[va_offset + i]

IInv == CallInv /\ PlaceInv /\ LoadedInv /\ BystandersKept /\ StoredInv

LEMMA CallFacts ==
  ASSUME Cpus \subseteq ProvedCpus, CallInv
  PROVE  /\ cpu \in ProvedCpus /\ count \in Nat \ {0} /\ Registers(count) <= 4
         /\ NonNegative <=> Unsigned(count, StructBytes)
         /\ va_offset + count <= W => Registers(count) = 1
<1>1. cpu \in ProvedCpus /\ count \in Nat \ {0} /\ Registers(count) <= 4
  BY SizeInRegisters DEF CallInv
<1>2. NonNegative <=> Unsigned(count, StructBytes)
  BY DEF NonNegative, Unsigned, StructBytes, BytesOf
<1>3. ASSUME va_offset + count <= W, Registers(count) >= 2 PROVE FALSE
  <2>1. (Registers(count) - 1) * W < count /\ Registers(count) \in Nat
    BY <1>1, WordsBound DEF Registers
  <2>2. 1 * W <= (Registers(count) - 1) * W /\ 1 * W = W
    BY <1>3, <2>1, Monotonic, WidthType
  <2> DEFINE x == (Registers(count) - 1) * W
  <2>3. x \in Int /\ W <= x /\ x < count
    BY <2>1, <2>2, WidthType
  <2> HIDE DEF x
  <2>4. va_offset \in Nat
    BY WidthType DEF CallInv, Index
  <2> QED
    BY <1>1, <1>3, <2>3, <2>4, WidthType
<1>4. Registers(count) \in Nat \ {0}
  BY <1>1, WordsBound DEF Registers
<1> QED
  BY <1>1, <1>2, <1>3, <1>4

LEMMA ContentBytes ==
  ASSUME NEW n, NEW content \in Contents(n), NEW i \in 0..(n - 1)
  PROVE  content[i] \in Byte
<1>1. \E j \in 0..(n - 1), x \in Bytes, y \in Bytes :
        content = [k \in 0..(n - 1) |-> IF k = j THEN x ELSE y]
  BY DEF Contents
<1> QED
  BY <1>1, ReturnAssumption

LEMMA InitIInv ==
  ASSUME Cpus \subseteq ProvedCpus, Init
  PROVE  IInv
<1>1. count \in Nat \ {0} /\ av_offset \in Index /\ va_offset \in Index
  BY SizeInRegisters DEF Init
<1>2. struct \in [Memory(va_offset, count) -> Byte]
  <2>1. PICK content \in Contents(count), other \in Bytes :
          struct = [a \in Memory(va_offset, count) |->
                      IF InStruct(va_offset, count, a)
                      THEN content[a - va_offset] ELSE other]
    BY DEF Init
  <2>2. \A i \in 0..(count - 1) : content[i] \in Byte
    BY ContentBytes
  <2>3. \A a : InStruct(va_offset, count, a) => a - va_offset \in 0..(count - 1)
    BY <1>1, WidthType DEF InStruct, Index
  <2> QED
    BY <2>1, <2>2, <2>3, ReturnAssumption
<1>3. CallInv
  BY <1>2 DEF Init, CallInv
<1>4. PlaceInv
  <2>1. Words(av_offset, count) \in Nat \ {0}
    BY <1>1, WordsAndRegisters
  <2> QED
    BY <2>1 DEF Init, PlaceInv, Old, Nothing, Byte, Word
<1>5. LoadedInv /\ BystandersKept
  BY DEF Init, LoadedInv, BystandersKept
<1>6. StoredInv
  <2>1. (1 - 1) * W = 0
    BY WidthType
  <2>2. \A i \in 0..(count - 1) : ~(av_offset + i < 0)
    BY <1>1, WidthType DEF Index
  <2>3. next = 1
    BY DEF Init
  <2> QED
    BY <2>1, <2>2, <2>3 DEF StoredInv
<1> QED
  BY <1>3, <1>4, <1>5, <1>6 DEF IInv

(* The words cover the struct, and the word stored next lies among them.   *)
LEMMA NextWord ==
  ASSUME Cpus \subseteq ProvedCpus, CallInv, PlaceInv
  PROVE  /\ av_offset \in Nat /\ (next - 1) * W \in Nat
         /\ (next + 1 - 1) * W = (next - 1) * W + W
         /\ pc = "done" => av_offset + count <= (next - 1) * W
         /\ pc # "done" => next \in 1..Words(av_offset, count)
         /\ DOMAIN outside \subseteq Int
<1>1. count \in Nat \ {0} /\ av_offset \in Index
  BY CallFacts DEF CallInv
<1>2. /\ Words(av_offset, count) \in Nat \ {0}
      /\ av_offset + count <= Words(av_offset, count) * W
  BY <1>1, WordsAndRegisters
<1>3. pc = "done" => next - 1 = Words(av_offset, count)
  BY <1>2 DEF PlaceInv
<1>4. pc # "done" => next \in 1..Words(av_offset, count)
  BY <1>2 DEF PlaceInv
<1>5. next + 1 - 1 = (next - 1) + 1 /\ next - 1 \in Int
  BY DEF PlaceInv
<1>6. (next + 1 - 1) * W = (next - 1) * W + W
  BY <1>5, Distributes
<1>7. (next - 1) * W \in Nat
  BY WordStart DEF PlaceInv
<1>8. DOMAIN outside \subseteq Int
  <2>1. Words(av_offset, count) * W \in Int
    BY <1>2, Distributes
  <2> QED
    BY <2>1 DEF PlaceInv, Memory
<1> QED
  BY <1>1, <1>2, <1>3, <1>4, <1>6, <1>7, <1>8, WidthType DEF Index

LEMMA ReturnIInv ==
  ASSUME Cpus \subseteq ProvedCpus, IInv, Return
  PROVE  IInv'
<1>1. CallInv'
  BY DEF IInv, CallInv, Return, call
<1>2. PlaceInv'
  BY DEF IInv, PlaceInv, Return, call, Memory, InStruct
<1>3. LoadedInv' /\ BystandersKept'
  BY DEF IInv, LoadedInv, BystandersKept, Return
<1>4. StoredInv'
  BY DEF IInv, StoredInv, NonNegative, Return, call
<1> QED
  BY <1>1, <1>2, <1>3, <1>4 DEF IInv

LEMMA LoadWordIInv ==
  ASSUME Cpus \subseteq ProvedCpus, IInv, LoadWord
  PROVE  IInv'
<1>1. CallInv'
  BY DEF IInv, CallInv, LoadWord, call
<1>2. PlaceInv'
  <2>1. WordAt(wordaddr, next) \in Word
    <3>1. next \in 1..Words(av_offset, count)
      BY NextWord DEF IInv, LoadWord
    <3> QED
      BY <3>1, CallFacts, WordsOfMemory DEF IInv, CallInv, PlaceInv
  <2> QED
    BY <2>1 DEF IInv, PlaceInv, LoadWord, call
<1>3. LoadedInv'
  <2>1. ASSUME NEW a \in DOMAIN outside, a - (next - 1) * W \in Index, outside[a] = Old
        PROVE  WordAt(wordaddr, next)[a - (next - 1) * W] = Old
    <3>1. a \in Int /\ (next - 1) * W \in Int
      BY NextWord DEF IInv
    <3> DEFINE x == (next - 1) * W
    <3>2. x + (a - x) = a
      <4> HIDE DEF x
      <4> QED
        BY <3>1 DEF x
    <3>3. WordAt(wordaddr, next)[a - x] = wordaddr[x + (a - x)]
      BY <2>1 DEF WordAt
    <3> QED
      BY <2>1, <3>2, <3>3 DEF IInv, BystandersKept
  <2> QED
    BY <2>1 DEF LoadedInv, LoadWord
<1>4. BystandersKept' /\ StoredInv'
  BY DEF IInv, BystandersKept, StoredInv, NonNegative, LoadWord, call
<1> QED
  BY <1>1, <1>2, <1>3, <1>4 DEF IInv

LEMMA NeighbourStoresIInv ==
  ASSUME Cpus \subseteq ProvedCpus, IInv, NeighbourStores
  PROVE  IInv'
<1>1. PICK b \in DOMAIN outside :
        /\ outside' = [outside EXCEPT ![b] = New]
        /\ wordaddr' = [wordaddr EXCEPT ![b] = New]
  BY DEF NeighbourStores
<1>2. b \in Memory(av_offset, count) /\ ~InStruct(av_offset, count, b) /\ New # Old
  BY DEF IInv, PlaceInv, New, Old, Ones
<1>3. CallInv'
  BY DEF IInv, CallInv, NeighbourStores, call
<1>4. PlaceInv'
  <2>1. wordaddr' \in [Memory(av_offset, count) -> Byte] /\ DOMAIN outside' = DOMAIN outside
    BY <1>1 DEF IInv, PlaceInv, New, Byte, Ones
  <2> QED
    BY <2>1 DEF IInv, PlaceInv, NeighbourStores, call
<1>5. \A a \in DOMAIN outside : outside'[a] = Old =>
        outside[a] = Old /\ wordaddr'[a] = wordaddr[a]
  BY <1>1, <1>2 DEF IInv, PlaceInv
<1>6. LoadedInv' /\ BystandersKept'
  BY <1>1, <1>5 DEF IInv, LoadedInv, BystandersKept, NeighbourStores
<1>7. StoredInv'
  <2>1. \A i \in 0..(count - 1) : av_offset + i # b
    <3>1. count \in Nat /\ av_offset \in Nat
      BY CallFacts, NextWord DEF IInv
    <3> QED
      BY <1>2, <3>1 DEF InStruct
  <2>2. \A i \in 0..(count - 1) : wordaddr'[av_offset + i] = wordaddr[av_offset + i]
    BY <1>1, <2>1 DEF IInv, PlaceInv
  <2> QED
    BY <2>2 DEF IInv, StoredInv, NonNegative, NeighbourStores, call
<1> QED
  BY <1>3, <1>4, <1>6, <1>7 DEF IInv

LEMMA StoreWordIInv ==
  ASSUME Cpus \subseteq ProvedCpus, IInv, StoreWord
  PROVE  IInv'
<1> DEFINE store == avcall(cpu, av_offset, count, iret)[next]
           first == (next - 1) * W
           mask  == Mask(av_offset, count, next)
<1>1. /\ pc = "store" /\ loaded' = Nothing /\ next' = next + 1
      /\ pc' = IF next = Words(av_offset, count) THEN "done" ELSE "load"
      /\ call' = call /\ iret' = iret /\ outside' = outside
      /\ wordaddr' = [a \in DOMAIN wordaddr |->
                        IF a - first \notin Index THEN wordaddr[a]
                        ELSE IF a - first \in store.mask
                             THEN store.value[a - first] ELSE loaded[a - first]]
  BY DEF StoreWord
<1>2. /\ cpu \in ProvedCpus /\ count \in Nat \ {0}
      /\ va_offset \in Index /\ av_offset \in Index
      /\ struct \in [Memory(va_offset, count) -> Byte]
      /\ next \in 1..Words(av_offset, count) /\ next \in Nat \ {0}
      /\ av_offset \in Nat /\ first \in Nat /\ (next + 1 - 1) * W = first + W
      /\ DOMAIN outside \subseteq Int
  BY <1>1, CallFacts, NextWord DEF IInv, CallInv, PlaceInv
<1>3. /\ iret \in [1..Registers(count) -> Word]
      /\ Unsigned(count, StructBytes) \/ va_offset + count <= W =>
           Holds(iret, Pad(cpu, count), count, StructBytes)
  <2>1. iret = vacall(cpu, va_offset, count, struct)
    BY <1>1 DEF IInv, CallInv
  <2> QED
    BY <1>2, <2>1, Loads DEF StructBytes
<1>4. /\ store.mask = mask /\ store.value \in Word
      /\ NonNegative \/ va_offset + count <= W =>
           \A a \in mask : store.value[a] = StructBytes[(first + a) - av_offset]
  <2>1. /\ store.mask = mask /\ store.value \in Word
        /\ \A s : Holds(iret, Pad(cpu, count), count, s)
                  /\ (Unsigned(count, s) \/ Registers(count) = 1) =>
                    \A a \in mask : store.value[a] = s[(first + a) - av_offset]
    BY <1>2, <1>3, Stores
  <2>2. /\ NonNegative <=> Unsigned(count, StructBytes)
        /\ va_offset + count <= W => Registers(count) = 1
    BY CallFacts DEF IInv
  <2> QED
    BY <1>3, <2>1, <2>2
<1> HIDE DEF store
<1>5. CallInv'
  BY <1>1 DEF IInv, CallInv, call
<1>6. PlaceInv'
  <2>1. wordaddr' \in [Memory(av_offset, count) -> Byte]
    BY <1>1, <1>4 DEF IInv, PlaceInv, Word
  <2>2. Words(av_offset, count) \in Nat
    BY <1>2, WordsAndRegisters
  <2>3. Nothing \in Word
    BY DEF Nothing, Word, Byte
  <2> QED
    BY <1>1, <1>2, <2>1, <2>2, <2>3 DEF IInv, PlaceInv, call
<1>7. LoadedInv'
  BY <1>1 DEF LoadedInv
<1>8. BystandersKept'
  <2> SUFFICES ASSUME NEW a \in DOMAIN outside, outside[a] = Old
               PROVE  wordaddr'[a] = Old
    BY <1>1 DEF BystandersKept
  <2>1. a \in DOMAIN wordaddr /\ ~InStruct(av_offset, count, a) /\ wordaddr[a] = Old
    BY DEF IInv, PlaceInv, BystandersKept
  <2>2. a - first \notin mask
    <3>1. first + (a - first) = a
      <4> HIDE DEF first
      <4> QED
        BY <1>2
    <3> QED
      BY <2>1, <3>1 DEF Mask, InStruct
  <2>3. a - first \in Index => loaded[a - first] = Old
    BY <1>1 DEF IInv, LoadedInv
  <2> QED
    BY <1>1, <1>4, <2>1, <2>2, <2>3
<1>9. StoredInv'
  <2> SUFFICES ASSUME NonNegative \/ va_offset + count <= W,
                      NEW i \in 0..(count - 1), av_offset + i < first + W
               PROVE  wordaddr'[av_offset + i] = struct[va_offset + i]
    <3>1. /\ (next' - 1) * W = first + W /\ count' = count /\ struct' = struct
          /\ va_offset' = va_offset /\ av_offset' = av_offset
      BY <1>1, <1>2 DEF call
    <3>2. NonNegative' <=> NonNegative
      BY <3>1 DEF NonNegative
    <3> HIDE DEF first
    <3> QED
      BY <3>1, <3>2 DEF StoredInv
  <2> DEFINE a == av_offset + i
  <2>1. a \in DOMAIN wordaddr /\ a \in Int
    <3>1. av_offset + count <= Words(av_offset, count) * W
      BY <1>2, WordsAndRegisters
    <3> DEFINE x == Words(av_offset, count) * W
    <3>2. x \in Int
      BY <1>2, WordsAndRegisters, Distributes
    <3>3. av_offset + i \in 0..(x - 1)
      <4> HIDE DEF x
      <4> QED
        BY <1>2, <3>1, <3>2 DEF x
    <3> QED
      BY <3>3 DEF IInv, PlaceInv, Memory
  <2>2. CASE a < first
    <3>1. a - first \notin Index
      <4> HIDE DEF first, a
      <4> QED
        BY <1>2, <2>1, <2>2, WidthType DEF Index
    <3>2. wordaddr[a] = struct[va_offset + i]
      BY <2>2 DEF IInv, StoredInv
    <3> QED
      BY <1>1, <2>1, <3>1, <3>2
  <2>3. CASE ~(a < first)
    <3>1. a - first \in Index /\ first + (a - first) = a
      <4>1. a < first + W
        OBVIOUS
      <4> HIDE DEF first, a
      <4> QED
        BY <1>2, <2>1, <2>3, <4>1, WidthType DEF Index
    <3>2. a - first \in mask /\ a - av_offset = i
      <4>1. a \in av_offset..(av_offset + count - 1) /\ a - av_offset = i
        BY <1>2
      <4> QED
        BY <3>1, <4>1 DEF Mask
    <3>3. store.value[a - first] = StructBytes[i]
      BY <1>4, <3>1, <3>2
    <3>4. StructBytes[i] = struct[va_offset + i]
      BY DEF StructBytes, BytesOf
    <3> QED
      BY <1>1, <1>4, <2>1, <3>1, <3>2, <3>3, <3>4
  <2> QED
    BY <2>2, <2>3
<1> QED
  BY <1>5, <1>6, <1>7, <1>8, <1>9 DEF IInv

LEMMA NextIInv ==
  ASSUME Cpus \subseteq ProvedCpus
  PROVE  IInv /\ [Next]_vars => IInv'
<1> SUFFICES ASSUME IInv, [Next]_vars
             PROVE  IInv'
  OBVIOUS
<1>1. CASE Return
  BY <1>1, ReturnIInv
<1>2. CASE LoadWord
  BY <1>2, LoadWordIInv
<1>3. CASE StoreWord
  BY <1>3, StoreWordIInv
<1>4. CASE NeighbourStores
  BY <1>4, NeighbourStoresIInv
<1>5. CASE UNCHANGED vars
  BY <1>5 DEF vars, IInv, CallInv, PlaceInv, LoadedInv, BystandersKept, StoredInv,
              NonNegative
<1> QED
  BY <1>1, <1>2, <1>3, <1>4, <1>5 DEF Next, Returned

-----------------------------------------------------------------------------
(* What the runs check, for every width of a word, every size, alignment   *)
(* and contents of the struct.                                             *)

(* Only words that overlap the struct are read or written, and each        *)
(* variable keeps its type.                                                *)
THEOREM TypeCorrectness ==
  ASSUME Cpus \subseteq ProvedCpus
  PROVE  Spec => []TypeOK
<1>1. IInv => TypeOK
  <2> SUFFICES ASSUME IInv PROVE TypeOK
    OBVIOUS
  <2>1. iret \in Seq(Word) /\ Len(iret) <= 4
    <3>1. CASE pc = "return"
      BY <3>1 DEF IInv, CallInv
    <3>2. CASE pc # "return"
      <4>1. iret \in [1..Registers(count) -> Word]
        BY <3>2, CallFacts, Loads DEF IInv, CallInv
      <4>2. Registers(count) \in Nat /\ Registers(count) <= 4
        BY CallFacts, WordsBound DEF IInv, Registers
      <4>3. iret \in Seq(Word) /\ DOMAIN iret = 1..Registers(count)
        BY <4>1, <4>2, SeqDef
      <4>4. Len(iret) = Registers(count)
        BY <4>2, <4>3, LenProperties
      <4> QED
        BY <4>2, <4>3, <4>4
    <3> QED
      BY <3>1, <3>2
  <2>2. next \in 1..(Words(av_offset, count) + IF pc = "done" THEN 1 ELSE 0)
    <3>1. Words(av_offset, count) \in Nat
      BY CallFacts, WordsAndRegisters DEF IInv, CallInv
    <3> QED
      BY <3>1 DEF IInv, PlaceInv
  <2> QED
    BY <2>1, <2>2 DEF IInv, PlaceInv, TypeOK
<1> QED
  BY <1>1, InitIInv, NextIInv, PTL DEF Spec

(* avcall leaves the bytes around the struct alone: at no moment does a    *)
(* byte that nobody else assigns differ from what it was.                  *)
THEOREM Bystanders ==
  ASSUME Cpus \subseteq ProvedCpus
  PROVE  Spec => []BystandersKept
<1>1. IInv => BystandersKept
  BY DEF IInv
<1> QED
  BY <1>1, InitIInv, NextIInv, PTL DEF Spec

(* The caller of av_call finds what the callback passed to                 *)
(* va_return_struct, if no byte has its sign bit set or if the struct lies *)
(* in one word.                                                            *)
THEOREM StructReturned ==
  ASSUME Cpus \subseteq ProvedCpus
  PROVE  Spec => []ReturnedUnlessNegative
<1>1. IInv => ReturnedUnlessNegative
  <2> SUFFICES ASSUME IInv, pc = "done", NonNegative \/ va_offset + count <= W,
                      NEW i \in 0..(count - 1)
               PROVE  wordaddr[av_offset + i] = struct[va_offset + i]
    BY DEF ReturnedUnlessNegative, SameBytes
  <2>1. /\ av_offset \in Nat /\ (next - 1) * W \in Nat /\ count \in Nat
        /\ av_offset + count <= (next - 1) * W
    BY NextWord, CallFacts DEF IInv
  <2>2. av_offset + i < (next - 1) * W
    BY <2>1
  <2> QED
    BY <2>2 DEF IInv, StoredInv
<1> QED
  BY <1>1, InitIInv, NextIInv, PTL DEF Spec
=============================================================================
