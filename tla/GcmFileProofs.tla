--------------------------- MODULE GcmFileProofs ---------------------------
(***************************************************************************)
(* Proofs about GcmFile, for every file, AAD, counter block, chunk size,   *)
(* block size and word: both engines write what the one-shot calls write,  *)
(* and a file is accepted exactly when its tag is right.                   *)
(***************************************************************************)
EXTENDS GcmFile, BytesProofs

-----------------------------------------------------------------------------
(* Bytes under keystream *)

Byte == [id : Nat, ks : SUBSET (CounterBlocks \X Nat)]

LEMMA CombineFacts ==
  ASSUME NEW byte \in Byte, NEW k \in CounterBlocks \X Nat PROVE Combine(byte, k) \in Byte
  <1>1. /\ byte = [id |-> byte.id, ks |-> byte.ks] /\ byte.id \in Nat
        /\ byte.ks \subseteq CounterBlocks \X Nat
    BY DEF Byte
  <1>2. Toggle(byte.ks, k) \subseteq CounterBlocks \X Nat
    BY <1>1 DEF Toggle
  <1>3. Combine(byte, k) = [id |-> byte.id, ks |-> Toggle(byte.ks, k)]
    BY <1>1 DEF Combine
  <1>4. QED
    BY <1>1, <1>2, <1>3 DEF Byte

LEMMA ZeroByteFacts == ZeroByte \in Byte
  BY DEF ZeroByte, Byte

LEMMA CallbackCounterFacts ==
  ASSUME call.j0 \in CounterBlocks, NEW n \in Nat PROVE CallbackCounter(n) \in CounterBlocks
  BY Add32Facts, Add128Facts DEF CallbackCounter

\* The keystream byte the callback gives byte i of a text that begins at a block offset.
CallbackByte(offset, i) ==
  <<CallbackCounter(offset + (i - 1) \div BlockBytes), (i - 1) % BlockBytes>>

LEMMA CallbackXorFacts ==
  ASSUME call.j0 \in CounterBlocks, NEW s \in Seq(Byte), NEW k \in Nat
  PROVE  /\ CallbackXor(s, k) \in Seq(Byte) /\ Len(CallbackXor(s, k)) = Len(s)
         /\ \A i \in 1 .. Len(s) : CallbackXor(s, k)[i] = Combine(s[i], CallbackByte(k, i))
  <1>1. ASSUME NEW i \in 1 .. Len(s) PROVE Combine(s[i], CallbackByte(k, i)) \in Byte
    <2>1. Len(s) \in Nat /\ s[i] \in Byte
      BY ElementOfSeq, LenProperties
    <2>2. (i - 1) \div BlockBytes \in Nat /\ (i - 1) % BlockBytes \in Nat
      BY <2>1, BlockOfByte
    <2>3. k + (i - 1) \div BlockBytes \in Nat
      BY <2>2
    <2>4. CallbackByte(k, i) \in CounterBlocks \X Nat
      BY <2>2, <2>3, CallbackCounterFacts DEF CallbackByte
    <2>5. QED
      BY <2>1, <2>4, CombineFacts
  <1>2. DOMAIN s = 1 .. Len(s) /\ Len(s) \in Nat
    BY LenProperties
  <1>3. CallbackXor(s, k) = [i \in 1 .. Len(s) |-> Combine(s[i], CallbackByte(k, i))]
    BY <1>2 DEF CallbackXor, CallbackByte
  <1> HIDE DEF Byte
  <1>4. QED
    BY <1>1, <1>2, <1>3

\* Part of a text, from a whole block on, meets the keystream it meets within the text.
LEMMA CallbackXorSlice ==
  ASSUME call.j0 \in CounterBlocks, NEW s \in Seq(Byte), NEW n \in Nat, NEW k \in Nat,
         NEW b \in Nat, k * BlockBytes <= b, b <= Len(s)
  PROVE  CallbackXor(Slice(s, k * BlockBytes, b), n + k)
           = Slice(CallbackXor(s, n), k * BlockBytes, b)
  <1> DEFINE a == k * BlockBytes
             x == CallbackXor(s, n)
             t == Slice(s, a, b)
             l == CallbackXor(t, n + k)
             r == Slice(x, a, b)
  <1>1. a \in Nat /\ n + k \in Nat /\ Len(s) \in Nat
    BY BlockAssumption, LenProperties
  <1>2. /\ x \in Seq(Byte) /\ Len(x) = Len(s)
        /\ \A i \in 1 .. Len(s) : x[i] = Combine(s[i], CallbackByte(n, i))
    BY CallbackXorFacts
  <1>3. t \in Seq(Byte) /\ Len(t) = b - a /\ \A i \in 1 .. b - a : t[i] = s[a + i]
    <2>1. a <= b
      BY DEF a
    <2> HIDE DEF a
    <2>2. b \in Nat /\ b <= Len(s)
      OBVIOUS
    <2>3. s \in Seq(Byte)
      OBVIOUS
    <2> HIDE DEF Byte
    <2>4. t \in Seq(Byte) /\ Len(t) = b - a
      BY <1>1, <2>1, <2>2, <2>3, SliceFacts, ZenonT(60)
    <2>5. \A i \in 1 .. b - a : t[i] = s[a + i]
      BY <1>1, <2>1, <2>2, <2>3, SliceFacts
    <2>6. QED
      BY <2>4, <2>5
  <1>4. r \in Seq(Byte) /\ Len(r) = b - a /\ \A i \in 1 .. b - a : r[i] = x[a + i]
    <2>1. a <= b /\ b <= Len(x) /\ b \in Nat
      BY <1>2 DEF a
    <2> HIDE DEF a, x, Byte
    <2>2. QED
      BY <1>1, <1>2, <2>1, SliceFacts, ZenonT(60)
  <1>5. /\ l \in Seq(Byte) /\ Len(l) = Len(t)
        /\ \A i \in 1 .. Len(t) : l[i] = Combine(t[i], CallbackByte(n + k, i))
    <2> HIDE DEF t
    <2>1. QED
      BY <1>1, <1>3, CallbackXorFacts
  <1> HIDE DEF x, t, l, r, Byte
  <1>6. ASSUME NEW i \in 1 .. Len(l) PROVE l[i] = r[i]
    <2>1. i \in 1 .. b - a /\ a + i \in 1 .. Len(s) /\ i - 1 \in Nat
          /\ (a + i) - 1 = a + (i - 1)
      BY <1>1, <1>3, <1>5
    <2>2. /\ (a + (i - 1)) \div BlockBytes = k + ((i - 1) \div BlockBytes)
          /\ (a + (i - 1)) % BlockBytes = (i - 1) % BlockBytes
      BY <2>1, ShiftDivision
    <2>3. (i - 1) \div BlockBytes \in Nat
      BY <2>1, Division
    <2>4. n + (k + ((i - 1) \div BlockBytes)) = (n + k) + ((i - 1) \div BlockBytes)
      BY <2>3
    <2>5. CallbackByte(n, a + i) = CallbackByte(n + k, i)
      <3> HIDE DEF a
      <3>1. QED
        BY <2>1, <2>2, <2>4 DEF CallbackByte
    <2>6. l[i] = Combine(s[a + i], CallbackByte(n + k, i))
      BY <1>3, <1>5, <2>1
    <2>7. r[i] = Combine(s[a + i], CallbackByte(n, a + i))
      BY <1>2, <1>4, <2>1
    <2>8. QED
      BY <2>5, <2>6, <2>7
  <1>7. l = r
    BY <1>3, <1>4, <1>5, <1>6, SeqEqual
  <1>8. QED
    BY <1>7 DEF l, r, t, x, a

\* With no kept keystream a call of the stream is one call of the callback.
LEMMA StreamXorFacts ==
  ASSUME call.j0 \in CounterBlocks, NEW s \in Seq(Byte),
         ctr.next_block_offset \in Nat, ctr.keystream_offset = BlockBytes
  PROVE  /\ StreamXor(s).output = CallbackXor(s, ctr.next_block_offset)
         /\ StreamXor(s).state.next_block_offset
              = ctr.next_block_offset + CeilDiv(Len(s), BlockBytes)
         /\ StreamXor(s).state.keystream_offset \in 0 .. BlockBytes
         /\ Len(s) % BlockBytes = 0 => StreamXor(s).state.keystream_offset = BlockBytes
  <1> DEFINE n    == Len(s)
             f    == FullLen(n)
             k    == n \div BlockBytes
             o    == ctr.next_block_offset
             bulk == Take(s, f)
             tail == Drop(s, f)
             x    == CallbackXor(s, o)
  <1>1. BlockBytes \in Nat /\ BlockBytes >= 1 /\ n \in Nat
    BY BlockAssumption, LenProperties
  <1>2. /\ f \in Nat /\ f <= n /\ n < f + BlockBytes /\ n - f = n % BlockBytes
        /\ f \div BlockBytes = k /\ k \in Nat /\ f = k * BlockBytes
    <2>1. k \in Nat /\ f = k * BlockBytes /\ 0 \in 0 .. BlockBytes - 1
      BY <1>1, Division DEF FullLen
    <2>2. k * BlockBytes = k * BlockBytes + 0 /\ k * BlockBytes \in Nat
      BY <1>1, <2>1
    <2>3. (k * BlockBytes) \div BlockBytes = k
      <3> DEFINE y == k * BlockBytes
      <3>1. y \in Nat /\ k \in Int /\ y = k * BlockBytes + 0
        BY <2>1, <2>2
      <3> HIDE DEF y
      <3>2. y \div BlockBytes = k
        BY <2>1, <3>1, QuotientUnique
      <3>3. QED
        BY <3>2 DEF y
    <2>4. QED
      BY <1>1, <2>1, <2>3, FullLenFacts
  <1>3. bulk = Slice(s, 0, f) /\ tail = Slice(s, f, Len(s))
    BY TakeSlice
  <1>4. /\ bulk \in Seq(Byte) /\ Len(bulk) = f
        /\ tail \in Seq(Byte) /\ Len(tail) = n - f
    <2> HIDE DEF f, bulk, tail, Byte
    <2>1. f \in Nat /\ f <= Len(s)
      BY <1>2
    <2>2. QED
      BY <1>3, <2>1, SliceParts
  <1>5. CallbackXor(bulk, o) \o CallbackXor(tail, o + k) = x
    <2>1. /\ 0 * BlockBytes = 0 /\ o + 0 = o /\ 0 \in Nat /\ o \in Nat /\ k \in Nat
          /\ 0 * BlockBytes <= f /\ f <= Len(s) /\ f \in Nat /\ n \in Nat
          /\ k * BlockBytes <= n /\ k * BlockBytes = f /\ n <= Len(s)
      BY <1>1, <1>2
    <2>2. x \in Seq(Byte) /\ Len(x) = Len(s)
      BY CallbackXorFacts
    <2> HIDE DEF f, k, o, bulk, tail
    <2>3. CallbackXor(Slice(s, 0 * BlockBytes, f), o + 0) = Slice(x, 0 * BlockBytes, f)
      <3> HIDE DEF n
      <3>1. QED
        BY <2>1, CallbackXorSlice
    <2>4. CallbackXor(Slice(s, k * BlockBytes, n), o + k) = Slice(x, k * BlockBytes, n)
      <3> HIDE DEF n
      <3>1. QED
        BY <2>1, CallbackXorSlice
    <2>5. Slice(x, 0, f) \o Slice(x, f, Len(x)) = x
      <3> HIDE DEF x, Byte
      <3>1. QED
        BY <2>1, <2>2, SliceParts
    <2>6. QED
      BY <1>3, <2>1, <2>2, <2>3, <2>4, <2>5
  <1>6. CeilDiv(n, BlockBytes) = k + CeilDiv(n - f, BlockBytes)
    <2>1. n - f \in Nat /\ n = k * BlockBytes + (n - f)
      BY <1>1, <1>2
    <2>2. QED
      BY <1>2, <2>1, CeilDivShift
  <1>7. Take(s, Min({n, BlockBytes - ctr.keystream_offset})) = <<>> /\ Drop(s, Len(<<>>)) = s
    <2>1. Min({n, 0}) = 0
      BY <1>1, MinOfTwo
    <2>2. Take(s, 0) = <<>>
      BY SliceEmpty, TakeSlice, <1>1
    <2>3. Len(<<>>) = 0 /\ Drop(s, Len(<<>>)) = s
      BY SliceAll, TakeSlice
    <2>4. BlockBytes - ctr.keystream_offset = 0
      BY <1>1
    <2>5. QED
      BY <2>1, <2>2, <2>3, <2>4
  <1>8. StreamXor(s) =
          [output |-> [i \in DOMAIN <<>> |->
                         Combine(<<>>[i], <<ctr.keystream, ctr.keystream_offset + i - 1>>)]
                      \o CallbackXor(bulk, o) \o CallbackXor(tail, o + k),
           state |->
             [next_block_offset |-> (o + k) + CeilDiv(n - f, BlockBytes),
              keystream |-> IF tail # <<>> THEN CallbackCounter(o + k) ELSE ctr.keystream,
              keystream_offset |-> IF tail # <<>> THEN n - f
                                                  ELSE ctr.keystream_offset + Len(<<>>)]]
    <2>1. /\ Take(s, FullLen(Len(s))) = bulk /\ Drop(s, Len(bulk)) = tail
          /\ Len(bulk) \div BlockBytes = k /\ Len(tail) = n - f
      BY <1>2, <1>4
    <2> HIDE DEF bulk, tail, k, f
    <2>2. QED
      BY <1>7, <2>1 DEF StreamXor
  <1> DEFINE none == [i \in DOMAIN <<>> |->
                        Combine(<<>>[i], <<ctr.keystream, ctr.keystream_offset + i - 1>>)]
  <1>9. none = <<>>
    OBVIOUS
  <1> DEFINE y == CallbackXor(bulk, o)
             z == CallbackXor(tail, o + k)
  <1>10. y \in Seq(Byte) /\ z \in Seq(Byte)
    <2>1. o + k \in Nat
      BY <1>2
    <2> HIDE DEF bulk, tail, k
    <2>2. QED
      BY <1>4, <2>1, CallbackXorFacts
  <1>11. StreamXor(s).output = x
    <2>1. StreamXor(s).output = (none \o y) \o z
      BY <1>8
    <2> HIDE DEF none, y, z, x
    <2>2. none \o y = y
      BY <1>9, <1>10, ConcatEmptySeq
    <2>3. QED
      BY <1>5, <2>1, <2>2 DEF y, z
  <1>12. StreamXor(s).state.next_block_offset = o + CeilDiv(n, BlockBytes)
    <2>1. n - f \in Nat
      BY <1>1, <1>2
    <2>2. CeilDiv(n - f, BlockBytes) \in Nat
      BY <2>1, CeilDivFacts
    <2>3. (o + k) + CeilDiv(n - f, BlockBytes) = o + (k + CeilDiv(n - f, BlockBytes))
      BY <1>2, <2>2
    <2>4. QED
      BY <1>6, <1>8, <2>3
  <1>13. StreamXor(s).state.keystream_offset
           = IF tail # <<>> THEN n - f ELSE ctr.keystream_offset + Len(<<>>)
    BY <1>8
  <1>14. tail # <<>> <=> n - f # 0
    <2> HIDE DEF tail
    <2>1. QED
      BY <1>4, EmptySeq
  <1>15. Len(<<>>) = 0
    OBVIOUS
  <1>16. n - f \in 0 .. BlockBytes /\ (n % BlockBytes = 0 => n - f = 0)
    BY <1>1, <1>2
  <1> HIDE DEF tail, f
  <1>17. StreamXor(s).state.keystream_offset = IF n - f # 0 THEN n - f ELSE BlockBytes
    BY <1>1, <1>13, <1>14, <1>15
  <1>18. QED
    BY <1>1, <1>11, <1>12, <1>16, <1>17

-----------------------------------------------------------------------------
(* GHASH blocks *)

GhashBlock == [1 .. BlockBytes -> Byte]

\* The byte at a place of s, or of the zeros after it, and the block these make.
At(s, at)      == IF at <= Len(s) THEN s[at] ELSE ZeroByte
BlockOf(s, b)  == [i \in 1 .. BlockBytes |-> At(s, (b - 1) * BlockBytes + i)]

LEMMA PlaceInBlock ==
  ASSUME NEW b \in Nat \ {0}, NEW i \in 1 .. BlockBytes
  PROVE  (b - 1) * BlockBytes + i \in Nat \ {0}
  <1>1. BlockBytes \in Nat /\ b - 1 \in Nat
    BY BlockAssumption
  <1>2. (b - 1) * BlockBytes \in Nat
    BY <1>1
  <1> DEFINE p == (b - 1) * BlockBytes
  <1> HIDE DEF p
  <1>3. p + i \in Nat \ {0}
    BY <1>1, <1>2 DEF p
  <1>4. QED
    BY <1>3 DEF p

LEMMA BlocksFacts ==
  ASSUME NEW s \in Seq(Byte)
  PROVE  /\ Blocks(s) \in Seq(GhashBlock) /\ Len(Blocks(s)) = CeilDiv(Len(s), BlockBytes)
         /\ \A b \in 1 .. CeilDiv(Len(s), BlockBytes) : Blocks(s)[b] = BlockOf(s, b)
  <1> DEFINE m == CeilDiv(Len(s), BlockBytes)
  <1>1. m \in Nat /\ Len(s) \in Nat
    BY CeilDivFacts, LenProperties
  <1>2. Blocks(s) = [b \in 1 .. m |-> BlockOf(s, b)]
    BY DEF Blocks, BlockOf, At
  <1>3. ASSUME NEW b \in 1 .. m PROVE BlockOf(s, b) \in GhashBlock
    <2>1. ASSUME NEW i \in 1 .. BlockBytes PROVE At(s, (b - 1) * BlockBytes + i) \in Byte
      <3> DEFINE p == (b - 1) * BlockBytes + i
      <3>1. p \in Nat \ {0}
        BY <1>1, PlaceInBlock
      <3> HIDE DEF p
      <3>2. p <= Len(s) => s[p] \in Byte
        BY <1>1, <3>1, ElementOfSeq
      <3>3. At(s, p) \in Byte
        BY <3>2, ZeroByteFacts DEF At
      <3>4. QED
        BY <3>3 DEF p
    <2> HIDE DEF Byte
    <2>2. QED
      BY <2>1 DEF BlockOf, GhashBlock
  <1> HIDE DEF m, GhashBlock
  <1>4. Blocks(s) \in Seq(GhashBlock) /\ Len(Blocks(s)) = m
    BY <1>1, <1>2, <1>3
  <1>5. \A b \in 1 .. m : Blocks(s)[b] = BlockOf(s, b)
    BY <1>2
  <1>6. QED
    BY <1>4, <1>5 DEF m

\* GHASH over a text in two updates is GHASH over it in one, when the first is of whole blocks.
LEMMA BlocksJoin ==
  ASSUME NEW s \in Seq(Byte), NEW t \in Seq(Byte), NEW k \in Nat, Len(s) = k * BlockBytes
  PROVE  Blocks(s \o t) = Blocks(s) \o Blocks(t)
  <1> DEFINE w == s \o t
             m == CeilDiv(Len(t), BlockBytes)
             l == Blocks(w)
             r == Blocks(s) \o Blocks(t)
  <1>1. BlockBytes \in Nat /\ Len(s) \in Nat /\ Len(t) \in Nat /\ m \in Nat
    BY BlockAssumption, LenProperties, CeilDivFacts
  <1>2. /\ w \in Seq(Byte) /\ Len(w) = Len(s) + Len(t)
        /\ \A i \in 1 .. Len(s) + Len(t) :
             w[i] = IF i <= Len(s) THEN s[i] ELSE t[i - Len(s)]
    <2> HIDE DEF Byte
    <2>1. QED
      BY ConcatProperties
  <1>3. CeilDiv(Len(s), BlockBytes) = k /\ CeilDiv(Len(w), BlockBytes) = k + m
    <2>1. k * BlockBytes + 0 = k * BlockBytes /\ 0 \in Nat /\ k * BlockBytes \in Nat
      BY <1>1
    <2>2. CeilDiv(k * BlockBytes + 0, BlockBytes) = k + CeilDiv(0, BlockBytes)
      BY <2>1, CeilDivShift
    <2>3. CeilDiv(0, BlockBytes) = 0
      <3>1. 0 % BlockBytes = 0 /\ 0 \div BlockBytes = 0
        BY BlockAssumption, SmallRemainder
      <3>2. QED
        BY <3>1, CeilDivFacts
    <2>4. CeilDiv(k * BlockBytes + Len(t), BlockBytes) = k + m
      BY <1>1, CeilDivShift
    <2>5. QED
      BY <1>2, <2>1, <2>2, <2>3, <2>4
  <1>4. /\ l \in Seq(GhashBlock) /\ Len(l) = k + m
        /\ \A b \in 1 .. k + m : l[b] = BlockOf(w, b)
    <2> HIDE DEF w
    <2>1. QED
      BY <1>2, <1>3, BlocksFacts
  <1>5. /\ Blocks(s) \in Seq(GhashBlock) /\ Len(Blocks(s)) = k
        /\ \A b \in 1 .. k : Blocks(s)[b] = BlockOf(s, b)
    BY <1>3, BlocksFacts
  <1>6. /\ Blocks(t) \in Seq(GhashBlock) /\ Len(Blocks(t)) = m
        /\ \A b \in 1 .. m : Blocks(t)[b] = BlockOf(t, b)
    BY BlocksFacts
  <1>7. /\ r \in Seq(GhashBlock) /\ Len(r) = k + m
        /\ \A b \in 1 .. k + m :
             r[b] = IF b <= k THEN Blocks(s)[b] ELSE Blocks(t)[b - k]
    <2> DEFINE p == Blocks(s)
               q == Blocks(t)
    <2> HIDE DEF p, q, m, GhashBlock
    <2>1. p \in Seq(GhashBlock) /\ Len(p) = k /\ q \in Seq(GhashBlock) /\ Len(q) = m
      BY <1>5, <1>6 DEF p, q
    <2>2. /\ p \o q \in Seq(GhashBlock) /\ Len(p \o q) = k + m
          /\ \A b \in 1 .. k + m : (p \o q)[b] = IF b <= k THEN p[b] ELSE q[b - k]
      <3>1. /\ p \o q \in Seq(GhashBlock) /\ Len(p \o q) = Len(p) + Len(q)
            /\ \A b \in 1 .. Len(p) + Len(q) :
                 (p \o q)[b] = IF b <= Len(p) THEN p[b] ELSE q[b - Len(p)]
        BY <2>1, ConcatProperties
      <3>2. QED
        BY <2>1, <3>1
    <2>3. QED
      BY <2>2 DEF p, q
  <1>8. ASSUME NEW b \in 1 .. k, NEW i \in 1 .. BlockBytes
        PROVE  At(w, (b - 1) * BlockBytes + i) = At(s, (b - 1) * BlockBytes + i)
    <2> DEFINE p == (b - 1) * BlockBytes + i
    <2>1. p \in Nat \ {0}
      BY PlaceInBlock
    <2>2. p <= k * BlockBytes
      <3>1. k = (b - 1) + ((k - b) + 1) /\ b - 1 \in Nat /\ k - b \in Nat
        OBVIOUS
      <3>2. k * BlockBytes = (b - 1) * BlockBytes + (k - b) * BlockBytes + BlockBytes
        BY <1>1, <3>1, SMTT(30)
      <3>3. (b - 1) * BlockBytes \in Nat /\ (k - b) * BlockBytes \in Nat
        BY <1>1, <3>1
      <3>4. QED
        BY <1>1, <3>2, <3>3
    <2> HIDE DEF p, w
    <2>3. w[p] = s[p] /\ p <= Len(s) /\ p <= Len(w)
      BY <1>1, <1>2, <2>1, <2>2
    <2>4. QED
      BY <2>3 DEF At, p
  <1>9. ASSUME NEW b \in 1 .. m, NEW i \in 1 .. BlockBytes
        PROVE  At(w, ((k + b) - 1) * BlockBytes + i) = At(t, (b - 1) * BlockBytes + i)
    <2> DEFINE p == (b - 1) * BlockBytes + i
               p2 == ((k + b) - 1) * BlockBytes + i
    <2>1. p \in Nat \ {0}
      BY <1>1, PlaceInBlock
    <2>2. p2 = Len(s) + p
      <3>1. (k + b) - 1 = k + (b - 1) /\ b - 1 \in Nat
        BY <1>1
      <3>2. (k + (b - 1)) * BlockBytes = k * BlockBytes + (b - 1) * BlockBytes
        BY <1>1, <3>1, SMTT(30)
      <3>3. (b - 1) * BlockBytes \in Nat /\ k * BlockBytes \in Nat
        BY <1>1, <3>1
      <3>4. QED
        BY <1>1, <3>1, <3>2, <3>3
    <2> HIDE DEF p, p2, w
    <2>3. p2 <= Len(w) <=> p <= Len(t)
      BY <1>1, <1>2, <2>1, <2>2
    <2>4. p <= Len(t) => w[p2] = t[p]
      BY <1>1, <1>2, <2>1, <2>2
    <2>5. At(w, p2) = At(t, p)
      BY <2>3, <2>4 DEF At
    <2>6. QED
      BY <2>5 DEF p, p2
  <1>10. ASSUME NEW b \in 1 .. Len(l) PROVE l[b] = r[b]
    <2>1. b \in 1 .. k + m
      BY <1>4
    <2>2. CASE b <= k
      <3>1. b \in 1 .. k
        BY <2>1, <2>2
      <3>2. BlockOf(w, b) = BlockOf(s, b)
        BY <1>8, <3>1 DEF BlockOf
      <3>3. QED
        BY <1>4, <1>5, <1>7, <2>1, <2>2, <3>1, <3>2
    <2>3. CASE ~(b <= k)
      <3> DEFINE c == b - k
      <3>1. c \in 1 .. m /\ b = k + c
        BY <1>1, <2>1, <2>3
      <3> HIDE DEF c
      <3>2. BlockOf(w, k + c) = BlockOf(t, c)
        BY <1>9, <3>1 DEF BlockOf
      <3>3. r[b] = Blocks(t)[c]
        BY <1>7, <2>1, <2>3 DEF c
      <3>4. QED
        BY <1>4, <1>6, <2>1, <3>1, <3>2, <3>3
    <2>4. QED
      BY <2>2, <2>3
  <1>11. QED
    <2> HIDE DEF l, r, GhashBlock
    <2>1. l = r
      BY <1>4, <1>7, <1>10, SeqEqual
    <2>2. QED
      BY <2>1 DEF l, r, w

-----------------------------------------------------------------------------
(* The inductive invariant *)

\* The whole text under the keystream of the callback, and the bytes read so far.
Xored == CallbackXor(call.file, 1)
Read  == Len(call.file) - Len(fin)

\* What has been hashed when n bytes are read.
HashedUpTo(n) == IF call.op = "encrypt" THEN Slice(Xored, 0, n) ELSE Slice(call.file, 0, n)

Arguments ==
  /\ call.op \in {"encrypt", "decrypt"} /\ call.engine \in Engines
  /\ call.j0 \in CounterBlocks /\ call.aad \in Seq(Byte) /\ call.file \in Seq(Byte)
  /\ call.chunk \in Nat \ {0} /\ call.chunk % BlockBytes = 0

\* Files, streams and hash stand at the same byte; between two turns this is a block's first.
InStep ==
  /\ Read \in Nat /\ Read <= Len(call.file)
  /\ fin = Slice(call.file, Read, Len(call.file))
  /\ out = Slice(Xored, 0, Read)
  /\ gcm.ciphertext_len = Read
  /\ gcm.y = Blocks(call.aad) \o Blocks(HashedUpTo(Read))
  /\ ctr.next_block_offset = 1 + CeilDiv(Read, BlockBytes)
  /\ fin # <<>> => Read % BlockBytes = 0 /\ ctr.keystream_offset = BlockBytes

Phases ==
  /\ pc = "open" => out = <<>> /\ ~broken /\ ~fault
  /\ pc = "loop" => fault = broken
  /\ pc = "finalize" => fin = <<>> /\ ~broken /\ ~fault
  /\ pc # "returned" => ~lost /\ removal = "none"
  /\ pc \in {"loop", "finalize"} /\ ~broken => InStep

Inv ==
  /\ Arguments /\ TypeOK /\ Phases
  /\ EncryptsAsOneShot /\ DecryptsAsOneShot /\ NothingLeftBehind

-----------------------------------------------------------------------------
(* The one-shot calls *)

LEMMA OneShotXorFacts ==
  ASSUME NEW j0 \in CounterBlocks, NEW s \in Seq(Byte)
  PROVE  /\ OneShotXor(s, j0) \in Seq(Byte) /\ Len(OneShotXor(s, j0)) = Len(s)
  <1>1. DOMAIN s = 1 .. Len(s) /\ Len(s) \in Nat
    BY LenProperties
  <1> DEFINE b(i) == Combine(s[i], <<Counted(j0, 1 + (i - 1) \div BlockBytes),
                                     (i - 1) % BlockBytes>>)
  <1>2. ASSUME NEW i \in 1 .. Len(s) PROVE b(i) \in Byte
    <2>1. s[i] \in Byte
      BY <1>1, ElementOfSeq
    <2>2. (i - 1) \div BlockBytes \in Nat /\ (i - 1) % BlockBytes \in Nat
      BY <1>1, BlockOfByte
    <2>3. 1 + (i - 1) \div BlockBytes \in Nat
      BY <2>2
    <2>4. Counted(j0, 1 + (i - 1) \div BlockBytes) \in CounterBlocks
      BY <2>3, CountedIsAdd32, Add32Facts
    <2>5. QED
      BY <2>1, <2>2, <2>4, CombineFacts
  <1>3. OneShotXor(s, j0) = [i \in 1 .. Len(s) |-> b(i)]
    BY <1>1 DEF OneShotXor
  <1> HIDE DEF b, Byte
  <1>4. QED
    BY <1>1, <1>2, <1>3

\* Away from an overflow of the last word the callback's counter is the one-shot call's; the
\* OpenCL callback's always is.
LEMMA CallbackIsOneShot ==
  ASSUME call.j0 \in CounterBlocks, NEW s \in Seq(Byte),
         ~(call.engine = "cpu" /\ Wraps(call.j0, CeilDiv(Len(s), BlockBytes)))
  PROVE  CallbackXor(s, 1) = OneShotXor(s, call.j0)
  <1>1. DOMAIN s = 1 .. Len(s) /\ Len(s) \in Nat
    BY LenProperties
  <1>2. ASSUME NEW i \in 1 .. Len(s)
        PROVE  CallbackCounter(1 + (i - 1) \div BlockBytes)
                 = Counted(call.j0, 1 + (i - 1) \div BlockBytes)
    <2> DEFINE q == (i - 1) \div BlockBytes
               m == CeilDiv(Len(s), BlockBytes)
    <2>1. q \in Nat /\ q < m /\ m \in Nat
      BY <1>1, BlockOfByte, CeilDivFacts
    <2>0. call.engine = "cpu" => ~Wraps(call.j0, m)
      OBVIOUS
    <2> HIDE DEF q, m
    <2>2. 1 + q \in Nat /\ 1 + q <= m
      BY <2>1
    <2>3. Counted(call.j0, 1 + q) = Add32(call.j0, 1 + q)
      BY <2>2, CountedIsAdd32
    <2>4. CASE call.engine # "cpu"
      BY <2>3, <2>4 DEF CallbackCounter, q
    <2>5. CASE call.engine = "cpu"
      <3>1. ~Wraps(call.j0, m)
        BY <2>0, <2>5
      <3>2. call.j0.lo % Word \in Nat /\ Word \in Nat
        <4>1. Word \in Nat /\ 0 \in 0 .. Word - 1
          BY WordFacts
        <4>2. call.j0.lo % Word \in 0 .. Word - 1
          BY <4>1, LowerHalf
        <4>3. QED
          BY <4>1, <4>2
      <3>3. ~Wraps(call.j0, 1 + q)
        BY <2>1, <2>2, <3>1, <3>2 DEF Wraps
      <3>4. Add128(call.j0, 1 + q) = Add32(call.j0, 1 + q)
        BY <2>2, <3>3, Add128Facts
      <3>5. QED
        BY <2>3, <2>5, <3>4 DEF CallbackCounter, q
    <2>6. QED
      BY <2>4, <2>5
  <1>3. QED
    BY <1>1, <1>2 DEF CallbackXor, OneShotXor

-----------------------------------------------------------------------------
(* The initial states *)

LEMMA DamagedFacts ==
  ASSUME NEW s \in Seq(Byte), NEW file \in Damaged(s) PROVE file \in Seq(Byte)
  <1>1. DOMAIN s = 1 .. Len(s) /\ Len(s) \in Nat
    BY LenProperties
  <1>2. CASE file = s
    BY <1>2
  <1>3. CASE file = s \o <<ZeroByte>>
    <2>1. <<ZeroByte>> \in Seq(Byte)
      BY ZeroByteFacts
    <2> HIDE DEF Byte
    <2>2. QED
      BY <1>3, <2>1, ConcatProperties
  <1>4. CASE \E n \in 0 .. Len(s) - 1 : file = Take(s, n)
    <2>1. PICK n \in 0 .. Len(s) - 1 : file = Take(s, n)
      BY <1>4
    <2>2. n \in Nat /\ n <= Len(s)
      BY <1>1
    <2> HIDE DEF Byte
    <2>3. QED
      BY <2>1, <2>2, TakeSlice, SliceParts
  <1>5. CASE \E i \in DOMAIN s : file = [s EXCEPT ![i] = ZeroByte]
    <2>1. PICK i \in DOMAIN s : file = [s EXCEPT ![i] = ZeroByte]
      BY <1>5
    <2>2. ZeroByte \in Byte
      BY ZeroByteFacts
    <2> HIDE DEF Byte
    <2>3. QED
      BY <1>1, <2>1, <2>2
  <1>6. QED
    BY <1>2, <1>3, <1>4, <1>5 DEF Damaged

LEMMA InitInv == ASSUME Init PROVE Inv
  <1>1. PICK op \in {"encrypt", "decrypt"}, engine \in Engines, j0 \in J0s, aad \in Aads,
             tag_aad \in Aads, wish \in ChunkWishes, n \in 0 .. MaxLen :
          \E file \in IF op = "encrypt" THEN {Text(n)}
                                        ELSE Damaged(OneShotXor(Text(n), j0)) :
            call = [op |-> op, engine |-> engine, j0 |-> j0, aad |-> aad,
                    chunk |-> ParseChunk(wish), file |-> file,
                    tag |-> OneShotTag(tag_aad, OneShotXor(Text(n), j0), j0)]
    BY DEF Init
  <1>2. PICK file \in IF op = "encrypt" THEN {Text(n)}
                                        ELSE Damaged(OneShotXor(Text(n), j0)) :
          call = [op |-> op, engine |-> engine, j0 |-> j0, aad |-> aad,
                  chunk |-> ParseChunk(wish), file |-> file,
                  tag |-> OneShotTag(tag_aad, OneShotXor(Text(n), j0), j0)]
    BY <1>1
  <1>3. j0 \in CounterBlocks
    BY J0Assumption
  <1>4. Text(n) \in Seq(Byte)
    <2>1. n \in Nat
      BY MaxLenAssumption
    <2>2. \A i \in 1 .. n : [id |-> i, ks |-> {}] \in Byte
      BY <2>1 DEF Byte
    <2> HIDE DEF Byte
    <2>3. QED
      BY <2>1, <2>2 DEF Text
  <1>5. file \in Seq(Byte)
    BY <1>2, <1>3, <1>4, OneShotXorFacts, DamagedFacts
  <1>6. aad \in Seq(Byte)
    <2>1. aad \in Seq([id : Nat, ks : {{}}])
      BY AadsAssumption
    <2>2. [id : Nat, ks : {{}}] \subseteq Byte
      BY DEF Byte
    <2> HIDE DEF Byte
    <2>3. QED
      BY <2>1, <2>2, SeqSubset
  <1>7. ParseChunk(wish) \in Nat \ {0} /\ ParseChunk(wish) % BlockBytes = 0
    BY ChunkFacts
  <1>8. Arguments
    BY <1>2, <1>3, <1>5, <1>6, <1>7 DEF Arguments
  <1>9. TypeOK
    <2>1. /\ pc = "open" /\ broken = FALSE /\ exists = FALSE /\ removal = "none"
          /\ lost = FALSE /\ fault = FALSE
          /\ ctr.next_block_offset = 0 /\ ctr.keystream_offset = 0
          /\ gcm.ciphertext_len = 0 /\ result.status = "none"
      BY DEF Init
    <2>2. 0 \in Nat /\ 0 \in 0 .. BlockBytes
      BY BlockAssumption
    <2> HIDE DEF Byte
    <2>3. QED
      BY <1>8, <2>1, <2>2, Zenon DEF Arguments, TypeOK
  <1>10. Phases
    BY DEF Phases, Init
  <1>11. pc = "open"
    BY DEF Init
  <1>12. QED
    BY <1>8, <1>9, <1>10, <1>11
       DEF Inv, EncryptsAsOneShot, DecryptsAsOneShot, NothingLeftBehind, Ended

-----------------------------------------------------------------------------
(* The steps *)

Genuine == call.tag = OneShotTag(call.aad, call.file, call.j0)

\* What the call returns is right when this is what it is about to return.
RightResult(st, tag, failed) ==
  LET bytes == OneShotXor(call.file, call.j0) IN
  /\ failed => st # "OK"
  /\ call.op = "encrypt" /\ ~Exempt =>
       /\ ~failed => st = "OK"
       /\ st = "OK" => out = bytes /\ tag = OneShotTag(call.aad, bytes, call.j0)
  /\ call.op = "decrypt" =>
       /\ ~failed => st = IF Genuine THEN "OK" ELSE "AUTH_FAILED"
       /\ st = "OK" => Genuine
       /\ st = "OK" /\ ~Exempt => out = bytes

LEMMA TypeNext ==
  ASSUME TypeOK, UNCHANGED <<call, ctr, gcm>>,
         pc' \in {"open", "loop", "finalize", "returned"},
         broken' \in BOOLEAN, exists' \in BOOLEAN, fault' \in BOOLEAN, lost' \in BOOLEAN,
         removal' \in {"none", "done", "failed"}, removal' = "done" => ~exists',
         result'.status \in {"none", "OK", "INVALID_ARG", "IO_ERROR", "INTERNAL_ERROR",
                             "AUTH_FAILED"}
  PROVE  TypeOK'
  <1>1. call' = call /\ ctr' = ctr /\ gcm' = gcm
    OBVIOUS
  <1>2. QED
    BY <1>1 DEF TypeOK

LEMMA ReturnInv ==
  ASSUME Inv, ~lost, NEW st, NEW tag, NEW failed \in BOOLEAN, Return(st, tag, failed),
         st \in {"OK", "IO_ERROR", "INTERNAL_ERROR", "AUTH_FAILED"},
         RightResult(st, tag, failed), UNCHANGED <<call, fin, broken, streams>>
  PROVE  Inv'
  <1>1. /\ pc' = "returned" /\ fault' = failed /\ lost' = lost
        /\ result' = [status |-> st, tag |-> tag]
        /\ removal' \in {"none", "done", "failed"}
        /\ st = "OK" => removal' = "none"
        /\ st # "OK" => removal' \in {"done", "failed"}
        /\ exists' = (removal' # "done")
        /\ out' = IF removal' = "done" THEN <<>> ELSE out
    BY DEF Return, Keeps
  <1>2. call' = call /\ ctr' = ctr /\ gcm' = gcm /\ broken' = broken /\ fin' = fin
    BY DEF streams
  <1>3. result'.status = st /\ result'.tag = tag
    BY <1>1
  <1>4. Arguments'
    BY <1>2 DEF Inv, Arguments
  <1>5. TypeOK'
    <2>1. TypeOK /\ broken \in BOOLEAN /\ lost \in BOOLEAN
      BY DEF Inv, TypeOK
    <2>2. QED
      BY <1>1, <1>2, <1>3, <2>1, TypeNext
  <1>6. Phases'
    BY <1>1, <1>2 DEF Phases
  <1>7. st = "OK" => out' = out
    BY <1>1
  <1>8. EncryptsAsOneShot'
    BY <1>1, <1>2, <1>3, <1>7
       DEF EncryptsAsOneShot, EncryptedRight, Ended, Exempt, Written, RightResult
  <1>9. DecryptsAsOneShot'
    BY <1>1, <1>2, <1>3, <1>7
       DEF DecryptsAsOneShot, Ended, Exempt, Written, RightResult, Genuine
  <1>10. NothingLeftBehind'
    BY <1>1, <1>3 DEF NothingLeftBehind
  <1>11. QED
    BY <1>4, <1>5, <1>6, <1>8, <1>9, <1>10 DEF Inv

\* A call that failed outside the library returns no OK.
LEMMA FailureInv ==
  ASSUME Inv, pc = "loop", UNCHANGED <<call, fin, broken, streams>>,
         NEW st \in {"IO_ERROR", "INTERNAL_ERROR"}, Return(st, NoTag, TRUE)
  PROVE  Inv'
  <1>1. ~lost
    BY DEF Inv, Phases
  <1>2. RightResult(st, NoTag, TRUE)
    BY DEF RightResult
  <1>3. QED
    BY <1>1, <1>2, ReturnInv

LEMMA OpenFailsInv == ASSUME Inv, OpenFails PROVE Inv'
  <1>1. /\ pc' = "returned" /\ fault' = TRUE /\ UNCHANGED <<call, fin, broken, streams>>
        /\ out' = <<>> /\ removal' = removal /\ lost' = lost /\ exists' \in BOOLEAN
        /\ result'.status \in {"INVALID_ARG", "INTERNAL_ERROR", "IO_ERROR"}
    BY DEF OpenFails, Inv, Phases
  <1>2. call' = call /\ ctr' = ctr /\ gcm' = gcm /\ broken' = broken
    BY <1>1 DEF streams
  <1>3. removal = "none" /\ ~lost /\ broken \in BOOLEAN /\ TypeOK
    BY DEF Inv, Phases, TypeOK, OpenFails
  <1>4. Arguments'
    BY <1>2 DEF Inv, Arguments
  <1>5. TypeOK'
    <2>1. /\ UNCHANGED <<call, ctr, gcm>> /\ fault' \in BOOLEAN /\ lost' \in BOOLEAN
          /\ pc' \in {"open", "loop", "finalize", "returned"} /\ broken' \in BOOLEAN
          /\ removal' \in {"none", "done", "failed"} /\ (removal' = "done" => ~exists')
          /\ result'.status \in {"none", "OK", "INVALID_ARG", "IO_ERROR", "INTERNAL_ERROR",
                                 "AUTH_FAILED"}
      BY <1>1, <1>2, <1>3 DEF TypeOK
    <2>2. QED
      BY <1>1, <1>3, <2>1, TypeNext
  <1>6. Phases'
    BY <1>1 DEF Phases
  <1>7. EncryptsAsOneShot' /\ DecryptsAsOneShot' /\ NothingLeftBehind'
    BY <1>1 DEF EncryptsAsOneShot, EncryptedRight, DecryptsAsOneShot, NothingLeftBehind, Ended
  <1>8. QED
    BY <1>4, <1>5, <1>6, <1>7 DEF Inv

\* Steps of a call that has not returned need no more than where they leave files and streams.
LEMMA OngoingInv ==
  ASSUME Arguments', TypeOK', Phases', pc' # "returned" PROVE Inv'
  BY DEF Inv, EncryptsAsOneShot, DecryptsAsOneShot, NothingLeftBehind, Ended

LEMMA XoredFacts ==
  ASSUME Arguments PROVE Xored \in Seq(Byte) /\ Len(Xored) = Len(call.file)
  <1>1. call.j0 \in CounterBlocks /\ call.file \in Seq(Byte) /\ 1 \in Nat
    BY DEF Arguments
  <1> HIDE DEF Byte
  <1>2. QED
    BY <1>1, CallbackXorFacts DEF Xored

LEMMA XoredStays == ASSUME UNCHANGED call PROVE Xored' = Xored
  BY DEF Xored, CallbackXor, CallbackCounter

LEMMA OpenInv == ASSUME Inv, Open PROVE Inv'
  <1>1. /\ pc = "open" /\ pc' = "loop" /\ exists' = TRUE /\ fin' = call.file /\ call' = call
        /\ ctr'.next_block_offset = 1 /\ ctr'.keystream_offset = BlockBytes
        /\ gcm'.y = Blocks(call.aad) /\ gcm'.ciphertext_len = 0
        /\ broken' = broken /\ out' = out /\ removal' = removal /\ result' = result
        /\ lost' = lost /\ fault' = fault
    BY DEF Open, FirstOffset
  <1>2. Arguments /\ TypeOK /\ out = <<>> /\ ~broken /\ ~fault /\ ~lost /\ removal = "none"
    BY <1>1 DEF Inv, Phases
  <1>3. Arguments'
    BY <1>1, <1>2 DEF Arguments
  <1>4. TypeOK'
    <2>1. BlockBytes \in 0 .. BlockBytes
      BY BlockAssumption
    <2>2. QED
      BY <1>1, <1>2, <2>1 DEF TypeOK
  <1>5. Xored \in Seq(Byte) /\ call.file \in Seq(Byte) /\ Len(call.file) \in Nat
    BY <1>2, XoredFacts, LenProperties DEF Arguments
  <1>6. Read' = 0
    BY <1>1, <1>5 DEF Read
  <1>7. /\ Slice(Xored, 0, 0) = <<>> /\ Slice(call.file, 0, 0) = <<>>
        /\ Slice(call.file, 0, Len(call.file)) = call.file
    <2>1. 0 \in Nat /\ 0 <= Len(Xored) /\ 0 <= Len(call.file)
      BY <1>5, XoredFacts, <1>2
    <2> HIDE DEF Byte
    <2>2. QED
      BY <1>5, <2>1, SliceEmpty, SliceAll
  <1>8. /\ Blocks(<<>>) = <<>> /\ CeilDiv(0, BlockBytes) = 0 /\ 0 % BlockBytes = 0
        /\ Blocks(call.aad) \in Seq(GhashBlock)
    <2>1. CeilDiv(0, BlockBytes) = 0 /\ 0 % BlockBytes = 0
      <3>1. 0 % BlockBytes = 0 /\ 0 \div BlockBytes = 0
        BY BlockAssumption, SmallRemainder
      <3>2. QED
        BY <3>1, CeilDivFacts
    <2>2. <<>> \in Seq(Byte) /\ Len(<<>>) = 0
      OBVIOUS
    <2>3. Blocks(<<>>) \in Seq(GhashBlock) /\ Len(Blocks(<<>>)) = 0
      BY <2>1, <2>2, BlocksFacts
    <2>4. Blocks(<<>>) = <<>>
      BY <2>3, EmptySeq
    <2>5. call.aad \in Seq(Byte)
      BY <1>2 DEF Arguments
    <2>6. QED
      BY <2>1, <2>4, <2>5, BlocksFacts
  <1>9. HashedUpTo(0)' = <<>>
    BY <1>1, <1>7, XoredStays DEF HashedUpTo
  <1>10. InStep'
    <2>1. Blocks(call.aad) \o <<>> = Blocks(call.aad)
      <3> DEFINE y == Blocks(call.aad)
      <3>1. y \in Seq(GhashBlock)
        BY <1>8
      <3> HIDE DEF y, GhashBlock
      <3>2. y \o <<>> = y
        BY <3>1, ConcatEmptySeq
      <3>3. QED
        BY <3>2 DEF y
    <2>2. Blocks(HashedUpTo(Read)') = <<>>
      BY <1>1, <1>6, <1>7, <1>8, XoredStays DEF HashedUpTo
    <2>3. Slice(Xored, 0, Read)' = <<>>
      BY <1>1, <1>6, <1>7, XoredStays
    <2> HIDE DEF GhashBlock
    <2>4. QED
      BY <1>1, <1>2, <1>5, <1>6, <1>7, <1>8, <2>1, <2>2, <2>3 DEF InStep
  <1>11. Phases'
    <2>1. broken = FALSE /\ fault = FALSE
      BY <1>2 DEF TypeOK
    <2>2. QED
      BY <1>1, <1>2, <1>10, <2>1 DEF Phases
  <1>12. QED
    BY <1>1, <1>3, <1>4, <1>11, OngoingInv

\* A turn's part of the text meets the keystream it meets in the whole text, and its hash
\* goes on from the hash so far.
LEMMA TurnFacts ==
  ASSUME Arguments, InStep, NEW n \in Nat \ {0}, n <= Len(fin)
  PROVE  /\ Read + n \in Nat /\ Read + n <= Len(call.file)
         /\ Read % BlockBytes = 0
         /\ Take(fin, n) = Slice(call.file, Read, Read + n)
         /\ Drop(fin, n) = Slice(call.file, Read + n, Len(call.file))
         /\ StreamXor(Take(fin, n)).output = Slice(Xored, Read, Read + n)
         /\ StreamXor(Take(fin, n)).state.next_block_offset
              = 1 + CeilDiv(Read + n, BlockBytes)
         /\ StreamXor(Take(fin, n)).state.keystream_offset \in 0 .. BlockBytes
         /\ n % BlockBytes = 0 =>
              /\ (Read + n) % BlockBytes = 0
              /\ StreamXor(Take(fin, n)).state.keystream_offset = BlockBytes
         /\ Slice(Xored, 0, Read) \o Slice(Xored, Read, Read + n)
              = Slice(Xored, 0, Read + n)
         /\ Len(Slice(Xored, Read, Read + n)) = n
         /\ Len(Slice(call.file, Read, Read + n)) = n
         /\ Blocks(HashedUpTo(Read))
              \o Blocks(IF call.op = "encrypt" THEN Slice(Xored, Read, Read + n)
                                               ELSE Slice(call.file, Read, Read + n))
              = Blocks(HashedUpTo(Read + n))
  <1> DEFINE L     == Len(call.file)
             r     == Read
             e     == r + n
             k     == r \div BlockBytes
             input == Take(fin, n)
  <1>1. /\ call.file \in Seq(Byte) /\ L \in Nat /\ call.j0 \in CounterBlocks
        /\ Xored \in Seq(Byte) /\ Len(Xored) = L
    BY XoredFacts, LenProperties DEF Arguments
  <1>2. r \in Nat /\ r <= L /\ fin = Slice(call.file, r, L)
    BY DEF InStep
  <1>3. Len(fin) = L - r
    <2>1. /\ call.file \in Seq(Byte) /\ r \in Nat /\ r <= Len(call.file)
          /\ fin = Slice(call.file, r, Len(call.file))
      BY <1>1, <1>2
    <2> HIDE DEF r, Byte
    <2>2. Len(Slice(call.file, r, Len(call.file))) = Len(call.file) - r
      BY <2>1, SliceParts
    <2>3. QED
      BY <2>1, <2>2
  <1>4. e \in Nat /\ e <= L /\ r <= e /\ e - r = n /\ n <= L - r
    BY <1>1, <1>2, <1>3
  <1>5. fin # <<>>
    BY <1>3, <1>4
  <1>6. r % BlockBytes = 0 /\ ctr.keystream_offset = BlockBytes
    BY <1>5 DEF InStep
  <1>7. k \in Nat /\ r = k * BlockBytes
    <2>1. r = k * BlockBytes + 0 /\ k \in Nat
      BY <1>2, <1>6, Division
    <2>2. k * BlockBytes \in Nat
      BY <2>1, BlockAssumption
    <2> HIDE DEF k, r
    <2>3. QED
      BY <2>1, <2>2
  <1>8. input = Slice(call.file, r, e) /\ Drop(fin, n) = Slice(call.file, e, L)
    <2>1. input = Slice(fin, 0, n) /\ Drop(fin, n) = Slice(fin, n, L - r)
      BY <1>3, TakeSlice
    <2>2. /\ 0 \in Nat /\ 0 <= n /\ n <= L - r /\ L - r \in Nat /\ L - r <= L - r
          /\ r + 0 = r /\ r + (L - r) = L /\ L <= Len(call.file)
      BY <1>1, <1>2, <1>4
    <2> HIDE DEF L, r, input, Byte
    <2>3. Slice(Slice(call.file, r, L), 0, n) = Slice(call.file, r + 0, r + n)
      BY <1>1, <1>2, <2>2, SliceOfSlice
    <2>4. Slice(Slice(call.file, r, L), n, L - r) = Slice(call.file, r + n, r + (L - r))
      BY <1>1, <1>2, <2>2, SliceOfSlice
    <2>5. QED
      BY <1>2, <2>1, <2>2, <2>3, <2>4
  <1>9. input \in Seq(Byte) /\ Len(input) = n
    <2>1. e <= Len(call.file)
      BY <1>4
    <2> HIDE DEF L, r, e, input, Byte
    <2>2. Slice(call.file, r, e) \in Seq(Byte)
      BY <1>1, <1>2, <1>4, <2>1, SliceFacts
    <2>3. Len(Slice(call.file, r, e)) = e - r
      BY <1>1, <1>2, <1>4, <2>1, SliceFacts
    <2>4. QED
      BY <1>4, <1>8, <2>2, <2>3
  <1>10. CeilDiv(r, BlockBytes) = k
    <2>1. CeilDiv(r, BlockBytes) = k + 0
      BY <1>2, <1>6, CeilDivFacts
    <2>2. QED
      BY <1>7, <2>1
  <1>11. ctr.next_block_offset = 1 + k /\ ctr.next_block_offset \in Nat
    BY <1>7, <1>10 DEF InStep
  <1>12. /\ StreamXor(input).output = CallbackXor(input, 1 + k)
         /\ StreamXor(input).state.next_block_offset = (1 + k) + CeilDiv(n, BlockBytes)
         /\ StreamXor(input).state.keystream_offset \in 0 .. BlockBytes
         /\ n % BlockBytes = 0 => StreamXor(input).state.keystream_offset = BlockBytes
    <2> HIDE DEF input, k, r, Byte
    <2>1. QED
      BY <1>1, <1>6, <1>9, <1>11, StreamXorFacts
  <1>13. CallbackXor(input, 1 + k) = Slice(Xored, r, e)
    <2>1. k * BlockBytes <= e /\ e <= Len(call.file) /\ 1 \in Nat /\ e \in Nat /\ k \in Nat
          /\ call.file \in Seq(Byte) /\ call.j0 \in CounterBlocks
      BY <1>1, <1>4, <1>7
    <2>2. CallbackXor(Slice(call.file, k * BlockBytes, e), 1 + k)
            = Slice(CallbackXor(call.file, 1), k * BlockBytes, e)
      <3> HIDE DEF k, e, Byte
      <3>1. QED
        BY <2>1, CallbackXorSlice
    <2> HIDE DEF k, e, r, input
    <2>3. QED
      BY <1>7, <1>8, <2>2 DEF Xored
  <1>14. (1 + k) + CeilDiv(n, BlockBytes) = 1 + CeilDiv(e, BlockBytes)
    <2>1. CeilDiv(k * BlockBytes + n, BlockBytes) = k + CeilDiv(n, BlockBytes)
      BY <1>7, CeilDivShift
    <2>2. CeilDiv(n, BlockBytes) \in Nat
      BY CeilDivFacts
    <2> HIDE DEF k, r
    <2>3. QED
      BY <1>7, <2>1, <2>2
  <1>15. n % BlockBytes = 0 => e % BlockBytes = 0
    <2>1. (k * BlockBytes + n) % BlockBytes = n % BlockBytes
      BY <1>7, ShiftDivision
    <2> HIDE DEF k, r
    <2>2. QED
      BY <1>7, <2>1
  <1>16. ASSUME NEW s \in Seq(Byte), Len(s) = L
         PROVE  /\ Slice(s, 0, r) \o Slice(s, r, e) = Slice(s, 0, e)
                /\ Slice(s, 0, r) \in Seq(Byte) /\ Len(Slice(s, 0, r)) = r
                /\ Slice(s, r, e) \in Seq(Byte) /\ Len(Slice(s, r, e)) = n
    <2>1. e <= Len(s) /\ r <= Len(s) /\ 0 \in Nat /\ 0 <= r /\ r - 0 = r
      BY <1>2, <1>4, <1>16
    <2> HIDE DEF L, r, e, Byte
    <2>2. Slice(s, 0, r) \o Slice(s, r, e) = Slice(s, 0, e)
      BY <1>2, <1>4, <2>1, SliceJoin
    <2>3. Slice(s, 0, r) \in Seq(Byte) /\ Len(Slice(s, 0, r)) = r
      BY <1>2, <1>4, <2>1, SliceParts
    <2>4. Slice(s, r, e) \in Seq(Byte) /\ Len(Slice(s, r, e)) = e - r
      BY <1>2, <1>4, <2>1, SliceFacts
    <2>5. QED
      BY <1>4, <2>2, <2>3, <2>4
  <1>17. ASSUME NEW s \in Seq(Byte), Len(s) = L
         PROVE  Blocks(Slice(s, 0, r)) \o Blocks(Slice(s, r, e)) = Blocks(Slice(s, 0, e))
    <2> DEFINE p == Slice(s, 0, r)
               q == Slice(s, r, e)
    <2>1. p \in Seq(Byte) /\ Len(p) = k * BlockBytes /\ q \in Seq(Byte) /\ p \o q = Slice(s, 0, e)
      <3> HIDE DEF r, e, k, Byte
      <3>1. QED
        BY <1>7, <1>16, <1>17
    <2> HIDE DEF p, q, k
    <2>2. Blocks(p \o q) = Blocks(p) \o Blocks(q)
      BY <1>7, <2>1, BlocksJoin
    <2>3. QED
      BY <2>1, <2>2 DEF p, q
  <1>18. Blocks(HashedUpTo(r))
            \o Blocks(IF call.op = "encrypt" THEN Slice(Xored, r, e) ELSE Slice(call.file, r, e))
            = Blocks(HashedUpTo(e))
    <2>1. Blocks(Slice(Xored, 0, r)) \o Blocks(Slice(Xored, r, e)) = Blocks(Slice(Xored, 0, e))
      BY <1>1, <1>17
    <2>2. Blocks(Slice(call.file, 0, r)) \o Blocks(Slice(call.file, r, e))
            = Blocks(Slice(call.file, 0, e))
      BY <1>1, <1>17
    <2> HIDE DEF r, e
    <2>3. QED
      BY <2>1, <2>2 DEF HashedUpTo
  <1>19. /\ Slice(Xored, 0, r) \o Slice(Xored, r, e) = Slice(Xored, 0, e)
         /\ Len(Slice(Xored, r, e)) = n /\ Len(Slice(call.file, r, e)) = n
    BY <1>1, <1>16
  <1> HIDE DEF k
  <1>20. QED
    BY <1>4, <1>6, <1>8, <1>12, <1>13, <1>14, <1>15, <1>18, <1>19

LEMMA HashedUpToFacts ==
  ASSUME Arguments, NEW n \in Nat, n <= Len(call.file)
  PROVE  HashedUpTo(n) \in Seq(Byte) /\ Len(HashedUpTo(n)) = n
  <1>1. Xored \in Seq(Byte) /\ Len(Xored) = Len(call.file) /\ call.file \in Seq(Byte)
    BY XoredFacts DEF Arguments
  <1> HIDE DEF Byte
  <1>2. Slice(Xored, 0, n) \in Seq(Byte) /\ Len(Slice(Xored, 0, n)) = n
    BY <1>1, SliceParts
  <1>3. Slice(call.file, 0, n) \in Seq(Byte) /\ Len(Slice(call.file, 0, n)) = n
    BY <1>1, SliceParts
  <1>4. QED
    BY <1>2, <1>3 DEF HashedUpTo

LEMMA TurnInv == ASSUME Inv, Turn PROVE Inv'
  <1> DEFINE most == Min({call.chunk, Len(fin)})
             r    == Read
             hash == IF call.op = "encrypt" THEN Slice(Xored, r, Read')
                                            ELSE Slice(call.file, r, Read')
  <1>1. Arguments /\ TypeOK /\ InStep /\ ~lost /\ removal = "none" /\ fault = FALSE
    BY DEF Inv, Phases, TypeOK, Turn
  <1>2. /\ call.file \in Seq(Byte) /\ Len(call.file) \in Nat /\ call.aad \in Seq(Byte)
        /\ call.chunk \in Nat \ {0} /\ call.chunk % BlockBytes = 0
    BY <1>1, LenProperties DEF Arguments
  <1>3. Len(fin) = Len(call.file) - r /\ r \in Nat /\ r <= Len(call.file) /\ Len(fin) \in Nat
    <2>1. /\ r \in Nat /\ r <= Len(call.file)
          /\ fin = Slice(call.file, r, Len(call.file))
      BY <1>1 DEF InStep
    <2> HIDE DEF r, Byte
    <2>2. Len(Slice(call.file, r, Len(call.file))) = Len(call.file) - r
      BY <1>2, <2>1, SliceParts
    <2>3. QED
      BY <1>2, <2>1, <2>2
  <1>4. PICK n \in 1 .. most :
          /\ fin' = Drop(fin, n)
          /\ broken' = (n < most)
          /\ ctr' = StreamXor(Take(fin, n)).state
          /\ gcm' = StreamHash(Hashed(Take(fin, n), StreamXor(Take(fin, n)).output))
          /\ out' = out \o StreamXor(Take(fin, n)).output
    BY DEF Turn
  <1>5. /\ pc = "loop" /\ ~broken /\ fault' = broken' /\ call' = call /\ pc' = pc
        /\ exists' = exists /\ removal' = removal /\ result' = result /\ lost' = lost
    BY DEF Turn
  <1>6. /\ n \in Nat \ {0} /\ n <= Len(fin) /\ n <= most /\ most \in Nat
        /\ most = IF call.chunk <= Len(fin) THEN call.chunk ELSE Len(fin)
    <2>1. most = IF call.chunk <= Len(fin) THEN call.chunk ELSE Len(fin)
      BY <1>2, <1>3, MinOfTwo
    <2> HIDE DEF most
    <2>2. QED
      BY <1>2, <1>3, <2>1
  <1> HIDE DEF most
  <1>7. /\ r + n \in Nat /\ r + n <= Len(call.file)
        /\ Take(fin, n) = Slice(call.file, r, r + n)
        /\ fin' = Slice(call.file, r + n, Len(call.file))
        /\ StreamXor(Take(fin, n)).output = Slice(Xored, r, r + n)
        /\ ctr'.next_block_offset = 1 + CeilDiv(r + n, BlockBytes)
        /\ ctr'.keystream_offset \in 0 .. BlockBytes
        /\ n % BlockBytes = 0 =>
             (r + n) % BlockBytes = 0 /\ ctr'.keystream_offset = BlockBytes
        /\ Slice(Xored, 0, r) \o Slice(Xored, r, r + n) = Slice(Xored, 0, r + n)
        /\ Len(Slice(Xored, r, r + n)) = n
        /\ Len(Slice(call.file, r, r + n)) = n
        /\ Blocks(HashedUpTo(r))
             \o Blocks(IF call.op = "encrypt" THEN Slice(Xored, r, r + n)
                                              ELSE Slice(call.file, r, r + n))
             = Blocks(HashedUpTo(r + n))
    BY <1>1, <1>4, <1>6, TurnFacts
  <1>8. Len(fin') = Len(call.file) - (r + n) /\ Read' = r + n
    <2>1. Len(fin') = Len(call.file) - (r + n)
      <3> DEFINE e == r + n
      <3>1. e \in Nat /\ e <= Len(call.file) /\ fin' = Slice(call.file, e, Len(call.file))
        BY <1>7
      <3> HIDE DEF e, Byte
      <3>2. Len(Slice(call.file, e, Len(call.file))) = Len(call.file) - e
        BY <1>2, <3>1, SliceParts
      <3>3. QED
        BY <3>1, <3>2 DEF e
    <2>2. Read' = Len(call.file) - Len(fin')
      BY <1>5 DEF Read
    <2>3. /\ Len(call.file) \in Nat /\ r \in Nat /\ n \in Nat
          /\ Len(fin') = Len(call.file) - (r + n) /\ Read' = Len(call.file) - Len(fin')
      BY <1>2, <1>3, <1>6, <2>1, <2>2
    <2> HIDE DEF r
    <2>4. Len(call.file) - (Len(call.file) - (r + n)) = r + n
      <3>1. \A l, a, b \in Nat : l - (l - (a + b)) = a + b
        OBVIOUS
      <3>2. QED
        BY <2>3, <3>1, Zenon
    <2>5. Read' = Len(call.file) - (Len(call.file) - (r + n))
      BY <2>3, Zenon
    <2>6. QED
      BY <2>1, <2>4, <2>5, Zenon
  <1>9. hash = Hashed(Take(fin, n), StreamXor(Take(fin, n)).output) /\ Len(hash) = n
    BY <1>7, <1>8 DEF Hashed
  <1>10. gcm'.ciphertext_len = r + n /\ gcm'.y = gcm.y \o Blocks(hash)
    BY <1>1, <1>4, <1>9 DEF StreamHash, InStep
  <1>11. gcm'.y = Blocks(call.aad) \o Blocks(HashedUpTo(r + n))
    <2> DEFINE x == Blocks(call.aad)
               y == Blocks(HashedUpTo(r))
               z == Blocks(hash)
    <2>1. x \in Seq(GhashBlock) /\ y \in Seq(GhashBlock)
      <3>1. r \in Nat /\ r <= Len(call.file) /\ call.aad \in Seq(Byte)
        BY <1>2, <1>3
      <3> HIDE DEF r, Byte
      <3>2. HashedUpTo(r) \in Seq(Byte)
        BY <1>1, <3>1, HashedUpToFacts
      <3>3. QED
        BY <3>1, <3>2, BlocksFacts
    <2>2. hash \in Seq(Byte)
      <3>1. Xored \in Seq(Byte) /\ Len(Xored) = Len(call.file)
        BY <1>1, XoredFacts
      <3> DEFINE e == r + n
      <3>2. /\ e \in Nat /\ e <= Len(call.file) /\ r <= e /\ r \in Nat
            /\ hash = IF call.op = "encrypt" THEN Slice(Xored, r, e) ELSE Slice(call.file, r, e)
        BY <1>3, <1>6, <1>7, <1>8
      <3> HIDE DEF e, r, hash, Byte
      <3>3. Slice(Xored, r, e) \in Seq(Byte)
        BY <3>1, <3>2, SliceFacts
      <3>4. Slice(call.file, r, e) \in Seq(Byte)
        BY <1>2, <3>2, SliceFacts
      <3>5. QED
        BY <3>2, <3>3, <3>4
    <2>3. z \in Seq(GhashBlock)
      <3> HIDE DEF hash
      <3>1. QED
        BY <2>2, BlocksFacts
    <2>4. gcm'.y = (x \o y) \o z /\ y \o z = Blocks(HashedUpTo(r + n))
      BY <1>1, <1>7, <1>8, <1>10 DEF InStep
    <2> HIDE DEF x, y, z, GhashBlock
    <2>5. (x \o y) \o z = x \o (y \o z)
      BY <2>1, <2>3, ConcatAssociative
    <2>6. QED
      BY <2>4, <2>5 DEF x
  <1>12. out' = Slice(Xored, 0, r + n)
    BY <1>1, <1>4, <1>7 DEF InStep
  <1>13. ~broken' /\ fin' # <<>> =>
           (r + n) % BlockBytes = 0 /\ ctr'.keystream_offset = BlockBytes
    <2> SUFFICES ASSUME ~broken', fin' # <<>> PROVE n % BlockBytes = 0
      BY <1>7
    <2>1. n = most
      <3>1. ~(n < most)
        BY <1>4, Zenon
      <3>2. QED
        BY <1>6, <3>1
    <2>2. Len(fin') # 0
      <3> DEFINE e == r + n
      <3>1. e \in Nat /\ e <= Len(call.file) /\ fin' = Slice(call.file, e, Len(call.file))
        BY <1>7
      <3> HIDE DEF e, Byte
      <3>2. fin' \in Seq(Byte)
        BY <1>2, <3>1, SliceParts
      <3>3. QED
        BY <3>2, EmptySeq
    <2>3. n # Len(fin)
      BY <1>3, <1>8, <2>2
    <2>4. QED
      BY <1>2, <1>6, <2>1, <2>3
  <1>14. Xored' = Xored /\ Arguments'
    BY <1>1, <1>5, XoredStays DEF Arguments
  <1>15. HashedUpTo(Read)' = HashedUpTo(r + n)
    BY <1>5, <1>8, <1>14 DEF HashedUpTo
  <1>16. TypeOK'
    <2>1. r + n \in Nat /\ 1 + CeilDiv(r + n, BlockBytes) \in Nat
      <3> DEFINE e == r + n
      <3>1. e \in Nat
        BY <1>7
      <3> HIDE DEF e
      <3>2. CeilDiv(e, BlockBytes) \in Nat
        BY <3>1, CeilDivFacts
      <3>3. QED
        BY <3>1, <3>2 DEF e
    <2>2. broken' \in BOOLEAN
      BY <1>4
    <2> HIDE DEF r
    <2>3. QED
      BY <1>1, <1>5, <1>7, <1>10, <2>1, <2>2 DEF TypeOK
  <1>17. Phases'
    <2>1. pc' = "loop" /\ ~lost' /\ removal' = "none" /\ fault' = broken'
      BY <1>1, <1>5
    <2>2. ASSUME ~broken' PROVE InStep'
      <3>1. Blocks(HashedUpTo(Read)') = Blocks(HashedUpTo(r + n))
        BY <1>15
      <3>2. Slice(Xored, 0, Read)' = Slice(Xored, 0, r + n)
        BY <1>8, <1>14
      <3>3. Read' \in Nat /\ Read' <= Len(call.file)
        BY <1>7, <1>8
      <3> HIDE DEF r, hash
      <3>4. QED
        BY <1>5, <1>7, <1>8, <1>10, <1>11, <1>12, <1>13, <2>2, <3>1, <3>2, <3>3 DEF InStep
    <2>3. QED
      BY <2>1, <2>2 DEF Phases
  <1>18. QED
    BY <1>5, <1>14, <1>16, <1>17, OngoingInv

\* When the file has been read to its end, output and hash are those of the whole text.
LEMMA WholeFile ==
  ASSUME Inv, pc = "finalize"
  PROVE  /\ out = Xored /\ gcm.ciphertext_len = Len(call.file)
         /\ gcm.y = Blocks(call.aad)
                      \o Blocks(IF call.op = "encrypt" THEN Xored ELSE call.file)
  <1>1. Arguments /\ InStep /\ fin = <<>>
    BY DEF Inv, Phases
  <1>2. /\ Xored \in Seq(Byte) /\ Len(Xored) = Len(call.file)
        /\ call.file \in Seq(Byte) /\ Len(call.file) \in Nat
    BY <1>1, XoredFacts, LenProperties DEF Arguments
  <1>3. Read = Len(call.file)
    <2>1. Len(fin) = 0
      BY <1>1
    <2>2. QED
      BY <1>2, <2>1 DEF Read
  <1>4. Slice(Xored, 0, Len(call.file)) = Xored
    <2> HIDE DEF Byte
    <2>1. Slice(Xored, 0, Len(Xored)) = Xored
      BY <1>2, SliceAll
    <2>2. QED
      BY <1>2, <2>1
  <1>5. Slice(call.file, 0, Len(call.file)) = call.file
    <2> HIDE DEF Byte
    <2>1. QED
      BY <1>2, SliceAll
  <1>6. QED
    BY <1>1, <1>3, <1>4, <1>5 DEF InStep, HashedUpTo

LEMMA NotExempt == ASSUME Arguments, ~Exempt PROVE Xored = OneShotXor(call.file, call.j0)
  <1>1. call.j0 \in CounterBlocks /\ call.file \in Seq(Byte)
        /\ ~(call.engine = "cpu" /\ Wraps(call.j0, CeilDiv(Len(call.file), BlockBytes)))
    BY DEF Arguments, Exempt
  <1> HIDE DEF Byte
  <1>2. QED
    BY <1>1, CallbackIsOneShot DEF Xored

LEMMA FinalizeInv ==
  ASSUME Inv, EncryptFinalize \/ DecryptFinalize PROVE Inv'
  <1>1. /\ pc = "finalize" /\ UNCHANGED <<call, fin, broken, streams>>
    BY DEF EncryptFinalize, DecryptFinalize
  <1>2. ~lost /\ Arguments
    BY <1>1 DEF Inv, Phases
  <1>3. /\ out = Xored /\ gcm.ciphertext_len = Len(call.file)
        /\ gcm.y = Blocks(call.aad)
                     \o Blocks(IF call.op = "encrypt" THEN Xored ELSE call.file)
    BY <1>1, WholeFile
  <1>4. Xored \in Seq(Byte) /\ Len(Xored) = Len(call.file)
    BY <1>2, XoredFacts
  <1>5. ~Exempt => Xored = OneShotXor(call.file, call.j0)
    BY <1>2, NotExempt
  <1>6. CASE EncryptFinalize
    <2>1. call.op = "encrypt" /\ Return("OK", StreamTag, FALSE)
      BY <1>6 DEF EncryptFinalize
    <2>2. StreamTag = OneShotTag(call.aad, Xored, call.j0)
      BY <1>3, <1>4, <2>1 DEF StreamTag, OneShotTag
    <2>3. RightResult("OK", StreamTag, FALSE)
      BY <1>3, <1>5, <2>1, <2>2 DEF RightResult
    <2>4. QED
      BY <1>1, <1>2, <2>1, <2>3, ReturnInv
  <1>7. CASE DecryptFinalize
    <2> DEFINE st == IF TagMatches THEN "OK" ELSE "AUTH_FAILED"
    <2>1. call.op = "decrypt" /\ Return(st, NoTag, FALSE)
      BY <1>7 DEF DecryptFinalize
    <2>2. StreamTag = OneShotTag(call.aad, call.file, call.j0)
      BY <1>3, <2>1 DEF StreamTag, OneShotTag
    <2>3. TagMatches <=> Genuine
      BY <2>2 DEF TagMatches, Genuine
    <2>4. RightResult(st, NoTag, FALSE)
      BY <1>3, <1>5, <2>1, <2>3 DEF RightResult
    <2>5. st \in {"OK", "IO_ERROR", "INTERNAL_ERROR", "AUTH_FAILED"}
      OBVIOUS
    <2> HIDE DEF st
    <2>6. QED
      BY <1>1, <1>2, <2>1, <2>4, <2>5, ReturnInv
  <1>8. QED
    BY <1>6, <1>7

\* What fclose leaves of the output is its beginning.
LEMMA CloseFailsInv == ASSUME Inv, CloseFails PROVE Inv'
  <1>1. PICK n \in 0 .. Len(out) - 1 : out' = Take(out, n)
    BY DEF CloseFails
  <1>2. /\ pc = "returned" /\ result.status = "OK" /\ lost = FALSE /\ lost' = TRUE
        /\ call' = call /\ pc' = pc /\ fin' = fin /\ broken' = broken /\ ctr' = ctr
        /\ gcm' = gcm /\ exists' = exists /\ removal' = removal /\ result' = result
        /\ fault' = fault
    BY DEF CloseFails, streams, Inv, TypeOK
  <1>3. Arguments' /\ TypeOK' /\ Phases' /\ NothingLeftBehind'
    BY <1>2 DEF Inv, Arguments, TypeOK, Phases, NothingLeftBehind
  <1> DEFINE bytes == OneShotXor(call.file, call.j0)
  <1>4. ASSUME out = bytes PROVE Written(bytes)'
    <2>1. bytes \in Seq(Byte)
      BY OneShotXorFacts DEF Inv, Arguments
    <2>2. n \in Nat /\ n < Len(bytes) /\ n <= Len(bytes)
      BY <1>1, <1>4, <2>1, LenProperties
    <2> HIDE DEF bytes, Byte
    <2>3. Len(Take(bytes, n)) = n
      BY <2>1, <2>2, TakeSlice, SliceParts
    <2>4. Len(out') = n /\ out' = Take(bytes, n)
      BY <1>1, <1>4, <2>3
    <2>5. bytes' = bytes
      BY <1>2 DEF bytes
    <2>6. QED
      BY <1>2, <2>2, <2>4, <2>5 DEF Written
  <1>5. Exempt' = Exempt /\ bytes' = bytes
    BY <1>2 DEF Exempt
  <1>6. Written(bytes) => out = bytes
    BY <1>2 DEF Written
  <1>7. EncryptsAsOneShot'
    <2> SUFFICES ASSUME call.op = "encrypt", ~Exempt PROVE EncryptedRight'
      BY <1>2, <1>5 DEF EncryptsAsOneShot, Ended
    <2>1. EncryptedRight
      BY <1>2 DEF Inv, EncryptsAsOneShot, Ended
    <2>2. Written(bytes) /\ result.tag = OneShotTag(call.aad, bytes, call.j0)
      BY <1>2, <2>1 DEF EncryptedRight
    <2>3. Written(bytes)'
      BY <1>4, <1>6, <2>2
    <2>4. result'.status = "OK" /\ result'.tag = OneShotTag(call.aad, bytes, call.j0)' 
      BY <1>2, <2>2
    <2>5. QED
      BY <2>3, <2>4 DEF EncryptedRight
  <1>8. DecryptsAsOneShot'
    <2> SUFFICES ASSUME call.op = "decrypt" PROVE DecryptsAsOneShot'
      BY <1>2 DEF DecryptsAsOneShot, Ended
    <2>1. /\ ~fault => Genuine
          /\ Genuine
          /\ ~Exempt => Written(bytes)
      BY <1>2 DEF Inv, DecryptsAsOneShot, Ended, Genuine
    <2>2. ~Exempt => Written(bytes)'
      BY <1>4, <1>6, <2>1
    <2>3. Genuine' /\ result'.status = "OK"
      BY <1>2, <2>1 DEF Genuine
    <2>4. QED
      BY <1>5, <2>2, <2>3 DEF DecryptsAsOneShot, Genuine
  <1>9. QED
    BY <1>3, <1>7, <1>8 DEF Inv

LEMMA NextInv == ASSUME Inv, [Next]_vars PROVE Inv'
  <1>1. CASE OpenFails
    BY <1>1, OpenFailsInv
  <1>2. CASE Open
    BY <1>2, OpenInv
  <1>3. CASE Turn
    BY <1>3, TurnInv
  <1>4. CASE ReadFails
    <2>1. pc = "loop" /\ Return("IO_ERROR", NoTag, TRUE) /\ UNCHANGED <<call, fin, broken, streams>>
      BY <1>4 DEF ReadFails
    <2>2. QED
      BY <2>1, FailureInv
  <1>5. CASE EndOfFile
    <2>1. /\ pc = "loop" /\ fin = <<>> /\ broken = FALSE /\ pc' = "finalize"
          /\ call' = call /\ fin' = fin /\ broken' = broken /\ ctr' = ctr /\ gcm' = gcm
          /\ out' = out /\ exists' = exists /\ removal' = removal /\ result' = result
          /\ lost' = lost /\ fault' = fault
      BY <1>5 DEF EndOfFile, streams, outVars, Inv, TypeOK
    <2>2. Arguments /\ TypeOK /\ InStep /\ ~lost /\ removal = "none" /\ fault = FALSE
      BY <2>1 DEF Inv, Phases
    <2>3. Arguments' /\ TypeOK'
      BY <2>1, <2>2 DEF Arguments, TypeOK
    <2>4. Xored' = Xored /\ Read' = Read
      BY <2>1, XoredStays DEF Read
    <2>5. InStep'
      <3>1. HashedUpTo(Read)' = HashedUpTo(Read)
        BY <2>1, <2>4 DEF HashedUpTo
      <3>2. Slice(Xored, 0, Read)' = Slice(Xored, 0, Read)
        BY <2>4
      <3>3. Blocks(HashedUpTo(Read)') = Blocks(HashedUpTo(Read))
        BY <3>1
      <3>4. QED
        BY <2>1, <2>2, <2>4, <3>2, <3>3 DEF InStep
    <2>6. Phases'
      BY <2>1, <2>2, <2>5 DEF Phases
    <2>7. QED
      BY <2>1, <2>3, <2>6, OngoingInv
  <1>6. CASE TurnFails
    <2>1. PICK st \in {"IO_ERROR", "INTERNAL_ERROR"} : Return(st, NoTag, TRUE)
      BY <1>6 DEF TurnFails
    <2>2. pc = "loop" /\ UNCHANGED <<call, fin, broken, streams>>
      BY <1>6 DEF TurnFails
    <2>3. QED
      BY <2>1, <2>2, FailureInv
  <1>7. CASE EncryptFinalize \/ DecryptFinalize
    BY <1>7, FinalizeInv
  <1>8. CASE CloseFails
    BY <1>8, CloseFailsInv
  <1>9. CASE UNCHANGED vars
    <2>1. /\ call' = call /\ pc' = pc /\ fin' = fin /\ broken' = broken /\ ctr' = ctr
          /\ gcm' = gcm /\ out' = out /\ exists' = exists /\ removal' = removal
          /\ result' = result /\ lost' = lost /\ fault' = fault
      BY <1>9 DEF vars, streams, outVars
    <2>2. Arguments' /\ TypeOK'
      BY <2>1 DEF Inv, Arguments, TypeOK
    <2>3. Xored' = Xored /\ Read' = Read
      BY <2>1, XoredStays DEF Read
    <2>4. InStep => InStep'
      <3>1. HashedUpTo(Read)' = HashedUpTo(Read)
        BY <2>1, <2>3 DEF HashedUpTo
      <3>2. Slice(Xored, 0, Read)' = Slice(Xored, 0, Read)
        BY <2>3
      <3>3. Blocks(HashedUpTo(Read)') = Blocks(HashedUpTo(Read))
        BY <3>1
      <3>4. QED
        BY <2>1, <2>3, <3>2, <3>3 DEF InStep
    <2>5. Phases'
      BY <2>1, <2>4 DEF Inv, Phases
    <2>6. EncryptsAsOneShot' /\ DecryptsAsOneShot' /\ NothingLeftBehind'
      BY <2>1 DEF Inv, EncryptsAsOneShot, EncryptedRight, DecryptsAsOneShot,
                  NothingLeftBehind, Ended, Exempt, Written
    <2>7. QED
      BY <2>2, <2>5, <2>6 DEF Inv
  <1>10. QED
    BY <1>1, <1>2, <1>3, <1>4, <1>5, <1>6, <1>7, <1>8, <1>9 DEF Next, Returned

-----------------------------------------------------------------------------
(* The theorems *)

LEMMA InvHolds == Spec => []Inv
  <1>1. Init => Inv
    BY InitInv
  <1>2. Inv /\ [Next]_vars => Inv'
    BY NextInv
  <1>3. QED
    BY <1>1, <1>2, PTL DEF Spec

\* The types of the state of a GCM file call, for every size of blocks, words and chunks:
\* counters, offsets and statuses are those crypto_gcm_stream.c and the file loop can hold.
THEOREM GcmFileTypes == Spec => []TypeOK
  <1>1. Inv => TypeOK
    BY DEF Inv
  <1>2. QED
    BY <1>1, InvHolds, PTL

\* Between two reads the file, the CTR stream and the GHASH stream stand at the same byte, the
\* hash is that of the whole ciphertext so far and the next counter block the one after the
\* blocks used, for every chunk size and file.
THEOREM GcmStreamsInStep == Spec => []StreamsInStep
  <1>1. Inv => StreamsInStep
    <2> SUFFICES ASSUME Inv, pc \in {"loop", "finalize"}, ~broken PROVE StreamsInStep
      BY DEF StreamsInStep
    <2>1. Arguments /\ InStep
      BY DEF Inv, Phases
    <2>2. /\ Xored \in Seq(Byte) /\ Read \in Nat /\ Read <= Len(Xored)
          /\ out = Slice(Xored, 0, Read)
      BY <2>1, XoredFacts DEF InStep
    <2>3. Len(out) = Read
      <3> HIDE DEF Byte
      <3>1. QED
        BY <2>2, SliceParts
    <2>4. Take(call.file, Read) = Slice(call.file, 0, Read)
      BY TakeSlice
    <2>5. QED
      BY <2>1, <2>2, <2>3, <2>4 DEF InStep, StreamsInStep, HashedUpTo, Read
  <1>2. QED
    BY <1>1, InvHolds, PTL

\* An encrypted file and its tag are those of the one-shot call, for every file, AAD, IV and
\* chunk size and on both engines, but for the texts over which the CPU callback's 128-bit
\* counter leaves GCM's 32-bit one; a failed read, write or engine call never ends in OK.
THEOREM GcmEncryptionIsOneShot == Spec => []EncryptsAsOneShot
  <1>1. Inv => EncryptsAsOneShot
    BY DEF Inv
  <1>2. QED
    BY <1>1, InvHolds, PTL

\* Whatever the file given to decryption, it is accepted exactly when the tag is the one-shot
\* tag of its bytes, lengths and AAD, and an accepted file is decrypted as the one-shot call
\* decrypts it.
THEOREM GcmDecryptionIsOneShot == Spec => []DecryptsAsOneShot
  <1>1. Inv => DecryptsAsOneShot
    BY DEF Inv
  <1>2. QED
    BY <1>1, InvHolds, PTL

\* Nothing of a text that was not accepted, or whose call failed at any step, stays in the
\* output file unless remove() itself fails.
THEOREM GcmLeavesNothing == Spec => []NothingLeftBehind
  <1>1. Inv => NothingLeftBehind
    BY DEF Inv
  <1>2. QED
    BY <1>1, InvHolds, PTL
=============================================================================
