---------------------------- MODULE BytesProofs ----------------------------
(***************************************************************************)
(* Lemmas about blocks, parts of sequences, largest elements, padding and  *)
(* the ways to advance a counter block, for every size of a block and of a *)
(* word.                                                                   *)
(***************************************************************************)
EXTENDS Padding, ChunkSize, Counters, SequenceTheorems, WellFoundedInduction, TLAPS

-----------------------------------------------------------------------------
(* Whole blocks *)

LEMMA MinOfTwo ==
  ASSUME NEW a \in Int, NEW b \in Int
  PROVE  Min({a, b}) = IF a <= b THEN a ELSE b
  BY DEF Min

LEMMA Quotient ==
  ASSUME NEW n \in Nat, NEW b \in Nat \ {0}
  PROVE  n \div b \in Nat /\ (n \div b) * b <= n /\ n < (n \div b) * b + b
  <1>1. n \div b \in Nat /\ (n \div b) * b <= n /\ n < (n \div b + 1) * b
    BY SMTT(30)
  <1>2. (n \div b + 1) * b = (n \div b) * b + b
    BY <1>1, SMTT(30)
  <1>3. QED
    BY <1>1, <1>2

LEMMA Remainder ==
  ASSUME NEW n \in Nat, NEW b \in Nat \ {0} PROVE n % b = n - (n \div b) * b
  BY SMTT(30)

LEMMA Division ==
  ASSUME NEW n \in Nat
  PROVE  /\ n \div BlockBytes \in Nat /\ n % BlockBytes \in 0 .. BlockBytes - 1
         /\ n = (n \div BlockBytes) * BlockBytes + (n % BlockBytes)
  <1>1. /\ n \div BlockBytes \in Nat
        /\ (n \div BlockBytes) * BlockBytes <= n
        /\ n < (n \div BlockBytes) * BlockBytes + BlockBytes
    BY BlockAssumption, Quotient
  <1>2. n % BlockBytes = n - (n \div BlockBytes) * BlockBytes
    BY BlockAssumption, Remainder
  <1>3. (n \div BlockBytes) * BlockBytes \in Nat /\ BlockBytes \in Nat
    BY <1>1, BlockAssumption
  <1>4. QED
    BY <1>1, <1>2, <1>3

LEMMA DivisionUnique ==
  ASSUME NEW n \in Nat, NEW b \in Nat \ {0}, NEW k \in Int, NEW r \in 0 .. b - 1, n = k * b + r
  PROVE  n \div b = k /\ n % b = r
  <1> DEFINE q == n \div b
             m == n % b
  <1>1. q \in Nat /\ m \in 0 .. b - 1 /\ n = q * b + m
    <2>1. q \in Nat /\ q * b <= n /\ n < q * b + b /\ m = n - q * b
      BY Quotient, Remainder
    <2>2. q * b \in Nat
      BY <2>1
    <2>3. QED
      BY <2>1, <2>2
  <1>2. b \in Nat /\ b > 0
    OBVIOUS
  <1> HIDE DEF q, m
  <1>3. (q - k) * b = r - m
    <2>1. (q - k) * b = q * b - k * b
      BY <1>1, <1>2, SMTT(30)
    <2>2. q * b \in Int /\ k * b \in Int
      BY <1>1, <1>2
    <2>3. QED
      BY <1>1, <1>2, <2>1, <2>2
  <1>4. q = k
    <2>1. ASSUME NEW d \in Int, d >= 1 PROVE d * b >= b
      BY <1>2, <2>1, SMTT(30)
    <2>2. ASSUME NEW d \in Int, d <= -1 PROVE d * b <= -b
      BY <1>2, <2>2, SMTT(30)
    <2>3. r - m < b /\ r - m > -b
      BY <1>1, <1>2
    <2>4. q - k \in Int /\ ~(q - k >= 1) /\ ~(q - k <= -1)
      BY <1>1, <1>2, <1>3, <2>1, <2>2, <2>3
    <2>5. QED
      BY <1>1, <2>4
  <1>5. m = r
    <2>1. k * b \in Int
      BY <1>2
    <2>2. QED
      BY <1>1, <1>4, <2>1
  <1>6. QED
    BY <1>4, <1>5 DEF q, m

LEMMA DivMod ==
  ASSUME NEW x \in Nat, NEW b \in Nat \ {0}
  PROVE  /\ x \div b \in Nat /\ (x \div b) * b \in Nat /\ x % b \in 0 .. b - 1
         /\ x = (x \div b) * b + (x % b)
  <1> DEFINE q == x \div b
             r == x % b
  <1>1. q \in Nat /\ q * b <= x /\ x < q * b + b /\ r = x - q * b
    BY Quotient, Remainder
  <1> HIDE DEF q, r
  <1>2. q * b \in Nat
    BY <1>1
  <1>3. r \in 0 .. b - 1 /\ x = q * b + r
    BY <1>1, <1>2
  <1>4. QED
    BY <1>1, <1>2, <1>3 DEF q, r

LEMMA SmallRemainder ==
  ASSUME NEW b \in Nat \ {0}, NEW x \in 0 .. b - 1 PROVE x % b = x /\ x \div b = 0
  <1>1. x \in Nat /\ x = 0 * b + x /\ 0 \in Int
    OBVIOUS
  <1>2. QED
    BY <1>1, DivisionUnique

LEMMA QuotientUnique ==
  ASSUME NEW n \in Nat, NEW k \in Int, NEW r \in 0 .. BlockBytes - 1, n = k * BlockBytes + r
  PROVE  n \div BlockBytes = k /\ n % BlockBytes = r
  BY BlockAssumption, DivisionUnique

\* The whole blocks of n bytes leave less than a block.
LEMMA FullLenFacts ==
  ASSUME NEW n \in Nat
  PROVE  /\ FullLen(n) \in Nat /\ FullLen(n) <= n /\ n < FullLen(n) + BlockBytes
         /\ n - FullLen(n) = n % BlockBytes
         /\ FullLen(n) % BlockBytes = 0
         /\ FullLen(n) \div BlockBytes \in Nat
         /\ (FullLen(n) \div BlockBytes) * BlockBytes = FullLen(n)
  <1> DEFINE q == n \div BlockBytes
             f == q * BlockBytes
  <1>1. q \in Nat /\ n % BlockBytes \in 0 .. BlockBytes - 1 /\ n = f + (n % BlockBytes)
    BY Division
  <1>2. BlockBytes \in Nat /\ BlockBytes > 0 /\ f \in Nat
    BY <1>1, BlockAssumption
  <1>3. f = q * BlockBytes + 0 /\ 0 \in 0 .. BlockBytes - 1
    BY <1>2
  <1>4. f \div BlockBytes = q /\ f % BlockBytes = 0
    BY <1>1, <1>2, <1>3, QuotientUnique
  <1>5. FullLen(n) = f
    BY DEF FullLen
  <1> HIDE DEF q
  <1>6. QED
    BY <1>1, <1>2, <1>4, <1>5

LEMMA WholeBlocks ==
  ASSUME NEW k \in Nat, NEW r \in 0 .. BlockBytes - 1
  PROVE  /\ k * BlockBytes \in Nat
         /\ FullLen(k * BlockBytes + r) = k * BlockBytes
         /\ (k * BlockBytes + r) % BlockBytes = r
  <1>1. k * BlockBytes \in Nat
    BY BlockAssumption
  <1>2. k * BlockBytes + r \in Nat
    BY <1>1
  <1>3. QED
    BY <1>1, <1>2, QuotientUnique DEF FullLen

LEMMA ShiftDivision ==
  ASSUME NEW k \in Nat, NEW j \in Nat
  PROVE  /\ k * BlockBytes + j \in Nat
         /\ (k * BlockBytes + j) \div BlockBytes = k + (j \div BlockBytes)
         /\ (k * BlockBytes + j) % BlockBytes = j % BlockBytes
  <1> DEFINE q == j \div BlockBytes
             r == j % BlockBytes
  <1>1. BlockBytes \in Nat /\ k * BlockBytes \in Nat
    BY BlockAssumption
  <1>2. q \in Nat /\ r \in 0 .. BlockBytes - 1 /\ j = q * BlockBytes + r /\ q * BlockBytes \in Nat
    BY Division, BlockAssumption
  <1> HIDE DEF q, r
  <1>3. (k + q) * BlockBytes = k * BlockBytes + q * BlockBytes
    BY <1>1, <1>2, SMTT(30)
  <1>4. /\ k * BlockBytes + j \in Nat /\ k + q \in Int
        /\ k * BlockBytes + j = (k + q) * BlockBytes + r
    BY <1>1, <1>2, <1>3
  <1>5. QED
    BY <1>2, <1>4, QuotientUnique DEF q, r

\* The number of blocks that n bytes begin.
LEMMA CeilDivFacts ==
  ASSUME NEW n \in Nat
  PROVE  /\ CeilDiv(n, BlockBytes) \in Nat
         /\ CeilDiv(n, BlockBytes) = (n \div BlockBytes) + (IF n % BlockBytes = 0 THEN 0 ELSE 1)
  <1> DEFINE q == n \div BlockBytes
             r == n % BlockBytes
  <1>1. BlockBytes \in Nat /\ BlockBytes >= 1
    BY BlockAssumption
  <1>2. q \in Nat /\ r \in 0 .. BlockBytes - 1 /\ n = q * BlockBytes + r /\ q * BlockBytes \in Nat
    BY Division, BlockAssumption
  <1> HIDE DEF q, r
  <1> DEFINE j == r + BlockBytes - 1
  <1>3. /\ j \in Nat /\ n + BlockBytes - 1 = q * BlockBytes + j
        /\ j \div BlockBytes \in Nat
        /\ j \div BlockBytes = IF r = 0 THEN 0 ELSE 1
    <2>1. j \in Nat /\ n + BlockBytes - 1 = q * BlockBytes + j
      BY <1>1, <1>2
    <2>2. CASE r = 0
      <3>1. j \in 0 .. BlockBytes - 1 /\ j = 0 * BlockBytes + j /\ 0 \in Int
        BY <1>1, <2>2
      <3>2. j \div BlockBytes = 0
        BY <2>1, <3>1, QuotientUnique
      <3>3. QED
        BY <2>1, <2>2, <3>2
    <2>3. CASE r # 0
      <3>1. r - 1 \in 0 .. BlockBytes - 1 /\ j = 1 * BlockBytes + (r - 1) /\ 1 \in Int
        BY <1>1, <1>2, <2>3
      <3>2. j \div BlockBytes = 1
        BY <2>1, <3>1, QuotientUnique
      <3>3. QED
        BY <2>1, <2>3, <3>2
    <2>4. QED
      BY <2>2, <2>3
  <1>4. CeilDiv(n, BlockBytes) = (q * BlockBytes + j) \div BlockBytes
    BY <1>3 DEF CeilDiv
  <1> HIDE DEF j
  <1>5. CeilDiv(n, BlockBytes) = q + (j \div BlockBytes)
    BY <1>2, <1>3, <1>4, ShiftDivision
  <1>6. QED
    BY <1>2, <1>3, <1>5 DEF q, r

LEMMA CeilDivShift ==
  ASSUME NEW k \in Nat, NEW j \in Nat
  PROVE  CeilDiv(k * BlockBytes + j, BlockBytes) = k + CeilDiv(j, BlockBytes)
  <1> DEFINE n == k * BlockBytes + j
  <1>1. /\ n \in Nat /\ n \div BlockBytes = k + (j \div BlockBytes)
        /\ n % BlockBytes = j % BlockBytes
    BY ShiftDivision
  <1> HIDE DEF n
  <1>2. CeilDiv(n, BlockBytes) = (n \div BlockBytes) + (IF n % BlockBytes = 0 THEN 0 ELSE 1)
    BY <1>1, CeilDivFacts
  <1>3. CeilDiv(j, BlockBytes) = (j \div BlockBytes) + (IF j % BlockBytes = 0 THEN 0 ELSE 1)
    BY CeilDivFacts
  <1>4. j \div BlockBytes \in Nat
    BY Division
  <1>5. QED
    BY <1>1, <1>2, <1>3, <1>4 DEF n

\* Byte number i lies in a block of those that n bytes begin.
LEMMA BlockOfByte ==
  ASSUME NEW n \in Nat, NEW i \in 1 .. n
  PROVE  /\ (i - 1) \div BlockBytes \in Nat /\ (i - 1) % BlockBytes \in Nat
         /\ (i - 1) \div BlockBytes < CeilDiv(n, BlockBytes)
  <1> DEFINE q == (i - 1) \div BlockBytes
             p == n \div BlockBytes
  <1>1. BlockBytes \in Nat /\ BlockBytes >= 1 /\ i - 1 \in Nat
    BY BlockAssumption
  <1>2. /\ q \in Nat /\ q * BlockBytes \in Nat /\ (i - 1) % BlockBytes \in 0 .. BlockBytes - 1
        /\ i - 1 = q * BlockBytes + ((i - 1) % BlockBytes)
    BY <1>1, Division
  <1>3. /\ p \in Nat /\ p * BlockBytes \in Nat /\ n % BlockBytes \in 0 .. BlockBytes - 1
        /\ n = p * BlockBytes + (n % BlockBytes)
    BY <1>1, Division
  <1>4. CeilDiv(n, BlockBytes) = p + (IF n % BlockBytes = 0 THEN 0 ELSE 1)
    BY CeilDivFacts
  <1> HIDE DEF p, q
  <1>5. q * BlockBytes <= p * BlockBytes + (n % BlockBytes) - 1
    BY <1>1, <1>2, <1>3
  <1>6. CASE q > p
    <2>1. (p + 1) * BlockBytes <= q * BlockBytes /\ (p + 1) * BlockBytes = p * BlockBytes + BlockBytes
      BY <1>1, <1>2, <1>3, <1>6, SMTT(30)
    <2>2. QED
      BY <1>1, <1>2, <1>3, <1>5, <2>1
  <1>7. CASE q = p
    <2>1. n % BlockBytes # 0
      BY <1>1, <1>3, <1>5, <1>7
    <2>2. QED
      BY <1>2, <1>4, <1>7, <2>1 DEF q
  <1>8. CASE q < p
    BY <1>2, <1>3, <1>4, <1>8 DEF q
  <1>9. QED
    BY <1>2, <1>3, <1>6, <1>7, <1>8

\* A chunk is a positive whole number of blocks.
LEMMA ChunkFacts ==
  ASSUME NEW wish \in ChunkWishes
  PROVE  ParseChunk(wish) \in Nat \ {0} /\ ParseChunk(wish) % BlockBytes = 0
  <1> DEFINE n == IF wish < MinChunk THEN MinChunk ELSE wish
  <1>1. n \in Nat /\ n >= BlockBytes
    BY ChunkAssumption, BlockAssumption
  <1>2. ParseChunk(wish) = FullLen(n)
    BY DEF ParseChunk
  <1> HIDE DEF n
  <1>3. QED
    BY <1>1, <1>2, FullLenFacts, BlockAssumption

-----------------------------------------------------------------------------
(* Parts of sequences *)

\* What is between positions a and b of s.
Slice(s, a, b) == SubSeq(s, a + 1, b)

LEMMA SliceFacts ==
  ASSUME NEW S, NEW s \in Seq(S), NEW a \in Nat, NEW b \in Nat, a <= b, b <= Len(s)
  PROVE  /\ Slice(s, a, b) \in Seq(S)
         /\ Len(Slice(s, a, b)) = b - a
         /\ \A i \in 1 .. b - a : Slice(s, a, b)[i] = s[a + i]
  <1>1. \A i \in a + 1 .. b : s[i] \in S
    BY ElementOfSeq
  <1>2. a + 1 \in Int /\ b \in Int
    OBVIOUS
  <1>3. /\ SubSeq(s, a + 1, b) \in Seq(S)
        /\ Len(SubSeq(s, a + 1, b)) = IF a + 1 <= b THEN b - (a + 1) + 1 ELSE 0
        /\ \A i \in 1 .. b - (a + 1) + 1 : SubSeq(s, a + 1, b)[i] = s[a + 1 + i - 1]
    BY <1>1, <1>2, SubSeqProperties
  <1>4. QED
    BY <1>3 DEF Slice

LEMMA SliceAll == ASSUME NEW S, NEW s \in Seq(S) PROVE Slice(s, 0, Len(s)) = s
  BY SubSeqFull DEF Slice

LEMMA SliceEmpty ==
  ASSUME NEW S, NEW s \in Seq(S), NEW a \in Nat, a <= Len(s) PROVE Slice(s, a, a) = <<>>
  BY SubSeqEmpty DEF Slice

LEMMA SliceJoin ==
  ASSUME NEW S, NEW s \in Seq(S), NEW a \in Nat, NEW b \in Nat, NEW c \in Nat,
         a <= b, b <= c, c <= Len(s)
  PROVE  Slice(s, a, b) \o Slice(s, b, c) = Slice(s, a, c)
  <1>1. a + 1 \in 1 .. Len(s) + 1 /\ b \in (a + 1) - 1 .. Len(s) /\ c \in b .. Len(s)
    OBVIOUS
  <1>2. QED
    BY <1>1, ConcatAdjacentSubSeq DEF Slice

LEMMA SeqSubset ==
  ASSUME NEW A, NEW B, A \subseteq B, NEW s \in Seq(A) PROVE s \in Seq(B)
  <1>1. Len(s) \in Nat /\ s = [i \in 1 .. Len(s) |-> s[i]] /\ \A i \in 1 .. Len(s) : s[i] \in B
    BY LenProperties, ElementOfSeq
  <1>2. QED
    BY <1>1

\* A sequence cut in two.
LEMMA SliceParts ==
  ASSUME NEW S, NEW x \in Seq(S), NEW f \in Nat, f <= Len(x)
  PROVE  /\ Slice(x, 0, f) \in Seq(S) /\ Len(Slice(x, 0, f)) = f
         /\ Slice(x, f, Len(x)) \in Seq(S) /\ Len(Slice(x, f, Len(x))) = Len(x) - f
         /\ Slice(x, 0, f) \o Slice(x, f, Len(x)) = x
  <1>1. Len(x) \in Nat /\ 0 \in Nat /\ 0 <= f /\ f - 0 = f /\ Len(x) <= Len(x)
    BY LenProperties
  <1>2. Slice(x, 0, f) \in Seq(S) /\ Len(Slice(x, 0, f)) = f
    BY <1>1, SliceFacts
  <1>3. Slice(x, f, Len(x)) \in Seq(S) /\ Len(Slice(x, f, Len(x))) = Len(x) - f
    BY <1>1, SliceFacts, ZenonT(60)
  <1>4. Slice(x, 0, f) \o Slice(x, f, Len(x)) = Slice(x, 0, Len(x))
    BY <1>1, SliceJoin
  <1>5. QED
    BY <1>2, <1>3, <1>4, SliceAll

LEMMA SliceOfSlice ==
  ASSUME NEW S, NEW s \in Seq(S), NEW a \in Nat, NEW b \in Nat, a <= b, b <= Len(s),
         NEW c \in Nat, NEW d \in Nat, c <= d, d <= b - a
  PROVE  Slice(Slice(s, a, b), c, d) = Slice(s, a + c, a + d)
  <1> DEFINE t == Slice(s, a, b)
             u == Slice(t, c, d)
             w == Slice(s, a + c, a + d)
  <1>1. t \in Seq(S) /\ Len(t) = b - a /\ \A i \in 1 .. b - a : t[i] = s[a + i]
    BY SliceFacts
  <1>2. u \in Seq(S) /\ Len(u) = d - c /\ \A i \in 1 .. d - c : u[i] = t[c + i]
    <2> HIDE DEF t
    <2>1. QED
      <3>1. t \in Seq(S) /\ c \in Nat /\ d \in Nat /\ c <= d /\ d <= Len(t)
        BY <1>1
      <3>2. QED
        BY <3>1, SliceFacts
  <1>3. w \in Seq(S) /\ Len(w) = d - c /\ \A i \in 1 .. d - c : w[i] = s[(a + c) + i]
    <2> DEFINE from == a + c
               to   == a + d
    <2>1. /\ from \in Nat /\ to \in Nat /\ from <= to /\ to <= Len(s)
          /\ to - from = d - c
      OBVIOUS
    <2> HIDE DEF from, to
    <2>2. LET v == Slice(s, from, to) IN
          v \in Seq(S) /\ Len(v) = to - from /\ \A i \in 1 .. to - from : v[i] = s[from + i]
      BY <2>1, SliceFacts, ZenonT(60)
    <2>3. QED
      BY <2>1, <2>2 DEF from, to
  <1> HIDE DEF t, u, w
  <1>4. ASSUME NEW i \in 1 .. Len(u) PROVE u[i] = w[i]
    <2>1. i \in 1 .. d - c /\ c + i \in 1 .. b - a /\ a + (c + i) = (a + c) + i
      BY <1>2
    <2>2. u[i] = t[c + i] /\ w[i] = s[(a + c) + i]
      BY <1>2, <1>3, <2>1
    <2>3. QED
      BY <1>1, <2>1, <2>2
  <1>5. u = w
    BY <1>2, <1>3, <1>4, SeqEqual
  <1>6. QED
    BY <1>5 DEF t, u, w

LEMMA TakeSlice ==
  ASSUME NEW s, NEW n PROVE Take(s, n) = Slice(s, 0, n) /\ Drop(s, n) = Slice(s, n, Len(s))
  BY DEF Take, Drop, Slice

\* Appending the part from a to w to what ends with the part up to a.
LEMMA AppendPart ==
  ASSUME NEW S, NEW x \in Seq(S), NEW head \in Seq(S),
         NEW a \in Nat, NEW w \in Nat, a <= w, w <= Len(x)
  PROVE  (head \o Slice(x, 0, a)) \o Slice(x, a, w) = head \o Slice(x, 0, w)
  <1>1. a <= Len(x) /\ 0 <= a /\ 0 \in Nat
    BY LenProperties
  <1> DEFINE p == Slice(x, 0, a)
             q == Slice(x, a, w)
  <1>2. p \in Seq(S) /\ q \in Seq(S)
    BY <1>1, SliceFacts
  <1>3. p \o q = Slice(x, 0, w)
    BY <1>1, SliceJoin
  <1>4. (head \o p) \o q = head \o (p \o q)
    <2> HIDE DEF p, q
    <2>1. QED
      BY <1>2, ConcatAssociative, SMTT(30)
  <1>5. QED
    BY <1>3, <1>4

\* The part of s from a to r with what a read up to e adds to it.
ReadOn(s, a, r, e) == Slice(s, a, r) \o Take(Slice(s, r, Len(s)), e - r)

\* One turn, on sequences: s up to a is written, the part up to r is in kept, the part up to
\* e is read and the part up to w written.
LEMMA TurnOnSlices ==
  ASSUME NEW S, NEW s \in Seq(S),
         NEW a \in Nat, NEW r \in Nat, NEW e \in Nat, NEW w \in Nat,
         a <= r, r <= e, e <= Len(s), a <= w, w <= e
  PROVE  /\ ReadOn(s, a, r, e) \in Seq(S) /\ Len(ReadOn(s, a, r, e)) = e - a
         /\ Drop(Slice(s, r, Len(s)), e - r) = Slice(s, e, Len(s))
         /\ Take(ReadOn(s, a, r, e), w - a) = Slice(s, a, w)
         /\ Drop(ReadOn(s, a, r, e), w - a) = Slice(s, w, e)
  <1> DEFINE t    == Len(s)
             rest == Slice(s, r, t)
             n    == e - r
             buf  == Slice(s, a, r) \o Take(rest, n)
  <1>1. t \in Nat /\ r <= t /\ e <= t /\ t <= Len(s)
    BY LenProperties
  <1>2. n \in Nat /\ n <= t - r /\ r + n = e /\ r + (t - r) = t /\ t - r \in Nat
        /\ r + 0 = r /\ 0 <= n
    BY <1>1
  <1> HIDE DEF t, n
  <1>3. rest \in Seq(S) /\ Len(rest) = t - r
    BY <1>1, SliceFacts
  <1>4. Take(rest, n) = Slice(s, r, e)
    <2>1. Slice(Slice(s, r, t), 0, n) = Slice(s, r + 0, r + n)
      BY <1>1, <1>2, SliceOfSlice
    <2>2. QED
      BY <1>2, <2>1, TakeSlice
  <1>5. Drop(rest, n) = Slice(s, e, t)
    <2>1. Slice(Slice(s, r, t), n, t - r) = Slice(s, r + n, r + (t - r))
      BY <1>1, <1>2, SliceOfSlice
    <2>2. Drop(rest, n) = Slice(rest, n, t - r)
      BY <1>3, TakeSlice
    <2>3. QED
      BY <1>2, <2>1, <2>2
  <1>6. buf = Slice(s, a, e)
    <2>1. \A i, j, k \in Nat :
            i <= j /\ j <= k /\ k <= Len(s) => Slice(s, i, j) \o Slice(s, j, k) = Slice(s, i, k)
      BY SliceJoin
    <2>2. Slice(s, a, r) \o Slice(s, r, e) = Slice(s, a, e)
      BY <2>1
    <2>3. QED
      BY <1>4, <2>2, ZenonT(60)
  <1> DEFINE m == e - a
             v == w - a
  <1>7. /\ m \in Nat /\ v \in Nat /\ v <= m /\ a + 0 = a /\ a + v = w /\ a + m = e /\ a <= e
    OBVIOUS
  <1> HIDE DEF rest, buf, m, v
  <1>8. buf \in Seq(S) /\ Len(buf) = m
    BY <1>1, <1>6, <1>7, SliceFacts, ZenonT(60) DEF m
  <1>9. Take(buf, v) = Slice(s, a, w)
    <2>1. Slice(Slice(s, a, e), 0, v) = Slice(s, a + 0, a + v)
      BY <1>1, <1>7, SliceOfSlice DEF m
    <2>2. QED
      BY <1>6, <1>7, <2>1, TakeSlice
  <1>10. Drop(buf, v) = Slice(s, w, e)
    <2>1. Slice(Slice(s, a, e), v, m) = Slice(s, a + v, a + m)
      BY <1>1, <1>7, SliceOfSlice DEF m
    <2>2. Drop(buf, v) = Slice(buf, v, m)
      BY <1>8, TakeSlice
    <2>3. QED
      BY <1>6, <1>7, <2>1, <2>2
  <1>11. QED
    BY <1>5, <1>8, <1>9, <1>10 DEF ReadOn, rest, buf, m, v, n, t

-----------------------------------------------------------------------------
(* Largest elements *)

LEMMA Least ==
  ASSUME NEW T \in SUBSET Nat, T # {} PROVE \E x \in T : \A y \in T : x <= y
  <1> DEFINE R == OpToRel(<, Nat)
  <1>1. R = {ss \in Nat \X Nat : ss[1] < ss[2]}
    BY DEF OpToRel
  <1>2. IsWellFoundedOn(R, Nat)
    BY NatLessThanWellFounded
  <1> HIDE DEF R
  <1>3. PICK x \in T : \A y \in T : ~ (<<y, x>> \in R)
    BY <1>2, WFMin
  <1>4. ASSUME NEW y \in T PROVE x <= y
    <2>1. <<y, x>> \notin R /\ x \in Nat /\ y \in Nat
      BY <1>3
    <2>2. ~(y < x)
      BY <1>1, <2>1
    <2>3. QED
      BY <2>1, <2>2
  <1>5. QED
    BY <1>4

\* The least upper bound of a bounded set is in it.
LEMMA MaxFacts ==
  ASSUME NEW T \in SUBSET Nat, T # {}, NEW n \in Nat, \A y \in T : y <= n
  PROVE  Max(T) \in T /\ \A y \in T : y <= Max(T)
  <1> DEFINE U == {m \in Nat : \A y \in T : y <= m}
  <1>1. U \in SUBSET Nat /\ n \in U
    OBVIOUS
  <1>2. PICK m \in U : \A k \in U : m <= k
    <2> HIDE DEF U
    <2>1. QED
      BY <1>1, Least
  <1>3. m \in T
    <2>1. SUFFICES ASSUME m \notin T PROVE FALSE
      OBVIOUS
    <2>2. \A y \in T : y \in Nat /\ y <= m - 1
      BY <1>2, <2>1
    <2>3. PICK y \in T : TRUE
      OBVIOUS
    <2>4. m - 1 \in Nat
      BY <1>2, <2>2, <2>3
    <2>5. m - 1 \in U
      BY <2>2, <2>4
    <2>6. QED
      BY <1>2, <2>4, <2>5
  <1>4. m \in T /\ \A y \in T : m >= y
    BY <1>2, <1>3
  <1>5. Max(T) \in T /\ \A y \in T : Max(T) >= y
    BY <1>4 DEF Max
  <1>6. QED
    BY <1>5

-----------------------------------------------------------------------------
(* Counter blocks: counting the last word up is adding to it modulo Word *)

LEMMA WordFacts == Word \in Nat /\ Word >= 2 /\ Half \in Nat /\ Half >= Word
  <1>1. Word \in Nat /\ Word >= 2
    BY WordAssumption
  <1>2. Word * Word \in Nat /\ Word * Word >= Word
    BY <1>1, SMTT(30)
  <1>3. QED
    BY <1>1, <1>2 DEF Half

LEMMA RemainderNext ==
  ASSUME NEW x \in Nat PROVE ((x % Word) + 1) % Word = (x + 1) % Word
  <1> DEFINE k == x \div Word
             m == x % Word
  <1>1. Word \in Nat \ {0} /\ Word \in Nat /\ Word >= 2
    BY WordFacts
  <1>2. k \in Nat /\ k * Word \in Nat /\ m = x - k * Word /\ k * Word <= x
        /\ x < k * Word + Word
    BY <1>1, Quotient, Remainder
  <1> HIDE DEF k, m
  <1>3. m \in 0 .. Word - 1 /\ x = k * Word + m /\ m \in Nat
    BY <1>1, <1>2
  <1>4. CASE m + 1 < Word
    <2>1. m + 1 \in 0 .. Word - 1 /\ m + 1 \in Nat /\ m + 1 = 0 * Word + (m + 1)
      BY <1>1, <1>3, <1>4
    <2>2. (m + 1) % Word = m + 1
      BY <1>1, <2>1, DivisionUnique
    <2>3. x + 1 \in Nat /\ x + 1 = k * Word + (m + 1)
      BY <1>2, <1>3
    <2>4. (x + 1) % Word = m + 1
      BY <1>1, <1>2, <2>1, <2>3, DivisionUnique, SMTT(30)
    <2>5. QED
      BY <2>2, <2>4 DEF m
  <1>5. CASE ~(m + 1 < Word)
    <2>1. m + 1 = Word /\ 0 \in 0 .. Word - 1 /\ m + 1 = 1 * Word + 0 /\ m + 1 \in Nat
      BY <1>1, <1>3, <1>5
    <2>2. (m + 1) % Word = 0
      BY <1>1, <2>1, DivisionUnique
    <2>3. (k + 1) * Word = k * Word + Word
      BY <1>1, <1>2, SMTT(30)
    <2>4. x + 1 \in Nat /\ x + 1 = (k + 1) * Word + 0 /\ k + 1 \in Int
      BY <1>1, <1>2, <1>3, <2>1, <2>3
    <2>5. (x + 1) % Word = 0
      BY <1>1, <2>1, <2>4, DivisionUnique
    <2>6. QED
      BY <2>2, <2>5 DEF m
  <1>6. QED
    BY <1>4, <1>5

\* The two words of the lower half, of which a new last one changes only the last.
LEMMA LowerHalf ==
  ASSUME NEW c \in CounterBlocks, NEW m \in 0 .. Word - 1
  PROVE  /\ c.lo \div Word \in Nat /\ c.lo % Word \in 0 .. Word - 1
         /\ c.lo = (c.lo \div Word) * Word + (c.lo % Word)
         /\ (c.lo \div Word) * Word \in Nat
         /\ (c.lo \div Word) * Word + Word <= Half
         /\ [c EXCEPT !.lo = (c.lo \div Word) * Word + m] \in CounterBlocks
         /\ ((c.lo \div Word) * Word + m) \div Word = c.lo \div Word
         /\ ((c.lo \div Word) * Word + m) % Word = m
  <1> DEFINE q == c.lo \div Word
             r == c.lo % Word
  <1>1. c = [hi |-> c.hi, lo |-> c.lo] /\ c.lo \in 0 .. Half - 1 /\ c.hi \in 0 .. Half - 1
    BY DEF CounterBlocks
  <1>2. Word \in Nat \ {0} /\ Word \in Nat /\ Word >= 2 /\ Half \in Nat /\ c.lo \in Nat
    BY <1>1, WordFacts
  <1>3. q \in Nat /\ q * Word \in Nat
    BY <1>2, DivMod
  <1>4. r \in 0 .. Word - 1 /\ c.lo = q * Word + r
    BY <1>2, DivMod
  <1> HIDE DEF q, r
  <1>5. q * Word + Word <= Half
    <2>1. q < Word
      <3>1. SUFFICES ASSUME q >= Word PROVE FALSE
        BY <1>2, <1>3
      <3>2. q * Word >= Word * Word
        BY <1>2, <1>3, <3>1, SMTT(30)
      <3>3. QED
        BY <1>1, <1>2, <1>3, <1>4, <3>2 DEF Half
    <2>2. (q + 1) * Word <= Word * Word /\ (q + 1) * Word = q * Word + Word
      BY <1>2, <1>3, <2>1, SMTT(30)
    <2>3. QED
      BY <2>2 DEF Half
  <1>6. q * Word + m \in 0 .. Half - 1 /\ q * Word + m \in Nat
    BY <1>2, <1>3, <1>5
  <1>7. [c EXCEPT !.lo = q * Word + m] \in CounterBlocks
    BY <1>1, <1>6 DEF CounterBlocks
  <1>8. (q * Word + m) \div Word = q /\ (q * Word + m) % Word = m
    <2> DEFINE y == q * Word + m
    <2>1. y \in Nat /\ q \in Int /\ y = q * Word + m
      BY <1>3, <1>6
    <2> HIDE DEF y
    <2>2. y \div Word = q /\ y % Word = m
      BY <1>2, <2>1, DivisionUnique
    <2>3. QED
      BY <2>2 DEF y
  <1>9. QED
    BY <1>3, <1>4, <1>5, <1>7, <1>8 DEF q, r

LEMMA SumRemainder ==
  ASSUME NEW c \in CounterBlocks, NEW n \in Nat
  PROVE  (c.lo % Word) + n \in Nat /\ ((c.lo % Word) + n) % Word \in 0 .. Word - 1
  <1>1. Word \in Nat \ {0} /\ 0 \in 0 .. Word - 1
    BY WordFacts
  <1>2. c.lo % Word \in 0 .. Word - 1
    BY <1>1, LowerHalf
  <1>3. (c.lo % Word) + n \in Nat
    BY <1>1, <1>2
  <1>4. QED
    BY <1>1, <1>3, DivMod

LEMMA Add32Facts ==
  ASSUME NEW c \in CounterBlocks, NEW n \in Nat
  PROVE  /\ Add32(c, n) \in CounterBlocks
         /\ Add32(c, 0) = c
         /\ Inc32(Add32(c, n)) = Add32(c, n + 1)
  <1> DEFINE q == c.lo \div Word
             r == c.lo % Word
             m == (r + n) % Word
             d == Add32(c, n)
  <1>1. c = [hi |-> c.hi, lo |-> c.lo] /\ c.lo \in Nat
    BY WordFacts DEF CounterBlocks
  <1>2. r \in Nat /\ r + n \in Nat /\ m \in 0 .. Word - 1 /\ r \in 0 .. Word - 1
    <2>1. 0 \in 0 .. Word - 1 /\ Word \in Nat
      BY WordFacts
    <2>2. r \in 0 .. Word - 1
      BY <2>1, LowerHalf
    <2>3. QED
      BY <2>1, <2>2, SumRemainder
  <1>3. d = [c EXCEPT !.lo = q * Word + m]
    BY DEF Add32
  <1> HIDE DEF m
  <1>4. d \in CounterBlocks /\ (q * Word + m) \div Word = q /\ (q * Word + m) % Word = m
    BY <1>2, <1>3, LowerHalf
  <1>5. Add32(c, 0) = c
    <2>1. r + 0 = r /\ r % Word = r
      <3>1. Word \in Nat \ {0} /\ r = 0 * Word + r
        BY <1>2, WordFacts
      <3>2. QED
        BY <1>2, <3>1, DivisionUnique
    <2>2. c.lo = q * Word + r
      BY <1>2, LowerHalf
    <2>3. Add32(c, 0) = [c EXCEPT !.lo = q * Word + r]
      BY <2>1 DEF Add32
    <2>4. QED
      BY <1>1, <2>2, <2>3
  <1>6. Inc32(d) = Add32(c, n + 1)
    <2>1. d = [hi |-> c.hi, lo |-> q * Word + m]
      BY <1>1, <1>3
    <2>2. Inc32(d) = [hi |-> c.hi, lo |-> q * Word + ((m + 1) % Word)]
      <3>1. d.lo = q * Word + m
        BY <2>1
      <3>2. Inc32(d) = [d EXCEPT !.lo = q * Word + ((m + 1) % Word)]
        <4> HIDE DEF d
        <4>1. Inc32(d) = [d EXCEPT !.lo = ((d.lo \div Word) * Word) + (((d.lo % Word) + 1) % Word)]
          BY DEF Inc32
        <4>2. QED
          BY <1>4, <3>1, <4>1
      <3>3. QED
        BY <2>1, <3>2
    <2>3. (m + 1) % Word = (r + (n + 1)) % Word
      <3>1. (m + 1) % Word = ((r + n) + 1) % Word
        BY <1>2, RemainderNext DEF m
      <3>2. (r + n) + 1 = r + (n + 1)
        BY <1>2
      <3>3. QED
        BY <3>1, <3>2
    <2>4. Add32(c, n + 1) = [hi |-> c.hi, lo |-> q * Word + ((r + (n + 1)) % Word)]
      BY <1>1 DEF Add32
    <2>5. QED
      BY <2>2, <2>3, <2>4
  <1>7. QED
    BY <1>4, <1>5, <1>6

\* Counting one block at a time, as the CPU library does, is the addition of the kernel.
LEMMA CountedIsAdd32 ==
  ASSUME NEW c \in CounterBlocks, NEW n \in Nat PROVE Counted(c, n) = Add32(c, n)
  <1> DEFINE F(f) == [k \in 0 .. n |-> IF k = 0 THEN c ELSE Inc32(f[k - 1])]
             sum  == [k \in 0 .. n |-> Add32(c, k)]
             g    == CHOOSE f : f = F(f)
  <1>1. sum = F(sum)
    <2>1. ASSUME NEW k \in 0 .. n PROVE sum[k] = F(sum)[k]
      <3>1. CASE k = 0
        BY <3>1, Add32Facts
      <3>2. CASE k # 0
        <4>1. k - 1 \in 0 .. n /\ k - 1 \in Nat /\ (k - 1) + 1 = k
          BY <3>2
        <4>2. F(sum)[k] = Inc32(Add32(c, k - 1))
          BY <3>2, <4>1
        <4>3. QED
          BY <4>1, <4>2, Add32Facts
      <3>3. QED
        BY <3>1, <3>2
    <2>2. QED
      BY <2>1
  <1>2. g = F(g)
    <2> HIDE DEF sum, F
    <2>1. QED
      BY <1>1
  <1>3. Counted(c, n) = g[n]
    BY DEF Counted
  <1> HIDE DEF g
  <1> DEFINE Wrong == {k \in 0 .. n : g[k] # Add32(c, k)}
  <1>4. Wrong = {}
    <2>1. SUFFICES ASSUME Wrong # {} PROVE FALSE
      OBVIOUS
    <2>2. PICK k \in Wrong : \A j \in Wrong : k <= j
      <3>1. Wrong \in SUBSET Nat
        OBVIOUS
      <3> HIDE DEF Wrong
      <3>2. QED
        BY <2>1, <3>1, Least
    <2>3. k \in 0 .. n /\ g[k] # Add32(c, k)
      OBVIOUS
    <2>4. CASE k = 0
      <3>1. g[0] = c
        BY <1>2
      <3>2. QED
        BY <2>3, <2>4, <3>1, Add32Facts
    <2>5. CASE k # 0
      <3>1. k - 1 \in 0 .. n /\ k - 1 \in Nat /\ (k - 1) + 1 = k /\ ~(k <= k - 1)
        BY <2>3, <2>5
      <3>2. g[k - 1] = Add32(c, k - 1)
        BY <2>2, <3>1
      <3>3. g[k] = Inc32(g[k - 1])
        BY <1>2, <2>3, <2>5
      <3>4. QED
        BY <2>3, <3>1, <3>2, <3>3, Add32Facts
    <2>6. QED
      BY <2>4, <2>5
  <1>5. QED
    BY <1>3, <1>4

\* Until the last word overflows, the 128-bit addition is the same.
LEMMA Add128Facts ==
  ASSUME NEW c \in CounterBlocks, NEW n \in Nat
  PROVE  /\ Add128(c, n) \in CounterBlocks
         /\ ~Wraps(c, n) => Add128(c, n) = Add32(c, n)
  <1> DEFINE q == c.lo \div Word
             r == c.lo % Word
             s == c.lo + n
             lo == s % Half
             carry == IF lo < c.lo THEN 1 ELSE 0
  <1>1. /\ c = [hi |-> c.hi, lo |-> c.lo] /\ c.lo \in Nat /\ c.lo < Half
        /\ c.hi \in Nat /\ c.hi < Half /\ c.hi \in 0 .. Half - 1
        /\ Half \in Nat \ {0} /\ Half \in Nat /\ Word \in Nat \ {0} /\ 0 \in 0 .. Word - 1
    BY WordFacts DEF CounterBlocks
  <1>2. s \in Nat /\ carry \in Nat /\ c.hi + carry \in Nat
    BY <1>1
  <1>3. ASSUME NEW x \in Nat PROVE x % Half \in 0 .. Half - 1
    BY <1>1, DivMod
  <1>4. Add128(c, n) = [hi |-> (c.hi + carry) % Half, lo |-> lo]
    BY DEF Add128
  <1>5. Add128(c, n) \in CounterBlocks
    <2> HIDE DEF carry
    <2>1. (c.hi + carry) % Half \in 0 .. Half - 1 /\ lo \in 0 .. Half - 1
      BY <1>2, <1>3
    <2> HIDE DEF lo
    <2>2. QED
      BY <1>4, <2>1 DEF CounterBlocks
  <1>6. ASSUME ~Wraps(c, n) PROVE Add128(c, n) = Add32(c, n)
    <2>1. /\ q * Word \in Nat /\ r \in 0 .. Word - 1 /\ c.lo = q * Word + r
          /\ q * Word + Word <= Half
      BY <1>1, LowerHalf
    <2> HIDE DEF q, r
    <2>2. r + n < Word /\ r + n \in 0 .. Word - 1
      <3>1. ~(r + n >= Word)
        BY <1>6 DEF Wraps, r
      <3>2. QED
        BY <1>1, <2>1, <3>1
    <2>3. (r + n) % Word = r + n
      BY <1>1, <2>2, SmallRemainder
    <2>4. s = q * Word + (r + n) /\ s \in 0 .. Half - 1
      BY <1>1, <1>2, <2>1, <2>2
    <2>5. lo = s
      BY <1>1, <2>4, SmallRemainder
    <2>6. carry = 0
      BY <1>1, <1>2, <2>5
    <2>7. (c.hi + carry) % Half = c.hi
      BY <1>1, <2>6, SmallRemainder
    <2>8. Add32(c, n) = [hi |-> c.hi, lo |-> q * Word + (r + n)]
      BY <1>1, <2>3 DEF Add32, q, r
    <2>9. QED
      BY <1>4, <2>4, <2>5, <2>7, <2>8
  <1>7. QED
    BY <1>5, <1>6

-----------------------------------------------------------------------------
(* Padding: what is appended, and what its removal says of the last block *)

\* The i-th byte of the block whose text ends after t bytes.
PadByte(i, t, padding) ==
  CASE padding = "PKCS7"     -> BlockBytes - t
    [] padding = "ANSIX923"  -> IF i = BlockBytes THEN BlockBytes - t ELSE 0
    [] padding = "ISO7816_4" -> IF i = t + 1 THEN Marker ELSE 0
    [] OTHER                 -> 0

LEMMA CopiesFacts ==
  ASSUME NEW n \in Nat, NEW b \in Int
  PROVE  /\ Copies(n, b) \in Seq(Int) /\ Len(Copies(n, b)) = n
         /\ \A i \in 1 .. n : Copies(n, b)[i] = b
  BY DEF Copies

LEMMA OneByte ==
  ASSUME NEW b \in Int
  PROVE  <<b>> \in Seq(Int) /\ Len(<<b>>) = 1 /\ <<b>>[1] = b
  OBVIOUS

\* What ApplyBlock appends.
Fill(n, padding) ==
  CASE padding = "PKCS7"     -> Copies(n, n)
    [] padding = "ANSIX923"  -> Copies(n - 1, 0) \o <<n>>
    [] padding = "ISO7816_4" -> <<Marker>> \o Copies(n - 1, 0)
    [] OTHER                 -> Copies(n, 0)

LEMMA FillFacts ==
  ASSUME NEW t \in Nat, t < BlockBytes, NEW padding \in Paddings
  PROVE  /\ Fill(BlockBytes - t, padding) \in Seq(Int)
         /\ Len(Fill(BlockBytes - t, padding)) = BlockBytes - t
         /\ \A i \in 1 .. BlockBytes - t :
              Fill(BlockBytes - t, padding)[i] = PadByte(t + i, t, padding)
  <1> DEFINE n == BlockBytes - t
             m == n - 1
             fill == Fill(n, padding)
  <1>1. n \in Nat /\ m \in Nat /\ n \in Int /\ m + 1 = n /\ t + n = BlockBytes /\ 0 \in Int
        /\ 1 + m = n
    BY BlockAssumption
  <1>2. Marker \in Int
    BY MarkerAssumption
  <1> HIDE DEF n, m, fill
  <1>3. CASE padding = "PKCS7"
    <2>1. fill = Copies(n, n)
      BY <1>3 DEF Fill, fill
    <2>2. \A i \in 1 .. n : PadByte(t + i, t, padding) = n
      BY <1>3 DEF PadByte, n
    <2>3. fill \in Seq(Int) /\ Len(fill) = n /\ \A i \in 1 .. n : fill[i] = n
      BY <1>1, <2>1, CopiesFacts
    <2>4. QED
      BY <2>2, <2>3 DEF n, fill
  <1>4. CASE padding = "ANSIX923"
    <2> DEFINE c == Copies(m, 0)
               o == <<n>>
    <2>1. fill = c \o o
      BY <1>4 DEF Fill, fill, m
    <2>2. c \in Seq(Int) /\ Len(c) = m /\ \A i \in 1 .. m : c[i] = 0
      BY <1>1, CopiesFacts
    <2>3. o \in Seq(Int) /\ Len(o) = 1 /\ o[1] = n
      BY <1>1, OneByte
    <2> HIDE DEF c, o
    <2>4. /\ fill \in Seq(Int) /\ Len(fill) = Len(c) + Len(o)
          /\ \A i \in 1 .. Len(c) + Len(o) : fill[i] = IF i <= Len(c) THEN c[i] ELSE o[i - Len(c)]
      BY <2>1, <2>2, <2>3, ConcatProperties
    <2>5. \A i \in 1 .. n : PadByte(t + i, t, padding) = IF i = n THEN n ELSE 0
      BY <1>1, <1>4 DEF PadByte, n
    <2>6. \A i \in 1 .. n : fill[i] = IF i = n THEN n ELSE 0
      BY <1>1, <2>2, <2>3, <2>4
    <2>7. QED
      BY <1>1, <2>2, <2>3, <2>4, <2>5, <2>6 DEF n, fill
  <1>5. CASE padding = "ISO7816_4"
    <2> DEFINE c == Copies(m, 0)
               o == <<Marker>>
    <2>1. fill = o \o c
      BY <1>5 DEF Fill, fill, m
    <2>2. c \in Seq(Int) /\ Len(c) = m /\ \A i \in 1 .. m : c[i] = 0
      BY <1>1, CopiesFacts
    <2>3. o \in Seq(Int) /\ Len(o) = 1 /\ o[1] = Marker
      BY <1>2, OneByte
    <2> HIDE DEF c, o
    <2>4. /\ fill \in Seq(Int) /\ Len(fill) = Len(o) + Len(c)
          /\ \A i \in 1 .. Len(o) + Len(c) : fill[i] = IF i <= Len(o) THEN o[i] ELSE c[i - Len(o)]
      BY <2>1, <2>2, <2>3, ConcatProperties
    <2>5. \A i \in 1 .. n : PadByte(t + i, t, padding) = IF i = 1 THEN Marker ELSE 0
      BY <1>1, <1>5 DEF PadByte
    <2>6. \A i \in 1 .. n : fill[i] = IF i = 1 THEN Marker ELSE 0
      BY <1>1, <2>2, <2>3, <2>4
    <2>7. QED
      BY <1>1, <2>2, <2>3, <2>4, <2>5, <2>6 DEF n, fill
  <1>6. CASE padding \in {"ZERO", "NONE"}
    <2>1. fill = Copies(n, 0)
      BY <1>6 DEF Fill, fill
    <2>2. \A i \in 1 .. n : PadByte(t + i, t, padding) = 0
      BY <1>6 DEF PadByte
    <2>3. fill \in Seq(Int) /\ Len(fill) = n /\ \A i \in 1 .. n : fill[i] = 0
      BY <1>1, <2>1, CopiesFacts
    <2> HIDE DEF n, fill
    <2>4. QED
      BY <2>2, <2>3 DEF n, fill
  <1>7. QED
    BY <1>3, <1>4, <1>5, <1>6 DEF Paddings

LEMMA ApplyFacts ==
  ASSUME NEW tail \in Seq(Int), Len(tail) < BlockBytes, NEW padding \in Paddings
  PROVE  /\ ApplyBlock(tail, padding) \in Seq(Int)
         /\ Len(ApplyBlock(tail, padding)) = BlockBytes
         /\ \A i \in 1 .. BlockBytes :
              ApplyBlock(tail, padding)[i]
                = IF i <= Len(tail) THEN tail[i] ELSE PadByte(i, Len(tail), padding)
  <1> DEFINE t    == Len(tail)
             fill == Fill(BlockBytes - t, padding)
             b    == ApplyBlock(tail, padding)
  <1>1. t \in Nat /\ t < BlockBytes /\ BlockBytes \in Nat
    BY LenProperties, BlockAssumption
  <1>2. b = tail \o fill
    BY DEF ApplyBlock, Fill
  <1>3. /\ fill \in Seq(Int) /\ Len(fill) = BlockBytes - t
        /\ \A i \in 1 .. BlockBytes - t : fill[i] = PadByte(t + i, t, padding)
    <2> HIDE DEF t
    <2>1. QED
      BY <1>1, FillFacts
  <1> HIDE DEF fill, b
  <1>4. /\ b \in Seq(Int) /\ Len(b) = t + Len(fill)
        /\ \A i \in 1 .. t + Len(fill) : b[i] = IF i <= t THEN tail[i] ELSE fill[i - t]
    BY <1>2, <1>3, ConcatProperties
  <1> HIDE DEF t
  <1>5. t + Len(fill) = BlockBytes
    BY <1>1, <1>3
  <1>6. ASSUME NEW i \in 1 .. BlockBytes, ~(i <= t) PROVE fill[i - t] = PadByte(i, t, padding)
    <2>1. i - t \in 1 .. BlockBytes - t /\ t + (i - t) = i
      BY <1>1, <1>6
    <2>2. QED
      BY <1>3, <2>1
  <1>7. QED
    BY <1>4, <1>5, <1>6 DEF b, t

\* Whether a text with r bytes in its last block gets a block of padding.
Pads(padding, r) == padding \notin {"NONE", "ZERO"} \/ (padding = "ZERO" /\ r # 0)

LEMMA LastNonZeroFacts ==
  ASSUME NEW buf \in Seq(Int)
  PROVE  /\ LastNonZero(buf) \in 0 .. Len(buf)
         /\ LastNonZero(buf) > 0 => buf[LastNonZero(buf)] # 0
         /\ \A i \in 1 .. Len(buf) : buf[i] # 0 => i <= LastNonZero(buf)
  <1> DEFINE T == {0} \cup {i \in DOMAIN buf : buf[i] # 0}
  <1>1. DOMAIN buf = 1 .. Len(buf) /\ Len(buf) \in Nat
    BY LenProperties
  <1>2. T \in SUBSET Nat /\ T # {} /\ \A y \in T : y <= Len(buf)
    BY <1>1
  <1>3. Max(T) \in T /\ \A y \in T : y <= Max(T)
    <2> HIDE DEF T
    <2>1. QED
      BY <1>1, <1>2, MaxFacts
  <1>4. LastNonZero(buf) = Max(T)
    BY DEF LastNonZero
  <1> DEFINE e == Max(T)
  <1>5. e \in T /\ \A y \in T : y <= e
    BY <1>3
  <1> HIDE DEF e
  <1>6. e \in 0 .. Len(buf) /\ (e > 0 => buf[e] # 0)
    BY <1>1, <1>5
  <1>7. \A i \in 1 .. Len(buf) : buf[i] # 0 => i <= e
    BY <1>1, <1>5
  <1>8. QED
    BY <1>4, <1>6, <1>7 DEF e

\* The last byte that is not zero, when a text is cut at c.
LEMMA LastNonZeroOfTail ==
  ASSUME NEW s \in Seq(Int), NEW c \in Nat, c <= Len(s), NEW u \in Seq(Int),
         Len(u) = Len(s) - c, \A i \in 1 .. Len(u) : u[i] = s[c + i]
  PROVE  /\ LastNonZero(s) > c => LastNonZero(s) = c + LastNonZero(u)
         /\ LastNonZero(s) <= c => LastNonZero(u) = 0
  <1> DEFINE e == LastNonZero(s)
             f == LastNonZero(u)
  <1>1. /\ e \in 0 .. Len(s) /\ (e > 0 => s[e] # 0)
        /\ \A i \in 1 .. Len(s) : s[i] # 0 => i <= e
    BY LastNonZeroFacts
  <1>2. /\ f \in 0 .. Len(u) /\ (f > 0 => u[f] # 0)
        /\ \A i \in 1 .. Len(u) : u[i] # 0 => i <= f
    BY LastNonZeroFacts
  <1>3. Len(s) \in Nat
    BY LenProperties
  <1> HIDE DEF e, f
  <1>4. f > 0 => c + f <= e
    BY <1>1, <1>2, <1>3
  <1>5. ASSUME e > c PROVE e - c <= f
    <2>1. e - c \in 1 .. Len(u) /\ c + (e - c) = e
      BY <1>1, <1>3, <1>5
    <2>2. u[e - c] = s[e]
      BY <2>1
    <2>3. QED
      BY <1>1, <1>2, <1>5, <2>1, <2>2
  <1>6. e \in Nat /\ f \in Nat
    BY <1>1, <1>2, <1>3, LenProperties
  <1>7. (e > c => e = c + f) /\ (e <= c => f = 0)
    <2>1. e > c => e - c <= f
      BY <1>5
    <2>2. QED
      BY <1>4, <1>6, <2>1
  <1>8. QED
    BY <1>7 DEF e, f

\* Padding is taken off a text as off its last block; zeros before that block may go too.
LEMMA RemoveOfTail ==
  ASSUME NEW s \in Seq(Int), NEW c \in Nat, Len(s) = c + BlockBytes, Len(s) % BlockBytes = 0,
         NEW u \in Seq(Int), Len(u) = BlockBytes, \A i \in 1 .. BlockBytes : u[i] = s[c + i],
         NEW padding \in Paddings
  PROVE  /\ Remove(u, padding).status = Remove(s, padding).status
         /\ Remove(u, padding).len \in 0 .. BlockBytes
         /\ padding # "ZERO" /\ Remove(s, padding).status = "OK"
              => Remove(s, padding).len = c + Remove(u, padding).len
         /\ padding = "ZERO" =>
              /\ Remove(s, padding).len \in 0 .. c + Remove(u, padding).len
              /\ \A i \in Remove(s, padding).len + 1 .. Len(s) : s[i] = 0
  <1>1. BlockBytes \in Nat /\ BlockBytes > 0 /\ Len(s) \in Nat /\ Len(s) # 0 /\ Len(u) # 0
    BY BlockAssumption, LenProperties
  <1>2. BlockBytes % BlockBytes = 0
    <2>1. BlockBytes = 1 * BlockBytes + 0 /\ 0 \in 0 .. BlockBytes - 1 /\ 1 \in Int
      BY <1>1
    <2>2. QED
      BY <1>1, <2>1, QuotientUnique
  <1>3. /\ LastNonZero(s) > c => LastNonZero(s) = c + LastNonZero(u)
        /\ LastNonZero(s) <= c => LastNonZero(u) = 0
    <2>1. c <= Len(s) /\ Len(u) = Len(s) - c
      BY <1>1
    <2>2. QED
      BY <2>1, LastNonZeroOfTail
  <1>4. /\ LastNonZero(s) \in 0 .. Len(s) /\ LastNonZero(u) \in 0 .. BlockBytes
        /\ \A i \in 1 .. Len(s) : s[i] # 0 => i <= LastNonZero(s)
        /\ LastNonZero(u) > 0 => u[LastNonZero(u)] # 0
    BY LastNonZeroFacts
  <1>5. CASE padding = "NONE"
    <2>1. Remove(s, padding) = Stripped(Len(s)) /\ Remove(u, padding) = Stripped(BlockBytes)
      BY <1>1, <1>2, <1>5 DEF Remove
    <2>2. QED
      BY <1>1, <1>5, <2>1 DEF Stripped
  <1>6. CASE padding = "ZERO"
    <2>1. Remove(s, padding) = Stripped(LastNonZero(s))
          /\ Remove(u, padding) = Stripped(LastNonZero(u))
      BY <1>1, <1>2, <1>6 DEF Remove
    <2>2. \A i \in LastNonZero(s) + 1 .. Len(s) : s[i] = 0
      BY <1>1, <1>4
    <2>3. LastNonZero(s) \in 0 .. c + LastNonZero(u)
      BY <1>1, <1>3, <1>4
    <2>4. QED
      BY <1>1, <1>4, <1>6, <2>1, <2>2, <2>3 DEF Stripped
  <1>7. CASE padding = "ISO7816_4"
    <2> DEFINE e == LastNonZero(s)
               f == LastNonZero(u)
               es == e > 0 /\ s[e] = Marker /\ e > Len(s) - BlockBytes
               fs == f > 0 /\ u[f] = Marker /\ f > BlockBytes - BlockBytes
    <2>1. Remove(s, padding) = RemoveIso(s) /\ Remove(u, padding) = RemoveIso(u)
      BY <1>1, <1>2, <1>7 DEF Remove
    <2>2. /\ Remove(s, padding) = IF es THEN Stripped(e - 1) ELSE BadPadding
          /\ Remove(u, padding) = IF fs THEN Stripped(f - 1) ELSE BadPadding
      BY <2>1 DEF RemoveIso
    <2>3. Len(s) - BlockBytes = c /\ BlockBytes - BlockBytes = 0
      BY <1>1
    <2>4. e \in 0 .. Len(s) /\ f \in 0 .. BlockBytes
          /\ (e > c => e = c + f) /\ (e <= c => f = 0)
      BY <1>3, <1>4
    <2> HIDE DEF e, f
    <2>5. es <=> fs
      <3>1. ASSUME e > c PROVE s[e] = u[f] /\ f > 0 /\ e > 0
        BY <1>1, <2>4, <3>1
      <3>2. QED
        BY <1>1, <2>3, <2>4, <3>1
    <2>6. fs => e - 1 = c + (f - 1) /\ f - 1 \in 0 .. BlockBytes
      BY <1>1, <2>3, <2>4, <2>5
    <2> HIDE DEF es, fs
    <2>7. QED
      BY <1>1, <1>7, <2>2, <2>5, <2>6 DEF Stripped, BadPadding
  <1>8. CASE padding \in {"PKCS7", "ANSIX923"}
    <2> DEFINE p  == u[BlockBytes]
               es == /\ p \in 1 .. BlockBytes
                     /\ \A i \in 1 .. p - 1 : s[Len(s) - i] = Filler(p, padding)
               fs == /\ p \in 1 .. BlockBytes
                     /\ \A i \in 1 .. p - 1 : u[BlockBytes - i] = Filler(p, padding)
    <2>1. Remove(s, padding) = RemoveCounted(s, padding)
          /\ Remove(u, padding) = RemoveCounted(u, padding)
      BY <1>1, <1>2, <1>8 DEF Remove
    <2>2. s[Len(s)] = p
      BY <1>1
    <2>3. /\ Remove(s, padding) = IF es THEN Stripped(Len(s) - p) ELSE BadPadding
          /\ Remove(u, padding) = IF fs THEN Stripped(BlockBytes - p) ELSE BadPadding
      BY <2>1, <2>2 DEF RemoveCounted
    <2>4. p \in Int
      BY <1>1, ElementOfSeq
    <2> HIDE DEF p
    <2>5. p \in 1 .. BlockBytes => \A i \in 1 .. p - 1 : s[Len(s) - i] = u[BlockBytes - i]
      <3>1. SUFFICES ASSUME p \in 1 .. BlockBytes, NEW i \in 1 .. p - 1
                     PROVE  s[Len(s) - i] = u[BlockBytes - i]
        OBVIOUS
      <3>2. BlockBytes - i \in 1 .. BlockBytes /\ c + (BlockBytes - i) = Len(s) - i
        BY <1>1, <2>4, <3>1
      <3>3. QED
        BY <3>2
    <2>6. es <=> fs
      BY <2>5
    <2>7. fs => Len(s) - p = c + (BlockBytes - p) /\ BlockBytes - p \in 0 .. BlockBytes
      <3>1. fs => p \in 1 .. BlockBytes
        OBVIOUS
      <3>2. p \in 1 .. BlockBytes
              => Len(s) - p = c + (BlockBytes - p) /\ BlockBytes - p \in 0 .. BlockBytes
        BY <1>1
      <3>3. QED
        BY <3>1, <3>2
    <2> HIDE DEF es, fs
    <2>8. QED
      BY <1>1, <1>8, <2>3, <2>6, <2>7 DEF Stripped, BadPadding
  <1>9. QED
    BY <1>5, <1>6, <1>7, <1>8 DEF Paddings

LEMMA StripFacts ==
  ASSUME NEW u \in Seq(Int), Len(u) = BlockBytes, NEW padding \in Paddings
  PROVE  /\ Remove(u, padding).status \in {"OK", "BAD_PADDING"}
         /\ Remove(u, padding).len \in 0 .. BlockBytes
  <1>1. Remove(u, padding).status \in {"OK", "BAD_PADDING"}
    BY DEF Remove, RemoveIso, RemoveCounted, Stripped, BadPadding
  <1>2. BlockBytes % BlockBytes = 0
    <2>1. BlockBytes \in Nat /\ BlockBytes = 1 * BlockBytes + 0 /\ 0 \in 0 .. BlockBytes - 1
          /\ 1 \in Int
      BY BlockAssumption
    <2>2. QED
      BY <2>1, QuotientUnique
  <1>3. 0 \in Nat /\ Len(u) = 0 + BlockBytes /\ \A i \in 1 .. BlockBytes : u[i] = u[0 + i]
    BY BlockAssumption
  <1>4. Remove(u, padding).len \in 0 .. BlockBytes
    BY <1>2, <1>3, RemoveOfTail
  <1>5. QED
    BY <1>1, <1>4

\* What Remove makes of a block that ApplyBlock made: the text comes back, or the text up to
\* its last byte that is not zero.
LEMMA RemoveOfApplied ==
  ASSUME NEW u \in Seq(Int), Len(u) = BlockBytes, NEW r \in 0 .. BlockBytes - 1,
         NEW padding \in Paddings \ {"NONE"},
         \A i \in r + 1 .. BlockBytes : u[i] = PadByte(i, r, padding)
  PROVE  /\ Remove(u, padding).status = "OK"
         /\ padding # "ZERO" => Remove(u, padding).len = r
         /\ padding = "ZERO" =>
              /\ Remove(u, padding).len \in 0 .. r
              /\ \A i \in Remove(u, padding).len + 1 .. BlockBytes : u[i] = 0
  <1>1. BlockBytes \in Nat /\ BlockBytes > 0 /\ r \in Nat /\ r < BlockBytes /\ Len(u) # 0
    BY BlockAssumption
  <1>2. BlockBytes % BlockBytes = 0
    <2>1. BlockBytes = 1 * BlockBytes + 0 /\ 0 \in 0 .. BlockBytes - 1 /\ 1 \in Int
      BY <1>1
    <2>2. QED
      BY <1>1, <2>1, QuotientUnique
  <1> DEFINE e == LastNonZero(u)
  <1>3. /\ e \in 0 .. BlockBytes /\ (e > 0 => u[e] # 0)
        /\ \A i \in 1 .. BlockBytes : u[i] # 0 => i <= e
    BY LastNonZeroFacts
  <1> HIDE DEF e
  <1>4. CASE padding = "ZERO"
    <2>1. Remove(u, padding) = Stripped(e)
      BY <1>1, <1>2, <1>4 DEF Remove, e
    <2>2. \A i \in r + 1 .. BlockBytes : u[i] = 0
      BY <1>4 DEF PadByte
    <2>3. e <= r
      BY <1>1, <1>3, <2>2
    <2>4. \A i \in e + 1 .. BlockBytes : u[i] = 0
      BY <1>1, <1>3
    <2>5. QED
      BY <1>1, <1>3, <1>4, <2>1, <2>3, <2>4 DEF Stripped
  <1>5. CASE padding = "ISO7816_4"
    <2>1. Remove(u, padding) = RemoveIso(u)
      BY <1>1, <1>2, <1>5 DEF Remove
    <2>2. /\ u[r + 1] = Marker
          /\ \A i \in r + 2 .. BlockBytes : u[i] = 0
      <3>1. r + 1 \in r + 1 .. BlockBytes
        BY <1>1
      <3>2. u[r + 1] = Marker
        BY <1>5, <3>1 DEF PadByte
      <3>3. ASSUME NEW i \in r + 2 .. BlockBytes PROVE u[i] = 0
        <4>1. i \in r + 1 .. BlockBytes /\ i # r + 1
          BY <1>1
        <4>2. QED
          BY <1>5, <4>1 DEF PadByte
      <3>4. QED
        BY <3>2, <3>3
    <2>3. Marker # 0
      BY <1>1, MarkerAssumption
    <2>4. e = r + 1
      <3>1. r + 1 <= e
        BY <1>1, <1>3, <2>2, <2>3
      <3>2. ~(e >= r + 2)
        BY <1>1, <1>3, <2>2
      <3>3. QED
        BY <1>1, <1>3, <3>1, <3>2
    <2>5. e > 0 /\ u[e] = Marker /\ e > Len(u) - BlockBytes
      BY <1>1, <2>2, <2>4
    <2>6. Remove(u, padding) = Stripped(e - 1)
      BY <2>1, <2>5 DEF RemoveIso, e
    <2>7. QED
      BY <1>1, <1>5, <2>4, <2>6 DEF Stripped
  <1>6. CASE padding \in {"PKCS7", "ANSIX923"}
    <2> DEFINE p == u[BlockBytes]
    <2>1. Remove(u, padding) = RemoveCounted(u, padding)
      BY <1>1, <1>2, <1>6 DEF Remove
    <2>2. p = BlockBytes - r
      <3>1. BlockBytes \in r + 1 .. BlockBytes
        BY <1>1
      <3>2. QED
        BY <1>6, <3>1 DEF PadByte
    <2>3. p \in 1 .. BlockBytes
      BY <1>1, <2>2
    <2>4. ASSUME NEW i \in 1 .. p - 1 PROVE u[BlockBytes - i] = Filler(p, padding)
      <3>1. BlockBytes - i \in r + 1 .. BlockBytes /\ BlockBytes - i # BlockBytes
        BY <1>1, <2>2
      <3>2. QED
        BY <1>6, <2>2, <3>1 DEF PadByte, Filler
    <2>5. Remove(u, padding) = Stripped(BlockBytes - p)
      BY <2>1, <2>3, <2>4 DEF RemoveCounted
    <2>6. QED
      BY <1>1, <1>6, <2>2, <2>5 DEF Stripped
  <1>7. QED
    BY <1>4, <1>5, <1>6 DEF Paddings

\* What Remove accepts is what ApplyBlock appends.
LEMMA RemoveSays ==
  ASSUME NEW u \in Seq(Int), Len(u) = BlockBytes, NEW padding \in Paddings \ {"NONE", "ZERO"},
         Remove(u, padding).status = "OK"
  PROVE  /\ Remove(u, padding).len \in 0 .. BlockBytes - 1
         /\ \A i \in Remove(u, padding).len + 1 .. BlockBytes :
              u[i] = PadByte(i, Remove(u, padding).len, padding)
  <1>1. BlockBytes \in Nat /\ BlockBytes > 0 /\ Len(u) # 0
    BY BlockAssumption
  <1>2. BlockBytes % BlockBytes = 0
    <2>1. BlockBytes = 1 * BlockBytes + 0 /\ 0 \in 0 .. BlockBytes - 1 /\ 1 \in Int
      BY <1>1
    <2>2. QED
      BY <1>1, <2>1, QuotientUnique
  <1>3. CASE padding = "ISO7816_4"
    <2> DEFINE e == LastNonZero(u)
    <2>1. Remove(u, padding) = RemoveIso(u)
      BY <1>1, <1>2, <1>3 DEF Remove
    <2>2. /\ e \in 0 .. BlockBytes /\ e > 0 /\ u[e] = Marker
          /\ Remove(u, padding) = Stripped(e - 1)
      BY <2>1, LastNonZeroFacts DEF RemoveIso, BadPadding, Stripped
    <2>3. \A i \in 1 .. BlockBytes : u[i] # 0 => i <= e
      BY LastNonZeroFacts
    <2> HIDE DEF e
    <2>4. Remove(u, padding).len = e - 1
      BY <2>2 DEF Stripped
    <2>5. ASSUME NEW i \in e .. BlockBytes PROVE u[i] = PadByte(i, e - 1, padding)
      <3>1. i = e \/ (i \in 1 .. BlockBytes /\ ~(i <= e))
        BY <1>1, <2>2
      <3>2. PadByte(i, e - 1, padding) = IF i = e THEN Marker ELSE 0
        BY <1>3, <2>2 DEF PadByte
      <3>3. QED
        BY <2>2, <2>3, <3>1, <3>2
    <2>6. QED
      BY <1>1, <2>2, <2>4, <2>5
  <1>4. CASE padding \in {"PKCS7", "ANSIX923"}
    <2> DEFINE p == u[BlockBytes]
               l == BlockBytes - p
    <2>1. Remove(u, padding) = RemoveCounted(u, padding)
      BY <1>1, <1>2, <1>4 DEF Remove
    <2>2. /\ p \in 1 .. BlockBytes
          /\ \A i \in 1 .. p - 1 : u[BlockBytes - i] = Filler(p, padding)
          /\ Remove(u, padding) = Stripped(l)
      BY <2>1 DEF RemoveCounted, BadPadding, Stripped
    <2>3. Remove(u, padding).len = l /\ l \in 0 .. BlockBytes - 1 /\ BlockBytes - l = p
      BY <1>1, <2>2 DEF Stripped
    <2>4. ASSUME NEW i \in l + 1 .. BlockBytes PROVE u[i] = PadByte(i, l, padding)
      <3>1. CASE i = BlockBytes
        BY <1>4, <2>3, <3>1 DEF PadByte
      <3>2. CASE i # BlockBytes
        <4>1. BlockBytes - i \in 1 .. p - 1 /\ BlockBytes - (BlockBytes - i) = i
          BY <1>1, <2>2, <3>2
        <4>2. u[i] = Filler(p, padding)
          BY <2>2, <4>1
        <4>3. PadByte(i, l, padding) = Filler(p, padding)
          BY <1>4, <2>3, <3>2 DEF PadByte, Filler
        <4>4. QED
          BY <4>2, <4>3
      <3>3. QED
        BY <3>1, <3>2
    <2>5. QED
      BY <2>3, <2>4
  <1>5. QED
    BY <1>3, <1>4 DEF Paddings
=============================================================================
