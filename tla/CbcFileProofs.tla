--------------------------- MODULE CbcFileProofs ---------------------------
(***************************************************************************)
(* Proofs about CbcFile: a file call does what the one-shot call does, for *)
(* every size of a block and of the buffer, and decryption accepts exactly *)
(* what encryption makes.                                                  *)
(***************************************************************************)
EXTENDS CbcFile, BytesProofs, FiniteSetTheorems

-----------------------------------------------------------------------------
(* Sequences of bytes.  A byte names the block it was made from, so that there is no set of *)
(* all bytes: of a sequence it is only said that it is one.                                 *)

IsText(s) == \E S : s \in Seq(S)

LEMMA TextFrom ==
  ASSUME NEW n \in Nat, NEW s, s = [i \in 1 .. n |-> s[i]]
  PROVE  IsText(s) /\ Len(s) = n /\ DOMAIN s = 1 .. n
  <1> DEFINE S == {s[i] : i \in 1 .. n}
             t == [i \in 1 .. n |-> s[i]]
  <1>1. \A i \in 1 .. n : s[i] \in S
    OBVIOUS
  <1> HIDE DEF S
  <1>2. t \in Seq(S) /\ Len(t) = n /\ DOMAIN t = 1 .. n
    BY <1>1
  <1>3. QED
    BY <1>2 DEF IsText

LEMMA TextFacts ==
  ASSUME NEW s, IsText(s)
  PROVE  Len(s) \in Nat /\ DOMAIN s = 1 .. Len(s) /\ s = [i \in 1 .. Len(s) |-> s[i]]
  <1>1. PICK S : s \in Seq(S)
    BY DEF IsText
  <1>2. Len(s) \in Nat /\ s \in [1 .. Len(s) -> S]
    BY <1>1, LenProperties
  <1>3. QED
    BY <1>2

LEMMA TextEqual ==
  ASSUME NEW s, IsText(s), NEW t, IsText(t), Len(s) = Len(t), \A i \in 1 .. Len(s) : s[i] = t[i]
  PROVE  s = t
  <1>1. /\ s = [i \in 1 .. Len(s) |-> s[i]]
        /\ t = [i \in 1 .. Len(s) |-> t[i]]
    BY TextFacts
  <1>2. [i \in 1 .. Len(s) |-> s[i]] = [i \in 1 .. Len(s) |-> t[i]]
    OBVIOUS
  <1>3. QED
    BY <1>1, <1>2

LEMMA EmptyText ==
  /\ IsText(<<>>) /\ Len(<<>>) = 0
  /\ \A s : IsText(s) /\ Len(s) = 0 => s = <<>>
  <1>1. <<>> \in Seq({}) /\ Len(<<>>) = 0
    OBVIOUS
  <1>2. IsText(<<>>)
    BY <1>1 DEF IsText
  <1>3. ASSUME NEW s, IsText(s), Len(s) = 0 PROVE s = <<>>
    BY <1>1, <1>2, <1>3, TextEqual
  <1>4. QED
    BY <1>1, <1>2, <1>3

\* Two texts are over one set.
LEMMA CommonSet ==
  ASSUME NEW s, IsText(s), NEW t, IsText(t) PROVE \E S : s \in Seq(S) /\ t \in Seq(S)
  <1>1. PICK S : s \in Seq(S)
    BY DEF IsText
  <1>2. PICK T : t \in Seq(T)
    BY DEF IsText
  <1>3. s \in Seq(S \cup T)
    BY <1>1, SeqSubset
  <1>4. t \in Seq(S \cup T)
    BY <1>2, SeqSubset
  <1>5. QED
    BY <1>3, <1>4

LEMMA TextConcat ==
  ASSUME NEW s, IsText(s), NEW t, IsText(t)
  PROVE  /\ IsText(s \o t) /\ Len(s \o t) = Len(s) + Len(t)
         /\ \A i \in 1 .. Len(s) : (s \o t)[i] = s[i]
         /\ \A i \in 1 .. Len(t) : (s \o t)[Len(s) + i] = t[i]
  <1>1. PICK S : s \in Seq(S) /\ t \in Seq(S)
    BY CommonSet
  <1>2. /\ s \o t \in Seq(S) /\ Len(s \o t) = Len(s) + Len(t)
        /\ \A i \in 1 .. Len(s) + Len(t) :
             (s \o t)[i] = IF i <= Len(s) THEN s[i] ELSE t[i - Len(s)]
    BY <1>1, ConcatProperties
  <1>3. Len(s) \in Nat /\ Len(t) \in Nat
    BY TextFacts
  <1>4. IsText(s \o t)
    BY <1>2 DEF IsText
  <1>5. ASSUME NEW i \in 1 .. Len(s) PROVE (s \o t)[i] = s[i]
    BY <1>2, <1>3
  <1>6. ASSUME NEW i \in 1 .. Len(t) PROVE (s \o t)[Len(s) + i] = t[i]
    <2>1. /\ Len(s) + i \in 1 .. Len(s) + Len(t) /\ ~(Len(s) + i <= Len(s))
          /\ Len(s) + i - Len(s) = i
      BY <1>3
    <2>2. QED
      BY <1>2, <2>1
  <1>7. QED
    BY <1>2, <1>4, <1>5, <1>6

LEMMA ConcatEmpty == ASSUME NEW s, IsText(s) PROVE s \o <<>> = s /\ <<>> \o s = s
  <1>1. PICK S : s \in Seq(S)
    BY DEF IsText
  <1>2. QED
    BY <1>1, ConcatEmptySeq

LEMMA ConcatAssoc ==
  ASSUME NEW s, IsText(s), NEW t, IsText(t), NEW u, IsText(u)
  PROVE  (s \o t) \o u = s \o (t \o u)
  <1>1. PICK S : s \in Seq(S) /\ t \in Seq(S)
    BY CommonSet
  <1>2. PICK U : u \in Seq(U)
    BY DEF IsText
  <1>3. s \in Seq(S \cup U) /\ t \in Seq(S \cup U) /\ u \in Seq(S \cup U)
    BY <1>1, <1>2, SeqSubset
  <1>4. QED
    BY <1>3, ConcatAssociative

LEMMA PartFacts ==
  ASSUME NEW s, IsText(s), NEW a \in Nat, NEW b \in Nat, a <= b, b <= Len(s)
  PROVE  /\ IsText(Slice(s, a, b)) /\ Len(Slice(s, a, b)) = b - a
         /\ \A i \in 1 .. b - a : Slice(s, a, b)[i] = s[a + i]
  <1>1. PICK S : s \in Seq(S)
    BY DEF IsText
  <1>2. Slice(s, a, b) \in Seq(S)
    BY <1>1, SliceFacts
  <1>3. Len(Slice(s, a, b)) = b - a /\ \A i \in 1 .. b - a : Slice(s, a, b)[i] = s[a + i]
    BY <1>1, SliceFacts
  <1>4. QED
    BY <1>2, <1>3 DEF IsText

LEMMA TakeDrop ==
  ASSUME NEW s, IsText(s), NEW c \in Nat, c <= Len(s)
  PROVE  /\ IsText(Take(s, c)) /\ Len(Take(s, c)) = c
         /\ \A i \in 1 .. c : Take(s, c)[i] = s[i]
         /\ IsText(Drop(s, c)) /\ Len(Drop(s, c)) = Len(s) - c
         /\ \A i \in 1 .. Len(s) - c : Drop(s, c)[i] = s[c + i]
  <1> DEFINE n == Len(s)
  <1>1. Take(s, c) = Slice(s, 0, c) /\ Drop(s, c) = Slice(s, c, n)
    BY TakeSlice
  <1>2. n \in Nat /\ 0 \in Nat /\ n <= Len(s)
    BY TextFacts
  <1>3. 0 <= c /\ c - 0 = c /\ c <= n
    BY <1>2
  <1> HIDE DEF n
  <1>4. IsText(Slice(s, 0, c)) /\ Len(Slice(s, 0, c)) = c - 0
    BY <1>3, PartFacts
  <1>5. \A i \in 1 .. c - 0 : Slice(s, 0, c)[i] = s[0 + i]
    BY <1>3, PartFacts
  <1>6. IsText(Slice(s, c, n)) /\ Len(Slice(s, c, n)) = n - c
    BY <1>2, <1>3, PartFacts
  <1>7. \A i \in 1 .. n - c : Slice(s, c, n)[i] = s[c + i]
    BY <1>2, <1>3, PartFacts
  <1>8. \A i \in 1 .. c : Take(s, c)[i] = s[i]
    BY <1>1, <1>3, <1>5
  <1>9. IsText(Take(s, c)) /\ Len(Take(s, c)) = c
    BY <1>1, <1>3, <1>4
  <1>10. QED
    BY <1>1, <1>6, <1>7, <1>8, <1>9 DEF n

LEMMA PartsJoin ==
  ASSUME NEW s, IsText(s), NEW a \in Nat, NEW b \in Nat, NEW c \in Nat,
         a <= b, b <= c, c <= Len(s)
  PROVE  /\ Slice(s, a, b) \o Slice(s, b, c) = Slice(s, a, c)
         /\ Slice(s, a, a) = <<>> /\ Slice(s, 0, Len(s)) = s
  <1>1. PICK S : s \in Seq(S)
    BY DEF IsText
  <1>2. a <= Len(s)
    BY <1>1, LenProperties
  <1>3. QED
    BY <1>1, <1>2, SliceJoin, SliceEmpty, SliceAll

-----------------------------------------------------------------------------
(* Blocks *)

\* The block's bytes, whatever else it is.
Block(x) == [j \in 1 .. BlockBytes |-> x[j]]

Count(s)   == Len(s) \div BlockBytes
IsWhole(s) == IsText(s) /\ Len(s) % BlockBytes = 0

LEMMA BlockText ==
  ASSUME NEW x, x = Block(x) PROVE IsText(x) /\ Len(x) = BlockBytes
  BY BlockAssumption, TextFrom DEF Block

LEMMA BlockOfText == ASSUME NEW x, IsText(x), Len(x) = BlockBytes PROVE x = Block(x)
  BY TextFacts DEF Block

LEMMA BlockTwice == ASSUME NEW x PROVE Block(Block(x)) = Block(x)
  BY DEF Block

LEMMA WholeCount ==
  ASSUME NEW s, IsWhole(s)
  PROVE  Count(s) \in Nat /\ Len(s) = Count(s) * BlockBytes
  <1>1. Len(s) \in Nat
    BY TextFacts DEF IsWhole
  <1>2. /\ Len(s) \div BlockBytes \in Nat
        /\ Len(s) = (Len(s) \div BlockBytes) * BlockBytes + (Len(s) % BlockBytes)
    BY <1>1, Division
  <1>3. (Len(s) \div BlockBytes) * BlockBytes \in Nat
    BY <1>2, BlockAssumption
  <1>4. QED
    BY <1>2, <1>3 DEF Count, IsWhole

LEMMA CountFrom ==
  ASSUME NEW s, IsText(s), NEW n \in Nat, Len(s) = n * BlockBytes
  PROVE  IsWhole(s) /\ Count(s) = n
  <1>1. 0 \in 0 .. BlockBytes - 1 /\ Len(s) = n * BlockBytes + 0 /\ Len(s) \in Nat /\ n \in Int
    BY BlockAssumption, TextFacts
  <1>2. QED
    BY <1>1, QuotientUnique DEF IsWhole, Count

\* Where block i of n is.
LEMMA BlockPlace ==
  ASSUME NEW n \in Nat, NEW i \in 1 .. n
  PROVE  /\ (i - 1) * BlockBytes \in Nat /\ i * BlockBytes \in Nat /\ n * BlockBytes \in Nat
         /\ i * BlockBytes = (i - 1) * BlockBytes + BlockBytes
         /\ i * BlockBytes <= n * BlockBytes
  <1>1. BlockBytes \in Nat /\ i - 1 \in Nat /\ i \in Nat /\ n - i \in Nat
    BY BlockAssumption
  <1>2. (i - 1) * BlockBytes \in Nat /\ i * BlockBytes \in Nat /\ (n - i) * BlockBytes \in Nat
    BY <1>1
  <1>3. i * BlockBytes = (i - 1) * BlockBytes + BlockBytes
    BY <1>1
  <1>4. n * BlockBytes = i * BlockBytes + (n - i) * BlockBytes
    BY <1>1
  <1>5. QED
    BY <1>2, <1>3, <1>4

LEMMA PlaceOfByte ==
  ASSUME NEW n \in Nat, NEW p \in 1 .. n * BlockBytes
  PROVE  \E i \in 1 .. n, j \in 1 .. BlockBytes :
           /\ p = (i - 1) * BlockBytes + j
           /\ (p - 1) \div BlockBytes + 1 = i /\ ((p - 1) % BlockBytes) + 1 = j
  <1> DEFINE q == (p - 1) \div BlockBytes
             r == (p - 1) % BlockBytes
  <1>1. n * BlockBytes \in Nat /\ BlockBytes \in Nat /\ p - 1 \in Nat
    BY BlockAssumption
  <1>2. q \in Nat /\ r \in 0 .. BlockBytes - 1 /\ p - 1 = q * BlockBytes + r
    BY <1>1, Division
  <1> HIDE DEF q, r
  <1>3. q < n
    <2>1. SUFFICES ASSUME q >= n PROVE FALSE
      BY <1>2
    <2>2. (q - n) * BlockBytes \in Nat
      BY <1>1, <1>2, <2>1
    <2>3. q * BlockBytes = n * BlockBytes + (q - n) * BlockBytes
      BY <1>1, <1>2
    <2>4. q * BlockBytes \in Nat
      BY <1>1, <1>2
    <2>5. QED
      BY <1>1, <1>2, <2>2, <2>3, <2>4
  <1>4. q + 1 \in 1 .. n /\ r + 1 \in 1 .. BlockBytes /\ (q + 1) - 1 = q
    BY <1>1, <1>2, <1>3
  <1>5. p = q * BlockBytes + (r + 1)
    <2>1. q * BlockBytes \in Nat
      BY <1>1, <1>2
    <2>2. QED
      BY <1>1, <1>2, <2>1
  <1>6. QED
    BY <1>4, <1>5 DEF q, r

LEMMA BlockAtFacts ==
  ASSUME NEW s, IsText(s), NEW n \in Nat, n * BlockBytes <= Len(s), NEW i \in 1 .. n
  PROVE  /\ BlockAt(s, i) = Slice(s, (i - 1) * BlockBytes, i * BlockBytes)
         /\ IsText(BlockAt(s, i)) /\ Len(BlockAt(s, i)) = BlockBytes
         /\ BlockAt(s, i) = Block(BlockAt(s, i))
         /\ \A j \in 1 .. BlockBytes : BlockAt(s, i)[j] = s[(i - 1) * BlockBytes + j]
  <1> DEFINE a == (i - 1) * BlockBytes
             b == i * BlockBytes
  <1>1. BlockAt(s, i) = Slice(s, a, b)
    BY DEF BlockAt, Slice
  <1>2. a \in Nat /\ b \in Nat /\ b = a + BlockBytes /\ b <= Len(s)
    <2>1. n * BlockBytes \in Nat /\ Len(s) \in Nat
      BY BlockPlace, TextFacts
    <2>2. QED
      BY <2>1, BlockPlace
  <1> HIDE DEF a, b
  <1>3. a <= b /\ b - a = BlockBytes
    BY <1>2, BlockAssumption
  <1>4. /\ IsText(Slice(s, a, b)) /\ Len(Slice(s, a, b)) = BlockBytes
        /\ \A j \in 1 .. BlockBytes : Slice(s, a, b)[j] = s[a + j]
    <2>1. IsText(Slice(s, a, b)) /\ Len(Slice(s, a, b)) = b - a
      BY <1>2, <1>3, PartFacts
    <2>2. \A j \in 1 .. b - a : Slice(s, a, b)[j] = s[a + j]
      BY <1>2, <1>3, PartFacts
    <2>3. QED
      BY <1>3, <2>1, <2>2
  <1>5. QED
    BY <1>1, <1>4, BlockOfText DEF a, b

\* Texts of n blocks are equal if their blocks are.
LEMMA SameBlocks ==
  ASSUME NEW n \in Nat, NEW s, IsText(s), Len(s) = n * BlockBytes,
         NEW t, IsText(t), Len(t) = n * BlockBytes,
         \A i \in 1 .. n : BlockAt(s, i) = BlockAt(t, i)
  PROVE  s = t
  <1>1. ASSUME NEW p \in 1 .. n * BlockBytes PROVE s[p] = t[p]
    <2>1. PICK i \in 1 .. n, j \in 1 .. BlockBytes : p = (i - 1) * BlockBytes + j
      BY PlaceOfByte
    <2>2. BlockAt(s, i)[j] = s[p] /\ BlockAt(t, i)[j] = t[p]
      <3>1. n * BlockBytes <= Len(s) /\ n * BlockBytes <= Len(t)
        BY BlockAssumption
      <3>2. QED
        BY <2>1, <3>1, BlockAtFacts
    <2>3. QED
      BY <2>2
  <1>2. QED
    BY <1>1, TextEqual

LEMMA JoinedFacts ==
  ASSUME NEW n \in Nat, NEW b
  PROVE  /\ IsText(Joined(b, n)) /\ Len(Joined(b, n)) = n * BlockBytes
         /\ \A i \in 1 .. n : BlockAt(Joined(b, n), i) = Block(b[i])
  <1> DEFINE s == Joined(b, n)
  <1>1. n * BlockBytes \in Nat
    BY BlockAssumption
  <1>2. s = [p \in 1 .. n * BlockBytes |-> s[p]]
    BY DEF Joined
  <1>3. IsText(s) /\ Len(s) = n * BlockBytes
    BY <1>1, <1>2, TextFrom
  <1>4. ASSUME NEW i \in 1 .. n PROVE BlockAt(s, i) = Block(b[i])
    <2>1. ASSUME NEW j \in 1 .. BlockBytes PROVE BlockAt(s, i)[j] = b[i][j]
      <3> DEFINE p == (i - 1) * BlockBytes + j
      <3>1. p \in 1 .. n * BlockBytes
        BY BlockPlace, BlockAssumption
      <3>2. (p - 1) \div BlockBytes = i - 1 /\ (p - 1) % BlockBytes = j - 1
        <4>1. /\ p - 1 \in Nat /\ i - 1 \in Int /\ j - 1 \in 0 .. BlockBytes - 1
              /\ p - 1 = (i - 1) * BlockBytes + (j - 1)
          BY BlockPlace, BlockAssumption
        <4> HIDE DEF p
        <4>2. QED
          BY <4>1, QuotientUnique
      <3>3. s[p] = b[(p - 1) \div BlockBytes + 1][((p - 1) % BlockBytes) + 1]
        <4> HIDE DEF p
        <4>1. QED
          BY <3>1 DEF Joined
      <3>4. (i - 1) + 1 = i /\ (j - 1) + 1 = j
        OBVIOUS
      <3>5. s[p] = b[i][j]
        <4> HIDE DEF p, s
        <4>1. QED
          BY <3>2, <3>3, <3>4
      <3>6. n * BlockBytes <= Len(s)
        BY <1>1, <1>3
      <3> HIDE DEF s
      <3>7. BlockAt(s, i)[j] = s[p]
        BY <1>3, <3>6, BlockAtFacts
      <3>8. QED
        BY <3>5, <3>7
    <2>2. BlockAt(s, i) = Block(BlockAt(s, i))
      <3>1. n * BlockBytes <= Len(s)
        BY <1>1, <1>3
      <3> HIDE DEF s
      <3>2. QED
        BY <1>3, <3>1, BlockAtFacts
    <2> HIDE DEF s
    <2>3. QED
      BY <2>1, <2>2 DEF Block
  <1>5. QED
    BY <1>3, <1>4

-----------------------------------------------------------------------------
(* The chain *)

\* The block that follows x, and the blocks so formed, which Chain joins.
Linked(text, i, x) == EncryptBlock(XorBlock(BlockAt(text, i), x))

Follows(text, iv, m, f) ==
  f = [i \in 0 .. m |-> IF i = 0 THEN iv ELSE Linked(text, i, f[i - 1])]

Links(text, iv) == CHOOSE f : Follows(text, iv, Count(text), f)

LEMMA XorOfBlock ==
  ASSUME NEW x, NEW y
  PROVE  XorBlock(Block(x), y) = XorBlock(x, y) /\ XorBlock(x, Block(y)) = XorBlock(x, y)
  BY DEF XorBlock, Block

LEMMA XorTwice ==
  ASSUME NEW x, NEW y
  PROVE  XorBlock(XorBlock(x, y), y) = Block(x) /\ Block(XorBlock(x, y)) = XorBlock(x, y)
  <1> DEFINE w == XorBlock(x, y)
  <1>1. \A j \in 1 .. BlockBytes : w[j] = (x[j] \ y[j]) \cup (y[j] \ x[j])
    BY DEF XorBlock
  <1>2. Block(w) = w
    BY DEF XorBlock, Block
  <1> HIDE DEF w
  <1>3. ASSUME NEW j \in 1 .. BlockBytes PROVE (w[j] \ y[j]) \cup (y[j] \ w[j]) = x[j]
    BY <1>1
  <1>4. XorBlock(w, y) = Block(x)
    BY <1>3 DEF XorBlock, Block
  <1>5. QED
    BY <1>2, <1>4 DEF w

\* The recursive function of Chain is there: one of m links can be extended by one.
LEMMA LinksExist == ASSUME NEW text, NEW iv, NEW n \in Nat PROVE \E f : Follows(text, iv, n, f)
  <1> DEFINE Wrong == {m \in Nat : ~ \E f : Follows(text, iv, m, f)}
  <1>1. SUFFICES ASSUME Wrong # {} PROVE FALSE
    OBVIOUS
  <1>2. PICK m \in Wrong : \A j \in Wrong : m <= j
    <2>1. Wrong \in SUBSET Nat
      OBVIOUS
    <2> HIDE DEF Wrong
    <2>2. QED
      BY <1>1, <2>1, Least
  <1>3. m \in Nat /\ ~ \E f : Follows(text, iv, m, f)
    OBVIOUS
  <1>4. m # 0
    <2>1. SUFFICES ASSUME m = 0 PROVE FALSE
      OBVIOUS
    <2> DEFINE f == [i \in 0 .. 0 |-> iv]
    <2>2. Follows(text, iv, 0, f)
      BY DEF Follows
    <2>3. QED
      BY <1>3, <2>1, <2>2
  <1>5. m - 1 \in Nat /\ m - 1 \notin Wrong
    BY <1>2, <1>3, <1>4
  <1>6. PICK f : Follows(text, iv, m - 1, f)
    BY <1>5
  <1> DEFINE last == Linked(text, m, f[m - 1])
             g    == [i \in 0 .. m |-> IF i = m THEN last ELSE f[i]]
  <1>7. ASSUME NEW i \in 0 .. m
        PROVE  g[i] = IF i = 0 THEN iv ELSE Linked(text, i, g[i - 1])
    <2>1. CASE i = 0
      BY <1>3, <1>4, <1>6, <2>1 DEF Follows
    <2>2. CASE i # 0 /\ i # m
      <3>1. i - 1 \in 0 .. m /\ i - 1 # m /\ i \in 0 .. m - 1
        BY <1>3, <2>2
      <3>2. g[i] = f[i] /\ g[i - 1] = f[i - 1]
        BY <2>2, <3>1
      <3>3. f[i] = Linked(text, i, f[i - 1])
        BY <1>6, <2>2, <3>1 DEF Follows
      <3>4. QED
        BY <2>2, <3>2, <3>3
    <2>3. CASE i = m
      <3>1. i - 1 \in 0 .. m /\ i - 1 # m
        BY <1>3, <1>4, <2>3
      <3>2. g[i - 1] = f[m - 1] /\ g[i] = last
        BY <2>3, <3>1
      <3>3. QED
        BY <1>4, <2>3, <3>2
    <2>4. QED
      BY <2>1, <2>2, <2>3
  <1>8. Follows(text, iv, m, g)
    <2>1. g = [i \in 0 .. m |-> g[i]]
      OBVIOUS
    <2> HIDE DEF g
    <2>2. [i \in 0 .. m |-> g[i]]
            = [i \in 0 .. m |-> IF i = 0 THEN iv ELSE Linked(text, i, g[i - 1])]
      BY <1>7
    <2>3. QED
      BY <2>1, <2>2 DEF Follows
  <1>9. QED
    BY <1>3, <1>8

LEMMA LinksFacts ==
  ASSUME NEW text, NEW iv, Count(text) \in Nat
  PROVE  /\ Links(text, iv)[0] = iv
         /\ \A i \in 1 .. Count(text) :
              Links(text, iv)[i] = Linked(text, i, Links(text, iv)[i - 1])
  <1> DEFINE f == Links(text, iv)
             n == Count(text)
  <1>1. Follows(text, iv, n, f)
    BY LinksExist DEF Links
  <1> HIDE DEF f
  <1>2. f[0] = iv
    BY <1>1 DEF Follows
  <1>3. ASSUME NEW i \in 1 .. n PROVE f[i] = Linked(text, i, f[i - 1])
    <2>1. i \in 0 .. n /\ i # 0
      OBVIOUS
    <2>2. QED
      BY <1>1, <2>1 DEF Follows
  <1>4. QED
    BY <1>2, <1>3 DEF f

\* Whatever is linked as the text's blocks are is the text's chain.
LEMMA LinksUnique ==
  ASSUME NEW text, NEW iv, Count(text) \in Nat, NEW g,
         Block(g[0]) = Block(iv),
         \A i \in 1 .. Count(text) : g[i] = Linked(text, i, g[i - 1])
  PROVE  \A i \in 1 .. Count(text) : g[i] = Links(text, iv)[i]
  <1> DEFINE f == Links(text, iv)
             n == Count(text)
             Wrong == {i \in 1 .. n : g[i] # f[i]}
  <1>1. f[0] = iv /\ \A i \in 1 .. n : f[i] = Linked(text, i, f[i - 1])
    BY LinksFacts
  <1> HIDE DEF f
  <1>2. Wrong = {}
    <2>1. SUFFICES ASSUME Wrong # {} PROVE FALSE
      OBVIOUS
    <2>2. PICK i \in Wrong : \A j \in Wrong : i <= j
      <3>1. Wrong \in SUBSET Nat
        OBVIOUS
      <3> HIDE DEF Wrong
      <3>2. QED
        BY <2>1, <3>1, Least
    <2>3. i \in 1 .. n /\ g[i] # f[i]
      OBVIOUS
    <2>4. CASE i = 1
      <3>1. g[1] = Linked(text, 1, g[0]) /\ f[1] = Linked(text, 1, f[0])
        BY <1>1, <2>3, <2>4
      <3>2. Linked(text, 1, g[0]) = Linked(text, 1, Block(g[0]))
            /\ Linked(text, 1, iv) = Linked(text, 1, Block(iv))
        BY XorOfBlock DEF Linked
      <3>3. QED
        BY <1>1, <2>3, <2>4, <3>1, <3>2
    <2>5. CASE i # 1
      <3>1. i - 1 \in 1 .. n /\ ~(i <= i - 1)
        BY <2>3, <2>5
      <3>2. g[i - 1] = f[i - 1]
        BY <2>2, <3>1
      <3>3. QED
        BY <1>1, <2>3, <3>2
    <2>6. QED
      BY <2>4, <2>5
  <1>3. QED
    BY <1>2 DEF f

LEMMA ChainFacts ==
  ASSUME NEW text, Count(text) \in Nat, NEW iv
  PROVE  /\ Chain(text, iv) = Joined(Links(text, iv), Count(text))
         /\ IsWhole(Chain(text, iv)) /\ Count(Chain(text, iv)) = Count(text)
         /\ Len(Chain(text, iv)) = Count(text) * BlockBytes
         /\ \A i \in 1 .. Count(text) :
              BlockAt(Chain(text, iv), i) = Block(Links(text, iv)[i])
  <1>1. Chain(text, iv) = Joined(Links(text, iv), Count(text))
    BY DEF Chain, Links, Follows, Linked, Count
  <1>2. /\ IsText(Chain(text, iv)) /\ Len(Chain(text, iv)) = Count(text) * BlockBytes
        /\ \A i \in 1 .. Count(text) :
             BlockAt(Chain(text, iv), i) = Block(Links(text, iv)[i])
    BY <1>1, JoinedFacts
  <1>3. IsWhole(Chain(text, iv)) /\ Count(Chain(text, iv)) = Count(text)
    BY <1>2, CountFrom
  <1>4. QED
    BY <1>1, <1>2, <1>3

LEMMA BlocksOfConcat ==
  ASSUME NEW s, IsWhole(s), NEW t, IsWhole(t)
  PROVE  /\ IsWhole(s \o t) /\ Count(s \o t) = Count(s) + Count(t)
         /\ Len(s \o t) = (Count(s) + Count(t)) * BlockBytes
         /\ \A i \in 1 .. Count(s) : BlockAt(s \o t, i) = BlockAt(s, i)
         /\ \A i \in 1 .. Count(t) : BlockAt(s \o t, Count(s) + i) = BlockAt(t, i)
  <1> DEFINE m == Count(s)
             n == Count(t)
             u == s \o t
  <1>1. /\ IsText(s) /\ IsText(t) /\ m \in Nat /\ n \in Nat /\ m + n \in Nat
        /\ Len(s) = m * BlockBytes /\ Len(t) = n * BlockBytes
    BY WholeCount DEF IsWhole
  <1>2. /\ IsText(u) /\ Len(u) = Len(s) + Len(t)
        /\ \A i \in 1 .. Len(s) : u[i] = s[i]
        /\ \A i \in 1 .. Len(t) : u[Len(s) + i] = t[i]
    <2>1. IsText(s) /\ IsText(t)
      BY DEF IsWhole
    <2>2. QED
      BY <2>1, TextConcat
  <1> HIDE DEF m, n, u
  <1>3. Len(u) = (m + n) * BlockBytes
    BY <1>1, <1>2, BlockAssumption
  <1>4. IsWhole(u) /\ Count(u) = m + n
    BY <1>1, <1>2, <1>3, CountFrom
  <1>5. m * BlockBytes \in Nat /\ n * BlockBytes \in Nat /\ (m + n) * BlockBytes \in Nat
        /\ (m + n) * BlockBytes <= Len(u) /\ m * BlockBytes <= Len(s) /\ n * BlockBytes <= Len(t)
    BY <1>1, <1>3, BlockAssumption
  <1>6. ASSUME NEW i \in 1 .. m PROVE BlockAt(u, i) = BlockAt(s, i)
    <2>1. i \in 1 .. m + n
      BY <1>1
    <2>2. /\ BlockAt(u, i) = Block(BlockAt(u, i)) /\ BlockAt(s, i) = Block(BlockAt(s, i))
          /\ \A j \in 1 .. BlockBytes : /\ BlockAt(u, i)[j] = u[(i - 1) * BlockBytes + j]
                                        /\ BlockAt(s, i)[j] = s[(i - 1) * BlockBytes + j]
      BY <1>1, <1>2, <1>5, <2>1, BlockAtFacts, ZenonT(60)
    <2>3. ASSUME NEW j \in 1 .. BlockBytes PROVE BlockAt(u, i)[j] = BlockAt(s, i)[j]
      <3>1. (i - 1) * BlockBytes + j \in 1 .. Len(s)
        BY <1>1, <1>5, BlockPlace, BlockAssumption
      <3>2. QED
        BY <1>2, <2>2, <3>1
    <2>4. QED
      BY <2>2, <2>3 DEF Block
  <1>7. ASSUME NEW i \in 1 .. n PROVE BlockAt(u, m + i) = BlockAt(t, i)
    <2>1. m + i \in 1 .. m + n
      BY <1>1
    <2>2. /\ BlockAt(u, m + i) = Block(BlockAt(u, m + i))
          /\ \A j \in 1 .. BlockBytes :
               BlockAt(u, m + i)[j] = u[((m + i) - 1) * BlockBytes + j]
      BY <1>1, <1>2, <1>5, <2>1, BlockAtFacts, ZenonT(60)
    <2>3. /\ BlockAt(t, i) = Block(BlockAt(t, i))
          /\ \A j \in 1 .. BlockBytes : BlockAt(t, i)[j] = t[(i - 1) * BlockBytes + j]
      BY <1>1, <1>5, BlockAtFacts
    <2>4. ASSUME NEW j \in 1 .. BlockBytes PROVE BlockAt(u, m + i)[j] = BlockAt(t, i)[j]
      <3>1. (i - 1) * BlockBytes + j \in 1 .. Len(t)
        BY <1>1, <1>5, BlockPlace, BlockAssumption
      <3>2. ((m + i) - 1) * BlockBytes + j = Len(s) + ((i - 1) * BlockBytes + j)
        BY <1>1, BlockAssumption
      <3>3. QED
        BY <1>2, <2>2, <2>3, <3>1, <3>2
    <2>5. QED
      BY <2>2, <2>3, <2>4 DEF Block
  <1>8. QED
    BY <1>3, <1>4, <1>6, <1>7 DEF m, n, u

\* The block that the next one is chained to.
ChainEnd(s, iv) == IF s = <<>> THEN iv ELSE LastBlockOf(Chain(s, iv))

LEMMA LastBlock ==
  ASSUME NEW s, IsWhole(s), s # <<>>
  PROVE  /\ Count(s) \in Nat \ {0} /\ LastBlockOf(s) = BlockAt(s, Count(s))
         /\ LastBlockOf(s) = Slice(s, Len(s) - BlockBytes, Len(s))
         /\ IsText(LastBlockOf(s)) /\ Len(LastBlockOf(s)) = BlockBytes
  <1> DEFINE n == Count(s)
  <1>1. IsText(s) /\ n \in Nat /\ Len(s) = n * BlockBytes
    BY WholeCount DEF IsWhole
  <1> HIDE DEF n
  <1>2. n # 0
    BY <1>1, EmptyText, BlockAssumption
  <1>3. n \in 1 .. n /\ n * BlockBytes \in Nat /\ n * BlockBytes <= Len(s)
        /\ n * BlockBytes = (n - 1) * BlockBytes + BlockBytes /\ (n - 1) * BlockBytes \in Nat
    BY <1>1, <1>2, BlockPlace
  <1>4. Len(s) - BlockBytes = (n - 1) * BlockBytes
    BY <1>1, <1>3, BlockAssumption
  <1>5. /\ BlockAt(s, n) = Slice(s, (n - 1) * BlockBytes, n * BlockBytes)
        /\ IsText(BlockAt(s, n)) /\ Len(BlockAt(s, n)) = BlockBytes
    BY <1>1, <1>3, BlockAtFacts
  <1>6. LastBlockOf(s) = Slice(s, Len(s) - BlockBytes, Len(s))
    BY TakeSlice DEF LastBlockOf
  <1>7. QED
    BY <1>1, <1>2, <1>4, <1>5, <1>6 DEF n

LEMMA ChainEndFacts ==
  ASSUME NEW s, IsWhole(s), NEW iv
  PROVE  /\ Block(ChainEnd(s, iv)) = Block(Links(s, iv)[Count(s)])
         /\ iv = Block(iv) => ChainEnd(s, iv) = Block(ChainEnd(s, iv))
         /\ Chain(s, iv) = <<>> <=> s = <<>>
  <1> DEFINE c == Chain(s, iv)
             n == Count(s)
  <1>1. IsText(s) /\ n \in Nat /\ Len(s) = n * BlockBytes
    BY WholeCount DEF IsWhole
  <1>2. /\ IsWhole(c) /\ Count(c) = n /\ Len(c) = n * BlockBytes
        /\ \A i \in 1 .. n : BlockAt(c, i) = Block(Links(s, iv)[i])
    BY <1>1, ChainFacts
  <1> HIDE DEF c
  <1>3. c = <<>> <=> s = <<>>
    BY <1>1, <1>2, EmptyText DEF IsWhole
  <1>4. CASE s = <<>>
    <2>1. Len(s) = 0
      BY <1>4, EmptyText
    <2>2. n = 0
      <3> HIDE DEF n
      <3>1. QED
        BY <1>1, <2>1, BlockAssumption
    <2>3. Links(s, iv)[0] = iv
      BY <1>1, LinksFacts
    <2>4. QED
      BY <1>3, <1>4, <2>2, <2>3 DEF ChainEnd, c
  <1>5. CASE s # <<>>
    <2>1. n \in Nat \ {0} /\ LastBlockOf(c) = BlockAt(c, n)
      BY <1>2, <1>3, <1>5, LastBlock
    <2>2. LastBlockOf(c) = Block(Links(s, iv)[n])
      <3> HIDE DEF n
      <3>1. n \in 1 .. n
        BY <2>1
      <3>2. QED
        BY <1>2, <2>1, <3>1
    <2>3. QED
      BY <1>3, <1>5, <2>2, BlockTwice DEF ChainEnd, c
  <1>6. QED
    BY <1>4, <1>5

\* Encryption can stop after any block and go on from the last one.
LEMMA ChainJoin ==
  ASSUME NEW s, IsWhole(s), NEW t, IsWhole(t), NEW iv
  PROVE  Chain(s \o t, iv) = Chain(s, iv) \o Chain(t, ChainEnd(s, iv))
  <1> DEFINE u == s \o t
             e == ChainEnd(s, iv)
             m == Count(s)
             n == Count(t)
             x == Chain(s, iv)
             y == Chain(t, e)
             f == Links(u, iv)
  <1>1. /\ IsWhole(u) /\ Count(u) = m + n /\ m \in Nat /\ n \in Nat /\ m + n \in Nat
        /\ \A i \in 1 .. m : BlockAt(u, i) = BlockAt(s, i)
        /\ \A i \in 1 .. n : BlockAt(u, m + i) = BlockAt(t, i)
    <2>1. m \in Nat /\ n \in Nat
      BY WholeCount
    <2>2. /\ IsWhole(u) /\ Count(u) = m + n
          /\ \A i \in 1 .. m : BlockAt(u, i) = BlockAt(s, i)
          /\ \A i \in 1 .. n : BlockAt(u, m + i) = BlockAt(t, i)
      BY BlocksOfConcat
    <2> HIDE DEF u, m, n
    <2>3. QED
      BY <2>1, <2>2
  <1>2. /\ IsWhole(x) /\ Count(x) = m /\ IsWhole(y) /\ Count(y) = n
        /\ \A i \in 1 .. m : BlockAt(x, i) = Block(Links(s, iv)[i])
        /\ \A i \in 1 .. n : BlockAt(y, i) = Block(Links(t, e)[i])
    BY <1>1, ChainFacts
  <1>3. /\ IsText(Chain(u, iv)) /\ Len(Chain(u, iv)) = (m + n) * BlockBytes
        /\ \A i \in 1 .. m + n : BlockAt(Chain(u, iv), i) = Block(f[i])
    BY <1>1, ChainFacts DEF IsWhole
  <1>4. /\ IsText(x \o y) /\ Len(x \o y) = (m + n) * BlockBytes
        /\ \A i \in 1 .. m : BlockAt(x \o y, i) = BlockAt(x, i)
        /\ \A i \in 1 .. n : BlockAt(x \o y, m + i) = BlockAt(y, i)
    <2> HIDE DEF x, y, m, n
    <2>1. QED
      BY <1>2, BlocksOfConcat DEF IsWhole
  <1>5. f[0] = iv /\ \A i \in 1 .. m + n : f[i] = Linked(u, i, f[i - 1])
    BY <1>1, LinksFacts
  <1>6. Block(e) = Block(Links(s, iv)[m])
    BY ChainEndFacts
  <1> HIDE DEF f, u, e, x, y
  <1>7. \A i \in 1 .. m : f[i] = Links(s, iv)[i]
    <2>1. \A i \in 1 .. m : f[i] = Linked(s, i, f[i - 1])
      BY <1>1, <1>5 DEF Linked
    <2>2. QED
      BY <1>1, <1>5, <2>1, LinksUnique
  <1>8. f[m] = Links(s, iv)[m]
    <2>1. Links(s, iv)[0] = iv
      BY <1>1, LinksFacts
    <2> HIDE DEF m
    <2>2. QED
      BY <1>1, <1>5, <1>7, <2>1
  <1>9. \A i \in 1 .. n : f[m + i] = Links(t, e)[i]
    <2> DEFINE g == [i \in 0 .. n |-> f[m + i]]
    <2>1. g[0] = f[m]
      BY <1>1
    <2>2. ASSUME NEW i \in 1 .. n PROVE g[i] = Linked(t, i, g[i - 1])
      <3>1. i - 1 \in 0 .. n /\ i \in 0 .. n /\ m + i \in 1 .. m + n /\ m + (i - 1) = (m + i) - 1
        BY <1>1
      <3>2. g[i] = f[m + i] /\ g[i - 1] = f[(m + i) - 1]
        BY <3>1
      <3>3. f[m + i] = Linked(t, i, f[(m + i) - 1])
        BY <1>1, <1>5, <3>1 DEF Linked
      <3>4. QED
        BY <3>2, <3>3
    <2>3. \A i \in 1 .. n : g[i] = f[m + i]
      OBVIOUS
    <2> HIDE DEF g
    <2>4. \A i \in 1 .. n : g[i] = Links(t, e)[i]
      BY <1>1, <1>6, <1>8, <2>1, <2>2, LinksUnique
    <2>5. QED
      BY <2>3, <2>4
  <1>10. ASSUME NEW i \in 1 .. m + n PROVE BlockAt(Chain(u, iv), i) = BlockAt(x \o y, i)
    <2> HIDE DEF m, n
    <2>1. CASE i <= m
      <3>1. i \in 1 .. m
        BY <1>1, <2>1
      <3>2. QED
        BY <1>2, <1>3, <1>4, <1>7, <3>1
    <2>2. CASE ~(i <= m)
      <3>1. i - m \in 1 .. n /\ m + (i - m) = i
        BY <1>1, <2>2
      <3>2. /\ BlockAt(x \o y, m + (i - m)) = BlockAt(y, i - m)
            /\ BlockAt(y, i - m) = Block(Links(t, e)[i - m])
            /\ f[m + (i - m)] = Links(t, e)[i - m]
        BY <1>2, <1>4, <1>9, <3>1
      <3>3. QED
        BY <1>3, <3>1, <3>2
    <2>3. QED
      BY <2>1, <2>2
  <1>11. Chain(u, iv) = x \o y
    <2> HIDE DEF m, n
    <2>1. QED
      BY <1>1, <1>3, <1>4, <1>10, SameBlocks
  <1>12. QED
    BY <1>11 DEF u, x, y, e

LEMMA ChainEndJoin ==
  ASSUME NEW s, IsWhole(s), NEW t, IsWhole(t), NEW iv
  PROVE  ChainEnd(s \o t, iv) = ChainEnd(t, ChainEnd(s, iv))
  <1> DEFINE e == ChainEnd(s, iv)
  <1>1. IsText(s) /\ IsText(t) /\ IsWhole(s \o t)
    BY BlocksOfConcat DEF IsWhole
  <1>2. CASE t = <<>>
    BY <1>1, <1>2, ConcatEmpty DEF ChainEnd
  <1>3. CASE t # <<>>
    <2> DEFINE x == Chain(s, iv)
               y == Chain(t, e)
    <2>1. Chain(s \o t, iv) = x \o y
      BY ChainJoin
    <2>2. IsWhole(x) /\ IsWhole(y) /\ y # <<>>
      <3>1. Count(s) \in Nat /\ Count(t) \in Nat
        BY WholeCount
      <3>2. QED
        BY <1>3, <3>1, ChainFacts, ChainEndFacts
    <2>3. s \o t # <<>>
      <3>1. Len(t) # 0 /\ Len(s) \in Nat /\ Len(t) \in Nat /\ Len(s \o t) = Len(s) + Len(t)
        BY <1>1, <1>3, EmptyText, TextFacts, TextConcat
      <3>2. QED
        BY <3>1, EmptyText
    <2> HIDE DEF x, y
    <2>4. LastBlockOf(x \o y) = LastBlockOf(y)
      <3>1. /\ Count(y) \in Nat \ {0} /\ LastBlockOf(y) = BlockAt(y, Count(y))
            /\ Count(x) \in Nat
        BY <2>2, LastBlock, WholeCount
      <3>2. /\ IsWhole(x \o y) /\ Count(x \o y) = Count(x) + Count(y)
            /\ \A i \in 1 .. Count(y) : BlockAt(x \o y, Count(x) + i) = BlockAt(y, i)
        BY <2>2, BlocksOfConcat
      <3>3. x \o y # <<>>
        <4>1. x \o y = <<>> => Count(x \o y) = 0
          <5>1. Len(<<>>) = 0 * BlockBytes /\ 0 \in Nat
            BY EmptyText, BlockAssumption
          <5>2. QED
            BY <5>1, EmptyText, CountFrom
        <4>2. QED
          BY <3>1, <3>2, <4>1
      <3>4. LastBlockOf(x \o y) = BlockAt(x \o y, Count(x \o y))
        BY <3>2, <3>3, LastBlock
      <3>5. Count(y) \in 1 .. Count(y)
        BY <3>1
      <3>6. QED
        BY <3>1, <3>2, <3>4, <3>5
    <2>5. QED
      BY <1>3, <2>1, <2>3, <2>4 DEF ChainEnd, y
  <1>4. QED
    BY <1>2, <1>3

-----------------------------------------------------------------------------
(* Bytes and their values *)

IsNumber(t) == \E n \in Nat \ {0} : t = <<"v", n>>

\* A byte of a file, and one that decryption may make.
FileByte(byte) == IsFiniteSet(byte) /\ \A t \in byte : IsNumber(t) \/ t[1] = "E"
IsByte(byte)   == IsFiniteSet(byte) /\ \A t \in byte : IsNumber(t) \/ t[1] \in {"E", "D"}

LEMMA NumberFacts ==
  ASSUME NEW n, NEW t, t = <<"v", n>>
  PROVE  t[1] = "v" /\ t[2] = n
  OBVIOUS

LEMMA PlainFacts ==
  ASSUME NEW n \in Nat
  PROVE  FileByte(Plain(n)) /\ Value(Plain(n)) = n
  <1>1. CASE n = 0
    BY <1>1, FS_EmptySet DEF Plain, FileByte, Value
  <1>2. CASE n # 0
    <2> DEFINE t == <<"v", n>>
    <2>1. t[1] = "v" /\ t[2] = n /\ IsNumber(t)
      BY <1>2 DEF IsNumber
    <2>2. Plain(n) = {t}
      BY <1>2 DEF Plain
    <2> HIDE DEF t
    <2>3. IsFiniteSet({t}) /\ Cardinality({t}) = 1
      BY FS_Singleton
    <2>4. (CHOOSE x \in {t} : TRUE) = t
      OBVIOUS
    <2>5. Value({t}) = n
      BY <2>1, <2>3, <2>4 DEF Value
    <2>6. FileByte({t})
      BY <2>1, <2>3 DEF FileByte
    <2>7. QED
      BY <2>2, <2>5, <2>6
  <1>3. QED
    BY <1>1, <1>2

\* Of the bytes decryption makes, only numbers have a value.
LEMMA ValueOfByte ==
  ASSUME NEW byte, IsByte(byte)
  PROVE  /\ Value(byte) \in Int
         /\ Value(byte) \in Nat => byte = Plain(Value(byte))
  <1>1. CASE byte = {}
    BY <1>1 DEF Value, Plain
  <1>2. CASE byte # {}
    <2> DEFINE t == CHOOSE x \in byte : TRUE
    <2>1. t \in byte
      BY <1>2
    <2>2. Value(byte) = IF Cardinality(byte) = 1 /\ t[1] = "v" THEN t[2] ELSE NoValue
      BY <1>2 DEF Value
    <2> HIDE DEF t
    <2>3. CASE Cardinality(byte) = 1 /\ t[1] = "v"
      <3>1. byte = {t}
        <4>1. PICK x : byte = {x}
          BY <2>3, FS_Singleton DEF IsByte
        <4>2. QED
          BY <2>1, <4>1
      <3>2. PICK n \in Nat \ {0} : t = <<"v", n>>
        <4>1. IsNumber(t) \/ t[1] \in {"E", "D"}
          BY <2>1 DEF IsByte
        <4>2. IsNumber(t)
          BY <2>3, <4>1
        <4>3. QED
          BY <4>2 DEF IsNumber
      <3>3. Value(byte) = n
        BY <2>2, <2>3, <3>2
      <3>4. QED
        BY <3>1, <3>2, <3>3 DEF Plain
    <2>4. CASE ~(Cardinality(byte) = 1 /\ t[1] = "v")
      BY <2>2, <2>4 DEF NoValue
    <2>5. QED
      BY <2>3, <2>4
  <1>3. QED
    BY <1>1, <1>2

LEMMA FileByteIsByte == ASSUME NEW byte, FileByte(byte) PROVE IsByte(byte)
  BY DEF FileByte, IsByte

LEMMA XorOfBytes ==
  ASSUME NEW a, NEW b
  PROVE  /\ IsByte(a) /\ IsByte(b) => IsByte((a \ b) \cup (b \ a))
         /\ FileByte(a) /\ FileByte(b) => FileByte((a \ b) \cup (b \ a))
  <1>1. ASSUME IsFiniteSet(a), IsFiniteSet(b) PROVE IsFiniteSet((a \ b) \cup (b \ a))
    <2>1. IsFiniteSet(a \ b) /\ IsFiniteSet(b \ a)
      BY <1>1, FS_Difference
    <2>2. QED
      BY <2>1, FS_Union
  <1>2. QED
    BY <1>1 DEF IsByte, FileByte

\* Byte by byte.
FileBytes(s) == \A i \in 1 .. Len(s) : FileByte(s[i])
AllBytes(s)  == \A i \in 1 .. Len(s) : IsByte(s[i])

LEMMA NumbersFacts ==
  ASSUME NEW s \in Seq(Int)
  PROVE  /\ IsText(Bytes(s)) /\ Len(Bytes(s)) = Len(s)
         /\ \A i \in 1 .. Len(s) : Bytes(s)[i] = Plain(s[i])
         /\ s \in Seq(Nat) => FileBytes(Bytes(s))
  <1> DEFINE b == Bytes(s)
  <1>1. Len(s) \in Nat /\ DOMAIN s = 1 .. Len(s)
    BY LenProperties
  <1>2. b = [i \in 1 .. Len(s) |-> Plain(s[i])]
    BY <1>1 DEF Bytes
  <1> HIDE DEF b
  <1>3. \A i \in 1 .. Len(s) : b[i] = Plain(s[i])
    BY <1>2
  <1>4. b = [i \in 1 .. Len(s) |-> b[i]]
    BY <1>2
  <1>5. IsText(b) /\ Len(b) = Len(s)
    BY <1>1, <1>4, TextFrom
  <1>6. ASSUME s \in Seq(Nat) PROVE FileBytes(b)
    <2>1. \A i \in 1 .. Len(s) : s[i] \in Nat
      BY <1>6, ElementOfSeq
    <2>2. QED
      BY <1>3, <1>5, <2>1, PlainFacts DEF FileBytes
  <1>7. QED
    BY <1>3, <1>5, <1>6 DEF b

LEMMA ValuesFacts ==
  ASSUME NEW s, IsText(s), AllBytes(s)
  PROVE  /\ Values(s) \in Seq(Int) /\ Len(Values(s)) = Len(s)
         /\ \A i \in 1 .. Len(s) : Values(s)[i] = Value(s[i])
  <1>1. Len(s) \in Nat /\ DOMAIN s = 1 .. Len(s)
    BY TextFacts
  <1>2. \A i \in 1 .. Len(s) : Value(s[i]) \in Int
    BY ValueOfByte DEF AllBytes
  <1>3. Values(s) = [i \in 1 .. Len(s) |-> Value(s[i])]
    BY <1>1 DEF Values
  <1>4. QED
    BY <1>1, <1>2, <1>3

LEMMA PadByteType ==
  ASSUME NEW i, NEW t \in Nat, t < BlockBytes, NEW padding PROVE PadByte(i, t, padding) \in Nat
  BY BlockAssumption, MarkerAssumption DEF PadByte

LEMMA PaddedFacts ==
  ASSUME NEW tail, IsText(tail), AllBytes(tail), Len(tail) < BlockBytes,
         NEW padding \in Paddings
  PROVE  /\ IsText(Padded(tail, padding)) /\ Len(Padded(tail, padding)) = BlockBytes
         /\ \A i \in 1 .. Len(tail) : Padded(tail, padding)[i] = tail[i]
         /\ \A i \in Len(tail) + 1 .. BlockBytes :
              Padded(tail, padding)[i] = Plain(PadByte(i, Len(tail), padding))
  <1> DEFINE t == Len(tail)
             v == ApplyBlock(Values(tail), padding)
             b == Bytes(v)
             p == Drop(b, t)
  <1>1. t \in Nat /\ t <= BlockBytes /\ BlockBytes \in Nat /\ t < BlockBytes
    BY TextFacts, BlockAssumption
  <1>2. Values(tail) \in Seq(Int) /\ Len(Values(tail)) = t
    BY ValuesFacts
  <1>3. /\ v \in Seq(Int) /\ Len(v) = BlockBytes
        /\ \A i \in 1 .. BlockBytes :
             v[i] = IF i <= t THEN Values(tail)[i] ELSE PadByte(i, t, padding)
    <2>1. Len(Values(tail)) < BlockBytes
      BY <1>1, <1>2
    <2>2. QED
      BY <1>2, <2>1, ApplyFacts
  <1> HIDE DEF v
  <1>4. /\ IsText(b) /\ Len(b) = BlockBytes
        /\ \A i \in 1 .. BlockBytes : b[i] = Plain(v[i])
    BY <1>3, NumbersFacts
  <1> HIDE DEF b
  <1>5. p = Slice(b, t, BlockBytes)
    BY <1>4, TakeSlice
  <1>6. /\ IsText(p) /\ Len(p) = BlockBytes - t
        /\ \A i \in 1 .. BlockBytes - t : p[i] = b[t + i]
    <2> HIDE DEF p, t
    <2>1. t <= BlockBytes /\ BlockBytes <= Len(b)
      BY <1>1, <1>4
    <2>2. IsText(p) /\ Len(p) = BlockBytes - t
      BY <1>1, <1>4, <1>5, <2>1, PartFacts
    <2>3. \A i \in 1 .. BlockBytes - t : p[i] = b[t + i]
      BY <1>1, <1>4, <1>5, <2>1, PartFacts
    <2>4. QED
      BY <2>2, <2>3
  <1>7. Padded(tail, padding) = tail \o p
    BY DEF Padded, p, b, v, t
  <1> HIDE DEF p
  <1>8. /\ IsText(tail \o p) /\ Len(tail \o p) = t + (BlockBytes - t)
        /\ \A i \in 1 .. t : (tail \o p)[i] = tail[i]
        /\ \A i \in 1 .. BlockBytes - t : (tail \o p)[t + i] = p[i]
    <2>1. IsText(p)
      BY <1>6
    <2>2. IsText(tail \o p) /\ Len(tail \o p) = t + Len(p)
      BY <2>1, TextConcat
    <2>3. \A i \in 1 .. t : (tail \o p)[i] = tail[i]
      BY <2>1, TextConcat
    <2>4. \A i \in 1 .. Len(p) : (tail \o p)[t + i] = p[i]
      BY <2>1, TextConcat
    <2>5. QED
      BY <1>6, <2>2, <2>3, <2>4
  <1>9. ASSUME NEW i \in t + 1 .. BlockBytes
        PROVE  (tail \o p)[i] = Plain(PadByte(i, t, padding))
    <2> HIDE DEF t
    <2>1. i - t \in 1 .. BlockBytes - t /\ t + (i - t) = i /\ i \in 1 .. BlockBytes /\ ~(i <= t)
      BY <1>1
    <2>2. (tail \o p)[i] = b[i]
      BY <1>6, <1>8, <2>1
    <2>3. QED
      BY <1>3, <1>4, <2>1, <2>2
  <1>10. t + (BlockBytes - t) = BlockBytes
    BY <1>1
  <1>11. QED
    BY <1>7, <1>8, <1>9, <1>10

-----------------------------------------------------------------------------
(* Encryption and decryption of a block *)

FileBlock(b) == b = Block(b) /\ \A j \in 1 .. BlockBytes : FileByte(b[j])

\* The encryption of a block of a file, and a block that is known to decryption: that, or the
\* encryption of nothing.
Encrypted(b)  == \E x : FileBlock(x) /\ b = Named("E", x)
KnownBlock(b) == Encrypted(b) \/ (FileBlock(b) /\ \A y : b # Named("E", y))

LEMMA NamedFacts ==
  ASSUME NEW how, NEW x
  PROVE  /\ Named(how, x) = Block(Named(how, x))
         /\ \A j \in 1 .. BlockBytes : Named(how, x)[j] = {<<how, x, j>>}
         /\ 1 \in 1 .. BlockBytes
  BY BlockAssumption DEF Named, Block

LEMMA TermFacts ==
  ASSUME NEW how, NEW x, NEW j
  PROVE  /\ <<how, x, j>>[1] = how /\ <<how, x, j>>[2] = x
         /\ (CHOOSE t \in {<<how, x, j>>} : TRUE) = <<how, x, j>>
  OBVIOUS

LEMMA NamedInjective ==
  ASSUME NEW how, NEW x, NEW y, Named(how, x) = Named(how, y) PROVE x = y
  <1>1. Named(how, x)[1] = {<<how, x, 1>>} /\ Named(how, y)[1] = {<<how, y, 1>>}
    BY NamedFacts
  <1>2. <<how, x, 1>> = <<how, y, 1>>
    BY <1>1
  <1>3. QED
    BY <1>2, TermFacts

LEMMA NamedBytes ==
  ASSUME NEW x
  PROVE  /\ FileBlock(Named("E", x))
         /\ \A j \in 1 .. BlockBytes : IsByte(Named("D", x)[j])
  <1>1. ASSUME NEW j \in 1 .. BlockBytes PROVE FileByte(Named("E", x)[j])
    <2>1. Named("E", x)[j] = {<<"E", x, j>>} /\ <<"E", x, j>>[1] = "E"
      BY NamedFacts, TermFacts
    <2>2. QED
      BY <2>1, FS_Singleton DEF FileByte
  <1>2. ASSUME NEW j \in 1 .. BlockBytes PROVE IsByte(Named("D", x)[j])
    <2>1. Named("D", x)[j] = {<<"D", x, j>>} /\ <<"D", x, j>>[1] = "D"
      BY NamedFacts, TermFacts
    <2>2. QED
      BY <2>1, FS_Singleton DEF IsByte
  <1>3. QED
    BY <1>1, <1>2, NamedFacts DEF FileBlock

\* What is the image of a block comes back as that block.
LEMMA CipherOfNamed ==
  ASSUME NEW how, NEW undoes, NEW x
  PROVE  Cipher(how, undoes, Named(undoes, x)) = x
  <1> DEFINE b == Named(undoes, x)
             t == <<undoes, x, 1>>
  <1>1. b[1] = {t} /\ t[1] = undoes /\ t[2] = x /\ (CHOOSE u \in {t} : TRUE) = t
    BY NamedFacts, TermFacts
  <1>2. b = Named(undoes, t[2])
    BY <1>1
  <1> HIDE DEF b, t
  <1>3. \E u \in b[1] : u[1] = undoes /\ b = Named(undoes, u[2])
    BY <1>1, <1>2
  <1>4. Cipher(how, undoes, b) = x
    BY <1>1, <1>3 DEF Cipher
  <1>5. QED
    BY <1>4 DEF b

LEMMA EncryptOfFileBlock == ASSUME NEW x, FileBlock(x) PROVE EncryptBlock(x) = Named("E", x)
  <1>1. ASSUME NEW t \in x[1] PROVE t[1] # "D"
    <2>1. FileByte(x[1])
      BY NamedFacts DEF FileBlock
    <2>2. IsNumber(t) \/ t[1] = "E"
      BY <2>1 DEF FileByte
    <2>3. IsNumber(t) => t[1] = "v"
      BY NumberFacts DEF IsNumber
    <2>4. QED
      BY <2>2, <2>3
  <1>2. QED
    BY <1>1 DEF EncryptBlock, Cipher

LEMMA DecryptOfKnown ==
  ASSUME NEW b, KnownBlock(b)
  PROVE  /\ FileBlock(b)
         /\ \/ FileBlock(DecryptBlock(b)) /\ b = Named("E", DecryptBlock(b))
            \/ DecryptBlock(b) = Named("D", b)
         /\ EncryptBlock(DecryptBlock(b)) = b
         /\ DecryptBlock(b) = Block(DecryptBlock(b))
         /\ \A j \in 1 .. BlockBytes : IsByte(DecryptBlock(b)[j])
  <1>1. CASE Encrypted(b)
    <2>1. PICK x : FileBlock(x) /\ b = Named("E", x)
      BY <1>1 DEF Encrypted
    <2>2. DecryptBlock(b) = x
      BY <2>1, CipherOfNamed DEF DecryptBlock
    <2>3. EncryptBlock(x) = b
      BY <2>1, EncryptOfFileBlock
    <2>4. \A j \in 1 .. BlockBytes : IsByte(x[j])
      BY <2>1, FileByteIsByte DEF FileBlock
    <2>5. FileBlock(b) /\ x = Block(x)
      BY <2>1, NamedBytes DEF FileBlock
    <2>6. QED
      BY <2>1, <2>2, <2>3, <2>4, <2>5
  <1>2. CASE FileBlock(b) /\ \A y : b # Named("E", y)
    <2>1. DecryptBlock(b) = Named("D", b)
      BY <1>2 DEF DecryptBlock, Cipher
    <2>2. EncryptBlock(Named("D", b)) = b
      BY CipherOfNamed DEF EncryptBlock
    <2>3. QED
      BY <1>2, <2>1, <2>2, NamedFacts, NamedBytes
  <1>3. QED
    BY <1>1, <1>2 DEF KnownBlock

LEMMA XorOfBlocks ==
  ASSUME NEW x, NEW y
  PROVE  /\ FileBlock(x) /\ FileBlock(y) => FileBlock(XorBlock(x, y))
         /\ (\A j \in 1 .. BlockBytes : IsByte(x[j]) /\ IsByte(y[j]))
              => \A j \in 1 .. BlockBytes : IsByte(XorBlock(x, y)[j])
  <1> DEFINE w == XorBlock(x, y)
  <1>1. \A j \in 1 .. BlockBytes : w[j] = (x[j] \ y[j]) \cup (y[j] \ x[j])
    BY DEF XorBlock
  <1>2. Block(w) = w
    BY XorTwice
  <1> HIDE DEF w
  <1>3. ASSUME FileBlock(x), FileBlock(y) PROVE FileBlock(w)
    BY <1>1, <1>2, <1>3, XorOfBytes DEF FileBlock
  <1>4. ASSUME \A j \in 1 .. BlockBytes : IsByte(x[j]) /\ IsByte(y[j])
        PROVE  \A j \in 1 .. BlockBytes : IsByte(w[j])
    BY <1>1, <1>4, XorOfBytes
  <1>5. QED
    BY <1>3, <1>4 DEF w

-----------------------------------------------------------------------------
(* The files that are decrypted *)

KnownBlocks(s) == \A i \in 1 .. Count(s) : KnownBlock(BlockAt(s, i))

\* The encryption of numbers.
LEMMA ChainOfNumbers ==
  ASSUME NEW s, IsWhole(s), FileBytes(s), NEW iv, FileBlock(iv)
  PROVE  \A i \in 1 .. Count(s) : Encrypted(BlockAt(Chain(s, iv), i))
  <1> DEFINE n == Count(s)
             f == Links(s, iv)
             Wrong == {i \in 1 .. n : ~Encrypted(f[i])}
  <1>1. n \in Nat /\ IsText(s) /\ Len(s) = n * BlockBytes
    BY WholeCount DEF IsWhole
  <1>2. f[0] = iv /\ \A i \in 1 .. n : f[i] = Linked(s, i, f[i - 1])
    BY <1>1, LinksFacts
  <1> HIDE DEF f, n
  <1>3. ASSUME NEW i \in 1 .. n PROVE FileBlock(BlockAt(s, i))
    <2>1. n * BlockBytes <= Len(s)
      BY <1>1, BlockPlace
    <2>2. /\ BlockAt(s, i) = Block(BlockAt(s, i))
          /\ \A j \in 1 .. BlockBytes : BlockAt(s, i)[j] = s[(i - 1) * BlockBytes + j]
      BY <1>1, <2>1, BlockAtFacts
    <2>3. ASSUME NEW j \in 1 .. BlockBytes PROVE FileByte(BlockAt(s, i)[j])
      <3>1. (i - 1) * BlockBytes + j \in 1 .. Len(s)
        BY <1>1, <2>1, BlockPlace, BlockAssumption
      <3>2. QED
        BY <2>2, <3>1 DEF FileBytes
    <2>4. QED
      BY <2>2, <2>3 DEF FileBlock
  <1>4. ASSUME NEW i \in 1 .. n, FileBlock(f[i - 1]) PROVE Encrypted(f[i])
    <2> DEFINE w == XorBlock(BlockAt(s, i), f[i - 1])
    <2>1. FileBlock(w)
      BY <1>3, <1>4, XorOfBlocks
    <2>2. f[i] = EncryptBlock(w)
      BY <1>2 DEF Linked
    <2> HIDE DEF w
    <2>3. f[i] = Named("E", w)
      BY <2>1, <2>2, EncryptOfFileBlock
    <2>4. QED
      BY <2>1, <2>3 DEF Encrypted
  <1>5. Wrong = {}
    <2>1. SUFFICES ASSUME Wrong # {} PROVE FALSE
      OBVIOUS
    <2>2. PICK i \in Wrong : \A j \in Wrong : i <= j
      <3>1. Wrong \in SUBSET Nat
        OBVIOUS
      <3> HIDE DEF Wrong
      <3>2. QED
        BY <2>1, <3>1, Least
    <2>3. i \in 1 .. n /\ ~Encrypted(f[i])
      OBVIOUS
    <2>4. FileBlock(f[i - 1])
      <3>1. CASE i = 1
        BY <1>2, <3>1
      <3>2. CASE i # 1
        <4>1. i - 1 \in 1 .. n /\ ~(i <= i - 1)
          <5>1. i \in Nat /\ i >= 1 /\ i <= n
            BY <1>1, <2>3
          <5>2. QED
            BY <1>1, <3>2, <5>1
        <4>2. Encrypted(f[i - 1])
          BY <2>2, <4>1
        <4>3. QED
          BY <4>2, NamedBytes DEF Encrypted
      <3>3. QED
        BY <3>1, <3>2
    <2>5. QED
      BY <1>4, <2>3, <2>4
  <1>6. ASSUME NEW i \in 1 .. n PROVE Encrypted(BlockAt(Chain(s, iv), i))
    <2>1. BlockAt(Chain(s, iv), i) = Block(f[i])
      BY <1>1, ChainFacts DEF f, n
    <2>2. Encrypted(f[i])
      BY <1>5
    <2>3. Block(f[i]) = f[i]
      BY <2>2, NamedFacts DEF Encrypted
    <2>4. QED
      BY <2>1, <2>2, <2>3
  <1>7. QED
    BY <1>6 DEF n

\* The first part of a file, and a file with a byte replaced.
LEMMA BlocksOfPart ==
  ASSUME NEW s, IsText(s), NEW c \in 0 .. Len(s)
  PROVE  /\ IsText(Take(s, c)) /\ Len(Take(s, c)) = c
         /\ \A i \in 1 .. Count(Take(s, c)) :
              i \in 1 .. Count(s) /\ BlockAt(Take(s, c), i) = BlockAt(s, i)
  <1> DEFINE t == Take(s, c)
             n == Count(t)
  <1>1. c \in Nat /\ c <= Len(s) /\ Len(s) \in Nat /\ 0 <= c /\ c - 0 = c
    BY TextFacts
  <1>2. t = Slice(s, 0, c)
    BY TakeSlice
  <1>3. IsText(t) /\ Len(t) = c
    BY <1>1, <1>2, PartFacts
  <1>4. \A i \in 1 .. c : t[i] = s[0 + i]
    BY <1>1, <1>2, PartFacts
  <1>5. n \in Nat /\ n * BlockBytes \in Nat /\ n * BlockBytes <= c
    BY <1>1, <1>3, Quotient, BlockAssumption DEF Count
  <1>6. n <= Count(s)
    <2>1. /\ Count(s) \in Nat /\ Count(s) * BlockBytes <= Len(s)
          /\ Len(s) < Count(s) * BlockBytes + BlockBytes
      BY <1>1, Quotient, BlockAssumption DEF Count
    <2> HIDE DEF n
    <2>2. n * BlockBytes < (Count(s) + 1) * BlockBytes
      <3>1. /\ Count(s) * BlockBytes \in Nat
            /\ (Count(s) + 1) * BlockBytes = Count(s) * BlockBytes + BlockBytes
        BY <2>1, BlockAssumption
      <3>2. QED
        BY <1>1, <1>5, <2>1, <3>1, BlockAssumption
    <2>3. ASSUME n >= Count(s) + 1 PROVE FALSE
      <3>1. (n - (Count(s) + 1)) * BlockBytes \in Nat
        BY <1>5, <2>1, <2>3, BlockAssumption
      <3>2. n * BlockBytes
              = (Count(s) + 1) * BlockBytes + (n - (Count(s) + 1)) * BlockBytes
        BY <1>5, <2>1, BlockAssumption
      <3>3. (Count(s) + 1) * BlockBytes \in Nat
        BY <2>1, BlockAssumption
      <3>4. QED
        BY <1>5, <2>2, <3>1, <3>2, <3>3
    <2>4. QED
      BY <1>5, <2>1, <2>3
  <1> HIDE DEF t, n
  <1>7. ASSUME NEW i \in 1 .. n PROVE i \in 1 .. Count(s) /\ BlockAt(t, i) = BlockAt(s, i)
    <2>1. n * BlockBytes <= Len(t) /\ n * BlockBytes <= Len(s)
      BY <1>1, <1>3, <1>5
    <2>2. /\ BlockAt(t, i) = Block(BlockAt(t, i))
          /\ \A j \in 1 .. BlockBytes : BlockAt(t, i)[j] = t[(i - 1) * BlockBytes + j]
      BY <1>3, <1>5, <2>1, BlockAtFacts
    <2>3. /\ BlockAt(s, i) = Block(BlockAt(s, i))
          /\ \A j \in 1 .. BlockBytes : BlockAt(s, i)[j] = s[(i - 1) * BlockBytes + j]
      BY <1>5, <2>1, BlockAtFacts
    <2>4. ASSUME NEW j \in 1 .. BlockBytes PROVE BlockAt(t, i)[j] = BlockAt(s, i)[j]
      <3> DEFINE p == (i - 1) * BlockBytes + j
      <3>1. p \in 1 .. c
        BY <1>1, <1>5, BlockPlace, BlockAssumption
      <3> HIDE DEF p
      <3>2. 0 + p = p
        BY <1>1, <3>1
      <3>3. t[p] = s[p]
        BY <1>4, <3>1, <3>2
      <3>4. QED
        BY <2>2, <2>3, <3>3 DEF p
    <2>5. i \in 1 .. Count(s)
      <3>1. Count(s) \in Nat
        BY <1>1, Quotient, BlockAssumption DEF Count
      <3>2. QED
        BY <1>5, <1>6, <3>1
    <2>6. QED
      BY <2>2, <2>3, <2>4, <2>5 DEF Block
  <1>8. QED
    BY <1>3, <1>7 DEF t, n

LEMMA BlocksOfReplaced ==
  ASSUME NEW s, IsWhole(s), \A i \in 1 .. Count(s) : Encrypted(BlockAt(s, i)),
         NEW q \in DOMAIN s
  PROVE  IsText([s EXCEPT ![q] = Plain(1)]) /\ KnownBlocks([s EXCEPT ![q] = Plain(1)])
  <1> DEFINE t == [s EXCEPT ![q] = Plain(1)]
             n == Count(s)
  <1>1. IsText(s) /\ n \in Nat /\ Len(s) = n * BlockBytes /\ n * BlockBytes \in Nat
    BY WholeCount, BlockAssumption DEF IsWhole
  <1>2. Len(s) \in Nat /\ DOMAIN s = 1 .. Len(s)
    BY <1>1, TextFacts
  <1>3. \A i \in 1 .. Len(s) : t[i] = IF i = q THEN Plain(1) ELSE s[i]
    BY <1>2
  <1>4. IsText(t) /\ Len(t) = Len(s)
    <2>1. t = [i \in 1 .. Len(s) |-> t[i]]
      BY <1>2
    <2> HIDE DEF t
    <2>2. QED
      BY <1>2, <2>1, TextFrom
  <1> HIDE DEF t, n
  <1>5. Count(t) = n
    BY <1>1, <1>4, CountFrom
  <1>6. ASSUME NEW i \in 1 .. n PROVE KnownBlock(BlockAt(t, i))
    <2>1. n * BlockBytes <= Len(t) /\ n * BlockBytes <= Len(s)
      BY <1>1, <1>4
    <2>2. /\ BlockAt(t, i) = Block(BlockAt(t, i))
          /\ \A j \in 1 .. BlockBytes : BlockAt(t, i)[j] = t[(i - 1) * BlockBytes + j]
      BY <1>1, <1>4, <2>1, BlockAtFacts
    <2>3. /\ BlockAt(s, i) = Block(BlockAt(s, i))
          /\ \A j \in 1 .. BlockBytes : BlockAt(s, i)[j] = s[(i - 1) * BlockBytes + j]
      BY <1>1, <2>1, BlockAtFacts
    <2>4. \A j \in 1 .. BlockBytes : (i - 1) * BlockBytes + j \in 1 .. Len(s)
      BY <1>1, BlockPlace, BlockAssumption
    <2>5. Encrypted(BlockAt(s, i)) /\ FileBlock(BlockAt(s, i))
      BY NamedBytes DEF Encrypted, n
    <2>6. CASE \E j \in 1 .. BlockBytes : (i - 1) * BlockBytes + j = q
      <3>1. PICK k \in 1 .. BlockBytes : (i - 1) * BlockBytes + k = q
        BY <2>6
      <3>2. BlockAt(t, i)[k] = Plain(1)
        BY <1>3, <2>2, <2>4, <3>1
      <3>3. ASSUME NEW y PROVE BlockAt(t, i) # Named("E", y)
        <4>1. Named("E", y)[k] = {<<"E", y, k>>} /\ <<"E", y, k>>[1] = "E"
          BY NamedFacts, TermFacts
        <4>2. Plain(1) = {<<"v", 1>>} /\ <<"v", 1>>[1] = "v"
          BY NumberFacts DEF Plain
        <4>3. Plain(1) # {<<"E", y, k>>}
          BY <4>1, <4>2
        <4>4. QED
          BY <3>2, <4>1, <4>3
      <3>4. ASSUME NEW j \in 1 .. BlockBytes PROVE FileByte(BlockAt(t, i)[j])
        <4>1. BlockAt(t, i)[j] = Plain(1) \/ BlockAt(t, i)[j] = BlockAt(s, i)[j]
          BY <1>3, <2>2, <2>3, <2>4
        <4>2. FileByte(Plain(1)) /\ FileByte(BlockAt(s, i)[j])
          BY <2>5, PlainFacts DEF FileBlock
        <4>3. QED
          BY <4>1, <4>2
      <3>5. QED
        BY <2>2, <3>3, <3>4 DEF KnownBlock, FileBlock
    <2>7. CASE ~ \E j \in 1 .. BlockBytes : (i - 1) * BlockBytes + j = q
      <3>1. \A j \in 1 .. BlockBytes : BlockAt(t, i)[j] = BlockAt(s, i)[j]
        BY <1>3, <2>2, <2>3, <2>4, <2>7
      <3>2. BlockAt(t, i) = BlockAt(s, i)
        BY <2>2, <2>3, <3>1 DEF Block
      <3>3. QED
        BY <2>5, <3>2 DEF KnownBlock
    <2>8. QED
      BY <2>6, <2>7
  <1>7. QED
    BY <1>4, <1>5, <1>6 DEF t, KnownBlocks

LEMMA TakeOfConcat ==
  ASSUME NEW s, IsText(s), NEW t, IsText(t)
  PROVE  Take(s \o t, Len(s)) = s /\ Drop(s \o t, Len(s)) = t
  <1> DEFINE u == s \o t
             m == Len(s)
             n == Len(t)
  <1>1. m \in Nat /\ n \in Nat
    BY TextFacts
  <1>2. /\ IsText(u) /\ Len(u) = m + n
        /\ \A i \in 1 .. m : u[i] = s[i]
        /\ \A i \in 1 .. n : u[m + i] = t[i]
    BY TextConcat
  <1> HIDE DEF u, m, n
  <1>3. m <= Len(u) /\ Len(u) - m = n
    BY <1>1, <1>2
  <1>4. /\ IsText(Take(u, m)) /\ Len(Take(u, m)) = m
        /\ \A i \in 1 .. m : Take(u, m)[i] = u[i]
    BY <1>1, <1>2, <1>3, TakeDrop
  <1>5. /\ IsText(Drop(u, m)) /\ Len(Drop(u, m)) = Len(u) - m
        /\ \A i \in 1 .. Len(u) - m : Drop(u, m)[i] = u[m + i]
    BY <1>1, <1>2, <1>3, TakeDrop
  <1>6. Take(u, m) = s
    BY <1>2, <1>4, TextEqual DEF m
  <1>7. Drop(u, m) = t
    BY <1>2, <1>3, <1>5, TextEqual DEF n
  <1>8. QED
    BY <1>6, <1>7 DEF u, m

LEMMA IvFacts == IsText(Iv) /\ Len(Iv) = BlockBytes /\ FileBlock(Iv)
  <1> DEFINE v == Values(Iv)
  <1>1. Iv = Bytes(v) /\ v \in [1 .. BlockBytes -> Nat] /\ BlockBytes \in Nat
    BY IvAssumption, BlockAssumption
  <1> HIDE DEF v
  <1>2. v \in Seq(Int) /\ v \in Seq(Nat) /\ Len(v) = BlockBytes
    BY <1>1
  <1>3. IsText(Iv) /\ Len(Iv) = BlockBytes /\ FileBytes(Iv)
    BY <1>1, <1>2, NumbersFacts
  <1>4. QED
    BY <1>3, BlockOfText DEF FileBlock, FileBytes

\* What the file is that a call is given.
GivenFile ==
  IF call.op = "encrypt" THEN IsText(call.file) /\ FileBytes(call.file)
  ELSE IF IvFits THEN UsedIv = Iv /\ IsText(Body) /\ KnownBlocks(Body)
  ELSE Body = <<>>

LEMMA FrontOfFile ==
  ASSUME NEW body, IsText(body), KnownBlocks(body), call.op = "decrypt",
         call.prefix_iv \in BOOLEAN,
         call.file = (IF call.prefix_iv THEN Iv ELSE <<>>) \o body
  PROVE  GivenFile
  <1>1. CASE call.prefix_iv
    <2>1. call.file = Iv \o body /\ HasIv
      BY <1>1 DEF HasIv
    <2>2. Take(call.file, BlockBytes) = Iv /\ Drop(call.file, BlockBytes) = body
      BY <2>1, IvFacts, TakeOfConcat
    <2>3. Len(call.file) = BlockBytes + Len(body) /\ Len(body) \in Nat
      BY <2>1, IvFacts, TextConcat, TextFacts
    <2>4. IvFits
      BY <2>3, BlockAssumption DEF IvFits
    <2>5. QED
      BY <2>1, <2>2, <2>4 DEF GivenFile, UsedIv, Body
  <1>2. CASE ~call.prefix_iv
    <2>1. call.file = body /\ ~HasIv
      BY <1>2, ConcatEmpty DEF HasIv
    <2>2. QED
      BY <2>1 DEF GivenFile, UsedIv, Body, IvFits
  <1>3. QED
    BY <1>1, <1>2

LEMMA InitFile == Init => GivenFile
  <1> SUFFICES ASSUME Init PROVE GivenFile
    OBVIOUS
  <1>1. PICK op \in {"encrypt", "decrypt"}, padding \in Paddings \cup {"other"},
             prefix_iv \in BOOLEAN, text \in Texts :
          /\ op = "decrypt" => Len(text) % BlockBytes = 0
          /\ \E file \in InputFiles(op, prefix_iv, text) :
               call = [op |-> op, padding |-> padding, prefix_iv |-> prefix_iv, file |-> file]
    BY DEF Init
  <1>2. PICK file \in InputFiles(op, prefix_iv, text) :
          call = [op |-> op, padding |-> padding, prefix_iv |-> prefix_iv, file |-> file]
    BY <1>1
  <1>3. /\ call.op = op /\ call.prefix_iv = prefix_iv /\ call.file = file
    BY <1>2
  <1>4. text \in Seq(Nat) /\ text \in Seq(Int)
    BY TextsAssumption, SeqSubset
  <1> DEFINE b == Bytes(text)
             c == Chain(b, Iv)
  <1>5. IsText(b) /\ Len(b) = Len(text) /\ FileBytes(b)
    BY <1>4, NumbersFacts
  <1> HIDE DEF b
  <1>6. CASE op = "encrypt"
    BY <1>3, <1>5, <1>6 DEF InputFiles, GivenFile, b
  <1>7. CASE op = "decrypt"
    <2>1. IsWhole(b)
      BY <1>1, <1>5, <1>7 DEF IsWhole
    <2>2. IsWhole(c) /\ IsText(c) /\ Count(c) = Count(b)
      BY <2>1, WholeCount, ChainFacts DEF IsWhole
    <2>3. \A i \in 1 .. Count(c) : Encrypted(BlockAt(c, i))
      BY <1>5, <2>1, <2>2, IvFacts, ChainOfNumbers
    <2> DEFINE front == IF prefix_iv THEN Iv ELSE <<>>
    <2>4. \/ \E n \in 0 .. Len(c) : file = front \o Take(c, n)
          \/ \E i \in DOMAIN c : file = front \o [c EXCEPT ![i] = Plain(1)]
          \/ prefix_iv /\ file = Take(Iv, BlockBytes - 1)
      BY <1>2, <1>7 DEF InputFiles, b
    <2> HIDE DEF c
    <2>5. CASE \E n \in 0 .. Len(c) : file = front \o Take(c, n)
      <3>1. PICK n \in 0 .. Len(c) : file = front \o Take(c, n)
        BY <2>5
      <3>2. IsText(Take(c, n)) /\ KnownBlocks(Take(c, n))
        BY <2>2, <2>3, BlocksOfPart DEF KnownBlocks, KnownBlock
      <3>3. QED
        BY <1>3, <1>7, <3>1, <3>2, FrontOfFile
    <2>6. CASE \E i \in DOMAIN c : file = front \o [c EXCEPT ![i] = Plain(1)]
      <3>1. PICK i \in DOMAIN c : file = front \o [c EXCEPT ![i] = Plain(1)]
        BY <2>6
      <3> DEFINE d == [c EXCEPT ![i] = Plain(1)]
      <3>2. IsText(d) /\ KnownBlocks(d)
        BY <2>2, <2>3, BlocksOfReplaced
      <3> HIDE DEF d
      <3>3. file = front \o d
        BY <3>1 DEF d
      <3>4. QED
        BY <1>3, <1>7, <3>2, <3>3, FrontOfFile
    <2>7. CASE prefix_iv /\ file = Take(Iv, BlockBytes - 1)
      <3>1. /\ BlockBytes - 1 \in Nat /\ BlockBytes \in Nat
            /\ BlockBytes - 1 <= Len(Iv)
        BY IvFacts, BlockAssumption
      <3>2. Len(file) = BlockBytes - 1 /\ IsText(file)
        BY <2>7, <3>1, IvFacts, TakeDrop
      <3>3. HasIv /\ ~IvFits
        BY <1>3, <1>7, <2>7, <3>1, <3>2 DEF HasIv, IvFits
      <3>4. Drop(file, BlockBytes) = <<>>
        <4>1. Drop(file, BlockBytes) = SubSeq(file, BlockBytes + 1, BlockBytes - 1)
          BY <3>2 DEF Drop
        <4>2. PICK S : file \in Seq(S)
          BY <3>2 DEF IsText
        <4>3. QED
          BY <3>1, <4>1, <4>2, SubSeqEmpty
      <3>5. Body = <<>>
        BY <1>3, <3>3, <3>4 DEF Body
      <3>6. QED
        BY <1>3, <1>7, <3>3, <3>5 DEF GivenFile
    <2>8. QED
      BY <2>4, <2>5, <2>6, <2>7
  <1>8. QED
    BY <1>6, <1>7

-----------------------------------------------------------------------------
(* What the call on a buffer encrypts *)

\* The text and its padding.
Filled(text, padding) ==
  IF PaddedSize(Len(text), padding) > Len(text)
    THEN Take(text, FullLen(Len(text))) \o Padded(Drop(text, FullLen(Len(text))), padding)
    ELSE text

LEMMA EncryptBufferFacts ==
  ASSUME NEW text, NEW iv, NEW padding
  PROVE  EncryptBuffer(text, iv, padding)
           = [status |-> SizeStatus(Len(text), padding), out |-> Chain(Filled(text, padding), iv)]
  BY DEF EncryptBuffer, Filled

LEMMA FilledSame ==
  ASSUME NEW text, IsText(text), NEW padding \in Paddings, ~Pads(padding, Len(text) % BlockBytes)
  PROVE  Filled(text, padding) = text /\ PaddedSize(Len(text), padding) = Len(text)
  <1>1. padding = "NONE" \/ (padding = "ZERO" /\ Len(text) % BlockBytes = 0)
    BY DEF Pads, Paddings
  <1>2. PaddedSize(Len(text), padding) = Len(text)
    BY <1>1 DEF PaddedSize
  <1>3. Len(text) \in Nat
    BY TextFacts
  <1>4. QED
    BY <1>2, <1>3 DEF Filled

LEMMA FilledMore ==
  ASSUME NEW text, IsText(text), AllBytes(text), NEW padding \in Paddings,
         Pads(padding, Len(text) % BlockBytes)
  PROVE  /\ Filled(text, padding)
              = Take(text, FullLen(Len(text))) \o Padded(Drop(text, FullLen(Len(text))), padding)
         /\ IsWhole(Take(text, FullLen(Len(text))))
         /\ IsWhole(Padded(Drop(text, FullLen(Len(text))), padding))
         /\ IsWhole(Filled(text, padding))
         /\ Len(Filled(text, padding)) = FullLen(Len(text)) + BlockBytes
         /\ PaddedSize(Len(text), padding) = FullLen(Len(text)) + BlockBytes
         /\ \A i \in 1 .. Len(text) : Filled(text, padding)[i] = text[i]
         /\ \A i \in (Len(text) % BlockBytes) + 1 .. BlockBytes :
              Filled(text, padding)[FullLen(Len(text)) + i]
                = Plain(PadByte(i, Len(text) % BlockBytes, padding))
  <1> DEFINE n == Len(text)
             r == n % BlockBytes
             f == FullLen(n)
             a == Take(text, f)
             t == Drop(text, f)
             p == Padded(t, padding)
             u == a \o p
  <1>1. /\ n \in Nat /\ f \in Nat /\ f <= n /\ n < f + BlockBytes /\ n - f = r
        /\ f % BlockBytes = 0 /\ BlockBytes \in Nat /\ BlockBytes > 0
    BY TextFacts, FullLenFacts, BlockAssumption
  <1>2. r \in Nat /\ r < BlockBytes
    <2> HIDE DEF r, f, n
    <2>1. QED
      BY <1>1
  <1>3. PaddedSize(n, padding) = n + BlockBytes - r
    <2>1. ~(padding = "NONE" \/ (padding = "ZERO" /\ r = 0))
      BY DEF Pads, Paddings
    <2>2. QED
      BY <2>1 DEF PaddedSize
  <1>4. PaddedSize(n, padding) = f + BlockBytes /\ PaddedSize(n, padding) > n
    <2> HIDE DEF n, r, f
    <2>1. QED
      BY <1>1, <1>2, <1>3
  <1>5. Filled(text, padding) = u
    BY <1>4 DEF Filled
  <1> HIDE DEF n, r, f
  <1>6. /\ IsText(a) /\ Len(a) = f
        /\ \A i \in 1 .. f : a[i] = text[i]
    BY <1>1, TakeDrop DEF n
  <1>7. /\ IsText(t) /\ Len(t) = r
        /\ \A i \in 1 .. r : t[i] = text[f + i]
    <2>1. f <= Len(text)
      BY <1>1 DEF n
    <2>2. IsText(t) /\ Len(t) = Len(text) - f
      BY <1>1, <2>1, TakeDrop
    <2>3. \A i \in 1 .. Len(text) - f : t[i] = text[f + i]
      BY <1>1, <2>1, TakeDrop
    <2>4. Len(text) - f = r
      BY <1>1 DEF n
    <2>5. QED
      BY <2>2, <2>3, <2>4
  <1> HIDE DEF a, t
  <1>8. AllBytes(t)
    <2>1. ASSUME NEW i \in 1 .. r PROVE IsByte(t[i])
      <3>1. f + i \in 1 .. n
        BY <1>1, <1>2
      <3>2. QED
        BY <1>7, <3>1 DEF AllBytes, n
    <2>2. QED
      BY <1>7, <2>1 DEF AllBytes
  <1>9. /\ IsText(p) /\ Len(p) = BlockBytes
        /\ \A i \in 1 .. r : p[i] = t[i]
        /\ \A i \in r + 1 .. BlockBytes : p[i] = Plain(PadByte(i, r, padding))
    BY <1>2, <1>7, <1>8, PaddedFacts
  <1> HIDE DEF p
  <1>10. IsText(u) /\ Len(u) = f + BlockBytes
    BY <1>6, <1>9, TextConcat
  <1>11. \A i \in 1 .. f : u[i] = text[i]
    <2>1. \A i \in 1 .. Len(a) : u[i] = a[i]
      BY <1>6, <1>9, TextConcat
    <2>2. QED
      BY <1>6, <2>1
  <1>12. \A i \in 1 .. BlockBytes : u[f + i] = p[i]
    <2>1. \A i \in 1 .. Len(p) : u[Len(a) + i] = p[i]
      BY <1>6, <1>9, TextConcat
    <2>2. QED
      BY <1>6, <1>9, <2>1
  <1> HIDE DEF u
  <1>13. ASSUME NEW i \in 1 .. n PROVE u[i] = text[i]
    <2>1. CASE i <= f
      BY <1>1, <1>11, <2>1
    <2>2. CASE ~(i <= f)
      <3>1. i - f \in 1 .. r /\ i - f \in 1 .. BlockBytes /\ f + (i - f) = i
        BY <1>1, <1>2, <2>2
      <3>2. u[f + (i - f)] = p[i - f] /\ p[i - f] = t[i - f] /\ t[i - f] = text[f + (i - f)]
        BY <1>7, <1>9, <1>12, <3>1
      <3>3. QED
        BY <3>1, <3>2
    <2>3. QED
      BY <2>1, <2>2
  <1>14. ASSUME NEW i \in r + 1 .. BlockBytes PROVE u[f + i] = Plain(PadByte(i, r, padding))
    <2>1. i \in 1 .. BlockBytes
      BY <1>2
    <2>2. QED
      BY <1>9, <1>12, <2>1
  <1>15. IsWhole(a) /\ IsWhole(p) /\ IsWhole(u)
    <2>1. Len(p) = 1 * BlockBytes /\ 1 \in Nat
      BY <1>1, <1>9
    <2>2. IsWhole(a) /\ IsWhole(p)
      BY <1>1, <1>6, <1>9, <2>1, CountFrom DEF IsWhole
    <2>3. QED
      BY <2>2, BlocksOfConcat DEF u
  <1>16. QED
    BY <1>4, <1>5, <1>10, <1>13, <1>14, <1>15 DEF n, r, f, a, t, p, u

-----------------------------------------------------------------------------
(* The inductive invariant *)

\* What is around the call's states.
CallInv ==
  /\ call.prefix_iv \in BOOLEAN
  /\ pc \in {"loop", "last"} => created /\ IvFits
  /\ created \/ pc # "returned" => call.padding \in Paddings
  /\ pc # "returned" => ~fault /\ ~lost /\ status = "none"
  /\ pc = "open" => held = <<>> /\ out = <<>> /\ prev = Iv
  /\ pc = "last" => fin = <<>>
  /\ status = "OK" => ~fault
  /\ lost => status = "OK"

Header == IF call.prefix_iv THEN Iv ELSE <<>>

\* After r bytes of the file, the whole blocks are encrypted and the rest is carried.
EncryptedTo(r) ==
  /\ fin = Slice(call.file, r, Len(call.file))
  /\ held = Slice(call.file, FullLen(r), r)
  /\ out = Header \o Chain(Slice(call.file, 0, FullLen(r)), Iv)
  /\ prev = ChainEnd(Slice(call.file, 0, FullLen(r)), Iv)

EncryptInv ==
  call.op = "encrypt" /\ pc \in {"loop", "last"}
    => \E r \in 0 .. Len(call.file) : EncryptedTo(r)

\* What decryption makes of all blocks, and the last of them.
Decrypted    == Unchain(Body, UsedIv)
LastPlain == BlockAt(Decrypted, Count(Body))

\* After k blocks, all but the last are written.
DecryptedTo(k) ==
  /\ fin = Slice(Body, k * BlockBytes, Len(Body))
  /\ prev = IF k = 0 THEN UsedIv ELSE BlockAt(Body, k)
  /\ held = IF k = 0 THEN <<>> ELSE BlockAt(Decrypted, k)
  /\ out = IF k = 0 THEN <<>> ELSE Take(Decrypted, (k - 1) * BlockBytes)

DecryptInv ==
  call.op = "decrypt" /\ pc \in {"loop", "last"}
    => \E k \in 0 .. Count(Body) : DecryptedTo(k)

\* How decryption ends, and what it has written when it ends well.
FileStatus ==
  IF Body = <<>> THEN "BAD_PADDING"
  ELSE IF Len(Body) % BlockBytes # 0 THEN "IO_ERROR"
  ELSE Remove(Values(LastPlain), call.padding).status

Plaintext ==
  Take(Decrypted,
       (Count(Body) - 1) * BlockBytes + Remove(Values(LastPlain), call.padding).len)

DecryptDone ==
  Ended("decrypt") /\ IvFits =>
    /\ ~fault => status = FileStatus
    /\ status = "OK" => FileStatus = "OK" /\ Written(Plaintext)

Inv ==
  /\ TypeOK /\ CallInv /\ GivenFile
  /\ EncryptInv /\ EncryptsAsOneShot
  /\ DecryptInv /\ DecryptDone

-----------------------------------------------------------------------------
(* Encryption *)

LEMMA FullLenShift ==
  ASSUME NEW a \in Nat, a % BlockBytes = 0, NEW j \in Nat
  PROVE  FullLen(a + j) = a + FullLen(j)
  <1> DEFINE k == a \div BlockBytes
             q == j \div BlockBytes
  <1>1. k \in Nat /\ a = k * BlockBytes + (a % BlockBytes) /\ k * BlockBytes \in Nat
    BY Division, BlockAssumption
  <1>2. a = k * BlockBytes
    BY <1>1
  <1>3. q \in Nat
    BY Division
  <1> HIDE DEF k, q
  <1>4. (k * BlockBytes + j) \div BlockBytes = k + q
    BY <1>1, ShiftDivision DEF q
  <1>5. (k + q) * BlockBytes = k * BlockBytes + q * BlockBytes
    BY <1>1, <1>3, BlockAssumption
  <1>6. FullLen(a + j) = (k + q) * BlockBytes
    BY <1>2, <1>4 DEF FullLen
  <1>7. QED
    BY <1>2, <1>5, <1>6 DEF FullLen, q

\* The parts of the file that one turn of the loop cuts.
LEMMA TurnParts ==
  ASSUME NEW file, IsText(file), NEW r \in Nat, NEW n \in Nat, r + n <= Len(file),
         NEW bytes, bytes = Slice(file, FullLen(r), r) \o Take(Slice(file, r, Len(file)), n)
  PROVE  /\ Len(bytes) \in Nat
         /\ FullLen(r) + FullLen(Len(bytes)) = FullLen(r + n)
         /\ Drop(Slice(file, r, Len(file)), n) = Slice(file, r + n, Len(file))
         /\ Take(bytes, FullLen(Len(bytes))) = Slice(file, FullLen(r), FullLen(r + n))
         /\ Drop(bytes, FullLen(Len(bytes))) = Slice(file, FullLen(r + n), r + n)
  <1> DEFINE a == FullLen(r)
             e == r + n
             w == FullLen(e)
  <1>1. PICK S : file \in Seq(S)
    BY DEF IsText
  <1>2. e \in Nat /\ e - r = n /\ r <= e /\ e <= Len(file) /\ Len(file) \in Nat
    BY TextFacts
  <1> HIDE DEF e
  <1>3. a \in Nat /\ a <= r /\ w \in Nat /\ w <= e /\ a % BlockBytes = 0
    BY <1>2, FullLenFacts
  <1>4. bytes = ReadOn(file, a, r, e)
    BY <1>2 DEF ReadOn, a
  <1>5. w = a + FullLen(e - a)
    <2>1. e - a \in Nat /\ a + (e - a) = e
      <3> HIDE DEF a, w
      <3>1. QED
        BY <1>2, <1>3
    <2> HIDE DEF a
    <2>2. FullLen(a + (e - a)) = a + FullLen(e - a)
      BY <1>3, <2>1, FullLenShift
    <2>3. QED
      BY <2>1, <2>2
  <1>6. a <= w /\ w - a = FullLen(e - a)
    <2>1. e - a \in Nat
      <3> HIDE DEF a, w
      <3>1. QED
        BY <1>2, <1>3
    <2>2. FullLen(e - a) \in Nat
      BY <2>1, FullLenFacts
    <2> HIDE DEF a, w
    <2>3. QED
      BY <1>3, <1>5, <2>2
  <1> HIDE DEF a, w
  <1>7. /\ Len(ReadOn(file, a, r, e)) = e - a
        /\ Drop(Slice(file, r, Len(file)), e - r) = Slice(file, e, Len(file))
        /\ Take(ReadOn(file, a, r, e), w - a) = Slice(file, a, w)
        /\ Drop(ReadOn(file, a, r, e), w - a) = Slice(file, w, e)
    <2>1. a \in Nat /\ a <= r /\ w \in Nat /\ w <= e /\ a <= w
      BY <1>3, <1>6
    <2>2. e \in Nat /\ r <= e /\ e <= Len(file)
      BY <1>2
    <2>3. Len(ReadOn(file, a, r, e)) = e - a
      BY <1>1, <2>1, <2>2, TurnOnSlices
    <2>4. Drop(Slice(file, r, Len(file)), e - r) = Slice(file, e, Len(file))
      BY <1>1, <2>1, <2>2, TurnOnSlices
    <2>5. Take(ReadOn(file, a, r, e), w - a) = Slice(file, a, w)
      BY <1>1, <2>1, <2>2, TurnOnSlices
    <2>6. Drop(ReadOn(file, a, r, e), w - a) = Slice(file, w, e)
      BY <1>1, <2>1, <2>2, TurnOnSlices
    <2>7. QED
      BY <2>3, <2>4, <2>5, <2>6
  <1>8. Len(bytes) = e - a /\ FullLen(Len(bytes)) = w - a
    BY <1>4, <1>6, <1>7
  <1>9. Len(bytes) \in Nat /\ a + (w - a) = w
    BY <1>2, <1>3, <1>8
  <1>10. QED
    BY <1>2, <1>4, <1>7, <1>8, <1>9 DEF a, e, w

\* The whole blocks of the first r bytes.
LEMMA WholePart ==
  ASSUME NEW file, IsText(file), NEW r \in Nat, r <= Len(file)
  PROVE  /\ IsWhole(Slice(file, 0, FullLen(r))) /\ Len(Slice(file, 0, FullLen(r))) = FullLen(r)
         /\ Slice(file, 0, FullLen(r)) = Take(file, FullLen(r))
  <1> DEFINE a == FullLen(r)
  <1>1. a \in Nat /\ a <= Len(file) /\ a % BlockBytes = 0
    <2>1. a \in Nat /\ a <= r /\ a % BlockBytes = 0 /\ Len(file) \in Nat
      BY FullLenFacts, TextFacts
    <2> HIDE DEF a
    <2>2. QED
      BY <2>1
  <1> HIDE DEF a
  <1>2. IsText(Take(file, a)) /\ Len(Take(file, a)) = a
    BY <1>1, TakeDrop
  <1>3. Take(file, a) = Slice(file, 0, a)
    BY TakeSlice
  <1>4. QED
    BY <1>1, <1>2, <1>3 DEF a, IsWhole

LEMMA ChainEndText ==
  ASSUME NEW s, IsWhole(s)
  PROVE  Len(ChainEnd(s, Iv)) = BlockBytes /\ IsText(Chain(s, Iv)) /\ IsText(ChainEnd(s, Iv))
  <1>1. Iv = Block(Iv)
    BY IvFacts DEF FileBlock
  <1>2. ChainEnd(s, Iv) = Block(ChainEnd(s, Iv))
    BY <1>1, ChainEndFacts
  <1>3. IsText(Chain(s, Iv))
    BY WholeCount, ChainFacts DEF IsWhole
  <1>4. QED
    BY <1>2, <1>3, BlockText

LEMMA HeaderText == ASSUME CallInv PROVE IsText(Header)
  BY IvFacts, EmptyText DEF Header

LEMMA EncryptTurnStep ==
  ASSUME Inv, EncryptTurn
  PROVE  /\ EncryptInv' /\ Len(prev') = BlockBytes /\ Len(held') < BlockBytes
         /\ pc' = "last" => fin' = <<>>
  <1>A. PICK file : file = call.file
    OBVIOUS
  <1>B. PICK n : n = Min({Buffer, Len(fin)})
    OBVIOUS
  <1> DEFINE bytes == held \o Take(fin, n)
             full == FullLen(Len(bytes))
  <1>1. /\ call.op = "encrypt" /\ pc = "loop" /\ fin # <<>> /\ call' = call
        /\ fin' = Drop(fin, n) /\ held' = Drop(bytes, full)
        /\ out' = out \o Chain(Take(bytes, full), prev)
        /\ prev' = Chained(Chain(Take(bytes, full), prev))
        /\ pc' = IF n < Buffer THEN "last" ELSE "loop"
    BY <1>B DEF EncryptTurn, Gathered, TurnBlocks, Whole
  <1>2. IsText(file) /\ IsText(Header)
    BY <1>A, <1>1, HeaderText DEF Inv, GivenFile
  <1>3. PICK r \in 0 .. Len(file) : EncryptedTo(r)
    BY <1>A, <1>1 DEF Inv, EncryptInv
  <1>4. /\ fin = Slice(file, r, Len(file)) /\ held = Slice(file, FullLen(r), r)
        /\ out = Header \o Chain(Slice(file, 0, FullLen(r)), Iv)
        /\ prev = ChainEnd(Slice(file, 0, FullLen(r)), Iv)
    BY <1>A, <1>3 DEF EncryptedTo
  <1>5. r \in Nat /\ r <= Len(file) /\ Len(file) \in Nat
    BY <1>2, TextFacts
  <1>6. Len(fin) = Len(file) - r
    <2>1. Len(file) <= Len(file)
      BY <1>5
    <2>2. QED
      BY <1>2, <1>4, <1>5, <2>1, PartFacts
  <1>7. n \in Nat /\ r + n <= Len(file) /\ (n < Buffer => r + n = Len(file))
    <2>1. Len(fin) \in Int /\ Buffer \in Int /\ Buffer \in Nat /\ Len(fin) \in Nat
      BY <1>5, <1>6, BufferAssumption
    <2>2. n = IF Buffer <= Len(fin) THEN Buffer ELSE Len(fin)
      BY <1>B, <2>1, MinOfTwo
    <2>3. QED
      BY <1>5, <1>6, <2>1, <2>2
  <1> DEFINE e == r + n
             a == FullLen(r)
             w == FullLen(e)
             s == Slice(file, 0, a)
             t == Slice(file, a, w)
  <1>8. bytes = Slice(file, a, r) \o Take(Slice(file, r, Len(file)), n)
    BY <1>4
  <1> HIDE DEF bytes, full
  <1>9. /\ Drop(fin, n) = Slice(file, e, Len(file))
        /\ Take(bytes, full) = t /\ Drop(bytes, full) = Slice(file, w, e)
        /\ w = a + full /\ full = FullLen(Len(bytes)) /\ Len(bytes) \in Nat
    <2>1. full = FullLen(Len(bytes))
      BY DEF full
    <2>2. r \in Nat /\ n \in Nat /\ r + n <= Len(file)
      BY <1>5, <1>7
    <2>3. Len(bytes) \in Nat
      BY <1>2, <1>8, <2>2, TurnParts
    <2>4. a + FullLen(Len(bytes)) = w
      BY <1>2, <1>8, <2>2, TurnParts
    <2>5. Drop(Slice(file, r, Len(file)), n) = Slice(file, e, Len(file))
      BY <1>2, <1>8, <2>2, TurnParts
    <2>6. Take(bytes, FullLen(Len(bytes))) = t
      BY <1>2, <1>8, <2>2, TurnParts
    <2>7. Drop(bytes, FullLen(Len(bytes))) = Slice(file, w, e)
      BY <1>2, <1>8, <2>2, TurnParts
    <2>8. QED
      BY <1>4, <2>1, <2>3, <2>4, <2>5, <2>6, <2>7
  <1>10. /\ e \in 0 .. Len(file) /\ e \in Nat /\ e <= Len(file)
         /\ a \in Nat /\ w \in Nat /\ full \in Nat /\ a <= w /\ w <= e /\ e < w + BlockBytes
         /\ w <= Len(file)
    <2>1. e \in 0 .. Len(file) /\ e \in Nat /\ e <= Len(file)
      BY <1>5, <1>7
    <2> HIDE DEF e
    <2>2. w \in Nat /\ w <= e /\ e < w + BlockBytes /\ a \in Nat /\ full \in Nat
      BY <1>5, <1>9, <2>1, FullLenFacts
    <2> HIDE DEF a, w
    <2>3. QED
      BY <1>5, <1>9, <2>1, <2>2
  <1>11. IsWhole(s)
    BY <1>2, <1>5, WholePart
  <1>12. IsWhole(Slice(file, 0, w)) /\ Slice(file, 0, w) = s \o t
    <2>1. IsWhole(Slice(file, 0, w))
      BY <1>2, <1>10, WholePart
    <2>2. 0 <= a
      BY <1>10
    <2> HIDE DEF a, w
    <2>3. QED
      BY <1>2, <1>10, <2>1, <2>2, PartsJoin
  <1>13. IsWhole(t)
    <2>1. IsText(t) /\ Len(t) = w - a
      <3> HIDE DEF a, w
      <3>1. QED
        BY <1>2, <1>10, PartFacts
    <2>2. w - a = full
      <3> HIDE DEF a, w
      <3>1. QED
        BY <1>9, <1>10
    <2>3. full % BlockBytes = 0
      BY <1>9, FullLenFacts
    <2>4. QED
      BY <2>1, <2>2, <2>3 DEF IsWhole
  <1>14. EncryptedTo(e)'
    <2> DEFINE c == Chain(t, prev)
    <2>1. out' = Header \o Chain(s \o t, Iv)
      <3>1. out' = (Header \o Chain(s, Iv)) \o c
        BY <1>1, <1>4, <1>9
      <3>2. IsText(Chain(s, Iv)) /\ IsText(c)
        BY <1>11, <1>13, WholeCount, ChainFacts DEF IsWhole
      <3>3. Chain(s \o t, Iv) = Chain(s, Iv) \o c
        BY <1>4, <1>11, <1>13, ChainJoin
      <3> HIDE DEF c, s, t
      <3>4. QED
        BY <1>2, <3>1, <3>2, <3>3, ConcatAssoc
    <2>2. prev' = ChainEnd(s \o t, Iv)
      <3>1. prev' = IF c = <<>> THEN prev ELSE LastBlockOf(c)
        BY <1>1, <1>9 DEF Chained
      <3>2. c = <<>> <=> t = <<>>
        BY <1>13, ChainEndFacts
      <3>3. prev' = ChainEnd(t, prev)
        BY <3>1, <3>2 DEF ChainEnd
      <3>4. QED
        BY <1>4, <1>11, <1>13, <3>3, ChainEndJoin
    <2>3. Header' = Header
      BY <1>1 DEF Header
    <2>4. call'.file = file
      BY <1>A, <1>1
    <2>5. fin' = Slice(file, e, Len(file)) /\ held' = Slice(file, w, e)
      BY <1>1, <1>9
    <2> HIDE DEF s, t, e
    <2>6. QED
      BY <1>12, <2>1, <2>2, <2>3, <2>4, <2>5 DEF EncryptedTo
  <1>15. EncryptInv'
    <2>1. e \in 0 .. Len(call'.file)
      BY <1>A, <1>1, <1>10
    <2> HIDE DEF e
    <2>2. QED
      BY <1>14, <2>1 DEF EncryptInv
  <1>16. Len(held') < BlockBytes
    <2>1. held' = Slice(file, w, e)
      BY <1>1, <1>9
    <2> HIDE DEF w, e
    <2>2. Len(held') = e - w
      BY <1>2, <1>10, <2>1, PartFacts
    <2>3. QED
      BY <1>10, <2>2, BlockAssumption
  <1>17. Len(prev') = BlockBytes
    <2>1. prev' = ChainEnd(Slice(file, 0, w), Iv)
      <3>1. prev' = ChainEnd(Slice(call'.file, 0, FullLen(e)), Iv)
        BY <1>14 DEF EncryptedTo
      <3>2. QED
        BY <1>A, <1>1, <3>1
    <2>2. QED
      BY <1>12, <2>1, ChainEndText
  <1>18. pc' = "last" => fin' = <<>>
    <2>1. SUFFICES ASSUME pc' = "last" PROVE fin' = <<>>
      OBVIOUS
    <2>2. e = Len(file)
      BY <1>1, <1>7, <2>1
    <2>3. fin' = Slice(file, Len(file), Len(file))
      BY <1>1, <1>9, <2>2
    <2>4. Len(file) <= Len(file)
      BY <1>5
    <2>5. QED
      BY <1>2, <1>5, <2>3, <2>4, PartsJoin
  <1>19. QED
    BY <1>15, <1>16, <1>17, <1>18

\* What has been written when all of the file is read, and what the last block adds.
LEMMA FileInBlocks ==
  ASSUME NEW file, IsText(file), NEW f, f = FullLen(Len(file)),
         NEW rest, rest = Drop(file, f), NEW s, s = Take(file, f)
  PROVE  /\ Len(file) \in Nat /\ Len(rest) = Len(file) % BlockBytes
         /\ rest = <<>> <=> Len(file) % BlockBytes = 0
         /\ rest = <<>> => s = file
  <1>1. /\ Len(file) \in Nat /\ f \in Nat /\ f <= Len(file)
        /\ Len(file) - f = Len(file) % BlockBytes
    BY TextFacts, FullLenFacts
  <1>2. IsText(rest) /\ Len(rest) = Len(file) - f
    BY <1>1, TakeDrop
  <1>3. rest = <<>> <=> Len(file) % BlockBytes = 0
    BY <1>1, <1>2, EmptyText
  <1>4. rest = <<>> => s = file
    <2>1. SUFFICES ASSUME rest = <<>> PROVE s = file
      OBVIOUS
    <2>2. f = Len(file)
      BY <1>1, <1>2, <2>1, EmptyText
    <2>3. s = Slice(file, 0, Len(file))
      BY <2>2, TakeSlice
    <2>4. 0 <= Len(file)
      BY <1>1
    <2>5. QED
      BY <1>1, <2>3, <2>4, PartsJoin
  <1>5. QED
    BY <1>1, <1>2, <1>3, <1>4

\* The chain of the padded file, as the chain of its whole blocks s and of the rest.
Completed(file, s, rest, padding, iv) ==
  Chain(Filled(file, padding), iv)
    = IF Pads(padding, Len(rest))
        THEN Chain(s, iv) \o Chain(Padded(rest, padding), ChainEnd(s, iv))
        ELSE Chain(file, iv)

LEMMA LastBlockCompletes ==
  ASSUME NEW file, IsText(file), AllBytes(file), NEW padding \in Paddings,
         NEW f, f = FullLen(Len(file)), NEW rest, rest = Drop(file, f),
         NEW s, s = Take(file, f), NEW iv
  PROVE  Completed(file, s, rest, padding, iv)
  <1>1. Len(rest) = Len(file) % BlockBytes
    BY FileInBlocks
  <1>2. CASE Pads(padding, Len(rest))
    <2>1. Pads(padding, Len(file) % BlockBytes)
      BY <1>1, <1>2
    <2>2. /\ Filled(file, padding) = s \o Padded(rest, padding)
          /\ IsWhole(s) /\ IsWhole(Padded(rest, padding))
      BY <2>1, FilledMore
    <2>3. Chain(s \o Padded(rest, padding), iv)
            = Chain(s, iv) \o Chain(Padded(rest, padding), ChainEnd(s, iv))
      BY <2>2, ChainJoin
    <2>4. QED
      BY <1>2, <2>2, <2>3 DEF Completed
  <1>3. CASE ~Pads(padding, Len(rest))
    <2>1. ~Pads(padding, Len(file) % BlockBytes)
      BY <1>1, <1>3
    <2>2. Filled(file, padding) = file
      BY <2>1, FilledSame
    <2>3. QED
      BY <1>3, <2>2 DEF Completed
  <1>4. QED
    BY <1>2, <1>3

\* The state when all of the file is read.
LEMMA AllRead ==
  ASSUME Inv, call.op = "encrypt", pc = "last"
  PROVE  /\ IsText(call.file) /\ AllBytes(call.file) /\ IsText(Header)
         /\ held = Drop(call.file, FullLen(Len(call.file)))
         /\ out = Header \o Chain(Take(call.file, FullLen(Len(call.file))), Iv)
         /\ prev = ChainEnd(Take(call.file, FullLen(Len(call.file))), Iv)
  <1>1. IsText(call.file) /\ AllBytes(call.file) /\ IsText(Header)
    BY FileByteIsByte, HeaderText DEF Inv, GivenFile, AllBytes, FileBytes
  <1>2. PICK r \in 0 .. Len(call.file) : EncryptedTo(r)
    BY DEF Inv, EncryptInv
  <1>3. fin = <<>> /\ fin = Slice(call.file, r, Len(call.file))
    BY <1>2 DEF EncryptedTo, Inv, CallInv
  <1>4. r = Len(call.file)
    <2>1. r \in Nat /\ r <= Len(call.file) /\ Len(call.file) \in Nat
      BY <1>1, TextFacts
    <2>2. Drop(call.file, r) = <<>>
      BY <1>3, TakeSlice
    <2>3. Len(<<>>) = Len(call.file) - r
      BY <1>1, <2>1, <2>2, TakeDrop
    <2>4. QED
      BY <2>1, <2>3, EmptyText
  <1>5. QED
    BY <1>1, <1>2, <1>4, TakeSlice DEF EncryptedTo

\* The last block makes the output that of the one-shot call.
LEMMA EncryptLastStep == ASSUME Inv, EncryptLast PROVE EncryptsAsOneShot'
  <1> DEFINE file == call.file
             f    == FullLen(Len(file))
             s    == Take(file, f)
             one  == EncryptBuffer(file, Iv, call.padding)
             pads == Pads(call.padding, Len(held))
  <1>1. /\ call.op = "encrypt" /\ pc = "last" /\ call' = call /\ lost' = lost /\ ~lost
        /\ call.padding \in Paddings /\ fault' = FALSE
    BY DEF EncryptLast, Return, Inv, CallInv
  <1>2. /\ IsText(file) /\ AllBytes(file) /\ IsText(Header) /\ held = Drop(file, f)
        /\ out = Header \o Chain(s, Iv) /\ prev = ChainEnd(s, Iv)
    BY <1>1, AllRead
  <1>3. /\ Len(file) \in Nat /\ Len(held) = Len(file) % BlockBytes
        /\ held = <<>> <=> Len(file) % BlockBytes = 0
        /\ held = <<>> => s = file
        /\ Chain(Filled(file, call.padding), Iv)
             = IF pads THEN Chain(s, Iv) \o Chain(Padded(held, call.padding), ChainEnd(s, Iv))
               ELSE Chain(file, Iv)
    <2> HIDE DEF file
    <2>1. Len(file) \in Nat /\ Len(held) = Len(file) % BlockBytes
      BY <1>2, FileInBlocks
    <2>2. (held = <<>> <=> Len(file) % BlockBytes = 0) /\ (held = <<>> => s = file)
      BY <1>2, FileInBlocks
    <2>3. ASSUME NEW p \in Paddings
          PROVE  Chain(Filled(file, p), Iv)
                   = IF Pads(p, Len(held))
                       THEN Chain(s, Iv) \o Chain(Padded(held, p), ChainEnd(s, Iv))
                       ELSE Chain(file, Iv)
      <3>1. PICK x, n, t, h : x = file /\ n = f /\ t = s /\ h = held
        OBVIOUS
      <3>2. /\ IsText(x) /\ AllBytes(x) /\ n = FullLen(Len(x))
            /\ h = Drop(x, n) /\ t = Take(x, n)
        BY <1>2, <3>1
      <3>3. Completed(x, t, h, p, Iv)
        BY <3>2, LastBlockCompletes
      <3>4. QED
        BY <3>1, <3>3 DEF Completed
    <2>4. QED
      BY <1>1, <2>1, <2>2, <2>3
  <1>4. one = [status |-> SizeStatus(Len(file), call.padding),
               out |-> Chain(Filled(file, call.padding), Iv)]
    BY EncryptBufferFacts
  <1> HIDE DEF s, file, f
  <1>5. one.status = SizeStatus(Len(file), call.padding)
        /\ one.out = Chain(Filled(file, call.padding), Iv)
    BY <1>4
  <1>6. AddsBlock <=> pads
    <2>1. held = <<>> <=> Len(held) = 0
      <3>1. Len(held) = 0 => held = <<>>
        BY <1>3
      <3>2. QED
        BY <3>1, EmptyText
    <2>2. QED
      BY <2>1 DEF AddsBlock, Pads
  <1> HIDE DEF one, pads
  <1>7. CASE call.padding = "NONE" /\ held # <<>>
    <2>1. status' = "INVALID_ARG"
      BY <1>7 DEF EncryptLast, Return
    <2>2. one.status = "INVALID_ARG"
      BY <1>3, <1>5, <1>7 DEF SizeStatus
    <2>3. one' = one
      BY <1>1 DEF one, file
    <2>4. QED
      BY <1>1, <2>1, <2>2, <2>3 DEF EncryptsAsOneShot, one, file
  <1>8. CASE ~(call.padding = "NONE" /\ held # <<>>)
    <2>1. /\ status' = "OK"
          /\ out' = out \o IF AddsBlock THEN Chain(Padded(held, call.padding), prev) ELSE <<>>
      BY <1>8 DEF EncryptLast, Return
    <2>2. one.status = "OK"
      BY <1>3, <1>5, <1>8 DEF SizeStatus
    <2>3. out' = Header \o one.out
      <3>1. CASE pads
        <4> DEFINE c == Chain(Padded(held, call.padding), prev)
        <4>1. out' = (Header \o Chain(s, Iv)) \o c
          BY <1>2, <1>6, <2>1, <3>1
        <4>2. one.out = Chain(s, Iv) \o c
          BY <1>2, <1>3, <1>5, <3>1
        <4>3. IsWhole(s) /\ IsWhole(Padded(held, call.padding))
          BY <1>1, <1>2, <1>3, <3>1, FilledMore DEF s, f, pads
        <4>4. IsText(Chain(s, Iv)) /\ IsText(c)
          BY <4>3, WholeCount, ChainFacts DEF IsWhole
        <4> HIDE DEF c
        <4>5. QED
          BY <1>2, <4>1, <4>2, <4>4, ConcatAssoc
      <3>2. CASE ~pads
        <4>1. out' = out \o <<>> /\ one.out = Chain(file, Iv)
          BY <1>3, <1>5, <1>6, <2>1, <3>2
        <4>2. held = <<>>
          <5>1. call.padding \in {"NONE", "ZERO"} /\ (call.padding = "ZERO" => held = <<>>)
            BY <1>1, <1>6, <3>2 DEF AddsBlock, Paddings
          <5>2. QED
            BY <1>8, <5>1
        <4>3. s = file /\ IsWhole(file)
          BY <1>2, <1>3, <4>2 DEF IsWhole
        <4>4. IsText(Chain(file, Iv))
          BY <4>3, ChainEndText
        <4>5. IsText(out) /\ out = Header \o Chain(file, Iv)
          BY <1>2, <4>3, <4>4, TextConcat
        <4>6. QED
          BY <4>1, <4>5, ConcatEmpty
      <3>3. QED
        BY <3>1, <3>2
    <2>4. one' = one /\ Header' = Header
      BY <1>1 DEF one, file, Header
    <2>5. Written(Header \o one.out)'
      <3>1. out' = (Header \o one.out)'
        BY <2>3, <2>4
      <3>2. QED
        BY <1>1, <3>1 DEF Written
    <2>6. one.status' = "OK"
      BY <2>2, <2>4
    <2>7. QED
      BY <1>1, <2>1, <2>5, <2>6 DEF EncryptsAsOneShot, one, file, Header
  <1>9. QED
    BY <1>7, <1>8

-----------------------------------------------------------------------------
(* Steps that write nothing *)

LEMMA SameFile ==
  ASSUME call' = call
  PROVE  /\ GivenFile => GivenFile'
         /\ HasIv' = HasIv /\ IvFits' = IvFits /\ UsedIv' = UsedIv /\ Body' = Body
         /\ Header' = Header
  <1>1. HasIv' = HasIv
    BY DEF HasIv
  <1>2. IvFits' = IvFits /\ UsedIv' = UsedIv /\ Body' = Body /\ Header' = Header
    BY <1>1 DEF IvFits, UsedIv, Body, Header
  <1>3. QED
    BY <1>1, <1>2 DEF GivenFile

LEMMA SameDecrypted ==
  ASSUME call' = call
  PROVE  /\ Decrypted' = Decrypted /\ LastPlain' = LastPlain /\ Plaintext' = Plaintext
         /\ FileStatus' = FileStatus
  <1>1. UsedIv' = UsedIv /\ Body' = Body
    BY SameFile
  <1>2. Decrypted' = Decrypted
    BY <1>1 DEF Decrypted
  <1>3. LastPlain' = LastPlain
    BY <1>1, <1>2 DEF LastPlain
  <1>4. QED
    BY <1>1, <1>2, <1>3 DEF Plaintext, FileStatus

\* A call that fails leaves all but the output as it was.
LEMMA FailStep ==
  ASSUME Inv, pc # "returned", call' = call, pc' = "returned", fault' = TRUE,
         status' \in {"INVALID_ARG", "IO_ERROR"}, created' \in BOOLEAN,
         UNCHANGED <<fin, prev, held, lost>>
  PROVE  Inv'
  <1>1. TypeOK'
    BY DEF Inv, TypeOK
  <1>2. CallInv'
    BY DEF Inv, CallInv
  <1>3. GivenFile'
    BY SameFile DEF Inv
  <1>4. EncryptInv' /\ DecryptInv'
    BY DEF EncryptInv, DecryptInv
  <1>5. EncryptsAsOneShot' /\ DecryptDone'
    BY DEF EncryptsAsOneShot, DecryptDone
  <1>6. QED
    BY <1>1, <1>2, <1>3, <1>4, <1>5 DEF Inv

LEMMA FailingSteps ==
  ASSUME Inv PROVE OpenFails \/ ReadFails \/ WriteFails \/ LastFails => Inv'
  <1>1. ASSUME OpenFails PROVE Inv'
    <2>1. /\ pc = "open" /\ created' \in BOOLEAN /\ call' = call
          /\ UNCHANGED <<fin, prev, held, lost>>
      BY <1>1 DEF OpenFails
    <2>2. pc' = "returned" /\ fault' = TRUE /\ status' \in {"INVALID_ARG", "IO_ERROR"}
      BY <1>1 DEF OpenFails, Return
    <2>3. QED
      BY <2>1, <2>2, FailStep
  <1>2. ASSUME ReadFails \/ WriteFails \/ LastFails PROVE Inv'
    <2>1. /\ pc # "returned" /\ created' = created /\ call' = call
          /\ UNCHANGED <<fin, prev, held, lost>>
          /\ pc' = "returned" /\ fault' = TRUE /\ status' = "IO_ERROR"
      BY <1>2 DEF ReadFails, WriteFails, LastFails, Return
    <2>2. created' \in BOOLEAN
      BY <2>1 DEF Inv, TypeOK
    <2>3. QED
      BY <2>1, <2>2, FailStep
  <1>3. QED
    BY <1>1, <1>2

LEMMA NoIvStep == ASSUME Inv, NoIv PROVE Inv'
  <1>1. /\ pc = "open" /\ ~IvFits /\ call' = call /\ created' = TRUE
        /\ pc' = "returned" /\ status' = "IO_ERROR" /\ fault' = FALSE
        /\ UNCHANGED <<fin, prev, held, out, lost>>
    BY DEF NoIv, Return
  <1>2. call.op = "decrypt" /\ ~IvFits'
    BY <1>1, SameFile DEF IvFits, HasIv
  <1>3. TypeOK'
    BY <1>1 DEF Inv, TypeOK
  <1>4. CallInv'
    BY <1>1 DEF Inv, CallInv
  <1>5. GivenFile'
    BY <1>1, SameFile DEF Inv
  <1>6. EncryptInv' /\ DecryptInv'
    BY <1>1 DEF EncryptInv, DecryptInv
  <1>7. EncryptsAsOneShot' /\ DecryptDone'
    BY <1>1, <1>2 DEF EncryptsAsOneShot, DecryptDone, Ended
  <1>8. QED
    BY <1>3, <1>4, <1>5, <1>6, <1>7 DEF Inv

LEMMA SameState == ASSUME Inv, UNCHANGED vars PROVE Inv'
  <1>1. /\ call' = call /\ pc' = pc /\ fin' = fin /\ prev' = prev /\ held' = held /\ out' = out
        /\ created' = created /\ status' = status /\ fault' = fault /\ lost' = lost
    BY DEF vars
  <1>2. TypeOK' /\ CallInv'
    <2>1. TypeOK'
      BY <1>1 DEF Inv, TypeOK
    <2>2. IvFits' = IvFits
      BY <1>1, SameFile
    <2>3. CallInv'
      BY <1>1, <2>2 DEF Inv, CallInv
    <2>4. QED
      BY <2>1, <2>3
  <1>3. GivenFile'
    BY <1>1, SameFile DEF Inv
  <1>4. EncryptInv'
    <2>1. \A r : EncryptedTo(r) => EncryptedTo(r)'
      BY <1>1, SameFile DEF EncryptedTo
    <2>2. QED
      BY <1>1, <2>1 DEF Inv, EncryptInv
  <1>5. DecryptInv'
    <2>1. \A k : DecryptedTo(k) => DecryptedTo(k)'
      BY <1>1, SameFile, SameDecrypted DEF DecryptedTo
    <2>2. QED
      BY <1>1, <2>1, SameFile DEF Inv, DecryptInv
  <1>6. EncryptsAsOneShot'
    <2>1. EncryptsAsOneShot' = EncryptsAsOneShot
      BY <1>1 DEF EncryptsAsOneShot, Ended, Written
    <2>2. QED
      BY <2>1 DEF Inv
  <1>7. DecryptDone'
    <2>1. DecryptDone' = DecryptDone
      BY <1>1, SameFile, SameDecrypted DEF DecryptDone, Ended, Written
    <2>2. QED
      BY <2>1 DEF Inv
  <1>8. QED
    BY <1>2, <1>3, <1>4, <1>5, <1>6, <1>7 DEF Inv

LEMMA EndOfFileStep == ASSUME Inv, EndOfFile PROVE Inv'
  <1>1. /\ pc = "loop" /\ fin = <<>> /\ pc' = "last" /\ call' = call /\ fin' = fin
        /\ prev' = prev /\ held' = held /\ out' = out
        /\ created' = created /\ status' = status /\ fault' = fault /\ lost' = lost
    BY DEF EndOfFile
  <1>2. TypeOK' /\ CallInv'
    <2>1. TypeOK'
      BY <1>1 DEF Inv, TypeOK
    <2>2. IvFits' = IvFits
      BY <1>1, SameFile
    <2>3. CallInv'
      BY <1>1, <2>2 DEF Inv, CallInv
    <2>4. QED
      BY <2>1, <2>3
  <1>3. GivenFile'
    BY <1>1, SameFile DEF Inv
  <1>4. EncryptInv'
    <2>1. \A r : EncryptedTo(r) => EncryptedTo(r)'
      BY <1>1, SameFile DEF EncryptedTo
    <2>2. QED
      BY <1>1, <2>1 DEF Inv, EncryptInv
  <1>5. DecryptInv'
    <2>1. \A k : DecryptedTo(k) => DecryptedTo(k)'
      BY <1>1, SameFile, SameDecrypted DEF DecryptedTo
    <2>2. QED
      BY <1>1, <2>1, SameFile DEF Inv, DecryptInv
  <1>6. EncryptsAsOneShot' /\ DecryptDone'
    BY <1>1 DEF EncryptsAsOneShot, DecryptDone, Ended
  <1>7. QED
    BY <1>2, <1>3, <1>4, <1>5, <1>6 DEF Inv

-----------------------------------------------------------------------------
(* Opening and closing *)

LEMMA NothingRead ==
  ASSUME NEW file, IsText(file)
  PROVE  /\ 0 \in 0 .. Len(file) /\ FullLen(0) = 0
         /\ Slice(file, 0, Len(file)) = file /\ Slice(file, 0, 0) = <<>>
         /\ Chain(<<>>, Iv) = <<>> /\ ChainEnd(<<>>, Iv) = Iv
  <1>1. 0 \in Nat /\ Len(file) \in Nat /\ 0 \in 0 .. Len(file)
    BY TextFacts
  <1>2. FullLen(0) = 0
    <2>1. FullLen(0) \in Nat /\ FullLen(0) <= 0
      BY FullLenFacts
    <2>2. QED
      BY <2>1
  <1>3. Slice(file, 0, Len(file)) = file /\ Slice(file, 0, 0) = <<>>
    <2>1. 0 <= Len(file) /\ Len(file) <= Len(file) /\ 0 <= 0
      BY <1>1
    <2>2. QED
      BY <1>1, <2>1, PartsJoin
  <1>4. IsWhole(<<>>)
    <2>1. Len(<<>>) = 0 * BlockBytes
      BY EmptyText, BlockAssumption
    <2>2. QED
      BY <2>1, EmptyText, CountFrom
  <1>5. Chain(<<>>, Iv) = <<>>
    BY <1>4, ChainEndFacts
  <1>6. QED
    BY <1>1, <1>2, <1>3, <1>5 DEF ChainEnd

LEMMA OpenStep == ASSUME Inv, Open PROVE Inv'
  <1>1. /\ pc = "open" /\ IvFits /\ call' = call /\ created' = TRUE /\ pc' = "loop"
        /\ prev' = UsedIv /\ fin' = Body /\ held' = held
        /\ status' = status /\ fault' = fault /\ lost' = lost
    BY DEF Open, UsedIv, Body
  <1>2. out' = IF call.op = "encrypt" /\ call.prefix_iv THEN Iv ELSE <<>>
    BY DEF Open
  <1>3. held = <<>>
    BY <1>1 DEF Inv, CallInv
  <1>4. UsedIv = Iv
    BY <1>1 DEF Inv, GivenFile, UsedIv, HasIv
  <1>5. IvFits' = IvFits
    BY <1>1, SameFile
  <1>6. TypeOK'
    <2>1. Len(prev') = BlockBytes
      BY <1>1, <1>4, IvFacts
    <2>2. Len(held') = 0
      BY <1>1, <1>3, EmptyText
    <2>3. QED
      BY <1>1, <2>1, <2>2, BlockAssumption DEF Inv, TypeOK
  <1>7. CallInv'
    BY <1>1, <1>5 DEF Inv, CallInv
  <1>8. GivenFile'
    BY <1>1, SameFile DEF Inv
  <1>9. EncryptInv'
    <2>1. SUFFICES ASSUME call.op = "encrypt"
                   PROVE  \E r \in 0 .. Len(call'.file) : EncryptedTo(r)'
      BY <1>1 DEF EncryptInv
    <2>2. PICK file : file = call.file
      OBVIOUS
    <2>3. IsText(file) /\ IsText(Header)
      BY <2>1, <2>2, HeaderText DEF Inv, GivenFile
    <2>4. fin' = Slice(file, 0, Len(file)) /\ held' = Slice(file, FullLen(0), 0)
      <3>1. fin' = file
        BY <1>1, <2>1, <2>2 DEF Body, HasIv
      <3>2. QED
        BY <1>1, <1>3, <2>3, <3>1, NothingRead
    <2>5. prev' = ChainEnd(Slice(file, 0, FullLen(0)), Iv)
      BY <1>1, <1>4, <2>3, NothingRead
    <2>6. out' = Header' \o Chain(Slice(file, 0, FullLen(0)), Iv)
      <3>1. Chain(Slice(file, 0, FullLen(0)), Iv) = <<>>
        BY <2>3, NothingRead
      <3>2. out' = Header /\ Header' = Header
        BY <1>1, <1>2, <2>1, SameFile DEF Header
      <3>3. QED
        BY <2>3, <3>1, <3>2, ConcatEmpty
    <2>7. call'.file = file /\ 0 \in 0 .. Len(file)
      BY <1>1, <2>2, <2>3, NothingRead
    <2>8. EncryptedTo(0)'
      BY <2>4, <2>5, <2>6, <2>7 DEF EncryptedTo
    <2>9. QED
      BY <2>7, <2>8
  <1>10. DecryptInv'
    <2>1. SUFFICES ASSUME call.op = "decrypt"
                   PROVE  \E k \in 0 .. Count(Body) : DecryptedTo(k)'
      BY <1>1, SameFile DEF DecryptInv
    <2>2. PICK body : body = Body
      OBVIOUS
    <2>3. IsText(body)
      BY <1>1, <2>1, <2>2 DEF Inv, GivenFile
    <2>4. 0 \in 0 .. Count(body)
      BY <2>3, TextFacts, Division DEF Count
    <2>5. 0 * BlockBytes = 0
      BY BlockAssumption
    <2>6. fin' = Slice(body, 0 * BlockBytes, Len(body))
      BY <1>1, <2>2, <2>3, <2>5, NothingRead
    <2>7. Body' = body /\ UsedIv' = UsedIv
      BY <1>1, <2>2, SameFile
    <2>8. held' = <<>> /\ prev' = UsedIv /\ out' = <<>>
      BY <1>1, <1>2, <1>3, <2>1
    <2>9. DecryptedTo(0)'
      BY <2>6, <2>7, <2>8 DEF DecryptedTo
    <2>10. QED
      BY <2>2, <2>4, <2>9
  <1>11. EncryptsAsOneShot' /\ DecryptDone'
    BY <1>1 DEF EncryptsAsOneShot, DecryptDone, Ended
  <1>12. QED
    BY <1>6, <1>7, <1>8, <1>9, <1>10, <1>11 DEF Inv

\* What is lost leaves the beginning.
LEMMA LosesEnd ==
  ASSUME NEW bytes, IsText(bytes), Written(bytes), ~lost, lost' = TRUE,
         NEW n \in 0 .. Len(out) - 1, out' = Take(out, n)
  PROVE  out' = IF Len(out') < Len(bytes) THEN Take(bytes, Len(out')) ELSE bytes
  <1>1. out = bytes
    BY DEF Written
  <1>2. n \in Nat /\ n < Len(bytes) /\ n <= Len(bytes)
    BY <1>1, TextFacts
  <1>3. Len(out') = n
    BY <1>1, <1>2, TakeDrop
  <1>4. QED
    BY <1>1, <1>2, <1>3

LEMMA OneShotText ==
  ASSUME GivenFile, call.op = "encrypt", call.padding \in Paddings,
         SizeStatus(Len(call.file), call.padding) = "OK"
  PROVE  IsText(EncryptBuffer(call.file, Iv, call.padding).out)
  <1>0. PICK file : file = call.file
    OBVIOUS
  <1>1. PICK p \in Paddings : file = call.file /\ p = call.padding
    BY <1>0
  <1>2. IsText(file) /\ AllBytes(file)
    BY <1>1, FileByteIsByte DEF GivenFile, AllBytes, FileBytes
  <1>3. EncryptBuffer(file, Iv, p).out = Chain(Filled(file, p), Iv)
    BY EncryptBufferFacts
  <1>4. IsWhole(Filled(file, p))
    <2>1. CASE Pads(p, Len(file) % BlockBytes)
      BY <1>2, <2>1, FilledMore
    <2>2. CASE ~Pads(p, Len(file) % BlockBytes)
      <3>1. Filled(file, p) = file
        BY <1>2, <2>2, FilledSame
      <3>2. Len(file) % BlockBytes \in Int
        BY <1>2, TextFacts, Division
      <3>3. Len(file) % BlockBytes = 0
        <4>1. p = "NONE" \/ (p = "ZERO" /\ Len(file) % BlockBytes = 0)
          BY <2>2 DEF Pads, Paddings
        <4>2. p = "NONE" => Len(file) % BlockBytes = 0
          BY <1>1 DEF SizeStatus
        <4>3. QED
          BY <4>1, <4>2
      <3>4. QED
        BY <1>2, <3>1, <3>3 DEF IsWhole
    <2>3. QED
      BY <2>1, <2>2
  <1>5. IsText(Chain(Filled(file, p), Iv))
    BY <1>4, ChainEndText
  <1>6. QED
    BY <1>1, <1>3, <1>5

LEMMA EncryptTurnKeeps == ASSUME Inv, EncryptTurn PROVE Inv'
  <1>1. /\ call.op = "encrypt" /\ pc = "loop" /\ call' = call /\ created' = created
        /\ status' = status /\ fault' = fault /\ lost' = lost /\ pc' \in {"loop", "last"}
    BY DEF EncryptTurn
  <1>2. /\ EncryptInv' /\ Len(prev') = BlockBytes /\ Len(held') < BlockBytes
        /\ pc' = "last" => fin' = <<>>
    BY EncryptTurnStep
  <1>3. TypeOK'
    BY <1>1, <1>2 DEF Inv, TypeOK
  <1>4. CallInv'
    <2>1. IvFits' = IvFits
      BY <1>1, SameFile
    <2>2. QED
      BY <1>1, <1>2, <2>1 DEF Inv, CallInv
  <1>5. GivenFile'
    BY <1>1, SameFile DEF Inv
  <1>6. DecryptInv' /\ EncryptsAsOneShot' /\ DecryptDone'
    BY <1>1 DEF DecryptInv, EncryptsAsOneShot, DecryptDone, Ended
  <1>7. QED
    BY <1>2, <1>3, <1>4, <1>5, <1>6 DEF Inv

LEMMA EncryptLastKeeps == ASSUME Inv, EncryptLast PROVE Inv'
  <1>1. /\ call.op = "encrypt" /\ pc = "last" /\ call' = call /\ created' = created
        /\ fin' = fin /\ prev' = prev /\ held' = held /\ fault' = FALSE /\ lost' = lost
        /\ pc' = "returned" /\ status' \in {"OK", "INVALID_ARG"}
    BY DEF EncryptLast, Return
  <1>2. EncryptsAsOneShot'
    BY EncryptLastStep
  <1>3. TypeOK'
    BY <1>1 DEF Inv, TypeOK
  <1>4. CallInv'
    <2>1. ~lost /\ call.padding \in Paddings
      BY <1>1 DEF Inv, CallInv
    <2>2. QED
      BY <1>1, <2>1 DEF Inv, CallInv
  <1>5. GivenFile'
    BY <1>1, SameFile DEF Inv
  <1>6. EncryptInv' /\ DecryptInv' /\ DecryptDone'
    BY <1>1 DEF EncryptInv, DecryptInv, DecryptDone, Ended
  <1>7. QED
    BY <1>2, <1>3, <1>4, <1>5, <1>6 DEF Inv

-----------------------------------------------------------------------------
(* Decryption *)

LEMMA PartOfPart ==
  ASSUME NEW s, IsText(s), NEW a \in Nat, NEW b \in Nat, a <= b, b <= Len(s),
         NEW c \in Nat, NEW d \in Nat, c <= d, d <= b - a
  PROVE  Slice(Slice(s, a, b), c, d) = Slice(s, a + c, a + d)
  <1>1. PICK S : s \in Seq(S)
    BY DEF IsText
  <1>2. QED
    BY <1>1, SliceOfSlice

\* The block that decryption chains block i to.
Before(body, i) == IF i = 1 THEN Iv ELSE BlockAt(body, i - 1)

LEMMA BodyBlocks ==
  ASSUME NEW body, IsText(body), KnownBlocks(body)
  PROVE  /\ Count(body) \in Nat /\ Count(body) * BlockBytes <= Len(body) /\ Len(body) \in Nat
         /\ Len(body) < Count(body) * BlockBytes + BlockBytes /\ Count(body) * BlockBytes \in Nat
         /\ \A i \in 1 .. Count(body) :
              /\ KnownBlock(BlockAt(body, i)) /\ FileBlock(BlockAt(body, i))
              /\ FileBlock(Before(body, i))
  <1>1. /\ Count(body) \in Nat /\ Count(body) * BlockBytes <= Len(body) /\ Len(body) \in Nat
        /\ Len(body) < Count(body) * BlockBytes + BlockBytes
    BY TextFacts, BlockAssumption, Quotient DEF Count
  <1>2. Count(body) * BlockBytes \in Nat
    BY <1>1, BlockAssumption
  <1>3. \A i \in 1 .. Count(body) : KnownBlock(BlockAt(body, i)) /\ FileBlock(BlockAt(body, i))
    BY DecryptOfKnown DEF KnownBlocks
  <1>4. ASSUME NEW i \in 1 .. Count(body) PROVE FileBlock(Before(body, i))
    <2>1. CASE i = 1
      BY <2>1, IvFacts DEF Before
    <2>2. CASE i # 1
      <3>1. i - 1 \in 1 .. Count(body)
        BY <1>1, <2>2
      <3>2. QED
        BY <1>3, <2>2, <3>1 DEF Before
    <2>3. QED
      BY <2>1, <2>2
  <1>5. QED
    BY <1>1, <1>2, <1>3, <1>4

\* The blocks that decryption makes.
LEMMA DecryptedFacts ==
  ASSUME NEW body, IsText(body), KnownBlocks(body), NEW plain, plain = Unchain(body, Iv)
  PROVE  /\ IsWhole(plain) /\ Count(plain) = Count(body)
         /\ Len(plain) = Count(body) * BlockBytes
         /\ \A i \in 1 .. Count(body) :
              /\ BlockAt(plain, i) = XorBlock(DecryptBlock(BlockAt(body, i)), Before(body, i))
              /\ \A j \in 1 .. BlockBytes : IsByte(BlockAt(plain, i)[j])
         /\ AllBytes(plain)
  <1> DEFINE n == Count(body)
             x(i) == XorBlock(DecryptBlock(BlockAt(body, i)), Before(body, i))
             f == [i \in 1 .. n |-> x(i)]
  <1>1. plain = Joined(f, n)
    BY DEF Unchain, Count, Before
  <1>2. n \in Nat
    BY BodyBlocks
  <1> HIDE DEF f, n
  <1>3. /\ IsText(plain) /\ Len(plain) = n * BlockBytes
        /\ \A i \in 1 .. n : BlockAt(plain, i) = Block(f[i])
    BY <1>1, <1>2, JoinedFacts
  <1>4. IsWhole(plain) /\ Count(plain) = n
    BY <1>2, <1>3, CountFrom
  <1>5. ASSUME NEW i \in 1 .. n PROVE BlockAt(plain, i) = x(i)
    <2>1. Block(x(i)) = x(i)
      BY XorTwice
    <2>2. f[i] = x(i)
      BY DEF f
    <2>3. QED
      BY <1>3, <2>1, <2>2
  <1>6. ASSUME NEW i \in 1 .. n, NEW j \in 1 .. BlockBytes PROVE IsByte(BlockAt(plain, i)[j])
    <2> DEFINE d == DecryptBlock(BlockAt(body, i))
               e == Before(body, i)
    <2>1. KnownBlock(BlockAt(body, i)) /\ FileBlock(e)
      BY BodyBlocks DEF n
    <2>2. \A k \in 1 .. BlockBytes : IsByte(d[k])
      BY <2>1, DecryptOfKnown
    <2>3. \A k \in 1 .. BlockBytes : IsByte(e[k])
      BY <2>1, FileByteIsByte DEF FileBlock
    <2> HIDE DEF d, e
    <2>4. \A k \in 1 .. BlockBytes : IsByte(XorBlock(d, e)[k])
      BY <2>2, <2>3, XorOfBlocks
    <2>5. QED
      BY <1>5, <2>4 DEF d, e
  <1> HIDE DEF x
  <1>7. AllBytes(plain)
    <2>1. ASSUME NEW p \in 1 .. Len(plain) PROVE IsByte(plain[p])
      <3>1. p \in 1 .. n * BlockBytes
        BY <1>3
      <3>2. PICK i \in 1 .. n, j \in 1 .. BlockBytes : p = (i - 1) * BlockBytes + j
        BY <1>2, <3>1, PlaceOfByte
      <3>3. n * BlockBytes <= Len(plain)
        BY <1>2, <1>3, BlockAssumption
      <3>4. BlockAt(plain, i)[j] = plain[p]
        BY <1>2, <1>3, <3>2, <3>3, BlockAtFacts
      <3>5. QED
        BY <1>6, <3>4
    <2>2. QED
      BY <2>1 DEF AllBytes
  <1>8. QED
    BY <1>3, <1>4, <1>5, <1>6, <1>7 DEF n, x

\* The state of decryption, in names that do not change.
LEMMA DecryptState ==
  ASSUME Inv, call.op = "decrypt", pc \in {"loop", "last"}
  PROVE  /\ IvFits /\ UsedIv = Iv /\ IsText(Body) /\ KnownBlocks(Body)
         /\ call.padding \in Paddings /\ created /\ ~fault /\ ~lost /\ status = "none"
         /\ \E k \in 0 .. Count(Body) : DecryptedTo(k)
  BY DEF Inv, CallInv, GivenFile, DecryptInv

LEMMA FrontOfRest ==
  ASSUME NEW s, IsText(s), NEW a \in Nat, a <= Len(s), NEW rest, rest = Slice(s, a, Len(s))
  PROVE  /\ IsText(rest) /\ Len(rest) = Len(s) - a
         /\ \A c \in Nat : c <= Len(s) - a =>
              Take(rest, c) = Slice(s, a, a + c) /\ Drop(rest, c) = Slice(s, a + c, Len(s))
  <1>1. PICK n : n = Len(s)
    OBVIOUS
  <1>2. n \in Nat /\ a <= n /\ n <= n
    BY <1>1, TextFacts
  <1>3. IsText(Slice(s, a, n)) /\ Len(Slice(s, a, n)) = n - a
    BY <1>1, <1>2, PartFacts
  <1>4. ASSUME NEW c \in Nat, c <= n - a
        PROVE  Take(rest, c) = Slice(s, a, a + c) /\ Drop(rest, c) = Slice(s, a + c, n)
    <2>1. /\ 0 \in Nat /\ 0 <= c /\ n - a \in Nat /\ n - a <= n - a /\ a + 0 = a
          /\ a + (n - a) = n
      BY <1>2, <1>4
    <2>2. Slice(Slice(s, a, n), 0, c) = Slice(s, a + 0, a + c)
      BY <1>1, <1>2, <1>4, <2>1, PartOfPart
    <2>3. Slice(Slice(s, a, n), c, n - a) = Slice(s, a + c, a + (n - a))
      BY <1>1, <1>2, <1>4, <2>1, PartOfPart
    <2>4. rest = Slice(s, a, n) /\ Len(rest) = n - a
      BY <1>1, <1>3
    <2>5. Take(rest, c) = Slice(rest, 0, c) /\ Drop(rest, c) = Slice(rest, c, Len(rest))
      BY TakeSlice
    <2>6. QED
      BY <2>1, <2>2, <2>3, <2>4, <2>5
  <1>5. QED
    BY <1>1, <1>3, <1>4

\* A block is there when as many bytes are.
LEMMA NextBlock ==
  ASSUME NEW body, IsText(body), KnownBlocks(body), NEW k \in 0 .. Count(body),
         NEW rest, rest = Slice(body, k * BlockBytes, Len(body))
  PROVE  /\ k \in Nat /\ k * BlockBytes \in Nat /\ Len(rest) = Len(body) - k * BlockBytes
         /\ Len(rest) \in Nat
         /\ Len(rest) >= BlockBytes =>
              /\ k + 1 \in 1 .. Count(body)
              /\ Take(rest, BlockBytes) = BlockAt(body, k + 1)
              /\ Drop(rest, BlockBytes) = Slice(body, (k + 1) * BlockBytes, Len(body))
         /\ Len(rest) < BlockBytes => k = Count(body) /\ Len(body) % BlockBytes = Len(rest)
  <1> DEFINE n == Count(body)
             a == k * BlockBytes
  <1>1. /\ n \in Nat /\ n * BlockBytes \in Nat /\ n * BlockBytes <= Len(body)
        /\ Len(body) < n * BlockBytes + BlockBytes /\ Len(body) \in Nat
    BY BodyBlocks
  <1>2. k \in Nat /\ k <= n /\ BlockBytes \in Nat /\ BlockBytes > 0
    BY <1>1, BlockAssumption
  <1>3. a \in Nat /\ (k + 1) * BlockBytes = a + BlockBytes
    BY <1>2
  <1>4. k < n => a + BlockBytes <= n * BlockBytes
    <2>1. SUFFICES ASSUME k < n PROVE a + BlockBytes <= n * BlockBytes
      OBVIOUS
    <2>2. k + 1 \in 1 .. n
      BY <1>1, <1>2, <2>1
    <2>3. (k + 1) * BlockBytes <= n * BlockBytes
      BY <1>1, <2>2, BlockPlace
    <2>4. QED
      BY <1>3, <2>3
  <1>5. k = n => a = n * BlockBytes
    OBVIOUS
  <1>6. a <= Len(body)
    <2> HIDE DEF a, n
    <2>1. QED
      BY <1>1, <1>2, <1>3, <1>4, <1>5
  <1>7. Len(rest) = Len(body) - a /\ Len(rest) \in Nat
    <2>1. Len(rest) = Len(body) - a
      BY <1>3, <1>6, FrontOfRest
    <2> HIDE DEF a
    <2>2. QED
      BY <1>1, <1>3, <1>6, <2>1
  <1>8. ASSUME Len(rest) >= BlockBytes
        PROVE  /\ k + 1 \in 1 .. n /\ Take(rest, BlockBytes) = BlockAt(body, k + 1)
               /\ Drop(rest, BlockBytes) = Slice(body, (k + 1) * BlockBytes, Len(body))
    <2>1. k < n
      <3> HIDE DEF a, n
      <3>1. QED
        BY <1>1, <1>2, <1>3, <1>5, <1>7, <1>8
    <2>2. k + 1 \in 1 .. n
      BY <1>1, <1>2, <2>1
    <2>3. BlockAt(body, k + 1) = Slice(body, a, a + BlockBytes)
      <3>1. BlockAt(body, k + 1) = Slice(body, ((k + 1) - 1) * BlockBytes, (k + 1) * BlockBytes)
        BY <1>1, <2>2, BlockAtFacts
      <3>2. (k + 1) - 1 = k
        BY <1>2
      <3>3. QED
        BY <1>3, <3>1, <3>2
    <2>4. BlockBytes <= Len(body) - a
      BY <1>7, <1>8
    <2>5. /\ Take(rest, BlockBytes) = Slice(body, a, a + BlockBytes)
          /\ Drop(rest, BlockBytes) = Slice(body, a + BlockBytes, Len(body))
      BY <1>2, <1>3, <1>6, <2>4, FrontOfRest
    <2>6. QED
      BY <1>3, <2>2, <2>3, <2>5
  <1>9. ASSUME Len(rest) < BlockBytes PROVE k = n /\ Len(body) % BlockBytes = Len(rest)
    <2>1. k = n
      <3> HIDE DEF a, n
      <3>1. QED
        BY <1>1, <1>2, <1>3, <1>4, <1>7, <1>9
    <2>2. Len(rest) \in 0 .. BlockBytes - 1 /\ Len(body) = a + Len(rest)
      <3> HIDE DEF a, n
      <3>1. QED
        BY <1>1, <1>2, <1>3, <1>7, <1>9
    <2>3. (a + Len(rest)) % BlockBytes = Len(rest)
      BY <1>2, <2>2, WholeBlocks
    <2>4. QED
      BY <2>1, <2>2, <2>3
  <1>10. QED
    BY <1>2, <1>3, <1>7, <1>8, <1>9

\* A turn decrypts the next block and writes the one before.
LEMMA DecryptTurnStep ==
  ASSUME Inv, DecryptTurn
  PROVE  DecryptInv' /\ Len(prev') = BlockBytes /\ Len(held') = BlockBytes
  <1>1. /\ call.op = "decrypt" /\ pc = "loop" /\ call' = call /\ Len(fin) >= BlockBytes
        /\ fin' = Drop(fin, BlockBytes) /\ out' = out \o held
        /\ held' = XorBlock(DecryptBlock(Take(fin, BlockBytes)), prev)
        /\ prev' = Take(fin, BlockBytes)
    BY DEF DecryptTurn, Unchained
  <1>2. PICK k \in 0 .. Count(Body) : DecryptedTo(k)
    BY <1>1, DecryptState
  <1>3. PICK body, plain : body = Body /\ plain = Decrypted
    OBVIOUS
  <1>4. IsText(body) /\ KnownBlocks(body) /\ UsedIv = Iv /\ plain = Unchain(body, Iv)
    BY <1>1, <1>3, DecryptState DEF Decrypted
  <1>5. /\ fin = Slice(body, k * BlockBytes, Len(body))
        /\ prev = IF k = 0 THEN Iv ELSE BlockAt(body, k)
        /\ held = IF k = 0 THEN <<>> ELSE BlockAt(plain, k)
        /\ out = IF k = 0 THEN <<>> ELSE Take(plain, (k - 1) * BlockBytes)
    BY <1>2, <1>3, <1>4 DEF DecryptedTo
  <1>6. PICK n : n = Count(body)
    OBVIOUS
  <1>7. n \in Nat /\ k \in 0 .. n /\ k \in Nat
    BY <1>3, <1>4, <1>6, BodyBlocks
  <1>8. k + 1 \in 1 .. n
    BY <1>1, <1>3, <1>4, <1>5, <1>6, NextBlock
  <1>9. Take(fin, BlockBytes) = BlockAt(body, k + 1)
    BY <1>1, <1>3, <1>4, <1>5, <1>6, NextBlock
  <1>10. fin' = Slice(body, (k + 1) * BlockBytes, Len(body))
    BY <1>1, <1>3, <1>4, <1>5, <1>6, NextBlock
  <1>11. prev = Before(body, k + 1)
    <2>1. (k + 1 = 1 <=> k = 0) /\ (k + 1) - 1 = k
      BY <1>7
    <2>2. QED
      BY <1>5, <2>1 DEF Before
  <1>12. held' = BlockAt(plain, k + 1)
    BY <1>1, <1>4, <1>6, <1>8, <1>9, <1>11, DecryptedFacts
  <1>13. IsText(plain) /\ Len(plain) = n * BlockBytes /\ n * BlockBytes \in Nat
    BY <1>4, <1>6, DecryptedFacts, BodyBlocks DEF IsWhole
  <1>14. out' = Take(plain, k * BlockBytes)
    <2>1. CASE k = 0
      <3>1. out' = <<>>
        BY <1>1, <1>5, <2>1, EmptyText, ConcatEmpty
      <3>2. 0 * BlockBytes = 0 /\ 0 <= Len(plain) /\ 0 \in Nat /\ 0 <= 0
            /\ Len(plain) <= Len(plain)
        BY <1>13, BlockAssumption
      <3>3. Slice(plain, 0, 0) = <<>>
        BY <1>13, <3>2, PartsJoin
      <3>4. Take(plain, 0) = Slice(plain, 0, 0)
        BY TakeSlice
      <3>5. QED
        BY <2>1, <3>1, <3>2, <3>3, <3>4
    <2>2. CASE k # 0
      <3> DEFINE a == (k - 1) * BlockBytes
                 b == k * BlockBytes
      <3>1. k \in 1 .. n
        BY <1>7, <2>2
      <3>2. a \in Nat /\ b \in Nat /\ b = a + BlockBytes /\ b <= n * BlockBytes
        BY <1>7, <3>1, BlockPlace
      <3>3. out' = Take(plain, a) \o BlockAt(plain, k)
        BY <1>1, <1>5, <2>2
      <3>4. Len(plain) \in Nat /\ n * BlockBytes <= Len(plain)
        BY <1>13
      <3>5. BlockAt(plain, k) = Slice(plain, a, b)
        BY <1>7, <1>13, <3>1, <3>4, BlockAtFacts
      <3>6. Take(plain, a) = Slice(plain, 0, a) /\ Take(plain, b) = Slice(plain, 0, b)
        BY TakeSlice
      <3> HIDE DEF a, b
      <3>7. 0 \in Nat /\ 0 <= a /\ a <= b /\ b <= Len(plain)
        BY <1>13, <3>2, BlockAssumption
      <3>8. Slice(plain, 0, a) \o Slice(plain, a, b) = Slice(plain, 0, b)
        BY <1>13, <3>2, <3>7, PartsJoin
      <3>9. QED
        BY <3>3, <3>5, <3>6, <3>8 DEF b
    <2>3. QED
      BY <2>1, <2>2
  <1>15. DecryptedTo(k + 1)'
    <2>1. k + 1 # 0 /\ (k + 1) - 1 = k
      BY <1>7
    <2>2. Body' = body /\ Decrypted' = plain
      BY <1>1, <1>3, SameFile, SameDecrypted
    <2>3. QED
      BY <1>1, <1>9, <1>10, <1>12, <1>14, <2>1, <2>2 DEF DecryptedTo
  <1>16. k + 1 \in 0 .. Count(Body')
    <2>1. Count(Body') = n
      BY <1>1, <1>3, <1>6, SameFile
    <2>2. QED
      BY <1>7, <1>8, <2>1
  <1>17. DecryptInv'
    BY <1>15, <1>16 DEF DecryptInv
  <1>18. Len(prev') = BlockBytes
    <2>1. n * BlockBytes <= Len(body)
      BY <1>4, <1>6, BodyBlocks
    <2>2. QED
      BY <1>1, <1>4, <1>7, <1>8, <1>9, <2>1, BlockAtFacts
  <1>19. Len(held') = BlockBytes
    <2>1. n * BlockBytes <= Len(plain)
      BY <1>13
    <2>2. QED
      BY <1>7, <1>8, <1>12, <1>13, <2>1, BlockAtFacts
  <1>20. QED
    BY <1>17, <1>18, <1>19

LEMMA DecryptTurnKeeps == ASSUME Inv, DecryptTurn PROVE Inv'
  <1>1. /\ call.op = "decrypt" /\ pc = "loop" /\ call' = call /\ created' = created
        /\ status' = status /\ fault' = fault /\ lost' = lost /\ pc' = pc
    BY DEF DecryptTurn
  <1>2. DecryptInv' /\ Len(prev') = BlockBytes /\ Len(held') = BlockBytes
    BY DecryptTurnStep
  <1>3. TypeOK'
    BY <1>1, <1>2 DEF Inv, TypeOK
  <1>4. CallInv'
    <2>1. IvFits' = IvFits
      BY <1>1, SameFile
    <2>2. QED
      BY <1>1, <2>1 DEF Inv, CallInv
  <1>5. GivenFile'
    BY <1>1, SameFile DEF Inv
  <1>6. EncryptInv' /\ EncryptsAsOneShot' /\ DecryptDone'
    BY <1>1 DEF EncryptInv, EncryptsAsOneShot, DecryptDone, Ended
  <1>7. QED
    BY <1>2, <1>3, <1>4, <1>5, <1>6 DEF Inv

LEMMA RaggedStep == ASSUME Inv, RaggedEnd PROVE Inv'
  <1>1. /\ call.op = "decrypt" /\ pc = "loop" /\ call' = call /\ created' = created
        /\ status' = "IO_ERROR" /\ fault' = FALSE /\ lost' = lost /\ pc' = "returned"
        /\ fin' = fin /\ prev' = prev /\ held' = held /\ out' = out
        /\ Len(fin) \in 1 .. BlockBytes - 1
    BY DEF RaggedEnd, Return
  <1>2. PICK k \in 0 .. Count(Body) : DecryptedTo(k)
    BY <1>1, DecryptState
  <1>3. IsText(Body) /\ KnownBlocks(Body) /\ ~lost /\ call.padding \in Paddings
    BY <1>1, DecryptState
  <1>4. FileStatus = "IO_ERROR"
    <2>1. PICK body : body = Body
      OBVIOUS
    <2>2. fin = Slice(body, k * BlockBytes, Len(body))
      BY <1>2, <2>1 DEF DecryptedTo
    <2>3. Len(fin) # 0 /\ Len(fin) < BlockBytes
      BY <1>1, BlockAssumption
    <2>4. Len(body) % BlockBytes = Len(fin)
      BY <1>3, <2>1, <2>2, <2>3, NextBlock
    <2>5. body # <<>>
      <3>1. Len(<<>>) = 0 * BlockBytes
        BY EmptyText, BlockAssumption
      <3>2. Len(<<>>) % BlockBytes = 0
        BY <3>1, EmptyText, CountFrom DEF IsWhole
      <3>3. QED
        BY <2>3, <2>4, <3>2
    <2>6. QED
      BY <2>1, <2>3, <2>4, <2>5 DEF FileStatus
  <1>5. DecryptDone'
    <2>1. FileStatus' = FileStatus
      BY <1>1, SameDecrypted
    <2>2. QED
      BY <1>1, <1>4, <2>1 DEF DecryptDone
  <1>6. TypeOK'
    BY <1>1 DEF Inv, TypeOK
  <1>7. CallInv'
    BY <1>1, <1>3 DEF Inv, CallInv
  <1>8. GivenFile'
    BY <1>1, SameFile DEF Inv
  <1>9. EncryptInv' /\ DecryptInv' /\ EncryptsAsOneShot'
    BY <1>1 DEF EncryptInv, DecryptInv, EncryptsAsOneShot, Ended
  <1>10. QED
    BY <1>5, <1>6, <1>7, <1>8, <1>9 DEF Inv

\* The last block of what decryption makes, as numbers.
LEMMA LastPlainFacts ==
  ASSUME NEW body, IsText(body), KnownBlocks(body), NEW n, n = Count(body), n # 0,
         NEW plain, plain = Unchain(body, Iv), NEW last, last = BlockAt(plain, n)
  PROVE  /\ n \in 1 .. n /\ IsText(last) /\ Len(last) = BlockBytes /\ AllBytes(last)
         /\ Values(last) \in Seq(Int) /\ Len(Values(last)) = BlockBytes
         /\ (n - 1) * BlockBytes \in Nat /\ Len(plain) = (n - 1) * BlockBytes + BlockBytes
         /\ last = Slice(plain, (n - 1) * BlockBytes, Len(plain))
  <1>1. n \in Nat /\ n \in 1 .. n
    BY BodyBlocks
  <1>2. /\ IsText(plain) /\ Len(plain) = n * BlockBytes /\ n * BlockBytes <= Len(plain)
    <2>1. IsText(plain) /\ Len(plain) = n * BlockBytes
      BY DecryptedFacts DEF IsWhole
    <2>2. n * BlockBytes \in Nat
      BY <1>1, BlockPlace
    <2>3. QED
      BY <2>1, <2>2
  <1>3. /\ IsText(last) /\ Len(last) = BlockBytes
        /\ last = Slice(plain, (n - 1) * BlockBytes, n * BlockBytes)
    BY <1>1, <1>2, BlockAtFacts
  <1>4. AllBytes(last)
    <2>1. \A j \in 1 .. BlockBytes : IsByte(last[j])
      BY <1>1, DecryptedFacts
    <2>2. QED
      BY <1>3, <2>1 DEF AllBytes
  <1>5. Values(last) \in Seq(Int) /\ Len(Values(last)) = BlockBytes
    BY <1>3, <1>4, ValuesFacts
  <1>6. (n - 1) * BlockBytes \in Nat /\ n * BlockBytes = (n - 1) * BlockBytes + BlockBytes
    BY <1>1, BlockPlace
  <1>7. QED
    BY <1>1, <1>2, <1>3, <1>4, <1>5, <1>6

\* Whole blocks that are not none.
LEMMA BlocksOfBody ==
  ASSUME NEW body, IsText(body), Len(body) % BlockBytes = 0
  PROVE  Count(body) \in Nat /\ (Count(body) = 0 <=> body = <<>>)
  <1>1. Count(body) \in Nat /\ Len(body) = Count(body) * BlockBytes
    BY WholeCount DEF IsWhole
  <1>2. Count(body) = 0 => body = <<>>
    <2>1. Count(body) = 0 => Len(body) = 0
      BY <1>1, BlockAssumption
    <2>2. QED
      BY <2>1, EmptyText
  <1>3. body = <<>> => Count(body) = 0
    <2>1. ASSUME body = <<>> PROVE Count(body) = 0
      <3>1. Len(body) = 0 * BlockBytes
        BY <2>1, EmptyText, BlockAssumption
      <3>2. QED
        BY <3>1, CountFrom
    <2>2. QED
      BY <2>1
  <1>4. QED
    BY <1>1, <1>2, <1>3

LEMMA TakeMore ==
  ASSUME NEW s, IsText(s), NEW a \in Nat, NEW b \in Nat, a <= b, b <= Len(s)
  PROVE  Take(s, a) \o Slice(s, a, b) = Take(s, b)
  <1>1. 0 \in Nat /\ 0 <= a
    OBVIOUS
  <1>2. Slice(s, 0, a) \o Slice(s, a, b) = Slice(s, 0, b)
    BY <1>1, PartsJoin
  <1>3. QED
    BY <1>2, TakeSlice

\* What is left of a file's whole blocks.
LEMMA PlaintextFacts ==
  ASSUME NEW body, IsText(body), KnownBlocks(body), NEW n, n = Count(body), n # 0,
         NEW plain, plain = Unchain(body, Iv), NEW last, last = BlockAt(plain, n),
         NEW padding \in Paddings, NEW m, m = Remove(Values(last), padding).len
  PROVE  /\ m \in 0 .. BlockBytes /\ (n - 1) * BlockBytes + m \in 0 .. Len(plain)
         /\ IsText(Take(plain, (n - 1) * BlockBytes + m))
         /\ Take(plain, (n - 1) * BlockBytes) \o Take(last, m)
              = Take(plain, (n - 1) * BlockBytes + m)
  <1>1. PICK a : a = (n - 1) * BlockBytes
    OBVIOUS
  <1>2. /\ Values(last) \in Seq(Int) /\ Len(Values(last)) = BlockBytes
        /\ a \in Nat /\ Len(plain) = a + BlockBytes
    BY <1>1, LastPlainFacts
  <1>3. last = Slice(plain, a, Len(plain))
    BY <1>1, LastPlainFacts
  <1>4. m \in 0 .. BlockBytes
    BY <1>2, StripFacts
  <1>5. IsText(plain)
    BY DecryptedFacts DEF IsWhole
  <1>6. /\ m \in Nat /\ m <= BlockBytes /\ a + m \in Nat /\ a + m <= Len(plain) /\ a <= Len(plain)
        /\ m <= Len(plain) - a /\ a <= a + m /\ 0 <= a /\ 0 \in Nat /\ a + m \in 0 .. Len(plain)
    BY <1>2, <1>4, BlockAssumption
  <1>7. IsText(Take(plain, a + m))
    BY <1>5, <1>6, TakeDrop
  <1>8. Take(last, m) = Slice(plain, a, a + m)
    BY <1>2, <1>3, <1>5, <1>6, FrontOfRest
  <1>9. Take(plain, a) \o Slice(plain, a, a + m) = Take(plain, a + m)
    BY <1>2, <1>5, <1>6, TakeMore
  <1>10. Take(plain, a) \o Take(last, m) = Take(plain, a + m)
    BY <1>8, <1>9
  <1>11. QED
    BY <1>1, <1>4, <1>6, <1>7, <1>10

LEMMA PlaintextParts ==
  ASSUME NEW body, IsText(body), KnownBlocks(body), Count(body) # 0, NEW padding \in Paddings
  PROVE  LET n     == Count(body)
             plain == Unchain(body, Iv)
             last  == BlockAt(plain, n)
             m     == Remove(Values(last), padding).len
         IN  Take(plain, (n - 1) * BlockBytes) \o Take(last, m)
               = Take(plain, (n - 1) * BlockBytes + m)
  BY PlaintextFacts

LEMMA PlaintextText ==
  ASSUME GivenFile, IvFits, call.op = "decrypt", call.padding \in Paddings, FileStatus = "OK"
  PROVE  IsText(Plaintext)
  <1>1. PICK body, plain, n, padding :
          body = Body /\ plain = Decrypted /\ n = Count(body) /\ padding = call.padding
    OBVIOUS
  <1>2. IsText(body) /\ KnownBlocks(body) /\ plain = Unchain(body, Iv)
    BY <1>1 DEF GivenFile, Decrypted
  <1>3. body # <<>> /\ Len(body) % BlockBytes = 0
    BY <1>1 DEF FileStatus
  <1>4. n # 0
    BY <1>1, <1>2, <1>3, BlocksOfBody
  <1>5. PICK last, m : last = BlockAt(plain, n) /\ m = Remove(Values(last), padding).len
    OBVIOUS
  <1>6. IsText(Take(plain, (n - 1) * BlockBytes + m))
    BY <1>1, <1>2, <1>4, <1>5, PlaintextFacts
  <1>7. Plaintext = Take(plain, (n - 1) * BlockBytes + m)
    BY <1>1, <1>5 DEF Plaintext, LastPlain
  <1>8. QED
    BY <1>6, <1>7

\* The last block gives the status, and completes the output.
LEMMA DecryptLastStep == ASSUME Inv, DecryptLast PROVE DecryptDone'
  <1>1. call.op = "decrypt" /\ pc = "last" /\ call' = call /\ lost' = lost /\ fault' = FALSE
    BY DEF DecryptLast, Return
  <1>2. /\ IsText(Body) /\ KnownBlocks(Body) /\ UsedIv = Iv /\ ~lost
        /\ call.padding \in Paddings
    BY <1>1, DecryptState
  <1>3. PICK k \in 0 .. Count(Body) : DecryptedTo(k)
    BY <1>1, DecryptState
  <1>4. PICK body, plain, padding, n :
          body = Body /\ plain = Decrypted /\ padding = call.padding /\ n = Count(body)
    OBVIOUS
  <1>5. /\ IsText(body) /\ KnownBlocks(body) /\ plain = Unchain(body, Iv)
        /\ padding \in Paddings
    BY <1>2, <1>4 DEF Decrypted
  <1>6. /\ fin = Slice(body, k * BlockBytes, Len(body)) /\ k \in 0 .. n
        /\ held = IF k = 0 THEN <<>> ELSE BlockAt(plain, k)
        /\ out = IF k = 0 THEN <<>> ELSE Take(plain, (k - 1) * BlockBytes)
    BY <1>3, <1>4 DEF DecryptedTo
  <1>7. fin = <<>>
    BY <1>1 DEF Inv, CallInv
  <1>8. k = n /\ Len(body) % BlockBytes = 0
    <2>1. Len(fin) = 0 /\ Len(fin) < BlockBytes
      BY <1>7, EmptyText, BlockAssumption
    <2>2. k = n /\ Len(body) % BlockBytes = Len(fin)
      BY <1>4, <1>5, <1>6, <2>1, NextBlock
    <2>3. QED
      BY <2>1, <2>2
  <1>9. n \in Nat /\ (n = 0 <=> body = <<>>)
    BY <1>4, <1>5, <1>8, BlocksOfBody
  <1>10. FileStatus' = FileStatus /\ Plaintext' = Plaintext
    BY <1>1, SameDecrypted
  <1>11. CASE n = 0
    <2>1. held = <<>> /\ body = <<>>
      BY <1>6, <1>8, <1>9, <1>11
    <2>2. status' = "BAD_PADDING"
      BY <2>1 DEF DecryptLast, Return
    <2>3. FileStatus = "BAD_PADDING"
      BY <1>4, <2>1 DEF FileStatus
    <2>4. QED
      BY <1>10, <2>2, <2>3 DEF DecryptDone
  <1>12. CASE n # 0
    <2>1. PICK last, m, st : /\ last = BlockAt(plain, n) /\ m = Remove(Values(last), padding).len
                             /\ st = Remove(Values(last), padding).status
      OBVIOUS
    <2>2. held = last /\ out = Take(plain, (n - 1) * BlockBytes)
      BY <1>6, <1>8, <1>12, <2>1
    <2>3. held # <<>>
      <3>1. Len(last) = BlockBytes
        BY <1>4, <1>5, <1>12, <2>1, LastPlainFacts
      <3>2. QED
        BY <2>2, <3>1, EmptyText, BlockAssumption
    <2>4. status' = st /\ out' = out \o Take(last, m)
      BY <1>4, <2>1, <2>2, <2>3 DEF DecryptLast, Return
    <2>5. out' = Take(plain, (n - 1) * BlockBytes + m)
      <3>1. Take(plain, (n - 1) * BlockBytes) \o Take(last, m)
              = Take(plain, (n - 1) * BlockBytes + m)
        BY <1>4, <1>5, <1>12, <2>1, PlaintextParts
      <3>2. QED
        BY <2>2, <2>4, <3>1
    <2>6. FileStatus = st
      BY <1>4, <1>8, <1>9, <1>12, <2>1 DEF FileStatus, LastPlain
    <2>7. Plaintext = Take(plain, (n - 1) * BlockBytes + m)
      BY <1>4, <2>1 DEF Plaintext, LastPlain
    <2>8. Written(Plaintext)'
      <3>1. out' = Plaintext'
        BY <1>10, <2>5, <2>7
      <3>2. ~lost'
        BY <1>1, <1>2
      <3>3. QED
        BY <3>1, <3>2 DEF Written
    <2>9. QED
      BY <1>10, <2>4, <2>6, <2>8 DEF DecryptDone
  <1>13. QED
    BY <1>11, <1>12

LEMMA DecryptLastKeeps == ASSUME Inv, DecryptLast PROVE Inv'
  <1>1. /\ call.op = "decrypt" /\ pc = "last" /\ call' = call /\ created' = created
        /\ fin' = fin /\ prev' = prev /\ held' = held /\ fault' = FALSE /\ lost' = lost
        /\ pc' = "returned"
    BY DEF DecryptLast, Return
  <1>2. DecryptDone'
    BY DecryptLastStep
  <1>3. TypeOK'
    BY <1>1 DEF Inv, TypeOK
  <1>4. CallInv'
    <2>1. ~lost /\ call.padding \in Paddings
      BY <1>1 DEF Inv, CallInv
    <2>2. QED
      BY <1>1, <2>1 DEF Inv, CallInv
  <1>5. GivenFile'
    BY <1>1, SameFile DEF Inv
  <1>6. EncryptInv' /\ DecryptInv' /\ EncryptsAsOneShot'
    BY <1>1 DEF EncryptInv, DecryptInv, EncryptsAsOneShot, Ended
  <1>7. QED
    BY <1>2, <1>3, <1>4, <1>5, <1>6 DEF Inv

LEMMA CloseStep == ASSUME Inv, CloseFails PROVE Inv'
  <1>1. /\ pc = "returned" /\ status = "OK" /\ ~lost /\ lost' = TRUE
        /\ call' = call /\ pc' = pc /\ fin' = fin /\ prev' = prev /\ held' = held
        /\ created' = created /\ status' = status /\ fault' = fault
    BY DEF CloseFails
  <1>2. PICK n \in 0 .. Len(out) - 1 : out' = Take(out, n)
    BY DEF CloseFails
  <1>3. TypeOK'
    BY <1>1 DEF Inv, TypeOK
  <1>4. CallInv'
    BY <1>1 DEF Inv, CallInv
  <1>5. GivenFile'
    BY <1>1, SameFile DEF Inv
  <1>6. EncryptInv' /\ DecryptInv'
    BY <1>1 DEF EncryptInv, DecryptInv
  <1>7. EncryptsAsOneShot'
    <2>1. SUFFICES ASSUME Ended("encrypt")
                   PROVE  LET one == EncryptBuffer(call.file, Iv, call.padding)
                          IN  /\ ~fault => status = one.status
                              /\ one.status = "OK"
                              /\ Written(Header \o one.out)'
      BY <1>1 DEF EncryptsAsOneShot, Ended, Header
    <2> DEFINE one == EncryptBuffer(call.file, Iv, call.padding)
               bytes == Header \o one.out
    <2>2. call.op = "encrypt" /\ call.padding \in Paddings
      BY <2>1 DEF Ended, Inv, CallInv
    <2>3. (~fault => status = one.status) /\ one.status = "OK" /\ Written(bytes)
      BY <1>1, <2>1 DEF Inv, EncryptsAsOneShot, Header
    <2>4. SizeStatus(Len(call.file), call.padding) = "OK"
      BY <2>3, EncryptBufferFacts
    <2>5. IsText(one.out)
      BY <2>2, <2>4, OneShotText DEF Inv
    <2>6. bytes' = bytes
      BY <1>1 DEF Header
    <2>7. IsText(Header)
      BY HeaderText DEF Inv
    <2> HIDE DEF one
    <2>8. IsText(bytes)
      BY <2>5, <2>7, TextConcat
    <2> HIDE DEF bytes
    <2>9. out' = IF Len(out') < Len(bytes) THEN Take(bytes, Len(out')) ELSE bytes
      BY <1>1, <1>2, <2>3, <2>8, LosesEnd
    <2>10. Written(bytes)'
      BY <1>1, <2>6, <2>9 DEF Written
    <2>11. QED
      BY <2>3, <2>10 DEF one, bytes
  <1>8. DecryptDone'
    <2>1. SUFFICES ASSUME Ended("decrypt"), IvFits
                   PROVE  (~fault => status = FileStatus) /\ FileStatus = "OK"
                          /\ Written(Plaintext)'
      BY <1>1, SameFile, SameDecrypted DEF DecryptDone, Ended
    <2>2. call.op = "decrypt" /\ call.padding \in Paddings
      BY <2>1 DEF Ended, Inv, CallInv
    <2>3. (~fault => status = FileStatus) /\ FileStatus = "OK" /\ Written(Plaintext)
      BY <1>1, <2>1 DEF Inv, DecryptDone
    <2>4. IsText(Plaintext)
      BY <2>1, <2>2, <2>3, PlaintextText DEF Inv
    <2>5. Plaintext' = Plaintext
      BY <1>1, SameDecrypted
    <2>6. out' = IF Len(out') < Len(Plaintext) THEN Take(Plaintext, Len(out')) ELSE Plaintext
      BY <1>1, <1>2, <2>3, <2>4, LosesEnd
    <2>7. Written(Plaintext)'
      BY <1>1, <2>5, <2>6 DEF Written
    <2>8. QED
      BY <2>3, <2>7
  <1>9. QED
    BY <1>3, <1>4, <1>5, <1>6, <1>7, <1>8 DEF Inv

-----------------------------------------------------------------------------
(* The invariant *)

LEMMA InitInv == Init => Inv
  <1> SUFFICES ASSUME Init PROVE Inv
    OBVIOUS
  <1>1. GivenFile
    BY InitFile
  <1>2. PICK op \in {"encrypt", "decrypt"}, padding \in Paddings \cup {"other"},
             prefix_iv \in BOOLEAN, text \in Texts :
          /\ \E file \in InputFiles(op, prefix_iv, text) :
               call = [op |-> op, padding |-> padding, prefix_iv |-> prefix_iv, file |-> file]
          /\ IF padding \in Paddings
               THEN pc = "open" /\ status = "none"
               ELSE pc = "returned" /\ status = "UNSUPPORTED"
    BY DEF Init
  <1>3. /\ call.op \in {"encrypt", "decrypt"} /\ call.padding \in Paddings \cup {"other"}
        /\ call.prefix_iv \in BOOLEAN
        /\ IF call.padding \in Paddings
             THEN pc = "open" /\ status = "none"
             ELSE pc = "returned" /\ status = "UNSUPPORTED"
    BY <1>2
  <1>4. /\ prev = Iv /\ held = <<>> /\ out = <<>> /\ created = FALSE /\ fault = FALSE
        /\ lost = FALSE
    BY DEF Init
  <1>5. TypeOK
    <2>1. Len(prev) = BlockBytes /\ Len(held) = 0
      BY <1>4, IvFacts, EmptyText
    <2>2. Len(held) < BlockBytes /\ Len(held) \in {0, BlockBytes}
      BY <2>1, BlockAssumption
    <2>3. pc \in {"open", "loop", "last", "returned"}
      BY <1>3
    <2>4. created \in BOOLEAN /\ fault \in BOOLEAN /\ lost \in BOOLEAN
      BY <1>4
    <2>5. QED
      BY <1>3, <2>1, <2>2, <2>3, <2>4 DEF TypeOK
  <1>6. CallInv
    BY <1>3, <1>4 DEF CallInv
  <1>7. EncryptInv /\ DecryptInv
    BY <1>3 DEF EncryptInv, DecryptInv
  <1>8. EncryptsAsOneShot /\ DecryptDone
    BY <1>4 DEF EncryptsAsOneShot, DecryptDone, Ended
  <1>9. QED
    BY <1>1, <1>5, <1>6, <1>7, <1>8 DEF Inv

LEMMA NextInv == Inv /\ [Next]_vars => Inv'
  <1> SUFFICES ASSUME Inv, [Next]_vars PROVE Inv'
    OBVIOUS
  <1>1. CASE OpenFails \/ ReadFails \/ WriteFails \/ LastFails
    BY <1>1, FailingSteps
  <1>2. CASE NoIv
    BY <1>2, NoIvStep
  <1>3. CASE Open
    BY <1>3, OpenStep
  <1>4. CASE EndOfFile
    BY <1>4, EndOfFileStep
  <1>5. CASE EncryptTurn
    BY <1>5, EncryptTurnKeeps
  <1>6. CASE DecryptTurn
    BY <1>6, DecryptTurnKeeps
  <1>7. CASE RaggedEnd
    BY <1>7, RaggedStep
  <1>8. CASE EncryptLast
    BY <1>8, EncryptLastKeeps
  <1>9. CASE DecryptLast
    BY <1>9, DecryptLastKeeps
  <1>10. CASE CloseFails
    BY <1>10, CloseStep
  <1>11. CASE Returned \/ UNCHANGED vars
    BY <1>11, SameState DEF Returned
  <1>12. QED
    BY <1>1, <1>2, <1>3, <1>4, <1>5, <1>6, <1>7, <1>8, <1>9, <1>10, <1>11 DEF Next

\* In every state the output is the encryption of the whole blocks read, or the decryption of
\* all blocks read but the last; a call that has returned has written what the one-shot call
\* would, or failed.
THEOREM CbcInvariant == Spec => []Inv
  <1>1. QED
    BY InitInv, NextInv, PTL DEF Spec

\* The carry of an encryption is shorter than a block, and what decryption holds back is nothing
\* or a block, in every file, buffer size and block size.
THEOREM CbcTypeCorrect == Spec => []TypeOK
  <1>1. Inv => TypeOK
    BY DEF Inv
  <1>2. QED
    BY <1>1, CbcInvariant, PTL

\* A file encrypted by buffers of any size is the one-shot encryption of its contents, and
\* nothing but an fclose that fails leaves OK with less.
THEOREM CbcEncryption == Spec => []EncryptsAsOneShot
  <1>1. Inv => EncryptsAsOneShot
    BY DEF Inv
  <1>2. QED
    BY <1>1, CbcInvariant, PTL

-----------------------------------------------------------------------------
(* Decryption by blocks and in one call *)

Zeros(n) == [i \in 1 .. n |-> Plain(0)]

LEMMA ZerosFacts ==
  ASSUME NEW n \in Nat
  PROVE  /\ IsText(Zeros(n)) /\ Len(Zeros(n)) = n /\ Zeros(0) = <<>>
         /\ \A i \in 1 .. n : Zeros(n)[i] = Plain(0)
  <1>1. IsText(Zeros(n)) /\ Len(Zeros(n)) = n
    <2>1. Zeros(n) = [i \in 1 .. n |-> Zeros(n)[i]]
      BY DEF Zeros
    <2>2. QED
      BY <2>1, TextFrom
  <1>2. Zeros(0) = <<>>
    <2>1. Zeros(0) = [i \in 1 .. 0 |-> Zeros(0)[i]]
      BY DEF Zeros
    <2>2. IsText(Zeros(0)) /\ Len(Zeros(0)) = 0
      BY <2>1, TextFrom
    <2>3. QED
      BY <2>2, EmptyText
  <1>3. QED
    BY <1>1, <1>2 DEF Zeros

LEMMA TailBytes ==
  ASSUME NEW s, IsText(s), NEW a \in Nat, a <= Len(s)
  PROVE  \A i \in 1 .. Len(s) - a : Slice(s, a, Len(s))[i] = s[a + i]
  <1>1. PICK b : b = Len(s)
    OBVIOUS
  <1>2. b \in Nat /\ a <= b /\ b <= Len(s)
    BY <1>1, TextFacts
  <1>3. \A i \in 1 .. b - a : Slice(s, a, b)[i] = s[a + i]
    BY <1>2, PartFacts
  <1>4. QED
    BY <1>1, <1>3

LEMMA SliceZeros ==
  ASSUME NEW s, IsText(s), NEW l \in Nat, NEW t \in Nat, l <= t, t <= Len(s),
         \A i \in l + 1 .. t : s[i] = Plain(0)
  PROVE  t - l \in Nat /\ Slice(s, l, t) = Zeros(t - l)
  <1>1. PICK z : z = t - l
    OBVIOUS
  <1>2. z \in Nat
    BY <1>1
  <1>3. IsText(Slice(s, l, t)) /\ Len(Slice(s, l, t)) = z
    BY <1>1, PartFacts
  <1>4. ASSUME NEW i \in 1 .. z PROVE Slice(s, l, t)[i] = Zeros(z)[i]
    <2>1. Slice(s, l, t)[i] = s[l + i]
      BY <1>1, PartFacts
    <2>2. l + i \in l + 1 .. t
      BY <1>1, <1>2
    <2>3. s[l + i] = Plain(0)
      BY <2>2
    <2>4. QED
      BY <2>1, <2>3 DEF Zeros
  <1>5. IsText(Zeros(z)) /\ Len(Zeros(z)) = z
    BY <1>2, ZerosFacts
  <1>6. Slice(s, l, t) = Zeros(z)
    BY <1>3, <1>4, <1>5, TextEqual
  <1>7. QED
    BY <1>1, <1>2, <1>6

\* The first a bytes are the first l and, under zero padding, zeros.
LeavesZeros(plain, a, l, padding) ==
  \E z \in 0 .. IF padding = "ZERO" THEN Len(plain) ELSE 0 :
    Take(plain, a) = Take(plain, l) \o Zeros(z)

\* A text of whole blocks: s are its numbers, u those of the last block, which begins at c.
Stripping(plain, c, s, u) ==
  /\ IsText(plain) /\ c \in Nat /\ Len(plain) = c + BlockBytes
  /\ s \in Seq(Int) /\ Len(s) = c + BlockBytes /\ Len(s) % BlockBytes = 0
  /\ u \in Seq(Int) /\ Len(u) = BlockBytes /\ \A i \in 1 .. BlockBytes : u[i] = s[c + i]
  /\ \A i \in 1 .. Len(plain) :
       s[i] = Value(plain[i]) /\ (s[i] \in Nat => plain[i] = Plain(s[i]))

LEMMA LastValues ==
  ASSUME NEW body, IsText(body), KnownBlocks(body), Len(body) % BlockBytes = 0,
         Count(body) # 0
  PROVE  LET plain == Unchain(body, Iv)
             last  == BlockAt(plain, Count(body))
             c     == (Count(body) - 1) * BlockBytes
         IN  /\ Stripping(plain, c, Values(plain), Values(last))
             /\ Len(plain) = Len(body)
  <1>0. PICK n, plain, last, c : /\ n = Count(body) /\ plain = Unchain(body, Iv)
                                 /\ last = BlockAt(plain, n) /\ c = (n - 1) * BlockBytes
    OBVIOUS
  <1>1. /\ c \in Nat /\ Len(plain) = c + BlockBytes /\ last = Slice(plain, c, Len(plain))
        /\ Values(last) \in Seq(Int) /\ Len(Values(last)) = BlockBytes
    BY <1>0, LastPlainFacts
  <1>2. IsText(last) /\ AllBytes(last) /\ Len(last) = BlockBytes
    BY <1>0, LastPlainFacts
  <1>3. IsText(plain) /\ AllBytes(plain)
    BY <1>0, DecryptedFacts DEF IsWhole
  <1>4. Len(plain) % BlockBytes = 0 /\ Len(plain) = Len(body)
    <2>1. IsWhole(plain) /\ Len(plain) = n * BlockBytes
      BY <1>0, DecryptedFacts
    <2>2. Len(body) = n * BlockBytes
      BY <1>0, WholeCount DEF IsWhole
    <2>3. QED
      BY <2>1, <2>2 DEF IsWhole
  <1>5. Values(plain) \in Seq(Int) /\ Len(Values(plain)) = Len(plain)
    BY <1>3, ValuesFacts
  <1>6. \A i \in 1 .. Len(plain) - c : last[i] = plain[c + i]
    <2>1. c \in Nat /\ c <= Len(plain)
      BY <1>1, BlockAssumption
    <2>2. \A i \in 1 .. Len(plain) - c : Slice(plain, c, Len(plain))[i] = plain[c + i]
      BY <1>3, <2>1, TailBytes
    <2>3. QED
      BY <1>1, <2>2
  <1>7. ASSUME NEW i \in 1 .. BlockBytes PROVE Values(last)[i] = Values(plain)[c + i]
    <2>1. c + i \in 1 .. Len(plain) /\ i \in 1 .. Len(plain) - c
      BY <1>1, BlockAssumption
    <2>2. Values(plain)[c + i] = Value(plain[c + i])
      BY <1>3, <2>1, ValuesFacts
    <2>3. Values(last)[i] = Value(last[i])
      BY <1>2, ValuesFacts
    <2>4. QED
      BY <1>6, <2>1, <2>2, <2>3
  <1>8. ASSUME NEW i \in 1 .. Len(plain)
        PROVE  /\ Values(plain)[i] = Value(plain[i])
               /\ Values(plain)[i] \in Nat => plain[i] = Plain(Values(plain)[i])
    <2>1. IsByte(plain[i]) /\ Values(plain)[i] = Value(plain[i])
      BY <1>3, ValuesFacts DEF AllBytes
    <2>2. QED
      BY <2>1, ValueOfByte
  <1>9. Stripping(plain, c, Values(plain), Values(last))
    BY <1>1, <1>3, <1>4, <1>5, <1>7, <1>8 DEF Stripping
  <1>10. QED
    BY <1>0, <1>4, <1>9

\* Padding taken off the last block or off the text: zeros before the last block may be left.
LEMMA StripTail ==
  ASSUME NEW plain, NEW c, NEW s, NEW u, Stripping(plain, c, s, u), NEW padding \in Paddings
  PROVE  /\ Remove(u, padding).status = Remove(s, padding).status
         /\ Remove(s, padding).status = "OK" =>
              LeavesZeros(plain, c + Remove(u, padding).len, Remove(s, padding).len, padding)
  <1>1. PICK m, l, t : /\ m = Remove(u, padding).len /\ l = Remove(s, padding).len
                       /\ t = c + m
    OBVIOUS
  <1>2. /\ s \in Seq(Int) /\ c \in Nat /\ Len(s) = c + BlockBytes /\ Len(s) % BlockBytes = 0
        /\ u \in Seq(Int) /\ Len(u) = BlockBytes /\ \A i \in 1 .. BlockBytes : u[i] = s[c + i]
    BY DEF Stripping
  <1>3. IsText(plain) /\ Len(plain) = c + BlockBytes /\ Len(s) = Len(plain)
    BY DEF Stripping
  <1>4. Remove(u, padding).status = Remove(s, padding).status
    BY <1>2, RemoveOfTail
  <1>5. m \in 0 .. BlockBytes
    BY <1>1, <1>2, RemoveOfTail
  <1>6. c \in Nat
    BY <1>2
  <1>7. t \in Nat /\ t <= Len(plain) /\ t \in 0 .. Len(plain)
    BY <1>1, <1>3, <1>5, <1>6, BlockAssumption
  <1>8. ASSUME Remove(s, padding).status = "OK"
        PROVE  LeavesZeros(plain, t, l, padding)
    <2>1. CASE padding # "ZERO"
      <3>1. l = t
        <4>1. Remove(s, padding).len = c + Remove(u, padding).len
          BY <1>2, <1>8, <2>1, RemoveOfTail
        <4>2. QED
          BY <1>1, <4>1
      <3>2. IsText(Take(plain, t))
        BY <1>3, <1>7, TakeDrop
      <3>3. Take(plain, t) \o Zeros(0) = Take(plain, t)
        BY <3>2, ZerosFacts, ConcatEmpty
      <3>4. QED
        BY <2>1, <3>1, <3>3 DEF LeavesZeros
    <2>2. CASE padding = "ZERO"
      <3>1. l \in 0 .. t
        <4>1. Remove(s, padding).len \in 0 .. c + Remove(u, padding).len
          BY <1>2, <2>2, RemoveOfTail
        <4>2. QED
          BY <1>1, <4>1
      <3>2. \A i \in l + 1 .. Len(s) : s[i] = 0
        <4>1. \A i \in Remove(s, padding).len + 1 .. Len(s) : s[i] = 0
          BY <1>2, <2>2, RemoveOfTail
        <4>2. QED
          BY <1>1, <4>1
      <3>3. l \in Nat /\ l <= t /\ t - l \in 0 .. Len(plain)
        BY <1>7, <3>1
      <3>4. \A i \in l + 1 .. t : plain[i] = Plain(0)
        <4>1. SUFFICES ASSUME NEW i \in l + 1 .. t PROVE plain[i] = Plain(0)
          OBVIOUS
        <4>2. i \in l + 1 .. Len(s) /\ i \in 1 .. Len(plain)
          BY <1>3, <1>7, <3>3
        <4>3. s[i] = 0
          BY <3>2, <4>2
        <4>4. s[i] \in Nat => plain[i] = Plain(s[i])
          BY <4>2 DEF Stripping
        <4>5. QED
          BY <4>3, <4>4
      <3>5. Slice(plain, l, t) = Zeros(t - l)
        BY <1>3, <1>7, <3>3, <3>4, SliceZeros
      <3>6. Take(plain, l) \o Slice(plain, l, t) = Take(plain, t)
        BY <1>3, <1>7, <3>3, TakeMore
      <3>7. QED
        BY <2>2, <3>3, <3>5, <3>6 DEF LeavesZeros
    <2>3. QED
      BY <2>1, <2>2
  <1>9. QED
    BY <1>1, <1>4, <1>8

\* What decryption by blocks leaves is what the one-shot call leaves, and under zero padding
\* zeros that it takes off the blocks before.
LEMMA TwoDecryptions ==
  ASSUME NEW body, IsText(body), KnownBlocks(body), Len(body) % BlockBytes = 0,
         Count(body) # 0, NEW padding \in Paddings
  PROVE  LET plain == Unchain(body, Iv)
             last  == BlockAt(plain, Count(body))
             strip == Remove(Values(plain), padding)
             m     == Remove(Values(last), padding).len
         IN  /\ Remove(Values(last), padding).status = strip.status
             /\ Len(plain) = Len(body)
             /\ strip.status = "OK" =>
                  LeavesZeros(plain, (Count(body) - 1) * BlockBytes + m, strip.len, padding)
  <1>1. PICK plain, s, u, c :
          /\ plain = Unchain(body, Iv) /\ s = Values(plain)
          /\ u = Values(BlockAt(plain, Count(body))) /\ c = (Count(body) - 1) * BlockBytes
    OBVIOUS
  <1>2. Stripping(plain, c, s, u) /\ Len(plain) = Len(body)
    BY <1>1, LastValues
  <1>3. Remove(u, padding).status = Remove(s, padding).status
    BY <1>2, StripTail
  <1>4. Remove(s, padding).status = "OK" =>
          LeavesZeros(plain, c + Remove(u, padding).len, Remove(s, padding).len, padding)
    BY <1>2, StripTail
  <1>5. QED
    BY <1>1, <1>2, <1>3, <1>4

LEMMA DecryptBufferFacts ==
  ASSUME NEW body, NEW iv, NEW padding,
         NEW strip, strip = Remove(Values(Unchain(body, iv)), padding)
  PROVE  /\ body # <<>> /\ Len(body) % BlockBytes # 0
              => DecryptBuffer(body, iv, padding).status = "INVALID_ARG"
         /\ body # <<>> /\ Len(body) % BlockBytes = 0
              => /\ DecryptBuffer(body, iv, padding).status = strip.status
                 /\ DecryptBuffer(body, iv, padding).out = Take(Unchain(body, iv), strip.len)
  BY DEF DecryptBuffer

LEMMA DecryptionAgrees == Inv => DecryptsAsOneShot
  <1> SUFFICES ASSUME Inv, Ended("decrypt"), IvFits
               PROVE  LET one == DecryptBuffer(Body, UsedIv, call.padding) IN
                      /\ ~fault => (status = "OK" <=> one.status = "OK" /\ Body # <<>>)
                      /\ status = "OK" =>
                           \E n \in 0 .. IF call.padding = "ZERO" THEN Len(Body) ELSE 0 :
                             Written(one.out \o [i \in 1 .. n |-> Plain(0)])
    BY DEF DecryptsAsOneShot
  <1>1. call.op = "decrypt" /\ call.padding \in Paddings
    BY DEF Ended, Inv, CallInv
  <1>2. PICK body, plain, padding, n :
          body = Body /\ plain = Decrypted /\ padding = call.padding /\ n = Count(body)
    OBVIOUS
  <1>3. /\ IsText(body) /\ KnownBlocks(body) /\ UsedIv = Iv /\ plain = Unchain(body, Iv)
        /\ padding \in Paddings
    BY <1>1, <1>2 DEF Inv, GivenFile, Decrypted
  <1>4. /\ ~fault => status = FileStatus
        /\ status = "OK" => FileStatus = "OK" /\ Written(Plaintext)
    BY DEF Inv, DecryptDone
  <1> DEFINE one == DecryptBuffer(body, Iv, padding)
  <1>5. CASE body = <<>> \/ Len(body) % BlockBytes # 0
    <2>1. FileStatus # "OK"
      BY <1>2, <1>5 DEF FileStatus
    <2>2. ~(one.status = "OK" /\ body # <<>>)
      BY <1>5, DecryptBufferFacts
    <2>3. QED
      BY <1>2, <1>3, <1>4, <2>1, <2>2
  <1>6. CASE body # <<>> /\ Len(body) % BlockBytes = 0
    <2>1. n # 0
      BY <1>2, <1>3, <1>6, BlocksOfBody
    <2>2. PICK last, m, strip : /\ last = BlockAt(plain, n)
                                /\ m = Remove(Values(last), padding).len
                                /\ strip = Remove(Values(plain), padding)
      OBVIOUS
    <2>3. one.status = strip.status /\ one.out = Take(plain, strip.len)
      BY <1>3, <1>6, <2>2, DecryptBufferFacts
    <2>4. strip.status = Remove(Values(last), padding).status
      <3>1. Remove(Values(BlockAt(Unchain(body, Iv), Count(body))), padding).status
              = Remove(Values(Unchain(body, Iv)), padding).status
        BY <1>2, <1>3, <1>6, <2>1, TwoDecryptions
      <3>2. QED
        BY <1>2, <1>3, <2>2, <3>1
    <2>5. strip.status = "OK" =>
            \E z \in 0 .. IF padding = "ZERO" THEN Len(body) ELSE 0 :
              Take(plain, (n - 1) * BlockBytes + m) = Take(plain, strip.len) \o Zeros(z)
      <3>1. Count(body) # 0
        BY <1>2, <2>1
      <3>2. /\ Len(Unchain(body, Iv)) = Len(body)
            /\ Remove(Values(Unchain(body, Iv)), padding).status = "OK" =>
                 LeavesZeros(Unchain(body, Iv),
                             (Count(body) - 1) * BlockBytes
                               + Remove(Values(BlockAt(Unchain(body, Iv), Count(body))),
                                        padding).len,
                             Remove(Values(Unchain(body, Iv)), padding).len, padding)
        BY <1>3, <1>6, <3>1, TwoDecryptions
      <3>3. QED
        BY <1>2, <1>3, <2>2, <3>2 DEF LeavesZeros
    <2>6. FileStatus = Remove(Values(last), padding).status
      BY <1>2, <1>6, <2>2 DEF FileStatus, LastPlain
    <2>7. Plaintext = Take(plain, (n - 1) * BlockBytes + m)
      BY <1>2, <2>2 DEF Plaintext, LastPlain
    <2> HIDE DEF one
    <2>8. ~fault => (status = "OK" <=> one.status = "OK" /\ body # <<>>)
      BY <1>4, <1>6, <2>3, <2>4, <2>6
    <2>9. ASSUME status = "OK"
          PROVE  \E z \in 0 .. IF padding = "ZERO" THEN Len(body) ELSE 0 :
                   Written(one.out \o [i \in 1 .. z |-> Plain(0)])
      <3>1. strip.status = "OK" /\ Written(Plaintext)
        BY <1>4, <2>4, <2>6, <2>9
      <3>2. PICK z \in 0 .. IF padding = "ZERO" THEN Len(body) ELSE 0 :
              Take(plain, (n - 1) * BlockBytes + m) = Take(plain, strip.len) \o Zeros(z)
        BY <2>5, <3>1
      <3>3. Written(one.out \o Zeros(z))
        BY <2>3, <2>7, <3>1, <3>2
      <3>4. QED
        BY <3>3 DEF Zeros
    <2>10. QED
      BY <1>2, <1>3, <2>8, <2>9 DEF one
  <1>7. QED
    BY <1>5, <1>6

\* A file is decrypted block by block to what the one-shot call gives, except that an empty
\* file is refused, a ragged one has another status, and zero padding is taken off the last
\* block only; nothing but an fclose that fails leaves OK with less.
THEOREM CbcDecryption == Spec => []DecryptsAsOneShot
  <1>1. QED
    BY CbcInvariant, DecryptionAgrees, PTL

-----------------------------------------------------------------------------
(* Encryption of what decryption makes *)

LEMMA FileByteTerms ==
  ASSUME NEW byte, FileByte(byte), NEW t \in byte PROVE t[1] # "D"
  <1>1. IsNumber(t) \/ t[1] = "E"
    BY DEF FileByte
  <1>2. IsNumber(t) => t[1] = "v"
    BY NumberFacts DEF IsNumber
  <1>3. QED
    BY <1>1, <1>2

\* A block that is encrypted to b is the decryption of b, but for blocks that decryption cannot
\* make and no file has.
LEMMA BlockBack ==
  ASSUME NEW b, KnownBlock(b), NEW e, FileBlock(e), NEW x, x = Block(x),
         Block(EncryptBlock(XorBlock(x, e))) = b,
         x[1] = XorBlock(DecryptBlock(b), e)[1] \/ FileByte(x[1])
  PROVE  x = XorBlock(DecryptBlock(b), e)
  <1>1. PICK w, d : w = XorBlock(x, e) /\ d = DecryptBlock(b)
    OBVIOUS
  <1>2. x = XorBlock(w, e)
    BY <1>1, XorTwice
  <1>3. w[1] = (x[1] \ e[1]) \cup (e[1] \ x[1])
    BY <1>1, NamedFacts DEF XorBlock
  <1>4. w = d
    <2>1. CASE \E t \in w[1] : t[1] = "D" /\ w = Named("D", t[2])
      <3>1. PICK t \in w[1] : t[1] = "D" /\ w = Named("D", t[2])
        BY <2>1
      <3>2. t \notin e[1]
        <4>1. FileByte(e[1])
          BY NamedFacts DEF FileBlock
        <4>2. QED
          BY <3>1, <4>1, FileByteTerms
      <3>3. t \in x[1] /\ ~FileByte(x[1])
        BY <1>3, <3>1, <3>2, FileByteTerms
      <3>4. x[1] = (d[1] \ e[1]) \cup (e[1] \ d[1])
        <4>1. x[1] = XorBlock(d, e)[1]
          BY <1>1, <3>3
        <4>2. QED
          BY <4>1, NamedFacts DEF XorBlock
      <3>5. t \in d[1] /\ ~FileByte(d[1])
        BY <3>1, <3>2, <3>3, <3>4, FileByteTerms
      <3>6. ~FileBlock(d)
        BY <3>5, NamedFacts DEF FileBlock
      <3>7. d = Named("D", b)
        BY <1>1, <3>6, DecryptOfKnown
      <3>8. d[1] = {<<"D", b, 1>>} /\ <<"D", b, 1>>[2] = b
        BY <3>7, NamedFacts, TermFacts
      <3>9. t[2] = b
        BY <3>5, <3>8
      <3>10. QED
        BY <3>1, <3>7, <3>9
    <2>2. CASE ~\E t \in w[1] : t[1] = "D" /\ w = Named("D", t[2])
      <3>1. EncryptBlock(w) = Named("E", w)
        BY <2>2 DEF EncryptBlock, Cipher
      <3>2. b = Named("E", w)
        BY <1>1, <3>1, NamedFacts
      <3>3. d = w
        BY <1>1, <3>2, CipherOfNamed DEF DecryptBlock
      <3>4. QED
        BY <3>3
    <2>3. QED
      BY <2>1, <2>2
  <1>5. QED
    BY <1>1, <1>2, <1>4

\* Encrypting what decryption makes gives the file.
LEMMA ChainOfDecrypted ==
  ASSUME NEW body, IsText(body), KnownBlocks(body), Len(body) % BlockBytes = 0,
         NEW plain, plain = Unchain(body, Iv)
  PROVE  Chain(plain, Iv) = body
  <1>1. PICK n : n = Count(body)
    OBVIOUS
  <1>2. n \in Nat /\ Len(body) = n * BlockBytes
    BY <1>1, WholeCount DEF IsWhole
  <1>3. IsWhole(plain) /\ Count(plain) = n
    BY <1>1, DecryptedFacts
  <1> DEFINE g == [i \in 0 .. n |-> IF i = 0 THEN Iv ELSE BlockAt(body, i)]
  <1>4. g[0] = Iv /\ \A i \in 1 .. n : g[i] = BlockAt(body, i) /\ g[i - 1] = Before(body, i)
    <2>1. 0 \in 0 .. n
      BY <1>2
    <2>2. \A i \in 1 .. n : i \in 0 .. n /\ i - 1 \in 0 .. n /\ i # 0 /\ (i - 1 = 0 <=> i = 1)
      BY <1>2
    <2>3. QED
      BY <2>1, <2>2 DEF Before
  <1> HIDE DEF g
  <1>5. ASSUME NEW i \in 1 .. n PROVE g[i] = Linked(plain, i, g[i - 1])
    <2>1. PICK b, e, d : b = BlockAt(body, i) /\ e = Before(body, i) /\ d = DecryptBlock(b)
      OBVIOUS
    <2>2. BlockAt(plain, i) = XorBlock(d, e)
      BY <1>1, <2>1, DecryptedFacts
    <2>3. KnownBlock(b)
      BY <1>1, <2>1 DEF KnownBlocks
    <2>4. d = Block(d) /\ EncryptBlock(d) = b
      BY <2>1, <2>3, DecryptOfKnown
    <2>5. XorBlock(XorBlock(d, e), e) = d
      BY <2>4, XorTwice
    <2>6. EncryptBlock(XorBlock(BlockAt(plain, i), e)) = b
      BY <2>2, <2>4, <2>5
    <2>7. QED
      BY <1>4, <2>1, <2>6 DEF Linked
  <1>6. \A i \in 1 .. n : g[i] = Links(plain, Iv)[i]
    BY <1>2, <1>3, <1>4, <1>5, LinksUnique
  <1>7. IsText(Chain(plain, Iv)) /\ Len(Chain(plain, Iv)) = n * BlockBytes
    BY <1>2, <1>3, ChainFacts DEF IsWhole
  <1>8. ASSUME NEW i \in 1 .. n PROVE BlockAt(Chain(plain, Iv), i) = BlockAt(body, i)
    <2>1. BlockAt(Chain(plain, Iv), i) = Block(Links(plain, Iv)[i])
      BY <1>2, <1>3, ChainFacts
    <2>2. Links(plain, Iv)[i] = BlockAt(body, i)
      BY <1>4, <1>6
    <2>3. FileBlock(BlockAt(body, i))
      BY <1>1, BodyBlocks
    <2>4. QED
      BY <2>1, <2>2, <2>3 DEF FileBlock
  <1>9. QED
    BY <1>2, <1>7, <1>8, SameBlocks

\* A text that is encrypted to the file is what decryption makes, if its blocks begin as those do
\* or with a file's byte.
LEMMA DecryptedOfChain ==
  ASSUME NEW body, IsText(body), KnownBlocks(body),
         NEW plain, plain = Unchain(body, Iv),
         NEW s, IsWhole(s), Chain(s, Iv) = body,
         \A p \in 1 .. Len(s) : s[p] = plain[p] \/ FileByte(s[p])
  PROVE  s = plain
  <1>1. PICK n : n = Count(s)
    OBVIOUS
  <1>2. /\ n \in Nat /\ Len(s) = n * BlockBytes /\ IsText(s) /\ Count(body) = n
        /\ n * BlockBytes <= Len(s)
    <2>1. n \in Nat /\ Len(s) = n * BlockBytes /\ IsText(s)
      BY <1>1, WholeCount DEF IsWhole
    <2>2. Count(body) = n
      BY <1>1, <2>1, ChainFacts
    <2>3. n * BlockBytes <= Len(s)
      BY <2>1, BlockAssumption
    <2>4. QED
      BY <2>1, <2>2, <2>3
  <1>3. IsText(plain) /\ Len(plain) = n * BlockBytes /\ n * BlockBytes <= Len(plain)
    <2>1. IsText(plain) /\ Len(plain) = n * BlockBytes
      BY <1>2, DecryptedFacts DEF IsWhole
    <2>2. QED
      BY <1>2, <2>1
  <1>4. ASSUME NEW i \in 1 .. n PROVE BlockAt(s, i) = BlockAt(plain, i)
    <2> DEFINE f == Links(s, Iv)
    <2>1. PICK x, b, e : x = BlockAt(s, i) /\ b = BlockAt(body, i) /\ e = Before(body, i)
      OBVIOUS
    <2>2. KnownBlock(b) /\ FileBlock(e)
      BY <1>2, <2>1, BodyBlocks
    <2>3. \A k \in 1 .. n : BlockAt(body, k) = Block(f[k])
      BY <1>1, <1>2, ChainFacts
    <2>4. f[0] = Iv /\ f[i] = Linked(s, i, f[i - 1])
      BY <1>1, <1>2, LinksFacts
    <2>5. Block(f[i - 1]) = e
      <3>1. CASE i = 1
        <4>1. f[i - 1] = Iv /\ e = Iv
          BY <2>1, <2>4, <3>1 DEF Before
        <4>2. QED
          BY <4>1, IvFacts DEF FileBlock
      <3>2. CASE i # 1
        <4>1. i - 1 \in 1 .. n
          BY <1>2, <3>2
        <4>2. QED
          BY <2>1, <2>3, <3>2, <4>1 DEF Before
      <3>3. QED
        BY <3>1, <3>2
    <2> HIDE DEF f
    <2>6. Block(EncryptBlock(XorBlock(x, e))) = b
      <3>1. f[i] = EncryptBlock(XorBlock(x, f[i - 1]))
        BY <2>1, <2>4 DEF Linked
      <3>2. XorBlock(x, e) = XorBlock(x, f[i - 1])
        BY <2>5, XorOfBlock
      <3>3. QED
        BY <2>1, <2>3, <3>1, <3>2
    <2>7. x = Block(x)
      BY <1>2, <2>1, BlockAtFacts
    <2>8. BlockAt(plain, i) = XorBlock(DecryptBlock(b), e)
      BY <1>2, <2>1, DecryptedFacts
    <2>9. x[1] = BlockAt(plain, i)[1] \/ FileByte(x[1])
      <3>1. PICK p : p = (i - 1) * BlockBytes + 1
        OBVIOUS
      <3>2. p \in 1 .. Len(s)
        <4>1. /\ (i - 1) * BlockBytes \in Nat /\ i * BlockBytes \in Nat
              /\ i * BlockBytes = (i - 1) * BlockBytes + BlockBytes
              /\ i * BlockBytes <= n * BlockBytes /\ n * BlockBytes \in Nat
          BY <1>2, BlockPlace
        <4>2. QED
          BY <1>2, <3>1, <4>1, BlockAssumption
      <3>3. 1 \in 1 .. BlockBytes
        BY NamedFacts
      <3>4. x[1] = s[p]
        BY <1>2, <2>1, <3>1, <3>3, BlockAtFacts
      <3>5. BlockAt(plain, i)[1] = plain[p]
        BY <1>2, <1>3, <3>1, <3>3, BlockAtFacts
      <3>6. QED
        BY <3>2, <3>4, <3>5
    <2>10. x = XorBlock(DecryptBlock(b), e)
      BY <2>2, <2>6, <2>7, <2>8, <2>9, BlockBack
    <2>11. QED
      BY <2>1, <2>8, <2>10
  <1>5. QED
    BY <1>2, <1>3, <1>4, SameBlocks

-----------------------------------------------------------------------------
(* Texts and their files *)

\* The bytes that are encrypted are the text's and bytes of a file.
LEMMA FilledText ==
  ASSUME NEW text, IsText(text), AllBytes(text), NEW padding \in Paddings,
         SizeStatus(Len(text), padding) = "OK", NEW s, s = Filled(text, padding)
  PROVE  /\ IsWhole(s)
         /\ \A p \in 1 .. Len(s) : (p \in 1 .. Len(text) /\ s[p] = text[p]) \/ FileByte(s[p])
  <1>1. PICK n, f, r : n = Len(text) /\ f = FullLen(n) /\ r = n % BlockBytes
    OBVIOUS
  <1>2. /\ n \in Nat /\ f \in Nat /\ f <= n /\ n - f = r /\ r \in Nat /\ r < BlockBytes
        /\ BlockBytes \in Nat
    <2>1. n \in Nat
      BY <1>1, TextFacts
    <2>2. f \in Nat /\ f <= n /\ n < f + BlockBytes /\ n - f = r
      BY <1>1, <2>1, FullLenFacts
    <2>3. BlockBytes \in Nat
      BY BlockAssumption
    <2>4. QED
      BY <2>1, <2>2, <2>3
  <1>3. CASE Pads(padding, r)
    <2>1. IsWhole(s) /\ Len(s) = f + BlockBytes
      BY <1>1, <1>3, FilledMore
    <2>2. \A i \in 1 .. n : s[i] = text[i]
      BY <1>1, <1>3, FilledMore
    <2>3. \A i \in r + 1 .. BlockBytes : s[f + i] = Plain(PadByte(i, r, padding))
      BY <1>1, <1>3, FilledMore
    <2>4. ASSUME NEW p \in 1 .. Len(s) PROVE (p \in 1 .. n /\ s[p] = text[p]) \/ FileByte(s[p])
      <3>1. CASE p <= n
        <4>1. p \in 1 .. n
          BY <1>2, <2>1, <3>1
        <4>2. QED
          BY <2>2, <4>1
      <3>2. CASE p > n
        <4>1. p - f \in r + 1 .. BlockBytes /\ f + (p - f) = p
          BY <1>2, <2>1, <3>2
        <4>2. s[p] = Plain(PadByte(p - f, r, padding))
          BY <2>3, <4>1
        <4>3. PadByte(p - f, r, padding) \in Nat
          BY <1>2, PadByteType
        <4>4. QED
          BY <4>2, <4>3, PlainFacts
      <3>3. p \in Int
        OBVIOUS
      <3>4. QED
        BY <1>2, <3>1, <3>2, <3>3
    <2>5. QED
      BY <1>1, <2>1, <2>4
  <1>4. CASE ~Pads(padding, r)
    <2>1. s = text
      BY <1>1, <1>4, FilledSame
    <2>2. r = 0
      <3>1. padding = "NONE" \/ (padding = "ZERO" /\ r = 0)
        BY <1>4 DEF Pads, Paddings
      <3>2. padding = "NONE" => r = 0
        BY <1>1 DEF SizeStatus
      <3>3. QED
        BY <3>1, <3>2
    <2>3. QED
      BY <1>1, <2>1, <2>2 DEF IsWhole
  <1>5. QED
    BY <1>3, <1>4

\* A text that the file is the encryption of is what decryption makes, without its padding.
LEMMA OriginFills ==
  ASSUME NEW body, IsText(body), KnownBlocks(body), NEW plain, plain = Unchain(body, Iv),
         NEW m \in 0 .. Len(plain), NEW t, t = Take(plain, m), NEW padding \in Paddings,
         EncryptBuffer(t, Iv, padding) = [status |-> "OK", out |-> body]
  PROVE  /\ IsText(t) /\ AllBytes(t) /\ Len(t) = m /\ SizeStatus(m, padding) = "OK"
         /\ Filled(t, padding) = plain /\ Len(body) % BlockBytes = 0
  <1>1. IsText(plain) /\ AllBytes(plain)
    BY DecryptedFacts DEF IsWhole
  <1>2. m \in Nat /\ m <= Len(plain) /\ Len(plain) \in Nat
    BY <1>1, TextFacts
  <1>3. IsText(t) /\ Len(t) = m /\ \A i \in 1 .. m : t[i] = plain[i]
    BY <1>1, <1>2, TakeDrop
  <1>4. AllBytes(t)
    <2>1. \A i \in 1 .. m : i \in 1 .. Len(plain)
      BY <1>2
    <2>2. QED
      BY <1>1, <1>3, <2>1 DEF AllBytes
  <1>5. PICK s : s = Filled(t, padding)
    OBVIOUS
  <1>6. SizeStatus(m, padding) = "OK" /\ Chain(s, Iv) = body
    BY <1>3, <1>5, EncryptBufferFacts
  <1>7. IsWhole(s)
    BY <1>3, <1>4, <1>5, <1>6, FilledText
  <1>8. \A p \in 1 .. Len(s) : (p \in 1 .. Len(t) /\ s[p] = t[p]) \/ FileByte(s[p])
    BY <1>3, <1>4, <1>5, <1>6, FilledText
  <1>9. \A p \in 1 .. Len(s) : s[p] = plain[p] \/ FileByte(s[p])
    BY <1>3, <1>8
  <1>10. s = plain
    BY <1>6, <1>7, <1>9, DecryptedOfChain
  <1>11. Len(body) % BlockBytes = 0
    BY <1>6, <1>7, WholeCount, ChainFacts DEF IsWhole
  <1>12. QED
    BY <1>3, <1>4, <1>5, <1>6, <1>10, <1>11

\* What removes nothing but zeros, or nothing.
LEMMA RemoveNoMark ==
  ASSUME NEW u \in Seq(Int), Len(u) = BlockBytes
  PROVE  /\ Remove(u, "NONE").status = "OK" /\ Remove(u, "NONE").len = BlockBytes
         /\ Remove(u, "ZERO").status = "OK" /\ Remove(u, "ZERO").len \in 0 .. BlockBytes
         /\ \A i \in Remove(u, "ZERO").len + 1 .. BlockBytes : u[i] = 0
  <1>1. BlockBytes \in Nat /\ BlockBytes > 0 /\ Len(u) # 0
    BY BlockAssumption
  <1>2. Len(u) % BlockBytes = 0
    <2>1. Len(u) = 1 * BlockBytes + 0 /\ 0 \in 0 .. BlockBytes - 1 /\ 1 \in Int /\ Len(u) \in Nat
      BY <1>1
    <2>2. QED
      BY <2>1, QuotientUnique
  <1>3. Remove(u, "NONE") = Stripped(Len(u)) /\ Remove(u, "ZERO") = Stripped(LastNonZero(u))
    BY <1>1, <1>2 DEF Remove
  <1>4. /\ Remove(u, "NONE").status = "OK" /\ Remove(u, "NONE").len = BlockBytes
        /\ Remove(u, "ZERO").status = "OK" /\ Remove(u, "ZERO").len = LastNonZero(u)
    BY <1>3 DEF Stripped
  <1>5. /\ LastNonZero(u) \in 0 .. BlockBytes
        /\ \A i \in 1 .. BlockBytes : u[i] # 0 => i <= LastNonZero(u)
    BY LastNonZeroFacts
  <1>6. PICK e : e = LastNonZero(u)
    OBVIOUS
  <1>7. ASSUME NEW i \in e + 1 .. BlockBytes PROVE u[i] = 0
    <2>1. i \in 1 .. BlockBytes /\ ~(i <= e)
      BY <1>1, <1>5, <1>6
    <2>2. QED
      BY <1>5, <1>6, <2>1
  <1>8. QED
    BY <1>4, <1>5, <1>6, <1>7

\* Padding is taken off again.
LEMMA WayBack ==
  ASSUME NEW plain, NEW c, NEW s, NEW u, Stripping(plain, c, s, u), NEW padding \in Paddings,
         NEW m \in 0 .. Len(plain), NEW t, t = Take(plain, m), AllBytes(t),
         Filled(t, padding) = plain, NEW k, k = Remove(u, padding).len
  PROVE  /\ Remove(u, padding).status = "OK"
         /\ k \in Nat /\ c + k <= m /\ (padding # "ZERO" => c + k = m)
         /\ padding = "ZERO" => \A i \in c + k + 1 .. m : plain[i] = Plain(0)
  <1>1. /\ IsText(plain) /\ Len(plain) = c + BlockBytes /\ c \in Nat
        /\ u \in Seq(Int) /\ Len(u) = BlockBytes
    BY DEF Stripping
  <1>2. BlockBytes \in Nat /\ BlockBytes > 0 /\ m \in Nat /\ m <= Len(plain) /\ Len(plain) \in Nat
    BY <1>1, BlockAssumption
  <1>3. IsText(t) /\ Len(t) = m
    BY <1>1, <1>2, TakeDrop
  <1>4. ASSUME NEW i \in 1 .. BlockBytes
        PROVE  u[i] = Value(plain[c + i]) /\ (u[i] = 0 => plain[c + i] = Plain(0))
    <2>1. c + i \in 1 .. Len(plain)
      BY <1>1, <1>2
    <2>2. u[i] = s[c + i]
      BY DEF Stripping
    <2>3. s[c + i] = Value(plain[c + i]) /\ (s[c + i] \in Nat => plain[c + i] = Plain(s[c + i]))
      BY <2>1 DEF Stripping
    <2>4. QED
      BY <2>2, <2>3
  <1>5. ASSUME NEW e \in 0 .. BlockBytes, \A i \in e + 1 .. BlockBytes : u[i] = 0,
               NEW i \in c + e + 1 .. m
        PROVE  plain[i] = Plain(0)
    <2>1. i - c \in 1 .. BlockBytes /\ i - c \in e + 1 .. BlockBytes /\ c + (i - c) = i
      BY <1>1, <1>2
    <2>2. u[i - c] = 0
      BY <1>5, <2>1
    <2>3. QED
      BY <1>4, <2>1, <2>2
  <1>6. CASE ~Pads(padding, m % BlockBytes)
    <2>1. t = plain /\ padding \in {"NONE", "ZERO"}
      BY <1>3, <1>6, FilledSame DEF Pads
    <2>2. m = c + BlockBytes
      BY <1>1, <1>3, <2>1
    <2>3. CASE padding = "NONE"
      <3>1. Remove(u, padding).status = "OK" /\ k = BlockBytes
        BY <1>1, <2>3, RemoveNoMark
      <3>2. QED
        BY <1>1, <1>2, <2>2, <2>3, <3>1
    <2>4. CASE padding = "ZERO"
      <3>1. /\ Remove(u, padding).status = "OK" /\ k \in 0 .. BlockBytes
            /\ \A i \in k + 1 .. BlockBytes : u[i] = 0
        BY <1>1, <2>4, RemoveNoMark
      <3>2. \A i \in c + k + 1 .. m : plain[i] = Plain(0)
        BY <1>5, <3>1
      <3>3. k \in Nat /\ c + k <= m
        BY <1>1, <1>2, <2>2, <3>1
      <3>4. QED
        BY <2>4, <3>1, <3>2, <3>3
    <2>5. QED
      BY <2>1, <2>3, <2>4
  <1>7. CASE Pads(padding, m % BlockBytes)
    <2>1. PICK f, r : f = FullLen(m) /\ r = m % BlockBytes
      OBVIOUS
    <2>2. Len(plain) = f + BlockBytes
      BY <1>3, <1>7, <2>1, FilledMore
    <2>3. \A i \in r + 1 .. BlockBytes : plain[f + i] = Plain(PadByte(i, r, padding))
      BY <1>3, <1>7, <2>1, FilledMore
    <2>4. f \in Nat /\ f <= m /\ m < f + BlockBytes /\ m - f = r
      BY <1>2, <2>1, FullLenFacts
    <2>5. f = c
      BY <1>1, <1>2, <2>2, <2>4
    <2>6. r \in 0 .. BlockBytes - 1 /\ r \in Nat /\ r < BlockBytes /\ m = c + r
      BY <1>1, <1>2, <2>4, <2>5
    <2>7. padding \in Paddings \ {"NONE"}
      BY <1>7 DEF Pads
    <2>8. ASSUME NEW i \in r + 1 .. BlockBytes PROVE u[i] = PadByte(i, r, padding)
      <3>1. i \in 1 .. BlockBytes
        BY <1>2, <2>6
      <3>2. u[i] = Value(Plain(PadByte(i, r, padding)))
        BY <1>4, <2>3, <2>5, <3>1
      <3>3. PadByte(i, r, padding) \in Nat
        BY <2>6, PadByteType
      <3>4. QED
        BY <3>2, <3>3, PlainFacts
    <2>9. Remove(u, padding).status = "OK"
      BY <1>1, <2>6, <2>7, <2>8, RemoveOfApplied
    <2>10. padding # "ZERO" => k = r
      BY <1>1, <2>6, <2>7, <2>8, RemoveOfApplied
    <2>11. ASSUME padding = "ZERO"
           PROVE  k \in 0 .. r /\ \A i \in c + k + 1 .. m : plain[i] = Plain(0)
      <3>1. k \in 0 .. r /\ \A i \in k + 1 .. BlockBytes : u[i] = 0
        BY <1>1, <2>6, <2>7, <2>8, <2>11, RemoveOfApplied
      <3>2. k \in 0 .. BlockBytes
        BY <1>2, <2>6, <3>1
      <3>3. QED
        BY <1>5, <3>1, <3>2
    <2>12. k \in Nat /\ c + k <= m /\ (padding # "ZERO" => c + k = m)
      BY <1>1, <2>6, <2>10, <2>11
    <2>13. QED
      BY <2>9, <2>11, <2>12
  <1>8. QED
    BY <1>6, <1>7

\* A text without its padding, padded again.
LEMMA ThereAgain ==
  ASSUME NEW plain, NEW c, NEW s, NEW u, Stripping(plain, c, s, u), AllBytes(plain),
         NEW padding \in Paddings \ {"ZERO"}, Remove(u, padding).status = "OK",
         NEW m, m = c + Remove(u, padding).len, NEW t, t = Take(plain, m)
  PROVE  m \in 0 .. Len(plain) /\ SizeStatus(Len(t), padding) = "OK" /\ Filled(t, padding) = plain
  <1>1. /\ IsText(plain) /\ Len(plain) = c + BlockBytes /\ c \in Nat
        /\ u \in Seq(Int) /\ Len(u) = BlockBytes
    BY DEF Stripping
  <1>2. Len(plain) % BlockBytes = 0
    BY DEF Stripping
  <1>3. BlockBytes \in Nat /\ BlockBytes > 0
    BY BlockAssumption
  <1>4. PICK k : k = Remove(u, padding).len
    OBVIOUS
  <1>5. CASE padding = "NONE"
    <2>1. k = BlockBytes
      BY <1>1, <1>4, <1>5, RemoveNoMark
    <2>2. m = Len(plain) /\ m \in 0 .. Len(plain)
      BY <1>1, <1>3, <1>4, <2>1
    <2>3. t = plain
      <3>1. t = Slice(plain, 0, Len(plain))
        BY <2>2, TakeSlice
      <3>2. QED
        BY <1>1, <3>1, NothingRead
    <2>4. Filled(t, padding) = plain
      BY <1>1, <1>5, <2>3, FilledSame DEF Pads
    <2>5. QED
      BY <1>2, <2>2, <2>3, <2>4 DEF SizeStatus
  <1>6. CASE padding # "NONE"
    <2>1. k \in 0 .. BlockBytes - 1
      BY <1>1, <1>4, <1>6, RemoveSays
    <2>2. \A i \in k + 1 .. BlockBytes : u[i] = PadByte(i, k, padding)
      BY <1>1, <1>4, <1>6, RemoveSays
    <2>3. /\ m = c + k /\ m \in Nat /\ m <= Len(plain) /\ m \in 0 .. Len(plain)
          /\ k \in Nat /\ k < BlockBytes
      BY <1>1, <1>3, <1>4, <2>1
    <2>4. FullLen(m) = c /\ m % BlockBytes = k
      <3>1. (1 * BlockBytes + c) % BlockBytes = c % BlockBytes
        BY <1>1, ShiftDivision
      <3>2. c % BlockBytes = 0
        <4>1. 1 * BlockBytes + c = Len(plain)
          BY <1>1, <1>3
        <4>2. QED
          BY <1>2, <3>1, <4>1
      <3>3. FullLen(c + k) = c + FullLen(k)
        BY <1>1, <2>3, <3>2, FullLenShift
      <3>4. FullLen(k) = 0
        BY <2>1, SmallRemainder, BlockAssumption DEF FullLen
      <3>5. FullLen(m) = c
        BY <1>1, <2>3, <3>3, <3>4
      <3>6. m - FullLen(m) = m % BlockBytes
        BY <2>3, FullLenFacts
      <3>7. QED
        BY <1>1, <2>3, <3>5, <3>6
    <2>5. IsText(t) /\ Len(t) = m /\ \A i \in 1 .. m : t[i] = plain[i]
      BY <1>1, <2>3, TakeDrop
    <2>6. AllBytes(t)
      <3>1. \A i \in 1 .. m : i \in 1 .. Len(plain)
        BY <1>1, <1>3, <2>3
      <3>2. QED
        BY <2>5, <3>1 DEF AllBytes
    <2>7. Pads(padding, Len(t) % BlockBytes)
      BY <1>6 DEF Pads
    <2>8. PICK v : v = Filled(t, padding)
      OBVIOUS
    <2>9. IsText(v) /\ Len(v) = c + BlockBytes
      BY <2>4, <2>5, <2>6, <2>7, <2>8, FilledMore DEF IsWhole
    <2>10. \A i \in 1 .. m : v[i] = t[i]
      BY <2>5, <2>6, <2>7, <2>8, FilledMore
    <2>11. \A i \in k + 1 .. BlockBytes : v[c + i] = Plain(PadByte(i, k, padding))
      BY <2>4, <2>5, <2>6, <2>7, <2>8, FilledMore
    <2>12. ASSUME NEW p \in 1 .. Len(v) PROVE v[p] = plain[p]
      <3>1. CASE p <= m
        <4>1. p \in 1 .. m
          BY <2>3, <3>1
        <4>2. QED
          BY <2>5, <2>10, <4>1
      <3>2. CASE p > m
        <4>1. /\ p - c \in k + 1 .. BlockBytes /\ p - c \in 1 .. BlockBytes /\ c + (p - c) = p
              /\ p \in 1 .. Len(plain)
          BY <1>1, <1>3, <2>3, <2>9, <3>2
        <4>2. v[p] = Plain(u[p - c])
          BY <2>2, <2>11, <4>1
        <4>3. u[p - c] \in Nat
          BY <2>2, <2>3, <4>1, PadByteType
        <4>4. u[p - c] = s[c + (p - c)]
          BY <4>1 DEF Stripping
        <4>5. s[p] \in Nat => plain[p] = Plain(s[p])
          BY <4>1 DEF Stripping
        <4>6. QED
          BY <4>1, <4>2, <4>3, <4>4, <4>5
      <3>3. p \in Int /\ m \in Int
        BY <2>3
      <3>4. QED
        BY <3>1, <3>2, <3>3
    <2>13. v = plain
      BY <1>1, <2>9, <2>12, TextEqual
    <2>14. QED
      BY <1>6, <2>3, <2>8, <2>13 DEF SizeStatus
  <1>7. QED
    BY <1>5, <1>6

\* The text a file is the encryption of: decryption accepts the file, and takes off what
\* encryption appended.
LEMMA FromOrigin ==
  ASSUME NEW body, IsText(body), KnownBlocks(body), body # <<>>,
         NEW plain, plain = Unchain(body, Iv), NEW padding \in Paddings,
         NEW m \in 0 .. Len(plain), NEW t, t = Take(plain, m),
         EncryptBuffer(t, Iv, padding) = [status |-> "OK", out |-> body],
         NEW last, last = BlockAt(plain, Count(body)),
         NEW c, c = (Count(body) - 1) * BlockBytes,
         NEW a, a = c + Remove(Values(last), padding).len
  PROVE  /\ Len(body) % BlockBytes = 0
         /\ Remove(Values(last), padding).status = "OK"
         /\ a \in Nat /\ a <= m /\ (padding # "ZERO" => a = m)
         /\ padding = "ZERO" => \A i \in a + 1 .. m : plain[i] = Plain(0)
  <1>1. /\ IsText(t) /\ AllBytes(t) /\ Filled(t, padding) = plain
        /\ Len(body) % BlockBytes = 0
    BY OriginFills
  <1>2. Count(body) # 0
    BY <1>1, BlocksOfBody
  <1>3. PICK u, s : u = Values(last) /\ s = Values(plain)
    OBVIOUS
  <1>4. Stripping(plain, c, s, u)
    BY <1>1, <1>2, <1>3, LastValues
  <1>5. PICK k : k = Remove(u, padding).len
    OBVIOUS
  <1>6. /\ Remove(u, padding).status = "OK"
        /\ k \in Nat /\ c + k <= m /\ (padding # "ZERO" => c + k = m)
        /\ padding = "ZERO" => \A i \in c + k + 1 .. m : plain[i] = Plain(0)
    BY <1>1, <1>4, <1>5, WayBack
  <1>7. c \in Nat /\ a = c + k
    BY <1>3, <1>4, <1>5 DEF Stripping
  <1>8. QED
    BY <1>1, <1>3, <1>6, <1>7

\* Decryption that accepts a file returns a text the file is the encryption of.
LEMMA ToOrigin ==
  ASSUME NEW body, IsText(body), KnownBlocks(body), body # <<>>, Len(body) % BlockBytes = 0,
         NEW plain, plain = Unchain(body, Iv), NEW padding \in Paddings \ {"ZERO"},
         NEW last, last = BlockAt(plain, Count(body)),
         Remove(Values(last), padding).status = "OK",
         NEW c, c = (Count(body) - 1) * BlockBytes,
         NEW a, a = c + Remove(Values(last), padding).len, NEW t, t = Take(plain, a)
  PROVE  /\ a \in 0 .. Len(plain)
         /\ EncryptBuffer(t, Iv, padding) = [status |-> "OK", out |-> body]
  <1>1. Count(body) # 0
    BY BlocksOfBody
  <1>2. PICK u, s : u = Values(last) /\ s = Values(plain)
    OBVIOUS
  <1>3. Stripping(plain, c, s, u)
    BY <1>1, <1>2, LastValues
  <1>4. AllBytes(plain)
    BY DecryptedFacts
  <1>5. Remove(u, padding).status = "OK" /\ a = c + Remove(u, padding).len
    BY <1>2
  <1>6. a \in 0 .. Len(plain) /\ SizeStatus(Len(t), padding) = "OK" /\ Filled(t, padding) = plain
    BY <1>3, <1>4, <1>5, ThereAgain
  <1>7. Chain(plain, Iv) = body
    BY ChainOfDecrypted
  <1>8. QED
    BY <1>6, <1>7, EncryptBufferFacts

LEMMA OnlyZeros ==
  ASSUME NEW plain, IsText(plain), NEW m \in 0 .. Len(plain), NEW a \in Nat, a <= m,
         NEW t, t = Take(plain, m), NEW o, o = Take(plain, a),
         \A i \in a + 1 .. m : plain[i] = Plain(0)
  PROVE  Take(t, Len(o)) = o /\ IsZeros(Drop(t, Len(o)))
  <1>1. Len(plain) \in Nat /\ m \in Nat /\ m <= Len(plain) /\ a <= Len(plain)
    BY TextFacts
  <1>2. IsText(t) /\ Len(t) = m /\ \A i \in 1 .. m : t[i] = plain[i]
    BY <1>1, TakeDrop
  <1>3. IsText(o) /\ Len(o) = a /\ \A i \in 1 .. a : o[i] = plain[i]
    BY <1>1, TakeDrop
  <1>4. /\ IsText(Take(t, a)) /\ Len(Take(t, a)) = a
        /\ \A i \in 1 .. a : Take(t, a)[i] = t[i]
        /\ IsText(Drop(t, a)) /\ Len(Drop(t, a)) = m - a
        /\ \A i \in 1 .. m - a : Drop(t, a)[i] = t[a + i]
    BY <1>2, TakeDrop
  <1>5. \A i \in 1 .. a : Take(t, a)[i] = o[i]
    <2>1. \A i \in 1 .. a : i \in 1 .. m
      BY <1>1
    <2>2. QED
      BY <1>2, <1>3, <1>4, <2>1
  <1>6. Take(t, a) = o
    BY <1>3, <1>4, <1>5, TextEqual
  <1>7. ASSUME NEW i \in DOMAIN Drop(t, a) PROVE Drop(t, a)[i] = Plain(0)
    <2>1. i \in 1 .. m - a
      BY <1>4, TextFacts
    <2>2. a + i \in 1 .. m /\ a + i \in a + 1 .. m
      BY <1>1, <2>1
    <2>3. Drop(t, a)[i] = plain[a + i]
      BY <1>2, <1>4, <2>1, <2>2
    <2>4. QED
      BY <2>2, <2>3
  <1>8. IsZeros(Drop(t, a))
    BY <1>7 DEF IsZeros
  <1>9. QED
    BY <1>3, <1>6, <1>8

LEMMA RoundTripFollows == Inv => RoundTrip
  <1> SUFFICES ASSUME Inv, Done("decrypt"), Body # <<>>
               PROVE  IF call.padding = "ZERO"
                        THEN \A t \in Origins : /\ status = "OK" /\ Take(t, Len(out)) = out
                                                /\ IsZeros(Drop(t, Len(out)))
                        ELSE Origins = IF status = "OK" THEN {out} ELSE {}
    BY DEF RoundTrip
  <1>1. call.op = "decrypt" /\ call.padding \in Paddings
    BY DEF Done, Ended, Inv, CallInv
  <1>2. IvFits /\ UsedIv = Iv /\ IsText(Body) /\ KnownBlocks(Body)
    BY <1>1 DEF Inv, GivenFile
  <1>3. status = FileStatus /\ (status = "OK" => out = Plaintext)
    BY <1>2 DEF Inv, DecryptDone, Done, Written
  <1>4. PICK body, plain, padding, last, c :
          /\ body = Body /\ plain = Decrypted /\ padding = call.padding
          /\ last = LastPlain /\ c = (Count(body) - 1) * BlockBytes
    OBVIOUS
  <1>5. PICK a : a = c + Remove(Values(last), padding).len
    OBVIOUS
  <1>6. /\ IsText(body) /\ KnownBlocks(body) /\ body # <<>> /\ padding \in Paddings
        /\ plain = Unchain(body, Iv) /\ last = BlockAt(plain, Count(body))
    BY <1>1, <1>2, <1>4 DEF Decrypted, LastPlain
  <1>7. PICK st, o : st = status /\ o = out
    OBVIOUS
  <1>8. /\ Len(body) % BlockBytes = 0 => st = Remove(Values(last), padding).status
        /\ Len(body) % BlockBytes # 0 => st # "OK"
        /\ st = "OK" => o = Take(plain, a)
    <2>1. /\ Len(body) % BlockBytes = 0 => st = Remove(Values(last), padding).status
          /\ Len(body) % BlockBytes # 0 => st # "OK"
      BY <1>3, <1>4, <1>6, <1>7 DEF FileStatus
    <2>2. Plaintext = Take(plain, a)
      BY <1>4, <1>5 DEF Plaintext
    <2>3. QED
      BY <1>3, <1>7, <2>1, <2>2
  <1>9. Origins = {t \in {Take(plain, n) : n \in 0 .. Len(plain)} :
                     EncryptBuffer(t, Iv, padding) = [status |-> "OK", out |-> body]}
    BY <1>2, <1>4, <1>6 DEF Origins
  <1>10. IsText(plain)
    BY <1>6, DecryptedFacts DEF IsWhole
  <1>11. ASSUME NEW m \in 0 .. Len(plain), NEW t, t = Take(plain, m),
                EncryptBuffer(t, Iv, padding) = [status |-> "OK", out |-> body]
         PROVE  /\ st = "OK" /\ o = Take(plain, a) /\ a \in Nat /\ a <= m
                /\ padding # "ZERO" => a = m
                /\ padding = "ZERO" => Take(t, Len(o)) = o /\ IsZeros(Drop(t, Len(o)))
    <2>1. /\ Len(body) % BlockBytes = 0
          /\ Remove(Values(last), padding).status = "OK"
          /\ a \in Nat /\ a <= m /\ (padding # "ZERO" => a = m)
          /\ padding = "ZERO" => \A i \in a + 1 .. m : plain[i] = Plain(0)
      BY <1>4, <1>5, <1>6, <1>11, FromOrigin
    <2>2. st = "OK" /\ o = Take(plain, a)
      BY <1>8, <2>1
    <2>3. padding = "ZERO" => Take(t, Len(o)) = o /\ IsZeros(Drop(t, Len(o)))
      BY <1>10, <1>11, <2>1, <2>2, OnlyZeros
    <2>4. QED
      BY <2>1, <2>2, <2>3
  <1>12. ASSUME padding # "ZERO", st = "OK"
         PROVE  /\ a \in 0 .. Len(plain)
                /\ EncryptBuffer(Take(plain, a), Iv, padding) = [status |-> "OK", out |-> body]
    <2>1. Len(body) % BlockBytes = 0 /\ Remove(Values(last), padding).status = "OK"
      BY <1>8, <1>12
    <2>2. padding \in Paddings \ {"ZERO"}
      BY <1>6, <1>12
    <2>3. QED
      BY <1>4, <1>5, <1>6, <2>1, <2>2, ToOrigin
  <1>13. CASE padding = "ZERO"
    <2>1. ASSUME NEW t \in Origins
          PROVE  st = "OK" /\ Take(t, Len(o)) = o /\ IsZeros(Drop(t, Len(o)))
      <3>1. PICK m \in 0 .. Len(plain) : t = Take(plain, m)
        BY <1>9
      <3>2. EncryptBuffer(t, Iv, padding) = [status |-> "OK", out |-> body]
        BY <1>9
      <3>3. QED
        BY <1>11, <1>13, <3>1, <3>2
    <2>2. QED
      BY <1>4, <1>7, <1>13, <2>1
  <1>14. CASE padding # "ZERO"
    <2>1. ASSUME NEW t \in Origins PROVE st = "OK" /\ t = o
      <3>1. PICK m \in 0 .. Len(plain) : t = Take(plain, m)
        BY <1>9
      <3>2. EncryptBuffer(t, Iv, padding) = [status |-> "OK", out |-> body]
        BY <1>9
      <3>3. st = "OK" /\ o = Take(plain, a) /\ a = m
        BY <1>11, <1>14, <3>1, <3>2
      <3>4. QED
        BY <3>1, <3>3
    <2>2. st = "OK" => o \in Origins
      BY <1>8, <1>9, <1>12, <1>14
    <2>3. Origins = IF st = "OK" THEN {o} ELSE {}
      BY <2>1, <2>2
    <2>4. QED
      BY <1>4, <1>7, <1>14, <2>3
  <1>15. QED
    BY <1>13, <1>14

\* Every file is decrypted to the text whose encryption it is, and refused if it is none;
\* under zero padding, to the one of these texts without the zeros at its end.
THEOREM CbcRoundTrip == Spec => []RoundTrip
  <1>1. QED
    BY CbcInvariant, RoundTripFollows, PTL

=============================================================================
