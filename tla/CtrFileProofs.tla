--------------------------- MODULE CtrFileProofs ---------------------------
(***************************************************************************)
(* Proofs about CtrFile: a file call does what the one-shot call does, for *)
(* every chunk size, and what is encrypted is decrypted.                   *)
(***************************************************************************)
EXTENDS CtrFile, BytesProofs

-----------------------------------------------------------------------------
(* Bytes and keystream *)

\* A byte under keystream of the one IV there is.
Byte == [v : Int, ks : SUBSET ({Iv} \X Int)]

LEMMA CombineFacts ==
  ASSUME NEW byte \in Byte, NEW i \in Int
  PROVE  /\ Combine(byte, <<Iv, i>>) \in Byte
         /\ Combine(byte, <<Iv, i>>).v = byte.v
         /\ Combine(Combine(byte, <<Iv, i>>), <<Iv, i>>) = byte
  <1> DEFINE k == <<Iv, i>>
             c == Combine(byte, k)
  <1>1. k \in {Iv} \X Int
    OBVIOUS
  <1> HIDE DEF k
  <1>2. byte = [v |-> byte.v, ks |-> byte.ks] /\ byte.v \in Int
        /\ byte.ks \subseteq {Iv} \X Int
    BY DEF Byte
  <1>3. c = [v |-> byte.v, ks |-> Toggle(byte.ks, k)]
    BY <1>2 DEF Combine
  <1>4. Toggle(byte.ks, k) \subseteq {Iv} \X Int /\ Toggle(Toggle(byte.ks, k), k) = byte.ks
    BY <1>1, <1>2 DEF Toggle
  <1>5. Combine(c, k) = [v |-> byte.v, ks |-> Toggle(Toggle(byte.ks, k), k)]
    <2> HIDE DEF c
    <2>1. QED
      BY <1>3 DEF Combine
  <1>6. QED
    BY <1>2, <1>3, <1>4, <1>5 DEF Byte, k

LEMMA PlainFacts ==
  ASSUME NEW s \in Seq(Int)
  PROVE  /\ PlainText(s) \in Seq(Byte) /\ Len(PlainText(s)) = Len(s)
         /\ \A i \in 1 .. Len(s) : PlainText(s)[i] = Plain(s[i])
  <1>1. \A i \in 1 .. Len(s) : Plain(s[i]) \in Byte
    <2>1. \A i \in 1 .. Len(s) : s[i] \in Int
      BY ElementOfSeq
    <2>2. QED
      BY <2>1 DEF Plain, Byte
  <1>2. DOMAIN s = 1 .. Len(s) /\ Len(s) \in Nat
    BY LenProperties
  <1>3. PlainText(s) = [i \in 1 .. Len(s) |-> Plain(s[i])]
    BY <1>2 DEF PlainText
  <1> HIDE DEF Byte
  <1>4. QED
    BY <1>1, <1>2, <1>3

LEMMA ValueFacts ==
  ASSUME NEW s \in Seq(Byte)
  PROVE  /\ Values(s) \in Seq(Int) /\ Len(Values(s)) = Len(s)
         /\ \A i \in 1 .. Len(s) : Values(s)[i] = Value(s[i])
  <1>1. \A i \in 1 .. Len(s) : Value(s[i]) \in Int
    <2>1. \A i \in 1 .. Len(s) : s[i] \in Byte
      BY ElementOfSeq
    <2>2. QED
      BY <2>1 DEF Value, NoValue, Byte
  <1>2. DOMAIN s = 1 .. Len(s) /\ Len(s) \in Nat
    BY LenProperties
  <1>3. Values(s) = [i \in 1 .. Len(s) |-> Value(s[i])]
    BY <1>2 DEF Values
  <1> HIDE DEF Byte
  <1>4. QED
    BY <1>1, <1>2, <1>3

LEMMA XorFacts ==
  ASSUME NEW s \in Seq(Byte), NEW k \in Nat
  PROVE  /\ Xor(s, Iv, k) \in Seq(Byte) /\ Len(Xor(s, Iv, k)) = Len(s)
         /\ \A i \in 1 .. Len(s) :
              Xor(s, Iv, k)[i] = Combine(s[i], <<Iv, k * BlockBytes + i - 1>>)
  <1>1. \A i \in 1 .. Len(s) : Combine(s[i], <<Iv, k * BlockBytes + i - 1>>) \in Byte
    <2>1. SUFFICES ASSUME NEW i \in 1 .. Len(s)
                   PROVE  Combine(s[i], <<Iv, k * BlockBytes + i - 1>>) \in Byte
      OBVIOUS
    <2>2. s[i] \in Byte /\ k * BlockBytes + i - 1 \in Int
      BY ElementOfSeq, BlockAssumption
    <2>3. QED
      BY <2>2, CombineFacts
  <1>2. DOMAIN s = 1 .. Len(s) /\ Len(s) \in Nat
    BY LenProperties
  <1>3. Xor(s, Iv, k) = [i \in 1 .. Len(s) |-> Combine(s[i], <<Iv, k * BlockBytes + i - 1>>)]
    BY <1>2 DEF Xor
  <1> HIDE DEF Byte
  <1>4. QED
    BY <1>1, <1>2, <1>3

\* Part of a text, from a whole block on, is combined with the same keystream as in the text.
LEMMA XorSlice ==
  ASSUME NEW s \in Seq(Byte), NEW k \in Nat, NEW b \in Nat,
         k * BlockBytes <= b, b <= Len(s)
  PROVE  Xor(Slice(s, k * BlockBytes, b), Iv, k) = Slice(Xor(s, Iv, 0), k * BlockBytes, b)
  <1> DEFINE a == k * BlockBytes
             x == Xor(s, Iv, 0)
             t == Slice(s, a, b)
             l == Xor(t, Iv, k)
             r == Slice(x, a, b)
  <1>0. a \in Nat
    BY BlockAssumption
  <1>1. /\ x \in Seq(Byte) /\ Len(x) = Len(s)
        /\ \A i \in 1 .. Len(s) : x[i] = Combine(s[i], <<Iv, 0 * BlockBytes + i - 1>>)
    BY XorFacts
  <1>11. \A i \in 1 .. Len(s) : x[i] = Combine(s[i], <<Iv, i - 1>>)
    <2> HIDE DEF x
    <2>1. \A i \in Int : 0 * BlockBytes + i - 1 = i - 1
      BY BlockAssumption
    <2>2. QED
      BY <1>1, <2>1
  <1> HIDE DEF a
  <1>2. t \in Seq(Byte) /\ Len(t) = b - a /\ \A i \in 1 .. b - a : t[i] = s[a + i]
    BY <1>0, SliceFacts DEF a
  <1>3. r \in Seq(Byte) /\ Len(r) = b - a /\ \A i \in 1 .. b - a : r[i] = x[a + i]
    <2> HIDE DEF x, Byte
    <2>1. a <= b /\ b <= Len(x)
      BY <1>1 DEF a
    <2>2. QED
      BY <1>0, <1>1, <2>1, SliceFacts
  <1>4. /\ l \in Seq(Byte) /\ Len(l) = Len(t)
        /\ \A i \in 1 .. Len(t) : l[i] = Combine(t[i], <<Iv, a + i - 1>>)
    <2> HIDE DEF t
    <2>1. QED
      BY <1>2, XorFacts DEF a
  <1> HIDE DEF x, t, l, r, Byte
  <1>5. ASSUME NEW i \in 1 .. Len(l) PROVE l[i] = r[i]
    <2>1. i \in 1 .. b - a /\ a + i \in 1 .. Len(s) /\ a + i - 1 = (a + i) - 1
      BY <1>0, <1>2, <1>4
    <2>2. l[i] = Combine(s[a + i], <<Iv, a + i - 1>>)
      BY <1>2, <1>4, <2>1
    <2>3. r[i] = Combine(s[a + i], <<Iv, (a + i) - 1>>)
      BY <1>3, <1>11, <2>1
    <2>4. QED
      BY <2>1, <2>2, <2>3
  <1>6. l = r
    BY <1>2, <1>3, <1>4, <1>5, SeqEqual
  <1>7. QED
    BY <1>6 DEF l, r, t, x, a

\* Whole blocks and what follows them can be combined one after the other.
LEMMA XorJoin ==
  ASSUME NEW s \in Seq(Byte), NEW t \in Seq(Byte), NEW k \in Nat, Len(s) = k * BlockBytes
  PROVE  Xor(s \o t, Iv, 0) = Xor(s, Iv, 0) \o Xor(t, Iv, k)
  <1> DEFINE a == k * BlockBytes
             u == s \o t
             x == Xor(u, Iv, 0)
             y == Xor(s, Iv, 0)
             z == Xor(t, Iv, k)
  <1>0. a \in Nat /\ Len(s) = a /\ Len(t) \in Nat
    BY BlockAssumption, LenProperties
  <1>1. /\ u \in Seq(Byte) /\ Len(u) = a + Len(t)
        /\ \A i \in 1 .. a + Len(t) : u[i] = IF i <= a THEN s[i] ELSE t[i - a]
    <2> HIDE DEF a
    <2>1. QED
      BY <1>0, ConcatProperties
  <1>z. \A i \in Int : 0 * BlockBytes + i - 1 = i - 1
    BY BlockAssumption
  <1>2. /\ x \in Seq(Byte) /\ Len(x) = Len(u)
        /\ \A i \in 1 .. Len(u) : x[i] = Combine(u[i], <<Iv, 0 * BlockBytes + i - 1>>)
    <2> HIDE DEF u
    <2>1. QED
      BY <1>1, XorFacts
  <1>3. /\ y \in Seq(Byte) /\ Len(y) = a
        /\ \A i \in 1 .. a : y[i] = Combine(s[i], <<Iv, 0 * BlockBytes + i - 1>>)
    <2> HIDE DEF a
    <2>1. QED
      BY <1>0, XorFacts
  <1>4. /\ z \in Seq(Byte) /\ Len(z) = Len(t)
        /\ \A i \in 1 .. Len(t) : z[i] = Combine(t[i], <<Iv, a + i - 1>>)
    BY XorFacts
  <1> HIDE DEF a, u, x, y, z, Byte
  <1>5. /\ y \o z \in Seq(Byte) /\ Len(y \o z) = a + Len(t)
        /\ \A i \in 1 .. a + Len(t) : (y \o z)[i] = IF i <= a THEN y[i] ELSE z[i - a]
    BY <1>3, <1>4, ConcatProperties
  <1>6. ASSUME NEW i \in 1 .. Len(x) PROVE x[i] = (y \o z)[i]
    <2>1. i \in 1 .. a + Len(t) /\ i \in Int
      BY <1>0, <1>1, <1>2
    <2>2. x[i] = Combine(u[i], <<Iv, i - 1>>)
      BY <1>1, <1>2, <1>z, <2>1
    <2>3. CASE i <= a
      <3>1. i \in 1 .. a
        BY <1>0, <2>1, <2>3
      <3>2. QED
        BY <1>1, <1>3, <1>5, <1>z, <2>1, <2>2, <2>3, <3>1
    <2>4. CASE ~(i <= a)
      <3>1. i - a \in 1 .. Len(t) /\ a + (i - a) - 1 = i - 1
        BY <1>0, <2>1, <2>4
      <3>2. z[i - a] = Combine(t[i - a], <<Iv, i - 1>>)
        BY <1>4, <3>1
      <3>3. QED
        BY <1>1, <1>5, <2>1, <2>2, <2>4, <3>2
    <2>5. QED
      BY <2>3, <2>4
  <1>7. x = y \o z
    <2>1. Len(x) = Len(y \o z)
      BY <1>1, <1>2, <1>5
    <2>2. QED
      BY <1>2, <1>5, <1>6, <2>1, SeqEqual
  <1>8. QED
    BY <1>7 DEF x, y, z, u

-----------------------------------------------------------------------------
(* The loop on sequences *)

\* What ProcessLen leaves is less than a block, or a block and less than another.
LEMMA ProcessFacts ==
  ASSUME NEW total \in Nat, call.op \in {"encrypt", "decrypt"}
  PROVE  /\ ProcessLen(total) \in Nat /\ ProcessLen(total) <= total
         /\ Advance(total) \in Nat /\ Advance(total) * BlockBytes = ProcessLen(total)
         /\ call.op = "encrypt" => total - ProcessLen(total) < BlockBytes
         /\ call.op = "decrypt" => /\ total - ProcessLen(total) < 2 * BlockBytes
                                   /\ \/ total - ProcessLen(total) >= BlockBytes
                                      \/ ProcessLen(total) = 0
  <1>1. CASE call.op = "encrypt"
    <2>1. ProcessLen(total) = FullLen(total)
      BY <1>1 DEF ProcessLen
    <2>2. QED
      BY <1>1, <2>1, FullLenFacts, BlockAssumption DEF Advance
  <1>2. CASE call.op = "decrypt" /\ total < BlockBytes
    <2>1. ProcessLen(total) = 0
      BY <1>2 DEF ProcessLen, DecryptLen
    <2>2. 0 \div BlockBytes = 0
      <3>1. 0 = 0 * BlockBytes + 0 /\ 0 \in 0 .. BlockBytes - 1 /\ 0 \in Nat /\ 0 \in Int
        BY BlockAssumption
      <3>2. QED
        BY <3>1, QuotientUnique
    <2>3. Advance(total) = 0 /\ 0 * BlockBytes = 0
      BY <2>1, <2>2, BlockAssumption DEF Advance
    <2>4. QED
      BY <1>2, <2>1, <2>3, BlockAssumption
  <1>3. CASE call.op = "decrypt" /\ ~(total < BlockBytes)
    <2> DEFINE rest == total - BlockBytes
    <2>1. rest \in Nat /\ total = rest + BlockBytes /\ BlockBytes \in Nat
      BY <1>3, BlockAssumption
    <2>2. ProcessLen(total) = FullLen(rest)
      BY <1>3 DEF ProcessLen, DecryptLen
    <2> HIDE DEF rest
    <2>3. /\ FullLen(rest) \in Nat /\ FullLen(rest) <= rest
          /\ rest < FullLen(rest) + BlockBytes
          /\ FullLen(rest) \div BlockBytes \in Nat
          /\ (FullLen(rest) \div BlockBytes) * BlockBytes = FullLen(rest)
      BY <2>1, FullLenFacts
    <2>4. QED
      BY <1>3, <2>1, <2>2, <2>3 DEF Advance
  <1>4. QED
    BY <1>1, <1>2, <1>3

-----------------------------------------------------------------------------
(* The invariant *)

NeedsIv == call.op = "decrypt" /\ call.prefix_iv

\* The file holds bytes and, when decryption needs it, begins with the IV if long enough.
FileInv ==
  /\ call.file \in Seq(Byte)
  /\ NeedsIv /\ Len(call.file) >= BlockBytes => Take(call.file, BlockBytes) = Iv

Fresh ==
  /\ held = <<>> /\ offset = 0 /\ out = <<>> /\ status = "none"
  /\ ~broken /\ ~created /\ ~lost /\ ~fault

\* Where the reading has got to.
ReadTo == Len(Body) - Len(fin)

Cut == offset * BlockBytes

\* The blocks before Cut are written, the bytes from there to ReadTo are in held and the
\* others not read.
Streams ==
  /\ fin \in Seq(Byte) /\ ReadTo \in Nat /\ Cut <= ReadTo
  /\ fin = Slice(Body, ReadTo, Len(Body))
  /\ held = Slice(Body, Cut, ReadTo)
  /\ out = Header \o Slice(Xor(Body, Iv, 0), 0, Cut)

\* Decryption keeps a block once it has written one.
KeepsBlock == call.op = "decrypt" /\ offset > 0 => Len(held) >= BlockBytes

Running ==
  /\ NeedsIv => Len(call.file) >= BlockBytes
  /\ Streams /\ KeepsBlock /\ ~lost /\ (fault => broken)

Phases ==
  /\ pc # "returned" => call.padding \in Paddings /\ status = "none"
  /\ pc = "open" => Fresh
  /\ pc \in {"loop", "last"} => Running
  /\ pc = "last" => fin = <<>> /\ ~broken

Inv ==
  /\ TypeOK /\ BuffersFit /\ held \in Seq(Byte) /\ out \in Seq(Byte) /\ used_iv = Iv
  /\ FileInv /\ Phases
  /\ EncryptsAsOneShot /\ DecryptsAsOneShot

LEMMA IvFacts == Iv \in Seq(Byte) /\ Len(Iv) = BlockBytes
  <1>1. BlockBytes \in Nat /\ Iv \in [1 .. BlockBytes -> [v : Nat, ks : {{}}]]
    BY BlockAssumption, IvAssumption
  <1>2. \A byte \in [v : Nat, ks : {{}}] : byte \in Byte
    BY DEF Byte
  <1>3. Iv \in [1 .. BlockBytes -> Byte]
    BY <1>1, <1>2
  <1> HIDE DEF Byte
  <1>4. QED
    BY <1>1, <1>3

LEMMA TextFacts ==
  ASSUME FileInv, NeedsIv => Len(call.file) >= BlockBytes
  PROVE  Body \in Seq(Byte) /\ Header \in Seq(Byte)
  <1>1. Header \in Seq(Byte)
    BY IvFacts, EmptySeq DEF Header
  <1>2. CASE NeedsIv
    <2>1. Len(call.file) >= BlockBytes /\ call.file \in Seq(Byte) /\ Len(call.file) \in Nat
          /\ BlockBytes \in Nat
      BY <1>2, LenProperties, BlockAssumption DEF FileInv
    <2>2. Body = Slice(call.file, BlockBytes, Len(call.file))
      BY <1>2, TakeSlice DEF Body, NeedsIv
    <2>3. QED
      BY <1>1, <2>1, <2>2, SliceFacts
  <1>3. CASE ~NeedsIv
    BY <1>1, <1>3 DEF Body, NeedsIv, FileInv
  <1>4. QED
    BY <1>2, <1>3

\* A turn of the loop goes on where the last one ended.
LEMMA TurnStep ==
  ASSUME Inv, Turn
  PROVE  /\ Streams' /\ KeepsBlock' /\ BuffersFit' /\ offset' \in Nat
         /\ held' \in Seq(Byte) /\ out' \in Seq(Byte)
  <1> DEFINE t == Len(Body)
             r == ReadTo
             a == Cut
             x == Xor(Body, Iv, 0)
  <1>1. /\ Streams /\ call.op \in {"encrypt", "decrypt"} /\ offset \in Nat /\ used_iv = Iv
        /\ call.chunk \in Nat /\ FileInv /\ (NeedsIv => Len(call.file) >= BlockBytes)
    BY DEF Inv, Phases, Running, Turn, TypeOK
  <1>2. Body \in Seq(Byte) /\ Header \in Seq(Byte)
    BY <1>1, TextFacts
  <1>3. PICK n \in 1 .. call.chunk :
          LET buf == held \o Take(fin, n)
              len == ProcessLen(Len(buf))
          IN
          /\ Reads(n)
          /\ out' = out \o Xor(Take(buf, len), used_iv, offset)
          /\ held' = Drop(buf, len)
          /\ offset' = offset + Advance(Len(buf))
    BY DEF Turn
  <1>4. call' = call /\ Body' = Body /\ Header' = Header
    BY DEF Turn, Body, Header
  <1>5. n \in Nat /\ n >= 1 /\ n <= Len(fin) /\ fin' = Drop(fin, n)
    <2>1. Len(fin) \in Int /\ call.chunk \in Int
      BY <1>1, LenProperties DEF Streams
    <2>2. Min({call.chunk, Len(fin)}) = IF call.chunk <= Len(fin) THEN call.chunk ELSE Len(fin)
      BY <2>1, MinOfTwo
    <2>3. n \in 1 .. Min({call.chunk, Len(fin)}) /\ fin' = Drop(fin, n)
      BY <1>3 DEF Reads
    <2>4. QED
      BY <2>1, <2>2, <2>3
  <1> DEFINE buf == held \o Take(fin, n)
             k   == Advance(Len(buf))
             l   == ProcessLen(Len(buf))
             e   == r + n
             w   == a + l
  <1>6. /\ out' = out \o Xor(Take(buf, l), Iv, offset) /\ held' = Drop(buf, l)
        /\ offset' = offset + k
    BY <1>1, <1>3
  <1>7. /\ t \in Nat /\ r \in Nat /\ a \in Nat /\ a <= r /\ r <= t
        /\ fin = Slice(Body, r, t) /\ held = Slice(Body, a, r)
        /\ out = Header \o Slice(x, 0, a) /\ Len(fin) = t - r
    BY <1>1, <1>2, BlockAssumption, LenProperties DEF Streams, ReadTo, Cut
  <1>8. x \in Seq(Byte) /\ Len(x) = t
    BY <1>2, XorFacts
  <1>9. e \in Nat /\ r <= e /\ e <= t /\ a <= e /\ e - r = n
    BY <1>5, <1>7
  <1> HIDE DEF r, a, x, e
  <1>10. buf \in Seq(Byte) /\ Len(buf) = e - a
    <2>1. ReadOn(Body, a, r, e) \in Seq(Byte) /\ Len(ReadOn(Body, a, r, e)) = e - a
      <3>1. a <= a
        BY <1>7
      <3>2. QED
        BY <1>2, <1>7, <1>9, <3>1, TurnOnSlices
    <2>2. QED
      BY <1>7, <1>9, <2>1 DEF ReadOn
  <1>11. /\ l \in Nat /\ l <= Len(buf) /\ k \in Nat /\ k * BlockBytes = l
         /\ call.op = "encrypt" => Len(buf) - l < BlockBytes
         /\ call.op = "decrypt" => /\ Len(buf) - l < 2 * BlockBytes
                                   /\ Len(buf) - l >= BlockBytes \/ l = 0
    <2>1. Len(buf) \in Nat
      BY <1>10, LenProperties
    <2> HIDE DEF buf
    <2>2. QED
      BY <1>1, <2>1, ProcessFacts
  <1> HIDE DEF buf, l, k
  <1>12. w \in Nat /\ a <= w /\ w <= e /\ w - a = l
    BY <1>7, <1>9, <1>10, <1>11
  <1> HIDE DEF w
  <1>13. /\ Drop(fin, n) = Slice(Body, e, t)
         /\ Take(buf, l) = Slice(Body, a, w)
         /\ Drop(buf, l) = Slice(Body, w, e)
    <2>1. /\ Drop(Slice(Body, r, t), e - r) = Slice(Body, e, t)
          /\ Take(ReadOn(Body, a, r, e), w - a) = Slice(Body, a, w)
          /\ Drop(ReadOn(Body, a, r, e), w - a) = Slice(Body, w, e)
      <3>1. a \in Nat /\ r \in Nat /\ e \in Nat /\ w \in Nat /\ a <= r /\ r <= e
            /\ e <= Len(Body) /\ a <= w /\ w <= e
        BY <1>7, <1>9, <1>12
      <3>2. Drop(Slice(Body, r, Len(Body)), e - r) = Slice(Body, e, Len(Body))
        BY <1>2, <3>1, TurnOnSlices
      <3>3. Take(ReadOn(Body, a, r, e), w - a) = Slice(Body, a, w)
        BY <1>2, <3>1, TurnOnSlices
      <3>4. Drop(ReadOn(Body, a, r, e), w - a) = Slice(Body, w, e)
        BY <1>2, <3>1, TurnOnSlices
      <3>5. QED
        BY <3>2, <3>3, <3>4
    <2>2. buf = ReadOn(Body, a, r, e)
      BY <1>7, <1>9 DEF ReadOn, buf
    <2>3. QED
      BY <1>7, <1>9, <1>12, <2>1, <2>2
  <1>14. Cut' = w /\ offset' \in Nat
    <2>1. (offset + k) * BlockBytes = offset * BlockBytes + k * BlockBytes
      BY <1>1, <1>11, BlockAssumption, SMTT(30)
    <2>2. QED
      BY <1>1, <1>6, <1>11, <2>1 DEF w, a, Cut
  <1>15. out' = Header \o Slice(x, 0, w)
    <2>1. Xor(Slice(Body, a, w), Iv, offset) = Slice(x, a, w)
      <3>1. offset * BlockBytes <= w /\ w <= Len(Body)
        BY <1>7, <1>9, <1>12 DEF a, Cut
      <3>2. Xor(Slice(Body, offset * BlockBytes, w), Iv, offset)
              = Slice(Xor(Body, Iv, 0), offset * BlockBytes, w)
        BY <1>1, <1>2, <1>12, <3>1, XorSlice
      <3>3. QED
        BY <3>2 DEF x, a, Cut
    <2>2. (Header \o Slice(x, 0, a)) \o Slice(x, a, w) = Header \o Slice(x, 0, w)
      <3>1. a \in Nat /\ w \in Nat /\ a <= w /\ w <= Len(x)
        BY <1>7, <1>8, <1>9, <1>12
      <3>2. QED
        BY <1>2, <1>8, <3>1, AppendPart
    <2>3. QED
      BY <1>6, <1>7, <1>13, <2>1, <2>2
  <1>16. fin' = Slice(Body, e, t) /\ fin' \in Seq(Byte) /\ Len(fin') = t - e
    <2>1. Slice(Body, e, Len(Body)) \in Seq(Byte) /\ Len(Slice(Body, e, Len(Body))) = t - e
      <3>1. e \in Nat /\ Len(Body) \in Nat /\ e <= Len(Body) /\ Len(Body) <= Len(Body)
        BY <1>7, <1>9
      <3>2. /\ Slice(Body, e, Len(Body)) \in Seq(Byte)
            /\ Len(Slice(Body, e, Len(Body))) = Len(Body) - e
        BY <1>2, <3>1, SliceFacts
      <3>3. QED
        BY <3>2
    <2>2. QED
      BY <1>5, <1>13, <2>1
  <1>17. held' = Slice(Body, w, e) /\ held' \in Seq(Byte) /\ Len(held') = e - w
    <2>1. Slice(Body, w, e) \in Seq(Byte) /\ Len(Slice(Body, w, e)) = e - w
      BY <1>2, <1>7, <1>9, <1>12, SliceFacts
    <2>2. QED
      BY <1>6, <1>13, <2>1
  <1>18. ReadTo' = e
    BY <1>4, <1>7, <1>9, <1>16 DEF ReadTo
  <1>19. Streams'
    BY <1>4, <1>9, <1>12, <1>14, <1>15, <1>16, <1>17, <1>18 DEF Streams, x
  <1>20. Len(held') = Len(buf) - l
    BY <1>7, <1>9, <1>10, <1>11, <1>12, <1>17
  <1>21. KeepsBlock'
    <2>1. ASSUME call.op = "decrypt", l = 0, offset' > 0 PROVE Len(held') >= BlockBytes
      <3>1. k = 0
        <4>1. ASSUME k >= 1 PROVE k * BlockBytes >= BlockBytes
          BY <1>11, <4>1, BlockAssumption, SMTT(30)
        <4>2. QED
          BY <1>11, <2>1, <4>1, BlockAssumption
      <3>2. offset > 0
        BY <1>1, <1>6, <2>1, <3>1
      <3>3. Len(held) >= BlockBytes
        BY <2>1, <3>2 DEF Inv, Phases, Running, KeepsBlock, Turn
      <3>4. Len(held) = r - a
        BY <1>2, <1>7, SliceFacts
      <3>5. w = a /\ e - w >= r - a
        BY <1>7, <1>9, <1>12, <2>1
      <3>6. QED
        BY <1>7, <1>9, <1>12, <1>17, <3>3, <3>4, <3>5, BlockAssumption
    <2>2. QED
      BY <1>4, <1>11, <1>20, <2>1 DEF KeepsBlock
  <1>22. BuffersFit'
    BY <1>1, <1>4, <1>11, <1>20 DEF BuffersFit
  <1>23. out' \in Seq(Byte)
    <2>1. 0 \in Nat /\ 0 <= w /\ w <= Len(x)
      BY <1>7, <1>8, <1>9, <1>12
    <2>2. Slice(x, 0, w) \in Seq(Byte)
      BY <1>8, <1>12, <2>1, SliceFacts
    <2>3. QED
      BY <1>2, <1>15, <2>2, ConcatProperties
  <1>24. QED
    BY <1>14, <1>17, <1>19, <1>21, <1>22, <1>23

-----------------------------------------------------------------------------
(* The end of an encryption *)

LEMMA LastBlockFacts ==
  ASSUME NEW tail \in Seq(Byte), Len(tail) < BlockBytes, NEW padding \in Paddings
  PROVE  /\ LastBlock(tail, padding) \in Seq(Byte) /\ Len(LastBlock(tail, padding)) = BlockBytes
         /\ \A i \in 1 .. BlockBytes :
              LastBlock(tail, padding)[i]
                = Plain(IF i <= Len(tail) THEN Value(tail[i])
                                          ELSE PadByte(i, Len(tail), padding))
  <1> DEFINE v == Values(tail)
             b == ApplyBlock(v, padding)
  <1>1. v \in Seq(Int) /\ Len(v) = Len(tail) /\ \A i \in 1 .. Len(tail) : v[i] = Value(tail[i])
    BY ValueFacts
  <1> HIDE DEF v
  <1>2. /\ b \in Seq(Int) /\ Len(b) = BlockBytes
        /\ \A i \in 1 .. BlockBytes :
             b[i] = IF i <= Len(v) THEN v[i] ELSE PadByte(i, Len(v), padding)
    BY <1>1, ApplyFacts
  <1> HIDE DEF b
  <1>3. /\ PlainText(b) \in Seq(Byte) /\ Len(PlainText(b)) = BlockBytes
        /\ \A i \in 1 .. BlockBytes : PlainText(b)[i] = Plain(b[i])
    BY <1>2, PlainFacts
  <1>4. LastBlock(tail, padding) = PlainText(b)
    BY DEF LastBlock, b, v
  <1>5. \A i \in 1 .. BlockBytes :
          b[i] = IF i <= Len(tail) THEN Value(tail[i]) ELSE PadByte(i, Len(tail), padding)
    BY <1>1, <1>2, LenProperties
  <1>6. QED
    BY <1>3, <1>4, <1>5

\* The one-shot encryption of a text with at whole blocks.
LEMMA EncryptionOf ==
  ASSUME NEW text \in Seq(Byte), NEW at \in Nat, NEW padding \in Paddings,
         at * BlockBytes <= Len(text), Len(text) - at * BlockBytes < BlockBytes
  PROVE  /\ Len(text) % BlockBytes = Len(text) - at * BlockBytes
         /\ EncryptAlloc(text, Iv, padding).status = SizeStatus(Len(text), padding)
         /\ ~Pads(padding, Len(text) - at * BlockBytes)
              => EncryptAlloc(text, Iv, padding).out = Xor(text, Iv, 0)
         /\ Pads(padding, Len(text) - at * BlockBytes)
              => EncryptAlloc(text, Iv, padding).out
                   = Slice(Xor(text, Iv, 0), 0, at * BlockBytes)
                       \o Xor(LastBlock(Slice(text, at * BlockBytes, Len(text)), padding), Iv, at)
  <1> DEFINE a    == at * BlockBytes
             r    == Len(text) - a
             head == Slice(text, 0, a)
             tail == Slice(text, a, Len(text))
             last == LastBlock(tail, padding)
             one  == EncryptAlloc(text, Iv, padding)
             grow == PaddedSize(Len(text), padding) > Len(text)
  <1>1. a \in Nat /\ Len(text) \in Nat /\ r \in 0 .. BlockBytes - 1 /\ BlockBytes \in Nat
        /\ Len(text) = at * BlockBytes + r /\ a <= Len(text)
    BY BlockAssumption, LenProperties
  <1>2. FullLen(Len(text)) = a /\ Len(text) % BlockBytes = r
    <2>1. /\ FullLen(at * BlockBytes + r) = at * BlockBytes
          /\ (at * BlockBytes + r) % BlockBytes = r
      <3> HIDE DEF r
      <3>1. QED
        BY <1>1, WholeBlocks
    <2>2. QED
      BY <1>1, <2>1
  <1>3. one.status = SizeStatus(Len(text), padding)
        /\ one.out = Xor(IF grow THEN Take(text, a) \o LastBlock(Drop(text, a), padding)
                                 ELSE text, Iv, 0)
    <2> HIDE DEF a
    <2>1. QED
      BY <1>2 DEF EncryptAlloc
  <1> HIDE DEF a, one, last, head, tail
  <1>4. grow <=> Pads(padding, r)
    <2> HIDE DEF r
    <2>1. PaddedSize(Len(text), padding)
            = IF padding = "NONE" \/ (padding = "ZERO" /\ r = 0) THEN Len(text)
              ELSE Len(text) + BlockBytes - r
      BY <1>2 DEF PaddedSize
    <2>2. QED
      BY <1>1, <2>1 DEF Pads, Paddings
  <1> HIDE DEF grow
  <1>5. /\ head \in Seq(Byte) /\ Len(head) = at * BlockBytes
        /\ Take(text, a) = head /\ Drop(text, a) = tail
    <2>1. 0 \in Nat /\ 0 <= a
      BY <1>1
    <2>2. Slice(text, 0, a) \in Seq(Byte) /\ Len(Slice(text, 0, a)) = a - 0
      BY <1>1, <2>1, SliceFacts
    <2>3. QED
      BY <1>1, <2>2, TakeSlice DEF head, tail, a
  <1>6. tail \in Seq(Byte) /\ Len(tail) = r
    <2>1. Len(text) <= Len(text)
      BY <1>1
    <2>2. QED
      BY <1>1, <2>1, SliceFacts DEF tail
  <1>7. last \in Seq(Byte)
    BY <1>1, <1>6, LastBlockFacts DEF last
  <1>8. Xor(head, Iv, 0) = Slice(Xor(text, Iv, 0), 0, a)
    <2>1. 0 * BlockBytes = 0 /\ 0 \in Nat /\ 0 * BlockBytes <= a
      BY <1>1
    <2>2. Xor(Slice(text, 0 * BlockBytes, a), Iv, 0) = Slice(Xor(text, Iv, 0), 0 * BlockBytes, a)
      BY <1>1, <2>1, XorSlice
    <2>3. QED
      BY <2>1, <2>2 DEF head
  <1>9. Xor(head \o last, Iv, 0) = Xor(head, Iv, 0) \o Xor(last, Iv, at)
    BY <1>5, <1>7, XorJoin
  <1>10. ASSUME Pads(padding, r)
         PROVE  one.out = Slice(Xor(text, Iv, 0), 0, a) \o Xor(last, Iv, at)
    <2>1. one.out = Xor(head \o last, Iv, 0)
      BY <1>3, <1>4, <1>5, <1>10 DEF last
    <2>2. QED
      BY <1>8, <1>9, <2>1
  <1>11. ASSUME ~Pads(padding, r) PROVE one.out = Xor(text, Iv, 0)
    BY <1>3, <1>4, <1>11
  <1>12. QED
    BY <1>2, <1>3, <1>10, <1>11 DEF one, last, tail, r, a

\* The last block makes the output that of the one-shot call.
LEMMA EncryptLastStep == ASSUME Inv, EncryptLast PROVE EncryptsAsOneShot'
  <1> DEFINE a == Cut
             t == Len(Body)
             x == Xor(Body, Iv, 0)
             one == EncryptAlloc(Body, Iv, call.padding)
  <1>1. /\ Streams /\ fin = <<>> /\ offset \in Nat /\ used_iv = Iv /\ FileInv /\ ~lost
        /\ call.op = "encrypt" /\ call.padding \in Paddings
        /\ (NeedsIv => Len(call.file) >= BlockBytes) /\ Len(held) < BlockBytes
    BY DEF Inv, Phases, Running, EncryptLast, TypeOK, BuffersFit
  <1>2. Body \in Seq(Byte) /\ Header \in Seq(Byte)
    BY <1>1, TextFacts
  <1>3. call' = call /\ Header' = Header /\ lost' = lost /\ fault' = FALSE /\ Body = call.file
    BY <1>1 DEF EncryptLast, Header, Body, Finish
  <1>4. x \in Seq(Byte) /\ Len(x) = t /\ t \in Nat
    BY <1>2, XorFacts, LenProperties
  <1>5. ReadTo = t
    BY <1>1, <1>4 DEF ReadTo
  <1>6. /\ a \in Nat /\ a <= t /\ held = Slice(Body, a, t) /\ out = Header \o Slice(x, 0, a)
    BY <1>1, <1>5, BlockAssumption DEF Streams, Cut
  <1> HIDE DEF a
  <1>7. Len(held) = t - a /\ held \in Seq(Byte)
    <2>1. Slice(Body, a, Len(Body)) \in Seq(Byte)
          /\ Len(Slice(Body, a, Len(Body))) = Len(Body) - a
      <3>1. Len(Body) \in Nat /\ a <= Len(Body) /\ Len(Body) <= Len(Body)
        BY <1>4, <1>6
      <3>2. QED
        BY <1>2, <1>6, <3>1, SliceFacts
    <2>2. QED
      BY <1>6, <2>1
  <1>8. /\ t % BlockBytes = t - a
        /\ one.status = SizeStatus(t, call.padding)
        /\ ~Pads(call.padding, t - a) => one.out = x
        /\ Pads(call.padding, t - a)
             => one.out = Slice(x, 0, a) \o Xor(LastBlock(held, call.padding), Iv, offset)
    <2>1. offset * BlockBytes <= Len(Body) /\ Len(Body) - offset * BlockBytes < BlockBytes
      BY <1>1, <1>6, <1>7 DEF a, Cut
    <2>2. QED
      BY <1>1, <1>2, <1>6, <2>1, EncryptionOf DEF a, Cut
  <1> HIDE DEF one, x
  <1>9. AddsBlock <=> Pads(call.padding, t - a)
    <2>1. held # <<>> <=> t - a # 0
      BY <1>7, EmptySeq
    <2>2. QED
      BY <2>1 DEF AddsBlock, Pads
  <1>10. CASE call.padding = "NONE" /\ held # <<>>
    <2>1. status' = "INVALID_ARG"
      BY <1>10 DEF EncryptLast, Finish
    <2>2. t - a # 0
      BY <1>7, <1>10, EmptySeq
    <2>3. one.status = "INVALID_ARG"
      BY <1>8, <1>10, <2>2 DEF SizeStatus
    <2>4. QED
      BY <1>3, <2>1, <2>3 DEF EncryptsAsOneShot, one
  <1>11. CASE ~(call.padding = "NONE" /\ held # <<>>)
    <2>1. /\ status' = "OK"
          /\ out' = out \o IF AddsBlock THEN Xor(LastBlock(held, call.padding), used_iv, offset)
                                        ELSE <<>>
      BY <1>11 DEF EncryptLast, Finish
    <2>2. one.status = "OK"
      <3>1. call.padding = "NONE" => t - a = 0
        BY <1>7, <1>11, EmptySeq
      <3>2. QED
        BY <1>8, <3>1 DEF SizeStatus
    <2> DEFINE p == Slice(x, 0, a)
               q == Xor(LastBlock(held, call.padding), Iv, offset)
    <2>3. p \in Seq(Byte)
      <3>1. 0 \in Nat /\ 0 <= a /\ a <= Len(x)
        BY <1>4, <1>6
      <3>2. QED
        BY <1>4, <1>6, <3>1, SliceFacts
    <2>4. out' = Header \o one.out
      <3>1. CASE AddsBlock
        <4>1. q \in Seq(Byte)
          BY <1>1, <1>7, LastBlockFacts, XorFacts
        <4>2. out' = (Header \o p) \o q
          BY <1>1, <1>6, <2>1, <3>1
        <4>3. one.out = p \o q
          BY <1>8, <1>9, <3>1
        <4>4. (Header \o p) \o q = Header \o (p \o q)
          <5> HIDE DEF p, q
          <5>1. QED
            BY <1>2, <2>3, <4>1, ConcatAssociative
        <4>5. QED
          BY <4>2, <4>3, <4>4
      <3>2. CASE ~AddsBlock
        <4>1. a = t
          BY <1>1, <1>4, <1>6, <1>7, <1>9, <1>11, <3>2, EmptySeq DEF Pads, Paddings
        <4>2. p = x
          <5>1. Slice(x, 0, Len(x)) = x
            BY <1>4, SliceAll
          <5>2. QED
            BY <1>4, <4>1, <5>1
        <4>3. one.out = x
          BY <1>8, <1>9, <3>2
        <4>4. out' = (Header \o x) \o <<>>
          BY <1>6, <2>1, <3>2, <4>2
        <4>5. Header \o x \in Seq(Byte)
          BY <1>2, <1>4, ConcatProperties
        <4>6. QED
          BY <4>3, <4>4, <4>5, ConcatEmptySeq
      <3>3. QED
        BY <3>1, <3>2
    <2>5. call'.file = Body /\ call'.padding = call.padding
      BY <1>3
    <2>6. EncryptAlloc(call'.file, Iv, call'.padding) = one
      BY <2>5 DEF one
    <2>7. Header' \o EncryptAlloc(call'.file, Iv, call'.padding).out = out'
      BY <1>3, <2>4, <2>6
    <2>8. Written(Header \o EncryptAlloc(call.file, Iv, call.padding).out)'
      BY <1>1, <1>3, <2>7 DEF Written
    <2>9. QED
      BY <2>1, <2>2, <2>6, <2>8 DEF EncryptsAsOneShot
  <1>12. QED
    BY <1>10, <1>11

-----------------------------------------------------------------------------
(* The end of a decryption *)

\* A byte of value zero is the plain zero.
LEMMA ZeroFacts == ASSUME NEW byte \in Byte, Value(byte) = 0 PROVE byte = Plain(0)
  <1>1. byte = [v |-> byte.v, ks |-> byte.ks]
    BY DEF Byte
  <1>2. byte.ks = {} /\ byte.v = 0
    BY DEF Value, NoValue
  <1>3. QED
    BY <1>1, <1>2 DEF Plain

\* The last block of a decrypted text, and what the loops write in all.
LastOf(text, c)          == Slice(Xor(text, Iv, 0), c, Len(text))
StripOf(text, c, padding) == Remove(Values(LastOf(text, c)), padding)
WrittenOf(text, c, padding) ==
  Slice(Xor(text, Iv, 0), 0, c) \o Take(LastOf(text, c), StripOf(text, c, padding).len)

\* The one-shot decryption of whole blocks, told from the last of them.
LEMMA DecryptionOf ==
  ASSUME NEW text \in Seq(Byte), NEW c \in Nat, Len(text) = c + BlockBytes,
         Len(text) % BlockBytes = 0, NEW padding \in Paddings
  PROVE  /\ DecryptAlloc(text, Iv, padding).status = StripOf(text, c, padding).status
         /\ padding # "ZERO" /\ DecryptAlloc(text, Iv, padding).status = "OK" =>
              WrittenOf(text, c, padding) = DecryptAlloc(text, Iv, padding).out
         /\ padding = "ZERO" =>
              \E n \in 0 .. Len(text) :
                WrittenOf(text, c, padding)
                  = DecryptAlloc(text, Iv, padding).out \o [i \in 1 .. n |-> Plain(0)]
  <1> DEFINE x == Xor(text, Iv, 0)
             t == Len(text)
             v == Values(x)
             last == LastOf(text, c)
             u == Values(last)
             all == Remove(v, padding)
             strip == StripOf(text, c, padding)
             one == DecryptAlloc(text, Iv, padding)
  <1>a. /\ last = Slice(x, c, t) /\ strip = Remove(u, padding)
        /\ WrittenOf(text, c, padding) = Slice(x, 0, c) \o Take(last, strip.len)
    BY DEF LastOf, StripOf, WrittenOf
  <1> HIDE DEF last, strip
  <1>1. BlockBytes \in Nat /\ BlockBytes > 0 /\ t \in Nat /\ t # 0 /\ c <= t
    BY BlockAssumption, LenProperties
  <1>2. x \in Seq(Byte) /\ Len(x) = t
    BY XorFacts
  <1>3. one.status = all.status /\ one.out = Take(x, all.len)
    BY <1>1 DEF DecryptAlloc
  <1>4. /\ last \in Seq(Byte) /\ Len(last) = BlockBytes
        /\ \A i \in 1 .. BlockBytes : last[i] = x[c + i]
    <2>1. /\ Slice(x, c, t) \in Seq(Byte) /\ Len(Slice(x, c, t)) = t - c
          /\ \A i \in 1 .. t - c : Slice(x, c, t)[i] = x[c + i]
      <3> HIDE DEF x
      <3>1. t <= Len(x)
        BY <1>1, <1>2
      <3>2. Slice(x, c, t) \in Seq(Byte) /\ Len(Slice(x, c, t)) = t - c
        BY <1>1, <1>2, <3>1, SliceFacts
      <3>3. \A i \in 1 .. t - c : Slice(x, c, t)[i] = x[c + i]
        BY <1>1, <1>2, <3>1, SliceFacts
      <3>4. QED
        BY <3>2, <3>3
    <2>2. t - c = BlockBytes
      BY <1>1
    <2>3. last = Slice(x, c, t)
      BY <1>a
    <2> HIDE DEF x, t
    <2>4. QED
      BY <2>1, <2>2, <2>3
  <1>5. v \in Seq(Int) /\ Len(v) = t /\ \A i \in 1 .. t : v[i] = Value(x[i])
    <2> HIDE DEF x
    <2>1. QED
      BY <1>2, ValueFacts
  <1>6. u \in Seq(Int) /\ Len(u) = BlockBytes /\ \A i \in 1 .. BlockBytes : u[i] = Value(last[i])
    BY <1>4, ValueFacts
  <1>7. \A i \in 1 .. BlockBytes : u[i] = v[c + i]
    <2> HIDE DEF u, v, x
    <2>1. SUFFICES ASSUME NEW i \in 1 .. BlockBytes PROVE u[i] = v[c + i]
      OBVIOUS
    <2>2. c + i \in 1 .. t
      BY <1>1
    <2>3. QED
      BY <1>4, <1>5, <1>6, <2>2
  <1>8. /\ strip.status = all.status /\ strip.len \in 0 .. BlockBytes
        /\ padding # "ZERO" /\ all.status = "OK" => all.len = c + strip.len
        /\ padding = "ZERO" =>
             all.len \in 0 .. c + strip.len /\ \A i \in all.len + 1 .. t : v[i] = 0
    <2>1. strip = Remove(u, padding)
      BY <1>a
    <2>2. Len(v) = c + BlockBytes /\ Len(v) % BlockBytes = 0 /\ t = Len(v)
      BY <1>5
    <2> HIDE DEF u, v
    <2>3. QED
      <3>1. c + BlockBytes = Len(v) /\ Len(v) % BlockBytes = 0
        BY <2>2
      <3>2. /\ Remove(u, padding).status = Remove(v, padding).status
            /\ Remove(u, padding).len \in 0 .. BlockBytes
            /\ padding # "ZERO" /\ Remove(v, padding).status = "OK"
                 => Remove(v, padding).len = c + Remove(u, padding).len
            /\ padding = "ZERO" =>
                 /\ Remove(v, padding).len \in 0 .. c + Remove(u, padding).len
                 /\ \A i \in Remove(v, padding).len + 1 .. Len(v) : v[i] = 0
        BY <1>5, <1>6, <1>7, <3>1, RemoveOfTail
      <3>3. QED
        BY <2>1, <2>2, <3>2
  <1> DEFINE w == c + strip.len
  <1>9. w \in Nat /\ c <= w /\ w <= t /\ strip.len \in Nat /\ strip.len <= BlockBytes
    BY <1>1, <1>8
  <1> HIDE DEF x, v, u, all, w, one
  <1>10. Slice(x, 0, c) \o Take(last, strip.len) = Slice(x, 0, w)
    <2>1. Take(last, strip.len) = Slice(last, 0, strip.len)
      BY TakeSlice
    <2>2. Slice(Slice(x, c, t), 0, strip.len) = Slice(x, c + 0, c + strip.len)
      <3> DEFINE k == strip.len
      <3>1. /\ 0 \in Nat /\ k \in Nat /\ 0 <= k /\ k <= t - c /\ t <= Len(x)
            /\ c <= t /\ t \in Nat /\ x \in Seq(Byte)
        BY <1>1, <1>2, <1>9
      <3> HIDE DEF k, t
      <3>2. Slice(Slice(x, c, t), 0, k) = Slice(x, c + 0, c + k)
        BY <3>1, SliceOfSlice
      <3>3. QED
        BY <3>2 DEF k
    <2>3. last = Slice(x, c, t) /\ c + 0 = c
      BY <1>a
    <2>4. Slice(x, 0, c) \o Slice(x, c, w) = Slice(x, 0, w)
      <3>1. 0 \in Nat /\ 0 <= c /\ w <= Len(x)
        BY <1>2, <1>9
      <3>2. QED
        BY <1>2, <1>9, <3>1, SliceJoin
    <2>5. QED
      BY <2>1, <2>2, <2>3, <2>4 DEF w
  <1>11. one.out = Slice(x, 0, all.len)
    BY <1>3, TakeSlice
  <1>12. ASSUME padding = "ZERO"
         PROVE  \E n \in 0 .. t : Slice(x, 0, w) = one.out \o [i \in 1 .. n |-> Plain(0)]
    <2> DEFINE m == all.len
               n == w - m
               z == [i \in 1 .. n |-> Plain(0)]
    <2>0. m \in 0 .. w /\ \A i \in m + 1 .. t : v[i] = 0
      BY <1>8, <1>12 DEF w
    <2> HIDE DEF m
    <2>1. m \in Nat /\ m <= w /\ n \in 0 .. t /\ \A i \in m + 1 .. t : v[i] = 0
      BY <1>1, <1>9, <2>0
    <2>2. /\ Slice(x, m, w) \in Seq(Byte) /\ Len(Slice(x, m, w)) = n
          /\ \A i \in 1 .. n : Slice(x, m, w)[i] = x[m + i]
      <3>1. w <= Len(x)
        BY <1>2, <1>9
      <3>2. QED
        <4>1. /\ Slice(x, m, w) \in Seq(Byte) /\ Len(Slice(x, m, w)) = w - m
              /\ \A i \in 1 .. w - m : Slice(x, m, w)[i] = x[m + i]
          <5>1. m \in Nat /\ w \in Nat /\ m <= w
            BY <1>9, <2>1
          <5>2. QED
            BY <1>2, <3>1, <5>1, SliceFacts
        <4>2. QED
          BY <4>1
    <2>3. \A i \in 1 .. n : x[m + i] = Plain(0)
      <3>1. SUFFICES ASSUME NEW i \in 1 .. n PROVE x[m + i] = Plain(0)
        OBVIOUS
      <3>2. m + i \in m + 1 .. t /\ m + i \in 1 .. t
        BY <1>9, <2>1
      <3>3. Value(x[m + i]) = 0 /\ x[m + i] \in Byte
        BY <1>2, <1>5, <2>1, <3>2, ElementOfSeq
      <3>4. QED
        BY <3>3, ZeroFacts
    <2>4. z \in Seq(Byte) /\ Len(z) = n /\ \A i \in 1 .. n : z[i] = Plain(0)
      <3>1. Plain(0) \in Byte
        BY DEF Plain, Byte
      <3> HIDE DEF Byte
      <3>2. QED
        BY <2>1, <3>1
    <2> HIDE DEF n, z
    <2>5. Slice(x, m, w) = z
      BY <2>2, <2>3, <2>4, SeqEqual
    <2>6. Slice(x, 0, m) \o Slice(x, m, w) = Slice(x, 0, w)
      <3>1. 0 \in Nat /\ 0 <= m /\ w <= Len(x)
        BY <1>2, <1>9, <2>1
      <3>2. QED
        BY <1>2, <1>9, <2>1, <3>1, SliceJoin
    <2>7. Slice(x, 0, w) = one.out \o z
      BY <1>11, <2>5, <2>6 DEF m
    <2>8. QED
      BY <2>1, <2>7 DEF z
  <1>13. padding # "ZERO" /\ one.status = "OK" => one.out = Slice(x, 0, w)
    BY <1>3, <1>8, <1>11 DEF w
  <1>14. QED
    BY <1>a, <1>3, <1>8, <1>10, <1>12, <1>13 DEF strip, one

\* At the end of the file one block is held, unless the file is no whole number of blocks
\* or empty.
LEMMA HeldAtEnd ==
  ASSUME Inv, pc = "last", call.op = "decrypt"
  PROVE  /\ Body \in Seq(Byte) /\ Len(Body) \in Nat /\ Cut \in Nat
         /\ held = Slice(Body, Cut, Len(Body)) /\ Len(held) = Len(Body) - Cut
         /\ Cut <= Len(Body)
         /\ out = Slice(Xor(Body, Iv, 0), 0, Cut)
         /\ OneBlockHeld <=> Len(Body) # 0 /\ Len(Body) % BlockBytes = 0
  <1> DEFINE t == Len(Body)
             a == Cut
             x == Xor(Body, Iv, 0)
  <1>1. /\ Streams /\ KeepsBlock /\ fin = <<>> /\ offset \in Nat /\ FileInv
        /\ (NeedsIv => Len(call.file) >= BlockBytes) /\ Len(held) < 2 * BlockBytes
    BY DEF Inv, Phases, Running, TypeOK, BuffersFit
  <1>2. Body \in Seq(Byte) /\ t \in Nat /\ BlockBytes \in Nat /\ BlockBytes > 0
    BY <1>1, TextFacts, LenProperties, BlockAssumption
  <1>3. ReadTo = t
    BY <1>1, <1>2 DEF ReadTo
  <1>4. a \in Nat /\ a <= t /\ held = Slice(Body, a, t) /\ out = Header \o Slice(x, 0, a)
    BY <1>1, <1>2, <1>3 DEF Streams, Cut
  <1>5. Len(held) = t - a
    <2> HIDE DEF a
    <2>1. t <= Len(Body)
      BY <1>2
    <2>2. Len(Slice(Body, a, t)) = t - a
      <3> HIDE DEF t
      <3>1. QED
        BY <1>2, <1>4, <2>1, SliceFacts
    <2>3. QED
      BY <1>4, <2>2
  <1>6. out = Slice(x, 0, a)
    <2>1. Header = <<>>
      BY DEF Header
    <2>2. x \in Seq(Byte) /\ Len(x) = t
      BY <1>2, XorFacts
    <2> HIDE DEF x, a
    <2>3. Slice(x, 0, a) \in Seq(Byte)
      <3>1. 0 \in Nat /\ 0 <= a /\ a <= Len(x)
        BY <1>4, <2>2
      <3>2. QED
        BY <1>4, <2>2, <3>1, SliceFacts
    <2>4. QED
      BY <1>4, <2>1, <2>3, ConcatEmptySeq
  <1>7. ASSUME OneBlockHeld PROVE t # 0 /\ t % BlockBytes = 0
    <2>1. t = offset * BlockBytes + BlockBytes
      BY <1>2, <1>4, <1>5, <1>7 DEF OneBlockHeld, Cut
    <2>2. offset * BlockBytes + BlockBytes = (offset + 1) * BlockBytes + 0
      BY <1>1, <1>2, SMTT(30)
    <2>3. t = (offset + 1) * BlockBytes + 0 /\ offset + 1 \in Int /\ 0 \in 0 .. BlockBytes - 1
      BY <1>1, <1>2, <2>1, <2>2
    <2> HIDE DEF t
    <2>4. t % BlockBytes = 0
      BY <1>2, <2>3, QuotientUnique
    <2>5. QED
      BY <1>1, <1>2, <1>4, <1>5, <1>7, <2>4 DEF OneBlockHeld
  <1>8. ASSUME t # 0, t % BlockBytes = 0 PROVE OneBlockHeld
    <2> DEFINE q == t \div BlockBytes
    <2> HIDE DEF t
    <2>1. q \in Nat /\ t = q * BlockBytes + (t % BlockBytes)
      BY <1>2, Division
    <2> HIDE DEF q
    <2>2. t = q * BlockBytes /\ q * BlockBytes \in Nat
      BY <1>2, <1>8, <2>1
    <2> DEFINE d == q - offset
    <2>3. d * BlockBytes = q * BlockBytes - offset * BlockBytes
      BY <1>1, <1>2, <2>1, SMTT(30)
    <2>4. d \in Int /\ Len(held) = d * BlockBytes
      BY <1>1, <1>2, <1>4, <1>5, <2>1, <2>2, <2>3 DEF Cut
    <2> HIDE DEF d
    <2>5. ASSUME d >= 2 PROVE d * BlockBytes >= 2 * BlockBytes
      BY <1>2, <2>4, <2>5, SMTT(30)
    <2>6. ASSUME d <= -1 PROVE d * BlockBytes <= -BlockBytes
      BY <1>2, <2>4, <2>6, SMTT(30)
    <2>7. d * BlockBytes >= 0 /\ d * BlockBytes < 2 * BlockBytes
      <3> HIDE DEF a, t, x
      <3>1. Len(held) >= 0
        BY <1>2, <1>4, <1>5
      <3>2. QED
        BY <1>1, <2>4, <3>1
    <2>8. d = 0 \/ d = 1
      BY <1>2, <2>4, <2>5, <2>6, <2>7
    <2>9. ASSUME d = 0 PROVE FALSE
      <3>1. Len(held) = 0
        BY <1>2, <2>4, <2>9
      <3>2. ~(offset > 0)
        BY <1>1, <1>2, <3>1 DEF KeepsBlock
      <3>3. offset = 0
        BY <1>1, <3>2
      <3>4. a = 0
        BY <1>2, <3>3 DEF Cut
      <3>5. QED
        BY <1>2, <1>5, <1>8, <3>1, <3>4
    <2>10. Len(held) = BlockBytes
      BY <1>2, <2>4, <2>8, <2>9
    <2>11. QED
      BY <2>10 DEF OneBlockHeld
  <1>9. QED
    BY <1>2, <1>4, <1>5, <1>6, <1>7, <1>8

LEMMA DecryptLastStep == ASSUME Inv, DecryptLast PROVE DecryptsAsOneShot'
  <1> DEFINE a     == Cut
             t     == Len(Body)
             x     == Xor(Body, Iv, 0)
             last  == Slice(x, a, t)
             strip == Remove(Values(last), call.padding)
             one   == DecryptAlloc(Body, Iv, call.padding)
  <1>1. /\ call.op = "decrypt" /\ pc = "last" /\ offset \in Nat /\ used_iv = Iv /\ ~lost
        /\ call.padding \in Paddings
    BY DEF Inv, Phases, Running, DecryptLast, TypeOK
  <1>2. /\ Body \in Seq(Byte) /\ t \in Nat /\ a \in Nat /\ a <= t
        /\ held = Slice(Body, a, t) /\ Len(held) = t - a /\ out = Slice(x, 0, a)
        /\ OneBlockHeld <=> t # 0 /\ t % BlockBytes = 0
    BY <1>1, HeldAtEnd
  <1>3. /\ call' = call /\ Body' = Body /\ lost' = lost /\ fault' = FALSE
        /\ used_iv' = used_iv
    BY DEF DecryptLast, Body, Finish
  <1>4. Xor(held, Iv, offset) = last
    <2>1. offset * BlockBytes <= t /\ t <= Len(Body)
      BY <1>2 DEF Cut
    <2>2. Xor(Slice(Body, offset * BlockBytes, t), Iv, offset)
            = Slice(Xor(Body, Iv, 0), offset * BlockBytes, t)
      <3> HIDE DEF t
      <3>1. QED
        BY <1>1, <1>2, <2>1, XorSlice
    <2>3. QED
      BY <1>2, <2>2 DEF Cut
  <1>5. Body = <<>> <=> t = 0
    BY <1>2, EmptySeq
  <1>6. one' = one
    BY <1>3
  <1>7. CASE ~OneBlockHeld
    <2>1. status' = "BAD_PADDING"
      BY <1>7 DEF DecryptLast, Finish
    <2>2. ~(one.status = "OK" /\ Body # <<>>)
      <3>1. CASE t = 0
        BY <1>5, <3>1
      <3>2. CASE t # 0
        <4>1. t % BlockBytes # 0
          BY <1>2, <1>7, <3>2
        <4>2. one.status = "INVALID_ARG"
          BY <3>2, <4>1 DEF DecryptAlloc
        <4>3. QED
          BY <4>2
      <3>3. QED
        BY <3>1, <3>2
    <2> HIDE DEF one
    <2>3. DecryptAlloc(Body, used_iv, call.padding)' = one
      BY <1>1, <1>3 DEF one
    <2>4. QED
      BY <1>3, <2>1, <2>2, <2>3 DEF DecryptsAsOneShot
  <1>8. CASE OneBlockHeld
    <2>1. status' = strip.status /\ out' = Slice(x, 0, a) \o Take(last, strip.len)
      <3> HIDE DEF a, x, last
      <3>1. QED
        BY <1>1, <1>2, <1>4, <1>8 DEF DecryptLast, Finish
    <2>2. t = a + BlockBytes /\ t % BlockBytes = 0 /\ t # 0
      BY <1>2, <1>8, BlockAssumption DEF OneBlockHeld
    <2>3. /\ one.status = strip.status
          /\ call.padding # "ZERO" /\ one.status = "OK" =>
               Slice(x, 0, a) \o Take(last, strip.len) = one.out
          /\ call.padding = "ZERO" =>
               \E n \in 0 .. t :
                 Slice(x, 0, a) \o Take(last, strip.len)
                   = one.out \o [i \in 1 .. n |-> Plain(0)]
      <3> HIDE DEF a
      <3>1. QED
        <4>1. Len(Body) = a + BlockBytes /\ Len(Body) % BlockBytes = 0
          BY <2>2
        <4>2. /\ one.status = StripOf(Body, a, call.padding).status
              /\ call.padding # "ZERO" /\ one.status = "OK" =>
                   WrittenOf(Body, a, call.padding) = one.out
              /\ call.padding = "ZERO" =>
                   \E n \in 0 .. Len(Body) :
                     WrittenOf(Body, a, call.padding) = one.out \o [i \in 1 .. n |-> Plain(0)]
          BY <1>1, <1>2, <4>1, DecryptionOf
        <4>3. /\ last = LastOf(Body, a) /\ strip = StripOf(Body, a, call.padding)
              /\ WrittenOf(Body, a, call.padding) = Slice(x, 0, a) \o Take(last, strip.len)
          BY DEF LastOf, StripOf, WrittenOf
        <4> HIDE DEF one, last, strip, x
        <4>4. QED
          BY <4>2, <4>3
    <2> HIDE DEF one, x, last, strip, a
    <2>4. DecryptAlloc(Body, used_iv, call.padding)' = one
      BY <1>1, <1>3 DEF one
    <2>5. \A b : Written(b)' <=> out' = b
      BY <1>1, <1>3 DEF Written
    <2>6. status' = "OK" <=> one.status = "OK"
      BY <2>1, <2>3
    <2>7. ASSUME status' = "OK", call.padding # "ZERO" PROVE out' = one.out
      BY <2>1, <2>3, <2>6, <2>7
    <2>8. ASSUME call.padding = "ZERO"
          PROVE  \E n \in 0 .. t : out' = one.out \o [i \in 1 .. n |-> Plain(0)]
      BY <2>1, <2>3, <2>8
    <2>9. QED
      BY <1>1, <1>3, <1>5, <2>2, <2>4, <2>6, <2>7, <2>8 DEF DecryptsAsOneShot, Written
  <1>9. QED
    BY <1>7, <1>8

-----------------------------------------------------------------------------
(* The specification *)

LEMMA InitInv == ASSUME Init PROVE Inv
  <1>1. PICK op \in {"encrypt", "decrypt"}, padding \in Paddings \cup {"other"},
             prefix_iv \in BOOLEAN, wish \in ChunkWishes, text \in Texts :
          /\ \E file \in InputFiles(op, prefix_iv, text) :
               call = [op |-> op, padding |-> padding, prefix_iv |-> prefix_iv,
                       chunk |-> ParseChunk(wish), file |-> file]
          /\ IF padding \in Paddings
               THEN pc = "open" /\ status = "none"
               ELSE pc = "returned" /\ status = "UNSUPPORTED"
    BY DEF Init
  <1>2. PICK file \in InputFiles(op, prefix_iv, text) :
          call = [op |-> op, padding |-> padding, prefix_iv |-> prefix_iv,
                  chunk |-> ParseChunk(wish), file |-> file]
    BY <1>1
  <1>3. /\ call.op = op /\ call.padding = padding /\ call.prefix_iv = prefix_iv
        /\ call.chunk = ParseChunk(wish) /\ call.file = file
    BY <1>2
  <1>4. /\ fin = <<>> /\ broken = FALSE /\ held = <<>> /\ offset = 0 /\ used_iv = Iv
        /\ out = <<>> /\ created = FALSE /\ lost = FALSE /\ fault = FALSE
    BY DEF Init
  <1>5. TypeOK
    <2>1. ParseChunk(wish) \in Nat \ {0} /\ ParseChunk(wish) % BlockBytes = 0
      BY ChunkFacts
    <2>2. QED
      BY <1>1, <1>3, <1>4, <2>1 DEF TypeOK
  <1>6. FileInv
    <2> DEFINE b == PlainText(text)
               x == Xor(b, Iv, 0)
    <2>1. text \in Seq(Int)
      <3>1. text \in Seq(Nat)
        BY TextsAssumption
      <3>2. QED
        BY <3>1, SeqMonotonic
    <2>2. b \in Seq(Byte)
      BY <2>1, PlainFacts
    <2>3. x \in Seq(Byte)
      <3> HIDE DEF b
      <3>1. QED
        BY <2>2, XorFacts
    <2> HIDE DEF b, x
    <2>4. CASE op = "encrypt"
      <3>1. file = b
        BY <2>4 DEF InputFiles, b
      <3>2. QED
        BY <1>3, <2>2, <2>4, <3>1 DEF FileInv, NeedsIv
    <2>5. CASE op = "decrypt" /\ ~prefix_iv
      <3>1. file = x
        BY <2>5 DEF InputFiles, b, x
      <3>2. QED
        BY <1>3, <2>3, <2>5, <3>1 DEF FileInv, NeedsIv
    <2>6. CASE op = "decrypt" /\ prefix_iv /\ file = Iv \o x
      <3>1. file \in Seq(Byte)
        BY <2>3, <2>6, IvFacts, ConcatProperties
      <3>2. SubSeq(Iv \o x, 1, Len(Iv)) = Iv
        <4>1. 1 \in 1 .. Len(Iv) + 1 /\ Len(Iv) \in 1 - 1 .. Len(Iv)
          BY IvFacts, BlockAssumption
        <4>2. SubSeq(Iv \o x, 1, Len(Iv)) = SubSeq(Iv, 1, Len(Iv))
          BY <2>3, <4>1, IvFacts, SubSeqOfConcat1
        <4>3. QED
          BY <4>2, IvFacts, SubSeqFull
      <3>3. QED
        BY <1>3, <2>6, <3>1, <3>2, IvFacts DEF FileInv, Take
    <2>7. CASE op = "decrypt" /\ prefix_iv /\ file = Take(Iv, BlockBytes - 1)
      <3> DEFINE m == BlockBytes - 1
      <3>1. m \in Nat /\ m < BlockBytes /\ 0 \in Nat /\ 0 <= m /\ m <= Len(Iv) /\ m - 0 = m
        BY BlockAssumption, IvFacts
      <3>2. file = Slice(Iv, 0, m)
        BY <2>7, TakeSlice
      <3> HIDE DEF m
      <3>3. Slice(Iv, 0, m) \in Seq(Byte) /\ Len(Slice(Iv, 0, m)) = m - 0
        BY <3>1, IvFacts, SliceFacts
      <3>4. file \in Seq(Byte) /\ ~(Len(file) >= BlockBytes)
        BY <3>1, <3>2, <3>3, BlockAssumption
      <3>5. QED
        BY <1>3, <3>4 DEF FileInv
    <2>8. QED
      BY <2>4, <2>5, <2>6, <2>7 DEF InputFiles, b, x
  <1>7. Phases
    BY <1>1, <1>3, <1>4 DEF Phases, Fresh
  <1>8. BuffersFit /\ held \in Seq(Byte) /\ out \in Seq(Byte)
    BY <1>4, EmptySeq, BlockAssumption DEF BuffersFit
  <1>9. EncryptsAsOneShot /\ DecryptsAsOneShot
    BY <1>4 DEF EncryptsAsOneShot, DecryptsAsOneShot, Ended
  <1>10. QED
    BY <1>4, <1>5, <1>6, <1>7, <1>8, <1>9 DEF Inv

\* A call that has failed outside the library says so.
LEMMA FailsStep ==
  ASSUME Inv, call' = call, used_iv' = used_iv, held' = held, offset' = offset, lost' = lost,
         out' \in Seq(Byte), broken' \in BOOLEAN, created' \in BOOLEAN,
         NEW st \in {"IO_ERROR", "INVALID_ARG", "INTERNAL_ERROR"}, Finish(st, TRUE)
  PROVE  Inv'
  <1>1. pc' = "returned" /\ status' = st /\ fault' = TRUE /\ status' # "OK"
    BY DEF Finish
  <1>2. TypeOK'
    BY <1>1 DEF Inv, TypeOK
  <1>3. BuffersFit' /\ FileInv' /\ held' \in Seq(Byte) /\ used_iv' = Iv
    BY DEF Inv, BuffersFit, FileInv, NeedsIv
  <1>4. Phases'
    BY <1>1 DEF Phases
  <1>5. EncryptsAsOneShot' /\ DecryptsAsOneShot'
    BY <1>1 DEF EncryptsAsOneShot, DecryptsAsOneShot
  <1>6. QED
    BY <1>2, <1>3, <1>4, <1>5 DEF Inv

LEMMA OpenFailsStep == ASSUME Inv, OpenFails PROVE Inv'
  <1>1. PICK st \in {"IO_ERROR", "INVALID_ARG", "INTERNAL_ERROR"} : Finish(st, TRUE)
    BY DEF OpenFails
  <1>2. /\ call' = call /\ used_iv' = used_iv /\ held' = held /\ offset' = offset
        /\ lost' = lost /\ broken' = broken /\ created' \in BOOLEAN /\ out' \in {<<>>, Iv}
    BY DEF OpenFails
  <1>3. out' \in Seq(Byte) /\ broken' \in BOOLEAN
    BY <1>2, IvFacts, EmptySeq DEF Inv, TypeOK
  <1>4. QED
    BY <1>1, <1>2, <1>3, FailsStep

LEMMA LoopFailsStep == ASSUME Inv, ReadFails \/ TurnFails \/ LastFails PROVE Inv'
  <1>1. PICK st \in {"IO_ERROR", "INVALID_ARG", "INTERNAL_ERROR"} : Finish(st, TRUE)
    BY DEF ReadFails, TurnFails, LastFails
  <1>2. /\ call' = call /\ used_iv' = used_iv /\ held' = held /\ offset' = offset
        /\ lost' = lost /\ broken' = broken /\ created' = created /\ out' = out
    BY DEF ReadFails, TurnFails, LastFails, fileVars
  <1>3. out' \in Seq(Byte) /\ broken' \in BOOLEAN /\ created' \in BOOLEAN
    BY <1>2 DEF Inv, TypeOK
  <1>4. QED
    BY <1>1, <1>2, <1>3, FailsStep

LEMMA NoIvStep == ASSUME Inv, NoIv PROVE Inv'
  <1>1. /\ pc' = "returned" /\ status' = "IO_ERROR" /\ fault' = FALSE /\ pc = "open"
        /\ call' = call /\ used_iv' = used_iv /\ held' = held /\ offset' = offset
        /\ lost' = lost /\ broken' = broken /\ created' = created /\ out' = out
    BY DEF NoIv, Finish, fileVars
  <1>2. TypeOK' /\ ~created'
    BY <1>1 DEF Inv, TypeOK, Phases, Fresh
  <1>3. BuffersFit' /\ FileInv' /\ held' \in Seq(Byte) /\ out' \in Seq(Byte) /\ used_iv' = Iv
    BY <1>1 DEF Inv, BuffersFit, FileInv, NeedsIv
  <1>4. Phases'
    BY <1>1 DEF Phases
  <1>5. EncryptsAsOneShot' /\ DecryptsAsOneShot'
    BY <1>2 DEF EncryptsAsOneShot, DecryptsAsOneShot, Ended
  <1>6. QED
    BY <1>2, <1>3, <1>4, <1>5 DEF Inv

LEMMA OpenStep == ASSUME Inv, Open PROVE Inv'
  <1>1. /\ pc = "open" /\ pc' = "loop" /\ created' = TRUE /\ call' = call
        /\ (NeedsIv => Len(call.file) >= BlockBytes)
        /\ used_iv' = IF NeedsIv THEN Take(call.file, BlockBytes) ELSE Iv
        /\ fin' = Body /\ out' = Header
        /\ UNCHANGED <<broken, lost, held, offset, status, fault>>
    BY DEF Open, NeedsIv, Body, Header
  <1>2. Fresh /\ FileInv /\ used_iv = Iv /\ call.padding \in Paddings
    BY <1>1 DEF Inv, Phases
  <1>3. Body \in Seq(Byte) /\ Header \in Seq(Byte)
    BY <1>1, <1>2, TextFacts
  <1>4. used_iv' = Iv /\ Body' = Body /\ Header' = Header /\ NeedsIv' = NeedsIv
    BY <1>1, <1>2 DEF FileInv, Body, Header, NeedsIv
  <1>5. TypeOK'
    BY <1>1 DEF Inv, TypeOK
  <1>6. BuffersFit' /\ FileInv' /\ held' \in Seq(Byte) /\ out' \in Seq(Byte)
    BY <1>1, <1>3, <1>4 DEF Inv, BuffersFit, FileInv
  <1>7. Streams'
    <2> DEFINE x == Xor(Body, Iv, 0)
    <2>1. Cut' = 0 /\ ReadTo' = 0
      <3>1. Cut' = 0
        BY <1>1, <1>2, BlockAssumption DEF Fresh, Cut
      <3>2. QED
        BY <1>1, <1>3, <1>4, <3>1, LenProperties DEF ReadTo
    <2>2. Slice(Body, 0, Len(Body)) = Body
      BY <1>3, SliceAll
    <2>3. Slice(Body, 0, 0) = <<>>
      BY <1>3, SliceEmpty, LenProperties
    <2>4. Slice(x, 0, 0) = <<>>
      BY DEF Slice
    <2>5. Header \o <<>> = Header
      BY <1>3, ConcatEmptySeq
    <2> HIDE DEF x
    <2>6. held' = <<>>
      BY <1>1, <1>2 DEF Fresh
    <2>7. QED
      BY <1>1, <1>3, <1>4, <2>1, <2>2, <2>3, <2>4, <2>5, <2>6 DEF Streams, x
  <1>8. Phases'
    BY <1>1, <1>2, <1>4, <1>7 DEF Inv, Phases, Running, Fresh, KeepsBlock
  <1>9. EncryptsAsOneShot' /\ DecryptsAsOneShot'
    BY <1>1 DEF EncryptsAsOneShot, DecryptsAsOneShot, Ended
  <1>10. QED
    BY <1>4, <1>5, <1>6, <1>8, <1>9 DEF Inv

LEMMA TurnInv == ASSUME Inv, Turn PROVE Inv'
  <1>1. /\ Streams' /\ KeepsBlock' /\ BuffersFit' /\ offset' \in Nat
        /\ held' \in Seq(Byte) /\ out' \in Seq(Byte)
    BY TurnStep
  <1>2. /\ pc = "loop" /\ pc' = "loop" /\ fault' = broken' /\ broken' \in BOOLEAN
        /\ UNCHANGED <<call, used_iv, created, lost, status>>
    BY DEF Turn, Reads
  <1>3. TypeOK'
    BY <1>1, <1>2 DEF Inv, TypeOK
  <1>4. FileInv' /\ used_iv' = Iv /\ NeedsIv' = NeedsIv
    BY <1>2 DEF Inv, FileInv, NeedsIv
  <1>5. Phases'
    BY <1>1, <1>2, <1>4 DEF Inv, Phases, Running
  <1>6. EncryptsAsOneShot' /\ DecryptsAsOneShot'
    BY <1>2 DEF EncryptsAsOneShot, DecryptsAsOneShot, Ended
  <1>7. QED
    BY <1>1, <1>3, <1>4, <1>5, <1>6 DEF Inv

LEMMA EndOfFileStep == ASSUME Inv, EndOfFile PROVE Inv'
  <1>1. /\ pc = "loop" /\ pc' = "last" /\ ~broken /\ Min({call.chunk, Len(fin)}) = 0
        /\ UNCHANGED <<call, fin, broken, out, created, lost, used_iv, held, offset, status, fault>>
    BY DEF EndOfFile, fileVars
  <1>2. fin = <<>>
    <2>1. fin \in Seq(Byte) /\ call.chunk \in Nat \ {0}
      BY <1>1 DEF Inv, Phases, Running, Streams, TypeOK
    <2>2. Len(fin) \in Nat
      BY <2>1, LenProperties
    <2>3. Len(fin) = 0
      BY <1>1, <2>1, <2>2, MinOfTwo
    <2>4. QED
      BY <2>1, <2>3, EmptySeq
  <1>3. TypeOK'
    BY <1>1 DEF Inv, TypeOK
  <1>4. /\ BuffersFit' /\ FileInv' /\ held' \in Seq(Byte) /\ out' \in Seq(Byte)
        /\ used_iv' = Iv /\ NeedsIv' = NeedsIv
    BY <1>1 DEF Inv, BuffersFit, FileInv, NeedsIv
  <1>5. Running'
    <2>1. Running
      BY <1>1 DEF Inv, Phases
    <2>2. Body' = Body /\ Header' = Header /\ Cut' = Cut /\ ReadTo' = ReadTo
      BY <1>1 DEF Body, Header, Cut, ReadTo
    <2>3. QED
      BY <1>1, <1>4, <2>1, <2>2 DEF Running, Streams, KeepsBlock
  <1>6. Phases'
    BY <1>1, <1>2, <1>5 DEF Inv, Phases
  <1>7. EncryptsAsOneShot' /\ DecryptsAsOneShot'
    BY <1>1 DEF EncryptsAsOneShot, DecryptsAsOneShot, Ended
  <1>8. QED
    BY <1>3, <1>4, <1>6, <1>7 DEF Inv

LEMMA EncryptLastInv == ASSUME Inv, EncryptLast PROVE Inv'
  <1>1. EncryptsAsOneShot'
    BY EncryptLastStep
  <1>2. /\ call.op = "encrypt" /\ pc' = "returned" /\ fault' = FALSE
        /\ status' \in {"OK", "INVALID_ARG"}
        /\ UNCHANGED <<call, fin, broken, created, lost, used_iv, held, offset>>
    BY DEF EncryptLast, Finish
  <1>3. out' \in Seq(Byte)
    <2> DEFINE q == Xor(LastBlock(held, call.padding), Iv, offset)
    <2>1. /\ out \in Seq(Byte) /\ held \in Seq(Byte) /\ Len(held) < BlockBytes
          /\ call.padding \in Paddings /\ used_iv = Iv /\ offset \in Nat
      BY <1>2 DEF Inv, Phases, BuffersFit, TypeOK, EncryptLast
    <2>2. q \in Seq(Byte)
      BY <2>1, LastBlockFacts, XorFacts
    <2>3. out' = out \/ out' = out \o q \/ out' = out \o <<>>
      BY <2>1 DEF EncryptLast
    <2> HIDE DEF q
    <2>4. out \o q \in Seq(Byte) /\ out \o <<>> = out
      BY <2>1, <2>2, ConcatProperties, ConcatEmptySeq
    <2>5. QED
      BY <2>1, <2>3, <2>4
  <1>4. TypeOK'
    BY <1>2 DEF Inv, TypeOK
  <1>5. BuffersFit' /\ FileInv' /\ held' \in Seq(Byte) /\ used_iv' = Iv
    BY <1>2 DEF Inv, BuffersFit, FileInv, NeedsIv
  <1>6. Phases'
    BY <1>2 DEF Phases
  <1>7. DecryptsAsOneShot'
    BY <1>2 DEF DecryptsAsOneShot, Ended
  <1>8. QED
    BY <1>1, <1>3, <1>4, <1>5, <1>6, <1>7 DEF Inv

LEMMA DecryptLastInv == ASSUME Inv, DecryptLast PROVE Inv'
  <1> DEFINE last  == Xor(held, used_iv, offset)
             strip == Remove(Values(last), call.padding)
  <1>1. DecryptsAsOneShot'
    BY DecryptLastStep
  <1>2. /\ call.op = "decrypt" /\ pc' = "returned" /\ fault' = FALSE
        /\ UNCHANGED <<call, fin, broken, created, lost, used_iv, held, offset>>
    BY DEF DecryptLast, Finish
  <1>3. \/ status' = "BAD_PADDING" /\ out' = out
        \/ OneBlockHeld /\ status' = strip.status /\ out' = out \o Take(last, strip.len)
    BY DEF DecryptLast, Finish
  <1>4. /\ out \in Seq(Byte) /\ held \in Seq(Byte) /\ call.padding \in Paddings
        /\ used_iv = Iv /\ offset \in Nat
    BY DEF Inv, Phases, TypeOK, DecryptLast
  <1>5. last \in Seq(Byte) /\ Len(last) = Len(held)
    BY <1>4, XorFacts
  <1>6. ASSUME OneBlockHeld
        PROVE  /\ strip.status \in {"OK", "BAD_PADDING"} /\ strip.len \in 0 .. BlockBytes
               /\ Take(last, strip.len) \in Seq(Byte)
    <2> HIDE DEF last
    <2>1. Values(last) \in Seq(Int) /\ Len(Values(last)) = BlockBytes
      BY <1>5, <1>6, ValueFacts DEF OneBlockHeld
    <2>2. strip.status \in {"OK", "BAD_PADDING"} /\ strip.len \in 0 .. BlockBytes
      BY <1>4, <2>1, StripFacts
    <2> DEFINE k == strip.len
    <2> HIDE DEF strip
    <2>3. k \in Nat /\ 0 \in Nat /\ 0 <= k /\ k <= Len(last)
      BY <1>5, <1>6, <2>2, BlockAssumption DEF OneBlockHeld
    <2> HIDE DEF k
    <2>4. Slice(last, 0, k) \in Seq(Byte)
      BY <1>5, <2>3, SliceFacts
    <2>5. QED
      BY <2>2, <2>4, TakeSlice DEF k
  <1> HIDE DEF last, strip
  <1>7. status' \in {"OK", "BAD_PADDING"} /\ out' \in Seq(Byte)
    BY <1>3, <1>4, <1>6, ConcatProperties
  <1>8. TypeOK'
    BY <1>2, <1>7 DEF Inv, TypeOK
  <1>9. BuffersFit' /\ FileInv' /\ held' \in Seq(Byte) /\ used_iv' = Iv
    BY <1>2 DEF Inv, BuffersFit, FileInv, NeedsIv
  <1>10. Phases'
    BY <1>2 DEF Phases
  <1>11. EncryptsAsOneShot'
    BY <1>2 DEF EncryptsAsOneShot, Ended
  <1>12. QED
    BY <1>1, <1>7, <1>8, <1>9, <1>10, <1>11 DEF Inv

LEMMA CloseFailsStep == ASSUME Inv, CloseFails PROVE Inv'
  <1>1. /\ pc = "returned" /\ pc' = "returned" /\ status = "OK" /\ ~lost /\ lost' = TRUE
        /\ UNCHANGED <<call, fin, broken, created, used_iv, held, offset, status, fault>>
    BY DEF CloseFails
  <1>2. PICK n \in 0 .. Len(out) - 1 : out' = Take(out, n)
    BY DEF CloseFails
  <1>3. out \in Seq(Byte) /\ Len(out) \in Nat
    BY LenProperties DEF Inv
  <1>4. out' \in Seq(Byte) /\ Len(out') = n
    <2>1. n \in Nat /\ 0 \in Nat /\ 0 <= n /\ n <= Len(out)
      BY <1>3
    <2>2. Slice(out, 0, n) \in Seq(Byte) /\ Len(Slice(out, 0, n)) = n - 0
      BY <1>3, <2>1, SliceFacts
    <2>3. QED
      BY <1>2, <2>1, <2>2, TakeSlice
  <1>5. ASSUME NEW b, Written(b)
        PROVE  out' = IF lost' /\ Len(out') < Len(b) THEN Take(b, Len(out')) ELSE b
    <2>1. out = b
      BY <1>1, <1>5 DEF Written
    <2>2. Len(out') < Len(b)
      BY <1>3, <1>4, <2>1
    <2>3. QED
      BY <1>1, <1>2, <1>4, <2>1, <2>2
  <1>6. TypeOK'
    BY <1>1 DEF Inv, TypeOK
  <1>7. BuffersFit' /\ FileInv' /\ held' \in Seq(Byte) /\ used_iv' = Iv
    BY <1>1 DEF Inv, BuffersFit, FileInv, NeedsIv
  <1>8. Phases'
    BY <1>1 DEF Phases
  <1>9. EncryptsAsOneShot'
    <2> DEFINE one == EncryptAlloc(call.file, Iv, call.padding)
    <2>1. SUFFICES ASSUME Ended("encrypt")'
                   PROVE  /\ ~fault => status = one.status
                          /\ one.status = "OK"
                          /\ out' = IF lost' /\ Len(out') < Len(Header \o one.out)
                                      THEN Take(Header \o one.out, Len(out'))
                                      ELSE Header \o one.out
      BY <1>1 DEF EncryptsAsOneShot, Written, Header
    <2>2. Ended("encrypt")
      BY <1>1, <2>1 DEF Ended
    <2>3. /\ ~fault => status = one.status
          /\ one.status = "OK" /\ Written(Header \o one.out)
      BY <1>1, <2>2 DEF Inv, EncryptsAsOneShot
    <2> HIDE DEF one
    <2>4. QED
      BY <1>5, <2>3
  <1>10. DecryptsAsOneShot'
    <2> DEFINE one == DecryptAlloc(Body, used_iv, call.padding)
    <2>0. Body' = Body
      BY <1>1 DEF Body
    <2>1. SUFFICES ASSUME Ended("decrypt")'
                   PROVE  /\ ~fault => (status = "OK" <=> one.status = "OK" /\ Body # <<>>)
                          /\ \/ call.padding # "ZERO" /\ Written(one.out)'
                             \/ /\ call.padding = "ZERO"
                                /\ \E m \in 0 .. Len(Body) :
                                     Written(one.out \o [i \in 1 .. m |-> Plain(0)])'
      BY <1>1, <2>0 DEF DecryptsAsOneShot
    <2>2. Ended("decrypt")
      BY <1>1, <2>1 DEF Ended
    <2>3. /\ ~fault => (status = "OK" <=> one.status = "OK" /\ Body # <<>>)
          /\ \/ call.padding # "ZERO" /\ Written(one.out)
             \/ /\ call.padding = "ZERO"
                /\ \E m \in 0 .. Len(Body) : Written(one.out \o [i \in 1 .. m |-> Plain(0)])
      BY <1>1, <2>2 DEF Inv, DecryptsAsOneShot
    <2>4. one' = one
      BY <1>1, <2>0
    <2> HIDE DEF one
    <2>5. ASSUME call.padding # "ZERO" PROVE Written(one.out)'
      BY <1>5, <2>3, <2>4, <2>5 DEF Written
    <2>6. ASSUME call.padding = "ZERO"
          PROVE  \E m \in 0 .. Len(Body) : Written(one.out \o [i \in 1 .. m |-> Plain(0)])'
      <3>1. PICK m \in 0 .. Len(Body) : Written(one.out \o [i \in 1 .. m |-> Plain(0)])
        BY <2>3, <2>6
      <3> DEFINE b == one.out \o [i \in 1 .. m |-> Plain(0)]
      <3>2. b' = b
        BY <2>4
      <3>3. Written(b)
        BY <3>1
      <3> HIDE DEF b
      <3>4. out' = IF lost' /\ Len(out') < Len(b) THEN Take(b, Len(out')) ELSE b
        BY <1>5, <3>3
      <3>5. Written(b)'
        BY <3>2, <3>4 DEF Written
      <3>6. QED
        BY <3>5 DEF b
    <2>7. QED
      BY <2>3, <2>5, <2>6
  <1>11. QED
    BY <1>4, <1>6, <1>7, <1>8, <1>9, <1>10 DEF Inv

LEMMA StutterStep == ASSUME Inv, UNCHANGED vars PROVE Inv'
  <1>1. UNCHANGED <<call, pc, fin, broken, used_iv, held, offset, out, created, status, lost, fault>>
    BY DEF vars, fileVars
  <1>2. Body' = Body /\ Header' = Header /\ NeedsIv' = NeedsIv
    BY <1>1 DEF Body, Header, NeedsIv
  <1>3. TypeOK' /\ BuffersFit' /\ FileInv'
    BY <1>1, <1>2 DEF Inv, TypeOK, BuffersFit, FileInv
  <1>4. Phases'
    <2>1. Streams' <=> Streams
      BY <1>1, <1>2 DEF Streams, ReadTo, Cut
    <2>2. QED
      BY <1>1, <1>2, <2>1 DEF Inv, Phases, Running, Fresh, KeepsBlock
  <1>5. EncryptsAsOneShot'
    BY <1>1, <1>2 DEF Inv, EncryptsAsOneShot, Ended, Written
  <1>6. DecryptsAsOneShot'
    BY <1>1, <1>2 DEF Inv, DecryptsAsOneShot, Ended, Written
  <1>7. QED
    BY <1>1, <1>3, <1>4, <1>5, <1>6 DEF Inv

LEMMA NextInv == ASSUME Inv, [Next]_vars PROVE Inv'
  BY OpenFailsStep, NoIvStep, OpenStep, TurnInv, LoopFailsStep, EndOfFileStep, EncryptLastInv,
     DecryptLastInv, CloseFailsStep, StutterStep DEF Next, Returned

LEMMA InvHolds == Spec => []Inv
  <1>1. Init => Inv
    BY InitInv
  <1>2. Inv /\ [Next]_vars => Inv'
    BY NextInv
  <1>3. QED
    BY <1>1, <1>2, PTL DEF Spec

\* The types of the state of a file call, for every size of blocks and chunks and every text:
\* chunks are whole blocks and statuses those the API names.
THEOREM CtrFileTypes == Spec => []TypeOK
  <1>1. Inv => TypeOK
    BY DEF Inv
  <1>2. QED
    BY <1>1, InvHolds, PTL

\* leftover[16] and rem[32] are never overrun, whatever the chunk size and the file.
THEOREM CtrBuffersFit == Spec => []BuffersFit
  <1>1. Inv => BuffersFit
    BY DEF Inv
  <1>2. QED
    BY <1>1, InvHolds, PTL

\* The chunked encryption of a file ends as the one-shot call on the same text does, for every
\* text, padding and chunk size; a failure never ends in OK, and what follows OK is whole
\* unless fclose has lost its end.
THEOREM EncryptionIsOneShot == Spec => []EncryptsAsOneShot
  <1>1. Inv => EncryptsAsOneShot
    BY DEF Inv
  <1>2. QED
    BY <1>1, InvHolds, PTL

\* So does the chunked decryption, with the exceptions of the empty file and of the zeros
\* before the last block.
THEOREM DecryptionIsOneShot == Spec => []DecryptsAsOneShot
  <1>1. Inv => DecryptsAsOneShot
    BY DEF Inv
  <1>2. QED
    BY <1>1, InvHolds, PTL

-----------------------------------------------------------------------------
(* What a decryption that ends well has written *)

Whole(text) == Len(text) # 0 /\ Len(text) % BlockBytes = 0

LastCut(text) == Len(text) - BlockBytes

Ending ==
  Ended("decrypt") /\ status = "OK" /\ ~lost =>
    /\ Whole(Body) /\ Body \in Seq(Byte) /\ LastCut(Body) \in Nat /\ call.padding \in Paddings
    /\ out = WrittenOf(Body, LastCut(Body), call.padding)
    /\ StripOf(Body, LastCut(Body), call.padding).status = "OK"

LEMMA EndingOfDecryption == ASSUME Inv, DecryptLast PROVE Ending'
  <1> DEFINE a == Cut
             t == Len(Body)
             x == Xor(Body, Iv, 0)
  <1>1. /\ call.op = "decrypt" /\ pc = "last" /\ offset \in Nat /\ used_iv = Iv /\ ~lost
        /\ call.padding \in Paddings
    BY DEF Inv, Phases, Running, DecryptLast, TypeOK
  <1>2. /\ Body \in Seq(Byte) /\ t \in Nat /\ a \in Nat /\ a <= t
        /\ held = Slice(Body, a, t) /\ Len(held) = t - a /\ out = Slice(x, 0, a)
        /\ OneBlockHeld <=> t # 0 /\ t % BlockBytes = 0
    BY <1>1, HeldAtEnd
  <1>3. call' = call /\ Body' = Body
    BY DEF DecryptLast, Body
  <1>4. Xor(held, Iv, offset) = LastOf(Body, a)
    <2>1. offset * BlockBytes <= t /\ t <= Len(Body)
      BY <1>2 DEF Cut
    <2>2. Xor(Slice(Body, offset * BlockBytes, t), Iv, offset)
            = Slice(Xor(Body, Iv, 0), offset * BlockBytes, t)
      <3> HIDE DEF t
      <3>1. QED
        BY <1>1, <1>2, <2>1, XorSlice
    <2>3. QED
      BY <1>2, <2>2 DEF Cut, LastOf
  <1>5. CASE ~OneBlockHeld
    <2>1. status' # "OK"
      BY <1>5 DEF DecryptLast, Finish
    <2>2. QED
      BY <2>1 DEF Ending
  <1>6. CASE OneBlockHeld
    <2>1. /\ t = a + BlockBytes /\ t % BlockBytes = 0 /\ t # 0
          /\ a = LastCut(Body)
      BY <1>2, <1>6, BlockAssumption DEF OneBlockHeld, LastCut
    <2> HIDE DEF a, x, t
    <2>2. /\ status' = StripOf(Body, a, call.padding).status
          /\ out' = WrittenOf(Body, a, call.padding)
      BY <1>1, <1>2, <1>4, <1>6 DEF DecryptLast, Finish, StripOf, WrittenOf, x
    <2>3. QED
      BY <1>1, <1>2, <1>3, <2>1, <2>2 DEF Ending, Whole, LastCut, t
  <1>7. QED
    BY <1>5, <1>6

\* The output is created only for a padding the library supports.
KnownPadding == created => call.padding \in Paddings

LEMMA KnownStep == ASSUME Inv, KnownPadding, [Next]_vars PROVE KnownPadding'
  <1>1. call' = call /\ (pc # "returned" => call.padding \in Paddings)
    BY DEF Inv, Phases, Next, vars, OpenFails, NoIv, Open, Turn, ReadFails, EndOfFile, TurnFails,
           EncryptLast, DecryptLast, LastFails, CloseFails, Returned
  <1>2. CASE pc = "returned"
    <2>1. created' = created
      BY <1>2 DEF Next, vars, fileVars, OpenFails, NoIv, Open, Turn, ReadFails, EndOfFile,
                  TurnFails, EncryptLast, DecryptLast, LastFails, CloseFails, Returned
    <2>2. QED
      BY <1>1, <2>1 DEF KnownPadding
  <1>3. QED
    BY <1>1, <1>2 DEF KnownPadding

LEMMA EndingStep == ASSUME Inv, Ending, [Next]_vars PROVE Ending'
  <1>1. CASE OpenFails \/ ReadFails \/ TurnFails \/ LastFails \/ NoIv
    <2>1. status' # "OK"
      BY <1>1 DEF OpenFails, ReadFails, TurnFails, LastFails, NoIv, Finish
    <2>2. QED
      BY <2>1 DEF Ending
  <1>2. CASE Open \/ Turn \/ EndOfFile
    <2>1. pc' # "returned"
      BY <1>2 DEF Open, Turn, EndOfFile
    <2>2. QED
      BY <2>1 DEF Ending, Ended
  <1>3. CASE EncryptLast
    <2>1. call'.op = "encrypt"
      BY <1>3 DEF EncryptLast
    <2>2. QED
      BY <2>1 DEF Ending, Ended
  <1>4. CASE DecryptLast
    BY <1>4, EndingOfDecryption
  <1>5. CASE CloseFails
    BY <1>5 DEF CloseFails, Ending
  <1>6. CASE Returned \/ UNCHANGED vars
    <2>1. UNCHANGED <<call, pc, out, created, status, lost>>
      BY <1>6 DEF Returned, vars, fileVars
    <2>2. Body' = Body
      BY <2>1 DEF Body
    <2>3. QED
      BY <2>1, <2>2 DEF Ending, Ended
  <1>7. QED
    BY <1>1, <1>2, <1>3, <1>4, <1>5, <1>6 DEF Next

LEMMA EndingHolds == Spec => [](Inv /\ Ending /\ KnownPadding)
  <1>1. Init => Ending /\ KnownPadding
    BY DEF Init, Ending, Ended, KnownPadding
  <1>2. Inv /\ Ending /\ KnownPadding /\ [Next]_vars => Ending' /\ KnownPadding'
    BY EndingStep, KnownStep
  <1>3. QED
    BY <1>1, <1>2, InvHolds, PTL DEF Spec

-----------------------------------------------------------------------------
(* Decryption undoes encryption *)

\* Combining twice with the same keystream changes nothing.
LEMMA XorTwice == ASSUME NEW s \in Seq(Byte) PROVE Xor(Xor(s, Iv, 0), Iv, 0) = s
  <1> DEFINE x == Xor(s, Iv, 0)
             y == Xor(x, Iv, 0)
  <1>1. /\ x \in Seq(Byte) /\ Len(x) = Len(s)
        /\ \A i \in 1 .. Len(s) : x[i] = Combine(s[i], <<Iv, 0 * BlockBytes + i - 1>>)
    BY XorFacts
  <1>2. /\ y \in Seq(Byte) /\ Len(y) = Len(x)
        /\ \A i \in 1 .. Len(x) : y[i] = Combine(x[i], <<Iv, 0 * BlockBytes + i - 1>>)
    <2> HIDE DEF x
    <2>1. QED
      BY <1>1, XorFacts
  <1> HIDE DEF x, y
  <1>3. ASSUME NEW i \in 1 .. Len(s) PROVE y[i] = s[i]
    <2> DEFINE j == 0 * BlockBytes + i - 1
    <2>1. j \in Int /\ s[i] \in Byte
      BY BlockAssumption, ElementOfSeq
    <2>2. x[i] = Combine(s[i], <<Iv, j>>) /\ y[i] = Combine(x[i], <<Iv, j>>)
      BY <1>1, <1>2
    <2> HIDE DEF j, Byte
    <2>3. Combine(Combine(s[i], <<Iv, j>>), <<Iv, j>>) = s[i]
      BY <2>1, CombineFacts
    <2>4. QED
      BY <2>2, <2>3
  <1>4. y = s
    BY <1>1, <1>2, <1>3, SeqEqual
  <1>5. QED
    BY <1>4 DEF x, y

\* The last block of x, as the values Remove looks at.
LEMMA LastBytes ==
  ASSUME NEW x \in Seq(Byte), NEW c \in Nat, Len(x) = c + BlockBytes
  PROVE  /\ Values(Slice(x, c, Len(x))) \in Seq(Int)
         /\ Len(Values(Slice(x, c, Len(x)))) = BlockBytes
         /\ \A i \in 1 .. BlockBytes : Values(Slice(x, c, Len(x)))[i] = Value(x[c + i])
  <1> DEFINE l == Slice(x, c, Len(x))
  <1>1. BlockBytes \in Nat /\ Len(x) \in Nat /\ c <= Len(x) /\ Len(x) <= Len(x)
    BY BlockAssumption, LenProperties
  <1>2. l \in Seq(Byte) /\ Len(l) = Len(x) - c /\ \A i \in 1 .. Len(x) - c : l[i] = x[c + i]
    BY <1>1, SliceFacts
  <1>3. Len(x) - c = BlockBytes
    BY <1>1
  <1> HIDE DEF l
  <1>4. Values(l) \in Seq(Int) /\ Len(Values(l)) = Len(l)
        /\ \A i \in 1 .. Len(l) : Values(l)[i] = Value(l[i])
    BY <1>2, ValueFacts
  <1>5. QED
    BY <1>2, <1>3, <1>4 DEF l

\* The blocks before the last and k bytes of the last.
LEMMA CutBack ==
  ASSUME NEW x \in Seq(Byte), NEW c \in Nat, NEW k \in Nat, c + k <= Len(x)
  PROVE  Slice(x, 0, c) \o Take(Slice(x, c, Len(x)), k) = Slice(x, 0, c + k)
  <1> DEFINE t == Len(x)
  <1>1. /\ t \in Nat /\ 0 \in Nat /\ 0 <= k /\ k <= t - c /\ t <= Len(x) /\ c <= t /\ 0 <= c
        /\ c + k \in Nat /\ c <= c + k /\ c + 0 = c
    BY LenProperties
  <1>2. c + k <= Len(x)
    OBVIOUS
  <1> HIDE DEF t
  <1>3. Slice(Slice(x, c, t), 0, k) = Slice(x, c + 0, c + k)
    BY <1>1, SliceOfSlice
  <1>4. Slice(x, 0, c) \o Slice(x, c, c + k) = Slice(x, 0, c + k)
    BY <1>1, <1>2, SliceJoin
  <1>5. Take(Slice(x, c, t), k) = Slice(Slice(x, c, t), 0, k)
    BY TakeSlice
  <1>6. QED
    BY <1>1, <1>3, <1>4, <1>5 DEF t

\* w bytes of a text are its beginning, and zeros follow if the bytes after them are zeros.
LEMMA ZerosAfter ==
  ASSUME NEW x \in Seq(Byte), NEW w \in Nat, NEW n \in Nat, w <= n, n <= Len(x),
         \A i \in w + 1 .. n : x[i] = Plain(0)
  PROVE  /\ Len(Slice(x, 0, w)) = w
         /\ Take(Slice(x, 0, n), w) = Slice(x, 0, w)
         /\ IsZeros(Drop(Slice(x, 0, n), w))
  <1>1. 0 \in Nat /\ 0 <= w /\ 0 <= n /\ w <= Len(x) /\ w <= n - 0 /\ n - 0 = n /\ n <= n - 0
        /\ 0 + w = w /\ 0 + n = n /\ 0 + 0 = 0
    BY LenProperties
  <1>2. Len(Slice(x, 0, w)) = w - 0 /\ Len(Slice(x, 0, n)) = n - 0
    BY <1>1, SliceFacts
  <1>3. Slice(Slice(x, 0, n), 0, w) = Slice(x, 0 + 0, 0 + w)
    BY <1>1, SliceOfSlice
  <1>4. Slice(Slice(x, 0, n), w, n) = Slice(x, 0 + w, 0 + n)
    BY <1>1, SliceOfSlice
  <1>5. /\ Slice(x, w, n) \in Seq(Byte) /\ Len(Slice(x, w, n)) = n - w
        /\ \A i \in 1 .. n - w : Slice(x, w, n)[i] = x[w + i]
    BY <1>1, SliceFacts
  <1>6. Drop(Slice(x, 0, n), w) = Slice(x, w, n)
    BY <1>1, <1>2, <1>4, TakeSlice
  <1>7. ASSUME NEW i \in DOMAIN Slice(x, w, n) PROVE Slice(x, w, n)[i] = Plain(0)
    <2>1. i \in 1 .. n - w
      BY <1>5
    <2>2. w + i \in w + 1 .. n
      BY <2>1
    <2>3. QED
      BY <1>5, <2>1, <2>2
  <1>8. QED
    BY <1>1, <1>2, <1>3, <1>6, <1>7, TakeSlice DEF IsZeros

Cipher(text, padding) == EncryptAlloc(text, Iv, padding).out

\* A padded text is encrypted in one piece.
LEMMA CipherJoins ==
  ASSUME NEW text \in Seq(Byte), NEW at \in Nat, NEW padding \in Paddings,
         at * BlockBytes <= Len(text), Len(text) - at * BlockBytes < BlockBytes,
         Pads(padding, Len(text) - at * BlockBytes)
  PROVE  Cipher(text, padding)
           = Xor(Slice(text, 0, at * BlockBytes)
                   \o LastBlock(Slice(text, at * BlockBytes, Len(text)), padding), Iv, 0)
  <1> DEFINE a    == at * BlockBytes
             head == Slice(text, 0, a)
             tail == Slice(text, a, Len(text))
             last == LastBlock(tail, padding)
  <1>1. a \in Nat /\ Len(text) \in Nat /\ Len(text) - a < BlockBytes /\ BlockBytes \in Nat
        /\ a <= Len(text) /\ 0 \in Nat /\ 0 <= a /\ Len(text) <= Len(text)
        /\ 0 * BlockBytes = 0 /\ 0 * BlockBytes <= a /\ a - 0 = a
    BY BlockAssumption, LenProperties
  <1>2. Cipher(text, padding) = Slice(Xor(text, Iv, 0), 0, a) \o Xor(last, Iv, at)
    BY EncryptionOf DEF Cipher
  <1> HIDE DEF a
  <1>3. head \in Seq(Byte) /\ Len(head) = a - 0
    BY <1>1, SliceFacts
  <1>4. tail \in Seq(Byte) /\ Len(tail) = Len(text) - a
    <2>1. a \in Nat /\ Len(text) \in Nat /\ a <= Len(text) /\ Len(text) <= Len(text)
      BY <1>1
    <2>2. /\ Slice(text, a, Len(text)) \in Seq(Byte)
          /\ Len(Slice(text, a, Len(text))) = Len(text) - a
      BY <2>1, SliceFacts
    <2>3. QED
      BY <2>2
  <1>5. last \in Seq(Byte)
    <2> HIDE DEF tail
    <2>1. Len(tail) < BlockBytes
      BY <1>1, <1>4
    <2>2. QED
      BY <1>4, <2>1, LastBlockFacts
  <1> HIDE DEF head, tail, last
  <1>6. Xor(Slice(text, 0 * BlockBytes, a), Iv, 0) = Slice(Xor(text, Iv, 0), 0 * BlockBytes, a)
    BY <1>1, XorSlice
  <1>7. Len(head) = at * BlockBytes
    BY <1>1, <1>3 DEF a
  <1>8. Xor(head \o last, Iv, 0) = Xor(head, Iv, 0) \o Xor(last, Iv, at)
    BY <1>3, <1>5, <1>7, XorJoin
  <1>9. QED
    BY <1>1, <1>2, <1>6, <1>8 DEF head, last, tail, a

\* What decrypting the encryption of a text finds in its last block.
LEMMA PaddedEnd ==
  ASSUME NEW text \in Seq(Byte), NEW at \in Nat, NEW padding \in Paddings,
         at * BlockBytes <= Len(text), Len(text) - at * BlockBytes < BlockBytes,
         Pads(padding, Len(text) - at * BlockBytes)
  PROVE  /\ Cipher(text, padding) \in Seq(Byte)
         /\ Len(Cipher(text, padding)) = at * BlockBytes + BlockBytes
         /\ \A i \in Len(text) - at * BlockBytes + 1 .. BlockBytes :
              Xor(Cipher(text, padding), Iv, 0)[at * BlockBytes + i]
                = Plain(PadByte(i, Len(text) - at * BlockBytes, padding))
  <1> DEFINE a    == at * BlockBytes
             r    == Len(text) - a
             head == Slice(text, 0, a)
             tail == Slice(text, a, Len(text))
             last == LastBlock(tail, padding)
             both == head \o last
             c    == Cipher(text, padding)
  <1>1. a \in Nat /\ Len(text) \in Nat /\ r \in 0 .. BlockBytes - 1 /\ BlockBytes \in Nat
        /\ a <= Len(text) /\ 0 \in Nat /\ 0 <= a /\ Len(text) <= Len(text)
        /\ 0 * BlockBytes = 0 /\ 0 * BlockBytes <= a /\ a - 0 = a
    BY BlockAssumption, LenProperties
  <1>2. c = Xor(both, Iv, 0)
    BY CipherJoins
  <1> HIDE DEF a
  <1>3. head \in Seq(Byte) /\ Len(head) = a - 0 /\ \A i \in 1 .. a - 0 : head[i] = text[0 + i]
    <2>1. a \in Nat /\ 0 \in Nat /\ 0 <= a /\ a <= Len(text)
      BY <1>1
    <2>2. /\ Slice(text, 0, a) \in Seq(Byte) /\ Len(Slice(text, 0, a)) = a - 0
          /\ \A i \in 1 .. a - 0 : Slice(text, 0, a)[i] = text[0 + i]
      <3> HIDE DEF r, both, c
      <3>1. QED
        BY <2>1, SliceFacts
    <2>3. QED
      BY <2>2
  <1>4. tail \in Seq(Byte) /\ Len(tail) = r
    <2>1. a \in Nat /\ Len(text) \in Nat /\ a <= Len(text) /\ Len(text) <= Len(text)
      BY <1>1
    <2>2. /\ Slice(text, a, Len(text)) \in Seq(Byte)
          /\ Len(Slice(text, a, Len(text))) = Len(text) - a
      <3> HIDE DEF r, both, c
      <3>1. QED
        BY <2>1, SliceFacts
    <2>3. QED
      BY <2>2
  <1> HIDE DEF head, tail, r
  <1>5. /\ last \in Seq(Byte) /\ Len(last) = BlockBytes
        /\ \A i \in 1 .. BlockBytes :
             last[i] = Plain(IF i <= r THEN Value(tail[i]) ELSE PadByte(i, r, padding))
    <2>1. Len(tail) < BlockBytes
      BY <1>1, <1>4
    <2>2. /\ LastBlock(tail, padding) \in Seq(Byte) /\ Len(LastBlock(tail, padding)) = BlockBytes
          /\ \A i \in 1 .. BlockBytes :
               LastBlock(tail, padding)[i]
                 = Plain(IF i <= Len(tail) THEN Value(tail[i])
                                           ELSE PadByte(i, Len(tail), padding))
      BY <1>4, <2>1, LastBlockFacts
    <2>3. QED
      BY <1>4, <2>2
  <1> HIDE DEF last
  <1>6. both \in Seq(Byte) /\ Len(both) = a + BlockBytes
        /\ \A i \in 1 .. BlockBytes : both[a + i] = last[i]
    <2>1. Len(head) = a
      BY <1>1, <1>3
    <2>2. /\ head \o last \in Seq(Byte) /\ Len(head \o last) = Len(head) + Len(last)
          /\ \A i \in 1 .. Len(head) + Len(last) :
               (head \o last)[i] = IF i <= Len(head) THEN head[i] ELSE last[i - Len(head)]
      BY <1>3, <1>5, ConcatProperties
    <2>3. /\ both \in Seq(Byte) /\ Len(both) = a + BlockBytes
          /\ \A i \in 1 .. a + BlockBytes : both[i] = IF i <= a THEN head[i] ELSE last[i - a]
      BY <1>5, <2>1, <2>2
    <2> HIDE DEF both
    <2>4. ASSUME NEW i \in 1 .. BlockBytes PROVE both[a + i] = last[i]
      <3>1. a + i \in 1 .. a + BlockBytes /\ ~(a + i <= a) /\ (a + i) - a = i
        BY <1>1
      <3>2. QED
        BY <2>3, <3>1
    <2>5. QED
      BY <2>3, <2>4
  <1>7. Xor(both, Iv, 0) = c
    BY <1>2 DEF head, last, tail
  <1> HIDE DEF both, c
  <1>8. c \in Seq(Byte) /\ Len(c) = Len(both)
    <2>1. 0 \in Nat
      OBVIOUS
    <2>2. Xor(both, Iv, 0) \in Seq(Byte) /\ Len(Xor(both, Iv, 0)) = Len(both)
      BY <1>6, <2>1, XorFacts
    <2>3. QED
      BY <1>7, <2>2
  <1>9. Xor(c, Iv, 0) = both
    BY <1>6, <1>7, XorTwice
  <1>10. ASSUME NEW i \in r + 1 .. BlockBytes
         PROVE  Xor(c, Iv, 0)[a + i] = Plain(PadByte(i, r, padding))
    <2>1. i \in 1 .. BlockBytes /\ ~(i <= r)
      BY <1>1
    <2>2. QED
      BY <1>5, <1>6, <1>9, <2>1
  <1>11. QED
    BY <1>6, <1>8, <1>10 DEF a, c, r

\* The end of a decrypted encryption: what Remove says of the last block.  The text ends
\* at n bytes, the last block begins at c.
LastIs(x, c, n, padding) ==
  LET strip == Remove(Values(Slice(x, c, Len(x))), padding) IN
  /\ strip.status = "OK" /\ strip.len \in Nat /\ c + strip.len <= n
  /\ padding # "ZERO" => c + strip.len = n
  /\ padding = "ZERO" => \A i \in c + strip.len + 1 .. n : x[i] = Plain(0)

LEMMA LastIsPadded ==
  ASSUME NEW x \in Seq(Byte), NEW c \in Nat, Len(x) = c + BlockBytes,
         NEW r \in 0 .. BlockBytes - 1, NEW padding \in Paddings \ {"NONE"},
         \A i \in r + 1 .. BlockBytes : x[c + i] = Plain(PadByte(i, r, padding))
  PROVE  LastIs(x, c, c + r, padding)
  <1> DEFINE u == Values(Slice(x, c, Len(x)))
             strip == Remove(u, padding)
  <1>1. /\ BlockBytes \in Nat /\ BlockBytes > 0 /\ r \in Nat /\ r < BlockBytes
    BY BlockAssumption
  <1>2. u \in Seq(Int) /\ Len(u) = BlockBytes /\ \A i \in 1 .. BlockBytes : u[i] = Value(x[c + i])
    BY LastBytes
  <1> HIDE DEF u
  <1>3. ASSUME NEW i \in r + 1 .. BlockBytes PROVE u[i] = PadByte(i, r, padding)
    <2>1. i \in 1 .. BlockBytes
      BY <1>1
    <2>2. u[i] = Value(Plain(PadByte(i, r, padding)))
      BY <1>2, <2>1
    <2>3. QED
      BY <2>2 DEF Value, Plain
  <1>4. /\ strip.status = "OK"
        /\ padding # "ZERO" => strip.len = r
        /\ padding = "ZERO" =>
              strip.len \in 0 .. r /\ \A i \in strip.len + 1 .. BlockBytes : u[i] = 0
    BY <1>2, <1>3, RemoveOfApplied
  <1> DEFINE l == strip.len
  <1>5. l \in Nat /\ l <= r
    BY <1>1, <1>4
  <1>6. ASSUME padding = "ZERO", NEW i \in c + l + 1 .. c + r PROVE x[i] = Plain(0)
    <2> DEFINE j == i - c
    <2>1. j \in l + 1 .. BlockBytes /\ j \in 1 .. BlockBytes /\ i = c + j /\ i \in 1 .. Len(x)
      BY <1>1, <1>5
    <2>2. u[j] = 0
      BY <1>4, <1>6, <2>1
    <2> HIDE DEF j
    <2>3. Value(x[i]) = 0
      BY <1>2, <2>1, <2>2
    <2>4. x[i] \in Byte
      BY <2>1, ElementOfSeq
    <2>5. QED
      BY <2>3, <2>4, ZeroFacts
  <1>7. QED
    BY <1>1, <1>4, <1>5, <1>6 DEF LastIs, u

LEMMA LastIsWhole ==
  ASSUME NEW x \in Seq(Byte), NEW c \in Nat, Len(x) = c + BlockBytes,
         NEW padding \in {"NONE", "ZERO"}
  PROVE  LastIs(x, c, c + BlockBytes, padding)
  <1> DEFINE u == Values(Slice(x, c, Len(x)))
             strip == Remove(u, padding)
             e == LastNonZero(u)
  <1>1. BlockBytes \in Nat /\ BlockBytes > 0
    BY BlockAssumption
  <1>2. u \in Seq(Int) /\ Len(u) = BlockBytes /\ \A i \in 1 .. BlockBytes : u[i] = Value(x[c + i])
    BY LastBytes
  <1> HIDE DEF u
  <1>3. BlockBytes % BlockBytes = 0
    <2>1. BlockBytes = 1 * BlockBytes + 0 /\ 0 \in 0 .. BlockBytes - 1 /\ 1 \in Int
      BY <1>1
    <2>2. QED
      BY <1>1, <2>1, QuotientUnique
  <1>4. strip = Stripped(IF padding = "NONE" THEN BlockBytes ELSE e)
    BY <1>1, <1>2, <1>3 DEF Remove
  <1>5. e \in 0 .. BlockBytes /\ \A i \in 1 .. BlockBytes : u[i] # 0 => i <= e
    BY <1>2, LastNonZeroFacts
  <1> HIDE DEF e
  <1>6. ASSUME NEW i \in c + e + 1 .. c + BlockBytes PROVE x[i] = Plain(0)
    <2> DEFINE j == i - c
    <2>1. j \in 1 .. BlockBytes /\ ~(j <= e) /\ i = c + j /\ i \in 1 .. Len(x)
      BY <1>1, <1>5
    <2>2. u[j] = 0
      BY <1>5, <2>1
    <2> HIDE DEF j
    <2>3. Value(x[i]) = 0
      BY <1>2, <2>1, <2>2
    <2>4. x[i] \in Byte
      BY <2>1, ElementOfSeq
    <2>5. QED
      BY <2>3, <2>4, ZeroFacts
  <1>7. QED
    BY <1>1, <1>4, <1>5, <1>6 DEF LastIs, Stripped, u

\* The text of n bytes whose encryption body may be.
Origin(body, n) == Take(Xor(body, Iv, 0), n)

LEMMA OriginFacts ==
  ASSUME NEW body \in Seq(Byte), NEW n \in 0 .. Len(body)
  PROVE  /\ Origin(body, n) \in Seq(Byte) /\ Len(Origin(body, n)) = n
         /\ Origin(body, n) = Slice(Xor(body, Iv, 0), 0, n)
  <1> DEFINE x == Xor(body, Iv, 0)
  <1>1. x \in Seq(Byte) /\ Len(x) = Len(body)
    BY XorFacts
  <1> HIDE DEF x
  <1>2. n \in Nat /\ 0 \in Nat /\ 0 <= n /\ n <= Len(x) /\ n - 0 = n
    BY <1>1
  <1>3. Slice(x, 0, n) \in Seq(Byte) /\ Len(Slice(x, 0, n)) = n - 0
    BY <1>1, <1>2, SliceFacts
  <1>4. QED
    BY <1>2, <1>3, TakeSlice DEF Origin, x

LEMMA LastOfEncryption ==
  ASSUME NEW body \in Seq(Byte), NEW n \in 0 .. Len(body), NEW padding \in Paddings,
         Len(body) # 0, SizeStatus(n, padding) = "OK",
         Cipher(Origin(body, n), padding) = body
  PROVE  /\ LastCut(body) \in Nat /\ Len(body) = LastCut(body) + BlockBytes
         /\ Len(body) % BlockBytes = 0
         /\ LastIs(Xor(body, Iv, 0), LastCut(body), n, padding)
  <1> DEFINE x    == Xor(body, Iv, 0)
             text == Origin(body, n)
             at   == n \div BlockBytes
             a    == at * BlockBytes
             r    == n % BlockBytes
  <1>1. /\ at \in Nat /\ r \in 0 .. BlockBytes - 1 /\ n = a + r /\ n \in Nat /\ a \in Nat
        /\ BlockBytes \in Nat /\ BlockBytes > 0
    <2>1. n \in Nat /\ BlockBytes \in Nat /\ BlockBytes > 0
      BY BlockAssumption
    <2>2. at \in Nat /\ r \in 0 .. BlockBytes - 1 /\ n = a + r
      BY <2>1, Division
    <2>3. QED
      BY <2>1, <2>2
  <1>2. text \in Seq(Byte) /\ Len(text) = n /\ x \in Seq(Byte) /\ Len(x) = Len(body)
    BY OriginFacts, XorFacts
  <1>3. CASE Pads(padding, r)
    <2>1. /\ at * BlockBytes <= Len(text) /\ Len(text) - at * BlockBytes < BlockBytes
          /\ Len(text) - at * BlockBytes = r
      BY <1>1, <1>2
    <2> HIDE DEF text, at, r
    <2>2. /\ Len(Cipher(text, padding)) = at * BlockBytes + BlockBytes
          /\ \A i \in Len(text) - at * BlockBytes + 1 .. BlockBytes :
               Xor(Cipher(text, padding), Iv, 0)[at * BlockBytes + i]
                 = Plain(PadByte(i, Len(text) - at * BlockBytes, padding))
      <3>1. Pads(padding, Len(text) - at * BlockBytes)
        BY <1>3, <2>1
      <3>2. /\ text \in Seq(Byte) /\ at \in Nat /\ at * BlockBytes <= Len(text)
            /\ Len(text) - at * BlockBytes < BlockBytes
        BY <1>1, <1>2, <2>1
      <3> HIDE DEF x
      <3>3. QED
        BY <3>1, <3>2, PaddedEnd
    <2>3. Cipher(text, padding) = body
      BY DEF text
    <2>4. /\ Len(body) = a + BlockBytes
          /\ \A i \in r + 1 .. BlockBytes : x[a + i] = Plain(PadByte(i, r, padding))
      BY <2>1, <2>2, <2>3
    <2>5. padding \in Paddings \ {"NONE"}
      BY <1>3 DEF Pads
    <2> HIDE DEF x, a
    <2>6. LastIs(x, a, a + r, padding)
      <3>1. Len(x) = a + BlockBytes
        BY <1>2, <2>4
      <3>2. QED
        BY <1>1, <1>2, <2>4, <2>5, <3>1, LastIsPadded
    <2>7. LastCut(body) = a
      BY <1>1, <2>4 DEF LastCut
    <2>8. (a + BlockBytes) % BlockBytes = 0
      <3>1. at + 1 \in Nat /\ 0 \in 0 .. BlockBytes - 1
        BY <1>1
      <3>2. ((at + 1) * BlockBytes + 0) % BlockBytes = 0
        BY <3>1, WholeBlocks
      <3>3. (at + 1) * BlockBytes = at * BlockBytes + BlockBytes
        BY <1>1, SMTT(30)
      <3>4. at * BlockBytes + BlockBytes \in Nat
        BY <1>1 DEF a
      <3>5. QED
        BY <3>2, <3>3, <3>4 DEF a
    <2>9. QED
      BY <1>1, <2>4, <2>6, <2>7, <2>8 DEF x
  <1>4. CASE ~Pads(padding, r)
    <2>1. padding \in {"NONE", "ZERO"} /\ r = 0
      BY <1>4 DEF Pads, SizeStatus
    <2>2. /\ at * BlockBytes <= Len(text) /\ Len(text) - at * BlockBytes < BlockBytes
          /\ Len(text) - at * BlockBytes = r
      BY <1>1, <1>2
    <2> HIDE DEF text, at, r
    <2>3. Cipher(text, padding) = Xor(text, Iv, 0)
      <3>1. ~Pads(padding, Len(text) - at * BlockBytes)
        BY <1>4, <2>2
      <3>2. /\ text \in Seq(Byte) /\ at \in Nat /\ at * BlockBytes <= Len(text)
            /\ Len(text) - at * BlockBytes < BlockBytes
        BY <1>1, <1>2, <2>2
      <3> HIDE DEF x
      <3>3. QED
        BY <3>1, <3>2, EncryptionOf DEF Cipher
    <2>4. Xor(text, Iv, 0) = body
      BY <2>3 DEF text
    <2>5. Len(Xor(text, Iv, 0)) = Len(text)
      <3>1. 0 \in Nat
        OBVIOUS
      <3>2. QED
        BY <1>2, <3>1, XorFacts
    <2>6. Len(body) = n /\ n = a
      BY <1>1, <1>2, <2>1, <2>4, <2>5
    <2>7. n >= BlockBytes
      <3>1. at # 0
        BY <1>1, <2>6
      <3>2. at = 1 + (at - 1) /\ at - 1 \in Nat
        BY <1>1, <3>1
      <3>3. (1 + (at - 1)) * BlockBytes = BlockBytes + (at - 1) * BlockBytes
        BY <1>1, <3>2, SMTT(30)
      <3>4. (at - 1) * BlockBytes >= 0
        BY <1>1, <3>2, SMTT(30)
      <3>5. QED
        BY <1>1, <2>6, <3>2, <3>3, <3>4
    <2>8. LastCut(body) \in Nat /\ n = LastCut(body) + BlockBytes
      BY <1>1, <2>6, <2>7 DEF LastCut
    <2> DEFINE c == LastCut(body)
    <2> HIDE DEF x, c
    <2>9. LastIs(x, c, c + BlockBytes, padding)
      <3>1. Len(x) = c + BlockBytes /\ c \in Nat
        BY <1>2, <2>6, <2>8 DEF c
      <3>2. QED
        BY <1>2, <2>1, <3>1, LastIsWhole
    <2>10. a % BlockBytes = 0
      <3>1. 0 \in 0 .. BlockBytes - 1
        BY <1>1
      <3>2. (at * BlockBytes + 0) % BlockBytes = 0
        BY <1>1, <3>1, WholeBlocks
      <3>3. QED
        BY <1>1, <3>2
    <2>11. QED
      BY <2>6, <2>8, <2>9, <2>10 DEF c, x
  <1>5. QED
    BY <1>3, <1>4

\* What is written when the last block is what LastIs says.
LEMMA TextComesBack ==
  ASSUME NEW body \in Seq(Byte), NEW n \in 0 .. Len(body), NEW padding \in Paddings,
         NEW c \in Nat, c <= Len(body), LastIs(Xor(body, Iv, 0), c, n, padding)
  PROVE  /\ StripOf(body, c, padding).status = "OK"
         /\ IF padding = "ZERO"
              THEN /\ WrittenOf(body, c, padding)
                        = Take(Origin(body, n), Len(WrittenOf(body, c, padding)))
                   /\ IsZeros(Drop(Origin(body, n), Len(WrittenOf(body, c, padding))))
              ELSE WrittenOf(body, c, padding) = Origin(body, n)
  <1> DEFINE x == Xor(body, Iv, 0)
             k == StripOf(body, c, padding).len
             w == WrittenOf(body, c, padding)
  <1>1. x \in Seq(Byte) /\ Len(x) = Len(body)
    BY XorFacts
  <1>2. LastOf(body, c) = Slice(x, c, Len(x))
    BY <1>1 DEF LastOf
  <1>3. /\ StripOf(body, c, padding).status = "OK" /\ k \in Nat /\ c + k <= n
        /\ padding # "ZERO" => c + k = n
        /\ padding = "ZERO" => \A i \in c + k + 1 .. n : x[i] = Plain(0)
    BY <1>2 DEF LastIs, StripOf
  <1>4. w = Slice(x, 0, c) \o Take(Slice(x, c, Len(x)), k)
    BY <1>2 DEF WrittenOf
  <1>5. Origin(body, n) = Slice(x, 0, n)
    BY OriginFacts
  <1> HIDE DEF x, k, w
  <1>6. w = Slice(x, 0, c + k)
    <2>1. c + k <= Len(x)
      BY <1>1, <1>3
    <2>2. Slice(x, 0, c) \o Take(Slice(x, c, Len(x)), k) = Slice(x, 0, c + k)
      BY <1>1, <1>3, <2>1, CutBack
    <2>3. QED
      BY <1>4, <2>2
  <1>7. CASE padding # "ZERO"
    BY <1>3, <1>5, <1>6, <1>7 DEF w
  <1>8. CASE padding = "ZERO"
    <2> DEFINE e == c + k
    <2>1. e \in Nat /\ n \in Nat /\ e <= n /\ n <= Len(x) /\ \A i \in e + 1 .. n : x[i] = Plain(0)
      BY <1>1, <1>3, <1>8
    <2> HIDE DEF e
    <2>2. /\ Len(Slice(x, 0, e)) = e
          /\ Take(Slice(x, 0, n), e) = Slice(x, 0, e)
          /\ IsZeros(Drop(Slice(x, 0, n), e))
      BY <1>1, <2>1, ZerosAfter
    <2>3. w = Slice(x, 0, e)
      BY <1>6 DEF e
    <2>4. QED
      BY <1>3, <1>5, <1>8, <2>2, <2>3 DEF w
  <1>9. QED
    BY <1>3, <1>7, <1>8

LEMMA RoundTripFollows == Inv /\ Ending /\ KnownPadding => RoundTrip
  <1> SUFFICES ASSUME Inv, Ending, KnownPadding, Done("decrypt"), Body # <<>>,
                      NEW text \in Origins, Encrypts(text),
                      Body = EncryptAlloc(text, used_iv, call.padding).out
               PROVE  /\ status = "OK"
                      /\ IF call.padding = "ZERO"
                           THEN /\ out = Take(text, Len(out))
                                /\ IsZeros(Drop(text, Len(out)))
                           ELSE out = text
    BY DEF RoundTrip, RoundTripOf
  <1>1. used_iv = Iv /\ FileInv /\ call.padding \in Paddings /\ created /\ ~fault /\ ~lost
        /\ Ended("decrypt")
    BY DEF Inv, KnownPadding, Done, Ended
  <1>2. Body \in Seq(Byte)
    <2>1. CASE NeedsIv => Len(call.file) >= BlockBytes
      BY <1>1, <2>1, TextFacts
    <2>2. CASE NeedsIv /\ ~(Len(call.file) >= BlockBytes)
      <3>1. call.file \in Seq(Byte) /\ Len(call.file) \in Nat /\ BlockBytes \in Nat
        BY <1>1, BlockAssumption, LenProperties DEF FileInv
      <3>2. Len(call.file) < BlockBytes + 1
        BY <2>2, <3>1
      <3>3. SubSeq(call.file, BlockBytes + 1, Len(call.file)) = <<>>
        BY <3>1, <3>2
      <3>4. Body = <<>>
        BY <2>2, <3>3 DEF Body, NeedsIv, Drop
      <3>5. QED
        BY <3>4
    <2>3. QED
      BY <2>1, <2>2
  <1>3. PICK n \in 0 .. Len(Body) : text = Origin(Body, n)
    BY <1>1 DEF Origins, Origin
  <1>4. Len(Body) # 0
    BY <1>2, EmptySeq
  <1>5. /\ SizeStatus(n, call.padding) = "OK"
        /\ Cipher(Origin(Body, n), call.padding) = Body
    BY <1>1, <1>2, <1>3, OriginFacts DEF Encrypts, Cipher
  <1> DEFINE c == LastCut(Body)
             b == Body
             p == call.padding
  <1>6. /\ c \in Nat /\ Len(b) = c + BlockBytes /\ Len(b) % BlockBytes = 0
        /\ LastIs(Xor(b, Iv, 0), c, n, p)
    BY <1>1, <1>2, <1>4, <1>5, LastOfEncryption
  <1>7. c <= Len(b)
    BY <1>2, <1>6, BlockAssumption
  <1>8. b \in Seq(Byte) /\ n \in 0 .. Len(b) /\ p \in Paddings
    BY <1>1, <1>2
  <1> HIDE DEF b, c, p
  <1>9. /\ StripOf(b, c, p).status = "OK"
        /\ IF p = "ZERO"
             THEN /\ WrittenOf(b, c, p) = Take(Origin(b, n), Len(WrittenOf(b, c, p)))
                  /\ IsZeros(Drop(Origin(b, n), Len(WrittenOf(b, c, p))))
             ELSE WrittenOf(b, c, p) = Origin(b, n)
    BY <1>6, <1>7, <1>8, TextComesBack
  <1>10. DecryptAlloc(b, Iv, p).status = "OK"
    <2>1. DecryptAlloc(b, Iv, p).status = StripOf(b, c, p).status
      BY <1>6, <1>8, DecryptionOf
    <2>2. QED
      BY <1>9, <2>1
  <1>11. status = "OK"
    BY <1>1, <1>10 DEF Inv, DecryptsAsOneShot, b, p
  <1>12. out = WrittenOf(b, c, p)
    BY <1>1, <1>11 DEF Ending, b, c, p
  <1>13. QED
    BY <1>3, <1>9, <1>11, <1>12 DEF b, p

\* Every file that encryption wrote for a text that is not empty, decryption reads back to that
\* text, for every text, padding and two chunk sizes; of zero padding it also removes the
\* zeros the text ends in.
THEOREM RoundTripHolds == Spec => []RoundTrip
  <1>1. QED
    BY EndingHolds, RoundTripFollows, PTL

-----------------------------------------------------------------------------
(* Encryption undoes decryption *)

\* Whatever is decrypted was made by encrypting plain bytes.
PlainBytes(s) == \A i \in 1 .. Len(s) : s[i] = Plain(Value(s[i]))

PlainFile == call.op = "decrypt" => Body = <<>> \/ PlainBytes(Xor(Body, Iv, 0))

LEMMA PlainFileInit == Init => PlainFile
  <1> SUFFICES ASSUME Init, call.op = "decrypt" PROVE Body = <<>> \/ PlainBytes(Xor(Body, Iv, 0))
    BY DEF PlainFile
  <1>1. PICK text \in Texts : call.file \in InputFiles("decrypt", call.prefix_iv, text)
    BY DEF Init
  <1> DEFINE t == PlainText(text)
             x == Xor(t, Iv, 0)
  <1>2. text \in Seq(Int)
    BY TextsAssumption
  <1>3. t \in Seq(Byte) /\ Len(t) = Len(text) /\ \A i \in 1 .. Len(text) : t[i] = Plain(text[i])
    BY <1>2, PlainFacts
  <1> HIDE DEF t
  <1>4. x \in Seq(Byte) /\ Xor(x, Iv, 0) = t
    BY <1>3, XorFacts, XorTwice
  <1>5. PlainBytes(t)
    <2>1. ASSUME NEW i \in 1 .. Len(text) PROVE t[i] = Plain(Value(t[i]))
      <3>1. t[i] = Plain(text[i])
        BY <1>3
      <3>2. Value(Plain(text[i])) = text[i]
        BY DEF Plain, Value
      <3>3. QED
        BY <3>1, <3>2
    <2>2. QED
      BY <1>3, <2>1 DEF PlainBytes
  <1> HIDE DEF x
  <1>6. CASE Body = x
    BY <1>4, <1>5, <1>6
  <1>7. CASE call.file = Take(Iv, BlockBytes - 1) /\ call.prefix_iv
    <2>1. /\ Iv \in Seq(Byte) /\ Len(Iv) = BlockBytes /\ BlockBytes - 1 \in Nat /\ 0 \in Nat
          /\ 0 <= BlockBytes - 1 /\ BlockBytes - 1 <= Len(Iv) /\ BlockBytes \in Nat
      BY IvFacts, BlockAssumption
    <2>2. Slice(Iv, 0, BlockBytes - 1) \in Seq(Byte)
          /\ Len(Slice(Iv, 0, BlockBytes - 1)) = (BlockBytes - 1) - 0
      <3> DEFINE m == BlockBytes - 1
      <3>1. 0 \in Nat /\ m \in Nat /\ 0 <= m /\ m <= Len(Iv)
        BY <2>1
      <3> HIDE DEF m
      <3>2. Slice(Iv, 0, m) \in Seq(Byte) /\ Len(Slice(Iv, 0, m)) = m - 0
        BY <2>1, <3>1, SliceFacts
      <3>3. QED
        BY <3>2 DEF m
    <2>3. call.file \in Seq(Byte) /\ Len(call.file) = BlockBytes - 1
      BY <1>7, <2>1, <2>2, TakeSlice
    <2>4. SubSeq(call.file, BlockBytes + 1, Len(call.file)) = <<>>
      BY <2>1, <2>3
    <2>5. Body = <<>>
      BY <1>7, <2>4 DEF Body, Drop
    <2>6. QED
      BY <2>5
  <1>8. CASE call.file = Iv \o x /\ call.prefix_iv
    <2>1. Iv \in Seq(Byte) /\ Len(Iv) = BlockBytes /\ BlockBytes \in Nat
      BY IvFacts, BlockAssumption
    <2>2. SubSeq(Iv \o x, Len(Iv) + 1, Len(Iv \o x)) = x
      <3>1. /\ Iv \o x \in Seq(Byte) /\ Len(Iv \o x) = Len(Iv) + Len(x)
            /\ \A i \in 1 .. Len(Iv) + Len(x) :
                 (Iv \o x)[i] = IF i <= Len(Iv) THEN Iv[i] ELSE x[i - Len(Iv)]
        BY <1>4, <2>1, ConcatProperties
      <3> DEFINE f == Iv \o x
                 b == BlockBytes
                 l == Len(x)
      <3>2. /\ f \in Seq(Byte) /\ l \in Nat /\ b \in Nat /\ Len(f) = b + l /\ b <= Len(f)
            /\ Len(f) \in Nat /\ Len(f) <= Len(f)
            /\ \A i \in 1 .. b + l : f[i] = IF i <= b THEN Iv[i] ELSE x[i - b]
        BY <1>4, <2>1, <3>1, LenProperties
      <3> HIDE DEF f, b, l
      <3>3. /\ Slice(f, b, Len(f)) \in Seq(Byte) /\ Len(Slice(f, b, Len(f))) = Len(f) - b
            /\ \A i \in 1 .. Len(f) - b : Slice(f, b, Len(f))[i] = f[b + i]
        BY <3>2, SliceFacts
      <3>4. Len(Slice(f, b, Len(f))) = Len(x)
        BY <3>2, <3>3 DEF l
      <3>5. ASSUME NEW i \in 1 .. Len(x) PROVE Slice(f, b, Len(f))[i] = x[i]
        <4>1. i \in 1 .. Len(f) - b /\ b + i \in 1 .. b + l /\ ~(b + i <= b) /\ (b + i) - b = i
          BY <3>2 DEF l
        <4>2. QED
          BY <3>2, <3>3, <4>1
      <3>6. Slice(f, b, Len(f)) = x
        BY <1>4, <3>3, <3>4, <3>5, SeqEqual
      <3>7. QED
        BY <2>1, <3>6 DEF Slice, f, b
    <2>3. Body = x
      BY <1>8, <2>1, <2>2 DEF Body, Drop
    <2>4. QED
      BY <1>6, <2>3
  <1>9. CASE call.file = x /\ ~call.prefix_iv
    <2>1. Body = x
      BY <1>9 DEF Body
    <2>2. QED
      BY <1>6, <2>1
  <1>10. QED
    BY <1>1, <1>7, <1>8, <1>9 DEF InputFiles, x, t

LEMMA EncryptedAgain ==
  ASSUME NEW body \in Seq(Byte), NEW c \in Nat, Len(body) = c + BlockBytes,
         Len(body) % BlockBytes = 0, PlainBytes(Xor(body, Iv, 0)),
         NEW padding \in Paddings \ {"ZERO"}, StripOf(body, c, padding).status = "OK"
  PROVE  Cipher(WrittenOf(body, c, padding), padding) = body
  <1> DEFINE x  == Xor(body, Iv, 0)
             t  == Len(body)
             u  == Values(Slice(x, c, Len(x)))
             l  == Remove(u, padding).len
             w  == WrittenOf(body, c, padding)
             at == t \div BlockBytes - 1
  <1>1. x \in Seq(Byte) /\ Len(x) = t /\ Xor(x, Iv, 0) = body
    BY XorFacts, XorTwice
  <1>2. /\ BlockBytes \in Nat /\ BlockBytes > 0 /\ t \in Nat
    BY BlockAssumption, LenProperties
  <1>3. at \in Nat /\ c = at * BlockBytes /\ t = (at + 1) * BlockBytes
    <2> DEFINE k == t \div BlockBytes
    <2>1. k \in Nat /\ t = k * BlockBytes + (t % BlockBytes)
      BY <1>2, Division
    <2>2. t % BlockBytes = 0 /\ t = c + BlockBytes
      OBVIOUS
    <2> HIDE DEF k, t
    <2>3. t = k * BlockBytes /\ k # 0
      BY <1>2, <2>1, <2>2
    <2>4. k - 1 \in Nat /\ k = (k - 1) + 1
      BY <2>1, <2>3
    <2>5. ((k - 1) + 1) * BlockBytes = (k - 1) * BlockBytes + BlockBytes
      BY <1>2, <2>4, SMTT(30)
    <2>6. (k - 1) * BlockBytes \in Nat
      BY <1>2, <2>4, SMTT(30)
    <2>7. c = (k - 1) * BlockBytes
      BY <1>2, <2>2, <2>3, <2>4, <2>5, <2>6
    <2>8. QED
      BY <2>3, <2>4, <2>7 DEF k
  <1>4. LastOf(body, c) = Slice(x, c, Len(x)) /\ StripOf(body, c, padding) = Remove(u, padding)
        /\ w = Slice(x, 0, c) \o Take(Slice(x, c, Len(x)), l)
    BY <1>1 DEF LastOf, StripOf, WrittenOf
  <1> HIDE DEF x, at, w
  <1>5. /\ u \in Seq(Int) /\ Len(u) = BlockBytes
        /\ \A i \in 1 .. BlockBytes : u[i] = Value(x[c + i])
    BY <1>1, LastBytes
  <1>6. Remove(u, padding).status = "OK"
    BY <1>4
  <1> HIDE DEF u
  <1>7. l \in 0 .. BlockBytes
    BY <1>5, StripFacts
  <1> HIDE DEF l
  <1>8. /\ l \in Nat /\ c + l <= Len(x) /\ c + l \in Nat /\ 0 \in Nat /\ 0 <= c + l
        /\ (c + l) - 0 = c + l /\ c <= c + l /\ 0 <= c
    BY <1>1, <1>2, <1>7
  <1>9. w = Slice(x, 0, c + l)
    <2>1. Slice(x, 0, c) \o Take(Slice(x, c, Len(x)), l) = Slice(x, 0, c + l)
      BY <1>1, <1>8, CutBack
    <2>2. QED
      BY <1>4, <2>1
  <1>10. w \in Seq(Byte) /\ Len(w) = c + l
    <2> DEFINE e == c + l
    <2>1. e \in Nat /\ 0 \in Nat /\ 0 <= e /\ e <= Len(x) /\ e - 0 = e
      BY <1>8
    <2> HIDE DEF e
    <2>2. Slice(x, 0, e) \in Seq(Byte) /\ Len(Slice(x, 0, e)) = e - 0
      BY <1>1, <2>1, SliceFacts
    <2>3. QED
      BY <1>9, <2>1, <2>2 DEF e
  <1>11. CASE padding = "NONE"
    <2>1. l = BlockBytes
      <3>1. 1 * BlockBytes + 0 = BlockBytes /\ 0 \in 0 .. BlockBytes - 1 /\ 1 \in Int
        BY <1>2
      <3>2. BlockBytes % BlockBytes = 0
        BY <1>2, <3>1, QuotientUnique
      <3>3. QED
        BY <1>2, <1>5, <1>11, <3>2 DEF Remove, Stripped, l
    <2>2. w = x
      <3>1. c + l = Len(x)
        BY <1>1, <2>1
      <3>2. QED
        BY <1>1, <1>9, <3>1, SliceAll
    <2>3. Cipher(x, padding) = Xor(x, Iv, 0)
      <3> DEFINE k == at + 1
      <3>1. /\ k \in Nat /\ k * BlockBytes <= Len(x) /\ Len(x) - k * BlockBytes < BlockBytes
            /\ ~Pads(padding, Len(x) - k * BlockBytes)
        BY <1>1, <1>2, <1>3, <1>11 DEF Pads
      <3> HIDE DEF k
      <3>2. QED
        BY <1>1, <3>1, EncryptionOf DEF Cipher
    <2>4. QED
      BY <1>1, <2>2, <2>3 DEF w
  <1>12. CASE padding # "NONE"
    <2> DEFINE a    == at * BlockBytes
               tail == Slice(w, a, Len(w))
               last == LastBlock(tail, padding)
    <2>1. /\ l \in 0 .. BlockBytes - 1
          /\ \A i \in l + 1 .. BlockBytes : u[i] = PadByte(i, l, padding)
      <3>1. padding \in Paddings \ {"NONE", "ZERO"}
        BY <1>12
      <3>2. QED
        BY <1>5, <1>6, <3>1, RemoveSays DEF l
    <2>2. Cipher(w, padding) = Xor(Slice(w, 0, a) \o last, Iv, 0)
      <3>1. /\ at * BlockBytes <= Len(w) /\ Len(w) - at * BlockBytes < BlockBytes
            /\ Pads(padding, Len(w) - at * BlockBytes)
        BY <1>2, <1>3, <1>8, <1>10, <1>12, <2>1 DEF Pads
      <3>2. QED
        BY <1>3, <1>10, <3>1, CipherJoins
    <2> DEFINE e == c + l
    <2>3. /\ e \in Nat /\ 0 \in Nat /\ 0 <= e /\ e <= Len(x) /\ 0 <= c /\ c <= e - 0 /\ e - 0 = e
          /\ 0 + 0 = 0 /\ 0 + c = c /\ 0 + e = e /\ e <= e - 0 /\ e - c = l /\ c <= e
          /\ Len(w) = e /\ w = Slice(x, 0, e) /\ a = c /\ Len(x) <= Len(x) /\ c <= Len(x)
      BY <1>1, <1>2, <1>3, <1>8, <1>9, <1>10
    <2> HIDE DEF e, a
    <2>4. Slice(w, 0, c) = Slice(x, 0, c)
      <3>1. Slice(Slice(x, 0, e), 0, c) = Slice(x, 0 + 0, 0 + c)
        BY <1>1, <2>3, SliceOfSlice
      <3>2. QED
        BY <2>3, <3>1
    <2>5. tail = Slice(x, c, e)
      <3>1. Slice(Slice(x, 0, e), c, e) = Slice(x, 0 + c, 0 + e)
        BY <1>1, <2>3, SliceOfSlice
      <3>2. QED
        BY <2>3, <3>1
    <2> HIDE DEF tail
    <2>6. tail \in Seq(Byte) /\ Len(tail) = l /\ \A i \in 1 .. l : tail[i] = x[c + i]
      <3>1. x \in Seq(Byte) /\ e \in Nat /\ c <= e /\ e <= Len(x)
        BY <1>1, <2>3
      <3>2. /\ Slice(x, c, e) \in Seq(Byte) /\ Len(Slice(x, c, e)) = e - c
            /\ \A i \in 1 .. e - c : Slice(x, c, e)[i] = x[c + i]
        BY <3>1, SliceFacts
      <3>3. QED
        BY <2>3, <2>5, <3>2
    <2>7. /\ last \in Seq(Byte) /\ Len(last) = BlockBytes
          /\ \A i \in 1 .. BlockBytes :
               last[i] = Plain(IF i <= l THEN Value(tail[i]) ELSE PadByte(i, l, padding))
      <3>1. Len(tail) < BlockBytes
        BY <1>2, <2>1, <2>6
      <3>2. /\ LastBlock(tail, padding) \in Seq(Byte) /\ Len(LastBlock(tail, padding)) = BlockBytes
            /\ \A i \in 1 .. BlockBytes :
                 LastBlock(tail, padding)[i]
                   = Plain(IF i <= Len(tail) THEN Value(tail[i])
                                             ELSE PadByte(i, Len(tail), padding))
        BY <2>6, <3>1, LastBlockFacts
      <3>3. QED
        BY <2>6, <3>2
    <2> HIDE DEF last
    <2>8. last = Slice(x, c, Len(x))
      <3>1. /\ Slice(x, c, Len(x)) \in Seq(Byte) /\ Len(Slice(x, c, Len(x))) = Len(x) - c
            /\ \A i \in 1 .. Len(x) - c : Slice(x, c, Len(x))[i] = x[c + i]
        <4>1. x \in Seq(Byte) /\ Len(x) \in Nat /\ c <= Len(x) /\ Len(x) <= Len(x)
          BY <1>1, <1>2, <2>3
        <4> HIDE DEF t, x
        <4>2. Slice(x, c, Len(x)) \in Seq(Byte) /\ Len(Slice(x, c, Len(x))) = Len(x) - c
          BY <4>1, SliceFacts
        <4>3. \A i \in 1 .. Len(x) - c : Slice(x, c, Len(x))[i] = x[c + i]
          BY <4>1, SliceFacts
        <4>4. QED
          BY <4>2, <4>3
      <3>2. Len(x) - c = BlockBytes
        BY <1>1, <1>2
      <3>3. ASSUME NEW i \in 1 .. BlockBytes PROVE last[i] = Slice(x, c, Len(x))[i]
        <4>1. c + i \in 1 .. Len(x)
          BY <1>1, <1>2
        <4>2. x[c + i] = Plain(Value(x[c + i]))
          BY <1>1, <4>1 DEF PlainBytes, x
        <4>3. last[i] = Plain(u[i])
          <5>1. CASE i <= l
            <6>1. i \in 1 .. l
              BY <1>8, <5>1
            <6>2. QED
              BY <1>5, <2>6, <2>7, <5>1, <6>1
          <5>2. CASE ~(i <= l)
            <6>1. i \in l + 1 .. BlockBytes
              BY <1>2, <1>8, <5>2
            <6>2. QED
              BY <2>1, <2>7, <5>2, <6>1
          <5>3. QED
            BY <5>1, <5>2
        <4>4. Slice(x, c, Len(x))[i] = x[c + i]
          BY <3>1, <3>2
        <4>5. QED
          BY <1>5, <4>2, <4>3, <4>4
      <3>4. QED
        BY <2>7, <3>1, <3>2, <3>3, SeqEqual
    <2>9. Slice(x, 0, c) \o Slice(x, c, Len(x)) = x
      <3> DEFINE n == Len(x)
      <3>1. n \in Nat /\ c <= n /\ n <= Len(x) /\ 0 \in Nat /\ 0 <= c
        BY <1>1, <1>2, <2>3
      <3> HIDE DEF n
      <3>2. Slice(x, 0, c) \o Slice(x, c, n) = Slice(x, 0, n)
        BY <1>1, <3>1, SliceJoin
      <3>3. QED
        BY <1>1, <3>2, SliceAll DEF n
    <2>10. QED
      BY <1>1, <2>2, <2>3, <2>4, <2>8, <2>9 DEF w
  <1>13. QED
    BY <1>11, <1>12

LEMMA NothingIgnoredFollows ==
  Inv /\ Ending /\ KnownPadding /\ PlainFile => NothingIgnored
  <1> SUFFICES ASSUME Inv, Ending, KnownPadding, PlainFile,
                      Done("decrypt"), status = "OK", call.padding # "ZERO"
               PROVE  EncryptAlloc(out, used_iv, call.padding).out = Body
    BY DEF NothingIgnored
  <1> DEFINE b == Body
             c == LastCut(Body)
             p == call.padding
  <1>1. /\ used_iv = Iv /\ b \in Seq(Byte) /\ c \in Nat /\ p \in Paddings
        /\ Len(b) # 0 /\ Len(b) % BlockBytes = 0
        /\ out = WrittenOf(b, c, p) /\ StripOf(b, c, p).status = "OK"
    BY DEF Inv, Ending, Done, Whole
  <1>2. Len(b) = c + BlockBytes
    BY <1>1, BlockAssumption, LenProperties DEF LastCut
  <1>3. PlainBytes(Xor(b, Iv, 0))
    BY <1>1 DEF PlainFile, Done, Ended
  <1>4. p \in Paddings \ {"ZERO"}
    BY <1>1
  <1> HIDE DEF b, c, p
  <1>5. Cipher(WrittenOf(b, c, p), p) = b
    BY <1>1, <1>2, <1>3, <1>4, EncryptedAgain
  <1>6. QED
    BY <1>1, <1>5 DEF Cipher, b, p

\* What decryption accepts is, byte for byte, the encryption of what it returns, for every
\* file made by encrypting plain bytes and every padding but zeros.
THEOREM NothingIsIgnored == Spec => []NothingIgnored
  <1>1. PlainFile /\ [Next]_vars => PlainFile'
    <2>1. [Next]_vars => call' = call
      BY DEF Next, vars, OpenFails, NoIv, Open, Turn, ReadFails, EndOfFile, TurnFails,
             EncryptLast, DecryptLast, LastFails, CloseFails, Returned
    <2>2. call' = call => Body' = Body
      BY DEF Body
    <2>3. QED
      BY <2>1, <2>2 DEF PlainFile
  <1>2. Spec => []PlainFile
    BY <1>1, PlainFileInit, PTL DEF Spec
  <1>3. QED
    BY <1>2, EndingHolds, NothingIgnoredFollows, PTL
=============================================================================
