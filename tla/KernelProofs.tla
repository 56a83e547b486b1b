---------------------------- MODULE KernelProofs ----------------------------
(***************************************************************************)
(* Proofs about the two kernels and the code that launches them, for every *)
(* size of a block, work group and work item and every order of the items. *)
(* CtrStream: the bytes of a stream meet the keystream of the CPU          *)
(* library's one pass, whatever the IV and the division into pieces.       *)
(* GhashChunks: the device's GHASH is the CPU library's, for every message *)
(* and chunk size.                                                         *)
(***************************************************************************)
EXTENDS CtrStream, GhashChunks, BytesProofs

-----------------------------------------------------------------------------
(* The NDRange *)

LEMMA RoundsUp ==
  ASSUME NEW n \in Nat, NEW d \in Nat \ {0}
  PROVE  /\ CeilDiv(n, d) \in Nat /\ CeilDiv(n, d) * d \in Nat /\ CeilDiv(n, d) * d >= n
         /\ n # 0 => CeilDiv(n, d) # 0
         /\ \A b \in Nat : b < n => b \div d \in 0 .. CeilDiv(n, d) - 1
  <1> DEFINE q == CeilDiv(n, d)
  <1>1. n + d - 1 \in Nat /\ d \in Nat
    OBVIOUS
  <1>2. q \in Nat /\ q * d <= n + d - 1 /\ n + d - 1 < q * d + d
    BY <1>1, Quotient DEF CeilDiv
  <1> HIDE DEF q
  <1>3. q * d \in Nat
    BY <1>2
  <1>4. q * d >= n
    BY <1>2, <1>3
  <1>5. n # 0 => q # 0
    <2>1. q = 0 => q * d = 0
      OBVIOUS
    <2>2. QED
      BY <1>4, <2>1
  <1>6. ASSUME NEW b \in Nat, b < n PROVE b \div d \in 0 .. q - 1
    <2> DEFINE p == b \div d
    <2>1. p \in Nat /\ p * d <= b
      BY Quotient
    <2> HIDE DEF p
    <2>2. p >= q => p * d >= q * d
      BY <1>2, <2>1, SMTT(30)
    <2>3. p * d \in Nat
      BY <2>1
    <2>4. p < q
      BY <1>2, <1>3, <1>4, <1>6, <2>1, <2>2, <2>3
    <2>5. p \in 0 .. q - 1
      BY <1>2, <2>1, <2>4
    <2>6. QED
      BY <2>5 DEF p
  <1>7. QED
    BY <1>2, <1>3, <1>4, <1>5, <1>6 DEF q

\* There is an item for all that has to be done.
LEMMA GlobalSizeFacts ==
  ASSUME NEW items \in Nat \ {0}, NEW local \in LocalSizes
  PROVE  GlobalSize(items, local) \in Nat /\ GlobalSize(items, local) >= items
  <1> DEFINE group == Smaller(local, items)
  <1>1. group \in Nat \ {0}
    BY LocalSizesAssumption DEF Smaller
  <1> HIDE DEF group
  <1>2. CeilDiv(items, group) * group \in Nat /\ CeilDiv(items, group) * group >= items
    BY <1>1, RoundsUp
  <1>3. GlobalSize(items, local) = CeilDiv(items, group) * group
    BY DEF GlobalSize, RoundUp, CeilDiv, group
  <1>4. QED
    BY <1>2, <1>3

-----------------------------------------------------------------------------
(* The inductive invariant of CtrStream *)

\* What byte p of the stream meets in the one pass.
Met(p) == {<<CpuCounter(first + p \div BlockBytes), p % BlockBytes>>}

Cell == SUBSET (CounterBlocks \X Nat)

StreamState ==
  [next_block_offset : Nat, keystream : Seq(Cell), keystream_offset : 0 .. BlockBytes]

OutRight == out \in Seq(Cell) /\ \A i \in 1 .. Len(out) : out[i] = Met(i - 1)

\* The keystream block of which the stream still holds the end is the last it asked for.
KeptRight ==
  strm.keystream_offset < BlockBytes =>
    /\ strm.next_block_offset > first /\ Len(strm.keystream) = BlockBytes
    /\ \A j \in 1 .. BlockBytes :
         strm.keystream[j] = {<<CpuCounter(strm.next_block_offset - 1), j - 1>>}

\* Between updates the bytes put out and the kept ones are the blocks asked for.
StreamRight ==
  /\ strm.keystream_offset \in 1 .. BlockBytes /\ strm.next_block_offset >= first
  /\ Len(out) + (BlockBytes - strm.keystream_offset)
       = (strm.next_block_offset - first) * BlockBytes
  /\ KeptRight

\* The work item that stores byte i, and in which of its turns.
ItemOf(i) == (i \div BlockBytes) \div BlocksPerItem
TurnOf(i) == (i \div BlockBytes) % BlocksPerItem

\* Bytes are stored once, by their item in their turn, and no item returns before its end.
JobRight ==
  /\ 0 .. ItemCount(len) - 1 \subseteq DOMAIN item
  /\ \A g \in DOMAIN item :
       item[g].done => \/ item[g].turn = BlocksPerItem
                       \/ (g * BlocksPerItem + item[g].turn) * BlockBytes >= len
  /\ \A i \in 0 .. len - 1 :
       cells[i] = IF item[ItemOf(i)].turn > TurnOf(i)
                    THEN {Stored(i \div BlockBytes, i % BlockBytes)} ELSE {}

Launched == pc \in {"bulk", "tail", "direct"}

Sizes ==
  /\ \E n \in Nat :
       item \in [0 .. n - 1 -> [turn : 0 .. BlocksPerItem, done : BOOLEAN]]
  /\ strm \in StreamState
  /\ Launched => len # 0 /\ strm.keystream_offset = BlockBytes /\ JobRight
  /\ pc = "bulk" => len = FullLen(piece)
  /\ pc = "tail" => len = BlockBytes /\ piece \in 1 .. BlockBytes - 1
  /\ pc = "direct" => out = <<>>

Inv ==
  /\ TypeOK /\ StoresFit /\ OutRight
  /\ pc # "closed" => StreamRight
  /\ Sizes

-----------------------------------------------------------------------------
(* Counters *)

LEMMA CpuCounterFacts ==
  ASSUME TypeOK, NEW n \in Nat PROVE CpuCounter(n) \in CounterBlocks
  <1>1. start \in CounterBlocks
    BY DEF TypeOK
  <1>2. Add128(start, n) \in CounterBlocks
    BY <1>1, Add128Facts
  <1>3. Counted(start, n) = Add32(start, n) /\ Add32(start, n) \in CounterBlocks
    BY <1>1, CountedIsAdd32, Add32Facts
  <1>4. QED
    BY <1>2, <1>3 DEF CpuCounter

\* The kernels add to the counter what the CPU library counts up to.
LEMMA KernelIsCpu ==
  ASSUME TypeOK, NEW b \in Nat
  PROVE  KernelCounter(b) = CpuCounter(strm.next_block_offset + b)
  <1>1. start \in CounterBlocks /\ strm.next_block_offset + b \in Nat
    BY DEF TypeOK
  <1>2. Counted(start, strm.next_block_offset + b) = Add32(start, strm.next_block_offset + b)
    BY <1>1, CountedIsAdd32
  <1>3. QED
    BY <1>2 DEF KernelCounter, CpuCounter

LEMMA MetFacts == ASSUME TypeOK, NEW p \in Nat PROVE Met(p) \in Cell
  <1>1. p \div BlockBytes \in Nat /\ p % BlockBytes \in Nat /\ first \in Nat
    <2>1. p \div BlockBytes \in Nat /\ p % BlockBytes \in 0 .. BlockBytes - 1
      BY Division
    <2>2. QED
      BY <2>1, BlockAssumption DEF TypeOK
  <1>2. first + p \div BlockBytes \in Nat
    BY <1>1
  <1>3. CpuCounter(first + p \div BlockBytes) \in CounterBlocks
    BY <1>2, CpuCounterFacts
  <1>4. QED
    BY <1>1, <1>3 DEF Met, Cell

-----------------------------------------------------------------------------
(* Work items *)

LEMMA ItemCountFacts ==
  ASSUME NEW n \in Nat
  PROVE  /\ ItemCount(n) \in Nat /\ (n # 0 => ItemCount(n) # 0)
         /\ \A i \in 0 .. n - 1 : ItemOf(i) \in 0 .. ItemCount(n) - 1
  <1> DEFINE m == CeilDiv(n, BlockBytes)
  <1>1. BlockBytes \in Nat \ {0} /\ BlocksPerItem \in Nat \ {0}
    BY BlockAssumption, ItemsAssumption
  <1>2. /\ m \in Nat /\ (n # 0 => m # 0)
        /\ \A b \in Nat : b < n => b \div BlockBytes \in 0 .. m - 1
    BY <1>1, RoundsUp
  <1> HIDE DEF m
  <1>3. /\ CeilDiv(m, BlocksPerItem) \in Nat /\ (m # 0 => CeilDiv(m, BlocksPerItem) # 0)
        /\ \A b \in Nat : b < m => b \div BlocksPerItem \in 0 .. CeilDiv(m, BlocksPerItem) - 1
    BY <1>1, <1>2, RoundsUp
  <1>4. ItemCount(n) = CeilDiv(m, BlocksPerItem)
    BY DEF ItemCount, m
  <1>5. ASSUME NEW i \in 0 .. n - 1 PROVE ItemOf(i) \in 0 .. CeilDiv(m, BlocksPerItem) - 1
    <2>1. i \in Nat /\ i < n
      OBVIOUS
    <2>2. i \div BlockBytes \in 0 .. m - 1
      BY <1>2, <2>1
    <2>3. i \div BlockBytes \in Nat /\ i \div BlockBytes < m
      BY <1>2, <2>2
    <2>4. QED
      BY <1>3, <2>3 DEF ItemOf
  <1>6. QED
    BY <1>2, <1>3, <1>4, <1>5

\* A byte's block is its item's turn, and each turn is of one block.
LEMMA PlaceFacts ==
  ASSUME NEW i \in Nat
  PROVE  /\ ItemOf(i) \in Nat /\ TurnOf(i) \in 0 .. BlocksPerItem - 1
         /\ i \div BlockBytes \in Nat
         /\ i \div BlockBytes = ItemOf(i) * BlocksPerItem + TurnOf(i)
  <1> DEFINE b == i \div BlockBytes
  <1>1. b \in Nat /\ BlocksPerItem \in Nat \ {0}
    BY Division, ItemsAssumption
  <1> HIDE DEF b
  <1>2. /\ b \div BlocksPerItem \in Nat /\ b % BlocksPerItem \in 0 .. BlocksPerItem - 1
        /\ b = (b \div BlocksPerItem) * BlocksPerItem + (b % BlocksPerItem)
    BY <1>1, DivMod
  <1>3. QED
    BY <1>1, <1>2 DEF ItemOf, TurnOf, b

\* The bytes of a block.
LEMMA BytesOfBlock ==
  ASSUME NEW i \in Nat, NEW b \in Nat
  PROVE  /\ b * BlockBytes \in Nat
         /\ i \in b * BlockBytes .. b * BlockBytes + BlockBytes - 1 <=> i \div BlockBytes = b
         /\ i \div BlockBytes = b => i - b * BlockBytes = i % BlockBytes
         /\ i < b * BlockBytes => i \div BlockBytes < b
  <1> DEFINE q == i \div BlockBytes
             r == i % BlockBytes
             s == b * BlockBytes
  <1>1. BlockBytes \in Nat \ {0} /\ s \in Nat
    BY BlockAssumption
  <1>2. q \in Nat /\ r \in 0 .. BlockBytes - 1 /\ i = q * BlockBytes + r /\ q * BlockBytes \in Nat
    BY <1>1, DivMod
  <1>3. ASSUME i \in s .. s + BlockBytes - 1 PROVE q = b
    <2> DEFINE j == i - s
    <2>1. j \in 0 .. BlockBytes - 1 /\ i = b * BlockBytes + j /\ b \in Int
      BY <1>1, <1>3
    <2> HIDE DEF j, s
    <2>2. QED
      BY <2>1, QuotientUnique
  <1>4. ASSUME q = b PROVE i \in s .. s + BlockBytes - 1 /\ i - s = r
    <2>1. q * BlockBytes = s
      BY <1>4
    <2> HIDE DEF q, r, s
    <2>2. QED
      BY <1>1, <1>2, <2>1
  <1>5. ASSUME i < s PROVE q < b
    <2> HIDE DEF q, r
    <2>1. q >= b => q * BlockBytes >= b * BlockBytes
      BY <1>1, <1>2, SMTT(30)
    <2> HIDE DEF s
    <2>2. q * BlockBytes <= i
      BY <1>1, <1>2
    <2>3. ~(q >= b)
      <3>1. q >= b => q * BlockBytes >= s
        BY <2>1 DEF s
      <3>2. QED
        BY <1>1, <1>2, <1>5, <2>2, <3>1
    <2>4. QED
      BY <1>2, <2>3
  <1> HIDE DEF q, r
  <1>6. QED
    BY <1>1, <1>3, <1>4, <1>5 DEF q, r

-----------------------------------------------------------------------------
(* Launch *)

LEMMA LaunchFacts ==
  ASSUME NEW bytes \in Nat \ {0}, Launch(bytes)
  PROVE  /\ len' = bytes /\ DOMAIN cells' = 0 .. bytes - 1
         /\ \E n \in Nat :
              item' \in [0 .. n - 1 -> [turn : 0 .. BlocksPerItem, done : BOOLEAN]]
         /\ JobRight'
  <1>1. PICK local \in LocalSizes :
          item' = [g \in 0 .. GlobalSize(ItemCount(bytes), local) - 1 |->
                     [turn |-> 0, done |-> FALSE]]
    BY DEF Launch
  <1> DEFINE items == ItemCount(bytes)
             n     == GlobalSize(items, local)
  <1>2. /\ items \in Nat \ {0}
        /\ \A i \in 0 .. bytes - 1 : ItemOf(i) \in 0 .. items - 1
    BY ItemCountFacts
  <1>4. n \in Nat /\ n >= items
    <2> HIDE DEF items
    <2>1. QED
      BY <1>2, GlobalSizeFacts
  <1>5. item' = [g \in 0 .. n - 1 |-> [turn |-> 0, done |-> FALSE]]
    BY <1>1
  <1>6. len' = bytes /\ cells' = [i \in 0 .. bytes - 1 |-> {}]
    BY DEF Launch
  <1> HIDE DEF items, n
  <1>7. item' \in [0 .. n - 1 -> [turn : 0 .. BlocksPerItem, done : BOOLEAN]]
    <2>1. 0 \in 0 .. BlocksPerItem
      BY ItemsAssumption
    <2>2. QED
      BY <1>5, <2>1
  <1>8. ItemCount(len') = items
    BY <1>6 DEF items
  <1>9. 0 .. items - 1 \subseteq DOMAIN item'
    BY <1>2, <1>4, <1>5
  <1>10. \A g \in DOMAIN item' : ~item'[g].done
    BY <1>5
  <1>11. ASSUME NEW i \in 0 .. bytes - 1 PROVE cells'[i] = {} /\ ~(item'[ItemOf(i)].turn > TurnOf(i))
    <2>1. item'[ItemOf(i)].turn = 0
      BY <1>2, <1>5, <1>9
    <2>2. TurnOf(i) \in Nat
      BY PlaceFacts
    <2>3. QED
      BY <1>6, <2>1, <2>2
  <1>12. JobRight'
    BY <1>6, <1>8, <1>9, <1>10, <1>11 DEF JobRight
  <1>13. QED
    BY <1>4, <1>6, <1>7, <1>12

-----------------------------------------------------------------------------
(* A turn of a work item *)

LEMMA ItemStepJob ==
  ASSUME Inv, NEW g \in DOMAIN item, ItemStep(g)
  PROVE  /\ JobRight' /\ DOMAIN cells' = 0 .. len - 1
         /\ \E n \in Nat :
              item' \in [0 .. n - 1 -> [turn : 0 .. BlocksPerItem, done : BOOLEAN]]
  <1> DEFINE t     == item[g].turn
             block == g * BlocksPerItem + t
             from  == block * BlockBytes
  <1>1. /\ len' = len /\ strm' = strm /\ mode' = mode /\ start' = start
        /\ Launched
    BY DEF ItemStep, Launched
  <1>2. /\ len \in Nat \ {0} /\ JobRight /\ DOMAIN cells = 0 .. len - 1
        /\ BlocksPerItem \in Nat \ {0} /\ BlockBytes \in Nat \ {0}
    BY <1>1, ItemsAssumption, BlockAssumption DEF Inv, Sizes, TypeOK, StoresFit
  <1>3. PICK n \in Nat : item \in [0 .. n - 1 -> [turn : 0 .. BlocksPerItem, done : BOOLEAN]]
    BY DEF Inv, Sizes
  <1>4. g \in 0 .. n - 1 /\ t \in 0 .. BlocksPerItem /\ g \in Nat
    BY <1>3
  <1>5. block \in Nat /\ from \in Nat
    BY <1>2, <1>4
  <1>6. ItemCount(len)' = ItemCount(len)
    BY <1>1 DEF ItemCount
  <1>7. \A b, j : Stored(b, j)' = Stored(b, j)
    BY <1>1 DEF Stored, KernelCounter
  <1>8. CASE /\ t = BlocksPerItem \/ from >= len
             /\ item' = [item EXCEPT ![g].done = TRUE] /\ cells' = cells
    <2>1. item' \in [0 .. n - 1 -> [turn : 0 .. BlocksPerItem, done : BOOLEAN]]
      BY <1>3, <1>8
    <2>2. /\ DOMAIN item' = DOMAIN item /\ \A h \in DOMAIN item : item'[h].turn = item[h].turn
          /\ \A h \in DOMAIN item \ {g} : item'[h].done = item[h].done
      BY <1>3, <1>8
    <2>3. ASSUME NEW h \in DOMAIN item', item'[h].done
          PROVE  \/ item'[h].turn = BlocksPerItem
                 \/ (h * BlocksPerItem + item'[h].turn) * BlockBytes >= len
      BY <1>2, <1>8, <2>2, <2>3 DEF JobRight
    <2>4. ASSUME NEW i \in 0 .. len - 1
          PROVE  cells'[i] = IF item'[ItemOf(i)].turn > TurnOf(i)
                               THEN {Stored(i \div BlockBytes, i % BlockBytes)} ELSE {}
      <3>1. ItemOf(i) \in DOMAIN item
        BY <1>2, ItemCountFacts DEF JobRight
      <3>2. QED
        BY <1>2, <1>8, <2>2, <3>1 DEF JobRight
    <2>5. JobRight'
      BY <1>1, <1>2, <1>6, <1>7, <2>2, <2>3, <2>4 DEF JobRight
    <2>6. QED
      BY <1>2, <1>8, <2>1, <2>5
  <1>9. CASE t < BlocksPerItem /\ from < len /\ item' = [item EXCEPT ![g].turn = @ + 1]
    <2> DEFINE top == StoreLen(from)
               stored == from .. from + top - 1
    <2>1. /\ cells' = [i \in DOMAIN cells \cup stored |->
                         (IF i \in DOMAIN cells THEN cells[i] ELSE {})
                           \cup (IF i \in stored THEN {Stored(block, i - from)} ELSE {})]
          /\ ~item[g].done
      <3>1. t # BlocksPerItem /\ ~(from >= len)
        BY <1>2, <1>4, <1>5, <1>9
      <3>2. QED
        BY <3>1 DEF ItemStep
    <2>2. top = IF BlockBytes <= len - from THEN BlockBytes ELSE len - from
      <3> HIDE DEF from
      <3>1. QED
        BY <1>2, <1>5, MinOfTwo DEF StoreLen
    <2>3. stored \subseteq 0 .. len - 1
      <3> HIDE DEF from, top
      <3>1. QED
        BY <1>2, <1>5, <1>9, <2>2
    <2>4. ASSUME NEW i \in 0 .. len - 1 PROVE i \in stored <=> i \div BlockBytes = block
      <3>1. i \in from .. from + BlockBytes - 1 <=> i \div BlockBytes = block
        BY <1>5, BytesOfBlock
      <3>2. i \in stored <=> i \in from .. from + BlockBytes - 1
        <4> HIDE DEF from, top
        <4>1. QED
          BY <1>2, <1>5, <2>2
      <3>3. QED
        BY <3>1, <3>2
    <2>5. ASSUME NEW i \in 0 .. len - 1, i \div BlockBytes = block
          PROVE  ItemOf(i) = g /\ TurnOf(i) = t
      <3>1. block \div BlocksPerItem = g /\ block % BlocksPerItem = t
        <4>1. t \in 0 .. BlocksPerItem - 1 /\ g \in Int /\ block = g * BlocksPerItem + t
          BY <1>2, <1>4, <1>9
        <4> HIDE DEF block, t
        <4>2. QED
          BY <1>2, <1>5, <4>1, DivisionUnique
      <3>2. QED
        BY <2>5, <3>1 DEF ItemOf, TurnOf
    <2>6. ASSUME NEW i \in 0 .. len - 1, ItemOf(i) = g, TurnOf(i) = t
          PROVE  i \div BlockBytes = block
      BY <2>6, PlaceFacts
    <2>7. /\ item' \in [0 .. n - 1 -> [turn : 0 .. BlocksPerItem, done : BOOLEAN]]
          /\ DOMAIN item' = DOMAIN item /\ item'[g].turn = t + 1 /\ item'[g].done = item[g].done
          /\ \A h \in DOMAIN item \ {g} : item'[h] = item[h]
      <3>1. t + 1 \in 0 .. BlocksPerItem
        BY <1>2, <1>4, <1>9
      <3>2. item' = [item EXCEPT ![g].turn = t + 1]
        BY <1>9
      <3> HIDE DEF t
      <3>3. QED
        BY <1>3, <1>4, <3>1, <3>2
    <2>8. DOMAIN cells' = 0 .. len - 1
      <3> HIDE DEF stored
      <3>1. QED
        BY <1>2, <2>1, <2>3
    <2>9. ASSUME NEW h \in DOMAIN item', item'[h].done
          PROVE  \/ item'[h].turn = BlocksPerItem
                 \/ (h * BlocksPerItem + item'[h].turn) * BlockBytes >= len
      <3>1. h # g
        BY <2>1, <2>7, <2>9
      <3>2. item'[h] = item[h] /\ h \in DOMAIN item
        BY <2>7, <3>1
      <3>3. QED
        BY <1>2, <2>9, <3>2 DEF JobRight
    <2>10. ASSUME NEW i \in 0 .. len - 1
           PROVE  cells'[i] = IF item'[ItemOf(i)].turn > TurnOf(i)
                                THEN {Stored(i \div BlockBytes, i % BlockBytes)} ELSE {}
      <3>1. ItemOf(i) \in DOMAIN item /\ TurnOf(i) \in 0 .. BlocksPerItem - 1
        <4>1. i \in Nat /\ len \in Nat
          BY <1>2
        <4>2. ItemOf(i) \in 0 .. ItemCount(len) - 1
          BY <4>1, ItemCountFacts
        <4>3. TurnOf(i) \in 0 .. BlocksPerItem - 1
          BY <4>1, PlaceFacts
        <4>4. QED
          BY <1>2, <4>2, <4>3 DEF JobRight
      <3>2. cells[i] = IF item[ItemOf(i)].turn > TurnOf(i)
                         THEN {Stored(i \div BlockBytes, i % BlockBytes)} ELSE {}
        BY <1>2 DEF JobRight
      <3>3. cells'[i] = cells[i] \cup (IF i \in stored THEN {Stored(block, i - from)} ELSE {})
        <4> HIDE DEF stored, block, from
        <4>1. QED
          BY <1>2, <2>1
      <3>4. CASE i \div BlockBytes = block
        <4>1. i \in stored /\ ItemOf(i) = g /\ TurnOf(i) = t
          BY <2>4, <2>5, <3>4
        <4>2. i - from = i % BlockBytes
          BY <1>5, <3>4, BytesOfBlock
        <4>3. cells[i] = {}
          BY <1>2, <1>4, <3>2, <4>1
        <4>4. item'[ItemOf(i)].turn > TurnOf(i)
          <5> HIDE DEF t
          <5>1. QED
            BY <1>2, <1>4, <2>7, <4>1, SMTT(30)
        <4> HIDE DEF stored, block, from
        <4>5. cells'[i] = {Stored(block, i - from)}
          BY <3>3, <4>1, <4>3
        <4>6. QED
          BY <3>4, <4>2, <4>4, <4>5
      <3>5. CASE i \div BlockBytes # block
        <4>1. i \notin stored
          BY <2>4, <3>5
        <4>2. cells'[i] = cells[i]
          <5> HIDE DEF stored
          <5>1. QED
            BY <3>3, <4>1
        <4>3. item'[ItemOf(i)].turn > TurnOf(i) <=> item[ItemOf(i)].turn > TurnOf(i)
          <5>1. CASE ItemOf(i) # g
            BY <2>7, <3>1, <5>1
          <5>2. CASE ItemOf(i) = g
            <6>1. TurnOf(i) # t
              BY <2>6, <3>5, <5>2
            <6>2. item'[ItemOf(i)].turn = t + 1 /\ item[ItemOf(i)].turn = t
              BY <2>7, <5>2
            <6> HIDE DEF t
            <6>3. QED
              BY <1>2, <1>4, <3>1, <6>1, <6>2
          <5>3. QED
            BY <5>1, <5>2
        <4>4. QED
          BY <3>2, <4>2, <4>3
      <3>6. QED
        BY <3>4, <3>5
    <2>11. JobRight'
      BY <1>1, <1>2, <1>6, <1>7, <2>7, <2>9, <2>10 DEF JobRight
    <2>12. QED
      BY <2>7, <2>8, <2>11
  <1>10. QED
    BY <1>8, <1>9 DEF ItemStep

-----------------------------------------------------------------------------
(* What comes back *)

LEMMA ReadBackFacts ==
  ASSUME Inv, Launched, AllDone
  PROVE  /\ ReadBack \in Seq(Cell) /\ Len(ReadBack) = len
         /\ \A i \in 1 .. len :
              ReadBack[i] = {<<CpuCounter(strm.next_block_offset + (i - 1) \div BlockBytes),
                               (i - 1) % BlockBytes>>}
  <1>1. /\ TypeOK /\ JobRight /\ len \in Nat \ {0} /\ strm.next_block_offset \in Nat
        /\ BlocksPerItem \in Nat \ {0} /\ BlockBytes \in Nat \ {0}
    BY ItemsAssumption, BlockAssumption DEF Inv, Sizes, TypeOK
  <1>2. PICK n \in Nat : item \in [0 .. n - 1 -> [turn : 0 .. BlocksPerItem, done : BOOLEAN]]
    BY DEF Inv, Sizes
  <1>3. ASSUME NEW i \in 0 .. len - 1
        PROVE  cells[i] = {Stored(i \div BlockBytes, i % BlockBytes)}
    <2> DEFINE g == ItemOf(i)
               t == item[g].turn
    <2>1. i \in Nat /\ i < len
      BY <1>1
    <2>2. /\ g \in Nat /\ TurnOf(i) \in 0 .. BlocksPerItem - 1
          /\ i \div BlockBytes = g * BlocksPerItem + TurnOf(i)
      BY <2>1, PlaceFacts
    <2>3. g \in DOMAIN item
      <3>1. g \in 0 .. ItemCount(len) - 1
        BY <1>1, ItemCountFacts
      <3>2. QED
        BY <1>1, <3>1 DEF JobRight
    <2>4. t \in 0 .. BlocksPerItem
      BY <1>2, <2>3
    <2>5. t = BlocksPerItem \/ (g * BlocksPerItem + t) * BlockBytes >= len
      BY <1>1, <2>3 DEF AllDone, JobRight
    <2> DEFINE block == g * BlocksPerItem + t
    <2>6. g * BlocksPerItem \in Nat /\ block \in Nat
      BY <1>1, <2>2, <2>4
    <2>7. ASSUME block * BlockBytes >= len PROVE i \div BlockBytes < block
      <3> HIDE DEF block
      <3>1. block * BlockBytes \in Nat
        BY <2>1, <2>6, BytesOfBlock
      <3>2. i < block * BlockBytes
        BY <1>1, <2>1, <2>7, <3>1
      <3>3. QED
        BY <2>1, <2>6, <3>2, BytesOfBlock
    <2>8. t > TurnOf(i)
      <3>1. CASE t = BlocksPerItem
        BY <1>1, <2>2, <3>1
      <3>2. CASE block * BlockBytes >= len
        <4>1. g * BlocksPerItem + TurnOf(i) < g * BlocksPerItem + t
          BY <2>2, <2>7, <3>2
        <4> DEFINE s == g * BlocksPerItem
        <4>2. s \in Nat /\ s + TurnOf(i) < s + t
          BY <2>6, <4>1
        <4> HIDE DEF s, t
        <4>3. QED
          BY <1>1, <2>2, <2>4, <4>2
      <3>3. QED
        BY <2>5, <3>1, <3>2
    <2>9. QED
      BY <1>1, <2>8 DEF JobRight
  <1>4. ASSUME NEW i \in 1 .. len
        PROVE  /\ ReadBack[i] = {<<CpuCounter(strm.next_block_offset + (i - 1) \div BlockBytes),
                                   (i - 1) % BlockBytes>>}
               /\ ReadBack[i] \in Cell
    <2> DEFINE p == i - 1
               b == p \div BlockBytes
               c == CpuCounter(strm.next_block_offset + b)
    <2>1. p \in Nat /\ p \in 0 .. len - 1
      BY <1>1
    <2>2. b \in Nat /\ p % BlockBytes \in Nat
      <3>1. b \in Nat /\ p % BlockBytes \in 0 .. BlockBytes - 1
        BY <2>1, Division
      <3>2. QED
        BY <1>1, <3>1
    <2>3. ReadBack[i] = {Stored(b, p % BlockBytes)}
      BY <1>3, <2>1 DEF ReadBack
    <2>4. KernelCounter(b) = c
      <3> HIDE DEF b
      <3>1. QED
        BY <1>1, <2>2, KernelIsCpu
    <2>5. c \in CounterBlocks
      <3>1. strm.next_block_offset + b \in Nat
        BY <1>1, <2>2
      <3>2. QED
        BY <1>1, <3>1, CpuCounterFacts
    <2> HIDE DEF p, b, c
    <2>6. {<<c, p % BlockBytes>>} \in Cell
      BY <2>2, <2>5 DEF Cell
    <2>7. QED
      BY <2>3, <2>4, <2>6 DEF Stored, c, b, p
  <1>5. ReadBack = [i \in 1 .. len |-> ReadBack[i]]
    BY DEF ReadBack
  <1> HIDE DEF Cell
  <1>6. ReadBack \in Seq(Cell) /\ Len(ReadBack) = len
    <2> DEFINE r == ReadBack
    <2>1. r = [i \in 1 .. len |-> r[i]] /\ \A i \in 1 .. len : r[i] \in Cell
      BY <1>4, <1>5
    <2> HIDE DEF r
    <2>2. r \in Seq(Cell) /\ Len(r) = len
      BY <1>1, <2>1
    <2>3. QED
      BY <2>2 DEF r
  <1>7. QED
    BY <1>4, <1>6

\* The keystream of bytes counted from a block of the stream.
LEMMA MetAt ==
  ASSUME TypeOK, NEW k \in Nat, NEW p \in Nat
  PROVE  /\ k * BlockBytes + p \in Nat
         /\ Met(k * BlockBytes + p)
              = {<<CpuCounter((first + k) + p \div BlockBytes), p % BlockBytes>>}
  <1>1. /\ k * BlockBytes + p \in Nat
        /\ (k * BlockBytes + p) \div BlockBytes = k + p \div BlockBytes
        /\ (k * BlockBytes + p) % BlockBytes = p % BlockBytes
    BY ShiftDivision
  <1>2. first \in Nat /\ p \div BlockBytes \in Nat
    <2>1. p \div BlockBytes \in Nat
      BY Division
    <2>2. QED
      BY <2>1 DEF TypeOK
  <1>3. first + (k + p \div BlockBytes) = (first + k) + p \div BlockBytes
    BY <1>2
  <1>4. QED
    BY <1>1, <1>3 DEF Met

LEMMA Extend ==
  ASSUME OutRight, NEW t \in Seq(Cell), out' = out \o t, UNCHANGED <<mode, start, first>>,
         \A i \in 1 .. Len(t) : t[i] = Met(Len(out) + (i - 1))
  PROVE  OutRight' /\ Len(out') = Len(out) + Len(t)
  <1>1. out \in Seq(Cell) /\ Len(out) \in Nat /\ Len(t) \in Nat
    BY LenProperties DEF OutRight
  <1> HIDE DEF Cell
  <1>2. /\ out' \in Seq(Cell) /\ Len(out') = Len(out) + Len(t)
        /\ \A i \in 1 .. Len(out) + Len(t) :
             out'[i] = IF i <= Len(out) THEN out[i] ELSE t[i - Len(out)]
    BY <1>1, ConcatProperties
  <1>3. \A p : Met(p)' = Met(p)
    BY DEF Met, CpuCounter
  <1>4. ASSUME NEW i \in 1 .. Len(out') PROVE out'[i] = Met(i - 1)
    <2>1. CASE i <= Len(out)
      BY <1>1, <1>2, <2>1 DEF OutRight
    <2>2. CASE ~(i <= Len(out))
      <3> DEFINE j == i - Len(out)
      <3>1. j \in 1 .. Len(t) /\ Len(out) + (j - 1) = i - 1
        BY <1>1, <1>2, <2>2
      <3>2. out'[i] = t[j]
        BY <1>1, <1>2, <2>2
      <3> HIDE DEF j
      <3>3. t[j] = Met(Len(out) + (j - 1))
        BY <3>1
      <3>4. QED
        BY <3>1, <3>2, <3>3
    <2>3. QED
      BY <2>1, <2>2
  <1>5. \A i \in 1 .. Len(out') : out'[i] = Met(i - 1)'
    BY <1>3, <1>4
  <1>6. QED
    BY <1>2, <1>5 DEF OutRight

-----------------------------------------------------------------------------
(* The steps *)

LEMMA TurnTypes ==
  ASSUME NEW n \in Nat,
         item' \in [0 .. n - 1 -> [turn : 0 .. BlocksPerItem, done : BOOLEAN]]
  PROVE  \A g \in DOMAIN item' : item'[g].turn \in 0 .. BlocksPerItem
  OBVIOUS

LEMMA SameCounters ==
  ASSUME UNCHANGED <<mode, start, first>>
  PROVE  \A n : CpuCounter(n)' = CpuCounter(n) /\ Met(n)' = Met(n)
  BY DEF CpuCounter, Met

LEMMA ItemStepInv == ASSUME Inv, NEW g \in DOMAIN item, ItemStep(g) PROVE Inv'
  <1>1. /\ mode' = mode /\ start' = start /\ first' = first /\ strm' = strm /\ out' = out
        /\ piece' = piece /\ pc' = pc /\ len' = len
    BY DEF ItemStep
  <1>2. JobRight' /\ DOMAIN cells' = 0 .. len - 1
    BY ItemStepJob
  <1>3. PICK n \in Nat :
          item' \in [0 .. n - 1 -> [turn : 0 .. BlocksPerItem, done : BOOLEAN]]
    BY ItemStepJob
  <1>4. TypeOK'
    BY <1>1, <1>3, TurnTypes DEF Inv, TypeOK
  <1>5. StoresFit'
    BY <1>1, <1>2 DEF StoresFit
  <1>6. OutRight'
    BY <1>1, SameCounters DEF Inv, OutRight
  <1>7. pc' # "closed" => StreamRight'
    BY <1>1, SameCounters DEF Inv, StreamRight, KeptRight
  <1>8. Sizes'
    BY <1>1, <1>2, <1>3 DEF Inv, Sizes, Launched
  <1>9. QED
    BY <1>4, <1>5, <1>6, <1>7, <1>8 DEF Inv

\* No job: the last one's items are left as they are.
LEMMA IdleJob ==
  ASSUME Inv, NoLaunch, pc' \in {"idle", "closed"}, strm' \in StreamState
  PROVE  Sizes' /\ StoresFit' /\ \A g \in DOMAIN item' : item'[g].turn \in 0 .. BlocksPerItem
  <1>1. len' = len /\ item' = item /\ cells' = cells
    BY DEF NoLaunch, jobVars
  <1>2. PICK n \in Nat : item \in [0 .. n - 1 -> [turn : 0 .. BlocksPerItem, done : BOOLEAN]]
    BY DEF Inv, Sizes
  <1>3. QED
    BY <1>1, <1>2 DEF Inv, Sizes, StoresFit, Launched, TypeOK

LEMMA NewJob ==
  ASSUME NEW bytes \in Nat \ {0}, Launch(bytes), pc' \in {"bulk", "tail", "direct"},
         strm' \in StreamState, strm'.keystream_offset = BlockBytes,
         pc' = "bulk" => bytes = FullLen(piece'),
         pc' = "tail" => bytes = BlockBytes /\ piece' \in 1 .. BlockBytes - 1,
         pc' = "direct" => out' = <<>>
  PROVE  /\ Sizes' /\ StoresFit' /\ len' \in Nat
         /\ \A g \in DOMAIN item' : item'[g].turn \in 0 .. BlocksPerItem
  <1>1. len' = bytes /\ DOMAIN cells' = 0 .. bytes - 1 /\ JobRight'
    BY LaunchFacts
  <1>2. PICK n \in Nat :
          item' \in [0 .. n - 1 -> [turn : 0 .. BlocksPerItem, done : BOOLEAN]]
    BY LaunchFacts
  <1>3. StoresFit'
    BY <1>1 DEF StoresFit
  <1>4. Sizes'
    BY <1>1, <1>2 DEF Sizes, Launched
  <1>5. QED
    BY <1>1, <1>2, <1>3, <1>4, TurnTypes

LEMMA RestartInv == ASSUME Inv, Restart PROVE Inv'
  <1>1. /\ mode' \in {"ctr", "gcm"} /\ start' \in Starts /\ first' \in {0, 1}
        /\ strm'.next_block_offset = first' /\ strm'.keystream = <<>>
        /\ strm'.keystream_offset = BlockBytes
        /\ out' = <<>> /\ piece' = 0 /\ pc' = "idle" /\ NoLaunch
        /\ strm' = Fresh(first')
    BY DEF Restart, Fresh
  <1>2. BlockBytes \in Nat \ {0} /\ start' \in CounterBlocks /\ len' \in Nat
    BY <1>1, BlockAssumption, StartsAssumption DEF NoLaunch, jobVars, Inv, TypeOK
  <1>3. Sizes' /\ StoresFit' /\ \A g \in DOMAIN item' : item'[g].turn \in 0 .. BlocksPerItem
    <2>1. first' \in Nat /\ BlockBytes \in 0 .. BlockBytes /\ <<>> \in Seq(Cell)
      BY <1>1, <1>2
    <2>2. strm' \in StreamState
      BY <1>1, <2>1 DEF Fresh, StreamState
    <2>3. QED
      BY <1>1, <2>2, IdleJob
  <1>4. TypeOK'
    BY <1>1, <1>2, <1>3 DEF TypeOK
  <1>5. OutRight'
    BY <1>1 DEF OutRight
  <1>6. StreamRight'
    <2>1. first' \in Nat
      BY <1>1
    <2>2. first' - first' = 0 /\ first' >= first'
      <3>1. \A x \in Nat : x - x = 0 /\ x >= x
        OBVIOUS
      <3>2. QED
        BY <2>1, <3>1, Zenon
    <2>3. 0 * BlockBytes = 0 /\ BlockBytes - BlockBytes = 0 /\ BlockBytes \in 1 .. BlockBytes
          /\ ~(BlockBytes < BlockBytes)
      BY <1>2
    <2>4. Len(out') = 0
      BY <1>1
    <2>5. KeptRight'
      BY <1>1, <2>3 DEF KeptRight
    <2>6. Len(out') + (BlockBytes - strm'.keystream_offset)
            = (strm'.next_block_offset - first') * BlockBytes
      BY <1>1, <2>2, <2>3, <2>4
    <2>7. QED
      BY <1>1, <2>2, <2>3, <2>5, <2>6 DEF StreamRight
  <1>7. QED
    BY <1>3, <1>4, <1>5, <1>6 DEF Inv

LEMMA EngineFailsInv == ASSUME Inv, EngineFails PROVE Inv'
  <1>1. /\ mode' = mode /\ start' = start /\ first' = first /\ strm' = strm /\ out' = out
        /\ piece' = piece /\ pc' = "closed" /\ NoLaunch /\ len' = len
    BY DEF EngineFails, NoLaunch, jobVars
  <1>2. Sizes' /\ StoresFit' /\ \A g \in DOMAIN item' : item'[g].turn \in 0 .. BlocksPerItem
    BY <1>1, IdleJob DEF Inv, Sizes
  <1>3. TypeOK'
    BY <1>1, <1>2 DEF Inv, TypeOK
  <1>4. OutRight'
    BY <1>1, SameCounters DEF Inv, OutRight
  <1>5. QED
    BY <1>1, <1>2, <1>3, <1>4 DEF Inv

\* A whole text at once begins where the stream does.
LEMMA EmptyStream ==
  ASSUME Inv, pc # "closed", out = <<>>
  PROVE  strm.next_block_offset = first /\ strm.keystream_offset = BlockBytes
  <1> DEFINE d  == strm.next_block_offset - first
             ko == strm.keystream_offset
  <1>1. /\ BlockBytes \in Nat \ {0} /\ ko \in 1 .. BlockBytes /\ first \in Nat
        /\ strm.next_block_offset \in Nat /\ strm.next_block_offset >= first
        /\ Len(out) = 0 /\ Len(out) + (BlockBytes - ko) = d * BlockBytes
    BY BlockAssumption DEF Inv, TypeOK, StreamRight
  <1>2. d \in Nat
    BY <1>1
  <1> HIDE DEF d
  <1>3. d # 0 => d * BlockBytes >= BlockBytes
    BY <1>1, <1>2, SMTT(30)
  <1>4. d * BlockBytes \in Nat
    BY <1>1, <1>2
  <1>5. d = 0
    <2> HIDE DEF ko
    <2>1. QED
      BY <1>1, <1>2, <1>3, <1>4
  <1>6. 0 * BlockBytes = 0
    BY <1>1
  <1>7. ko = BlockBytes
    <2> HIDE DEF ko
    <2>1. QED
      BY <1>1, <1>5, <1>6
  <1>8. QED
    BY <1>1, <1>5, <1>7 DEF d

LEMMA DirectInv == ASSUME Inv, NEW n \in Nat \ {0}, Direct(n) PROVE Inv'
  <1>1. /\ mode' = mode /\ start' = start /\ first' = first /\ strm' = strm /\ out' = out
        /\ piece' = piece /\ pc = "idle" /\ pc' = "direct" /\ out = <<>> /\ Launch(n)
    BY DEF Direct
  <1>2. strm.keystream_offset = BlockBytes
    BY <1>1, EmptyStream
  <1>3. /\ Sizes' /\ StoresFit' /\ len' \in Nat
        /\ \A g \in DOMAIN item' : item'[g].turn \in 0 .. BlocksPerItem
    BY <1>1, <1>2, NewJob DEF Inv, Sizes
  <1>4. TypeOK'
    BY <1>1, <1>3 DEF Inv, TypeOK
  <1>5. OutRight'
    BY <1>1, SameCounters DEF Inv, OutRight
  <1>6. StreamRight'
    BY <1>1, SameCounters DEF Inv, StreamRight, KeptRight
  <1>7. QED
    BY <1>3, <1>4, <1>5, <1>6 DEF Inv

LEMMA TypesNext ==
  ASSUME TypeOK, mode' = mode, start' = start, first' = first, strm' \in StreamState,
         strm'.keystream_offset < BlockBytes => Len(strm'.keystream) = BlockBytes,
         piece' \in Nat, len' \in Nat, pc' \in {"idle", "bulk", "tail", "direct", "closed"},
         \A g \in DOMAIN item' : item'[g].turn \in 0 .. BlocksPerItem
  PROVE  TypeOK'
  <1>1. strm'.next_block_offset \in Nat /\ strm'.keystream_offset \in 0 .. BlockBytes
    BY DEF StreamState
  <1>2. QED
    BY <1>1 DEF TypeOK

\* How many blocks the stream has asked for, and where its output stands.
Asked == strm.next_block_offset - first

LEMMA AskedFacts ==
  ASSUME Inv, pc # "closed"
  PROVE  /\ Asked \in Nat /\ Asked * BlockBytes \in Nat
         /\ strm.next_block_offset = first + Asked /\ first \in Nat
         /\ strm.next_block_offset \in Nat
         /\ Len(out) \in Nat /\ out \in Seq(Cell)
         /\ strm.keystream_offset \in 1 .. BlockBytes
         /\ Len(out) + (BlockBytes - strm.keystream_offset) = Asked * BlockBytes
         /\ strm.keystream_offset = BlockBytes => Len(out) = Asked * BlockBytes
         /\ BlockBytes \in Nat \ {0}
  <1>1. /\ first \in Nat /\ strm.next_block_offset \in Nat /\ strm.next_block_offset >= first
        /\ BlockBytes \in Nat \ {0} /\ strm.keystream_offset \in 1 .. BlockBytes
        /\ Len(out) + (BlockBytes - strm.keystream_offset) = Asked * BlockBytes
    BY BlockAssumption DEF Inv, TypeOK, StreamRight, Asked
  <1>2. out \in Seq(Cell) /\ Len(out) \in Nat
    BY LenProperties DEF Inv, OutRight
  <1>3. Asked \in Nat /\ strm.next_block_offset = first + Asked
    BY <1>1 DEF Asked
  <1>4. Asked * BlockBytes \in Nat
    BY <1>1, <1>3
  <1>5. strm.keystream_offset = BlockBytes => Len(out) = Asked * BlockBytes
    BY <1>1, <1>2, <1>4
  <1>6. QED
    BY <1>1, <1>2, <1>3, <1>4, <1>5

\* What a launch gives back is what the next bytes of the stream meet.
LEMMA BackIsMet ==
  ASSUME Inv, Launched, AllDone, NEW i \in 1 .. len
  PROVE  ReadBack[i] = Met(Len(out) + (i - 1))
  <1>1. /\ len \in Nat /\ strm.keystream_offset = BlockBytes /\ pc # "closed" /\ TypeOK
    BY DEF Inv, TypeOK, Sizes, Launched
  <1>2. /\ Asked \in Nat /\ strm.next_block_offset = first + Asked
        /\ Len(out) = Asked * BlockBytes
    BY <1>1, AskedFacts
  <1> DEFINE p == i - 1
  <1>3. p \in Nat
    BY <1>1
  <1>4. ReadBack[i] = {<<CpuCounter(strm.next_block_offset + p \div BlockBytes),
                         p % BlockBytes>>}
    BY ReadBackFacts
  <1> HIDE DEF p
  <1>5. Met(Asked * BlockBytes + p)
          = {<<CpuCounter((first + Asked) + p \div BlockBytes), p % BlockBytes>>}
    BY <1>1, <1>2, <1>3, MetAt
  <1>6. QED
    BY <1>2, <1>4, <1>5 DEF p

\* The rest of the kept keystream block is what the next bytes meet.
LEMMA HeadFacts ==
  ASSUME Inv, pc = "idle", NEW m \in Nat, m <= BlockBytes - strm.keystream_offset
  PROVE  LET h == SubSeq(strm.keystream, strm.keystream_offset + 1,
                         strm.keystream_offset + m) IN
         /\ h \in Seq(Cell) /\ Len(h) = m
         /\ \A i \in 1 .. m : h[i] = Met(Len(out) + (i - 1))
  <1> DEFINE ko == strm.keystream_offset
             ks == strm.keystream
             h  == SubSeq(ks, ko + 1, ko + m)
  <1>1. /\ ks \in Seq(Cell) /\ ko \in 1 .. BlockBytes /\ BlockBytes \in Nat \ {0} /\ TypeOK
        /\ Len(out) \in Nat /\ pc # "closed"
    BY AskedFacts DEF Inv, Sizes, StreamState
  <1>2. CASE m = 0
    <2> HIDE DEF ko, ks, Cell
    <2>1. h = <<>>
      BY <1>1, <1>2
    <2>2. <<>> \in Seq(Cell) /\ Len(<<>>) = 0
      OBVIOUS
    <2>3. ~(\E i \in 1 .. m : TRUE)
      BY <1>2
    <2> HIDE DEF h
    <2>4. h \in Seq(Cell) /\ Len(h) = m /\ \A i \in 1 .. m : h[i] = Met(Len(out) + (i - 1))
      BY <1>2, <2>1, <2>2, <2>3
    <2>5. QED
      BY <2>4 DEF h, ko, ks
  <1>3. CASE m # 0
    <2>1. /\ ko < BlockBytes /\ ko \in Nat /\ ko + m \in Nat /\ ko <= ko + m
          /\ ko + m <= BlockBytes
      <3>1. m <= BlockBytes - ko
        OBVIOUS
      <3> HIDE DEF ko
      <3>2. QED
        BY <1>1, <1>3, <3>1
    <2>2. /\ strm.next_block_offset > first /\ Len(ks) = BlockBytes
          /\ \A j \in 1 .. BlockBytes :
               ks[j] = {<<CpuCounter(strm.next_block_offset - 1), j - 1>>}
      BY <1>1, <2>1 DEF Inv, StreamRight, KeptRight
    <2>3. h = Slice(ks, ko, ko + m)
      BY DEF Slice
    <2>4. Slice(ks, ko, ko + m) \in Seq(Cell) /\ Len(Slice(ks, ko, ko + m)) = m
      <3>1. ko + m <= Len(ks) /\ (ko + m) - ko = m
        BY <2>1, <2>2
      <3> HIDE DEF ko, ks, Cell
      <3>2. Slice(ks, ko, ko + m) \in Seq(Cell)
        BY <1>1, <2>1, <3>1, SliceFacts
      <3>3. Len(Slice(ks, ko, ko + m)) = (ko + m) - ko
        BY <1>1, <2>1, <3>1, SliceFacts
      <3>4. QED
        BY <3>1, <3>2, <3>3
    <2>5. ASSUME NEW i \in 1 .. m PROVE h[i] = Met(Len(out) + (i - 1))
      <3>1. h[i] = ks[ko + i]
        <4>1. ko + m <= Len(ks) /\ i \in 1 .. (ko + m) - ko
          BY <2>1, <2>2
        <4> HIDE DEF ko, ks, h, Cell
        <4>2. /\ ks \in Seq(Cell) /\ ko \in Nat /\ ko + m \in Nat
              /\ ko <= ko + m /\ ko + m <= Len(ks)
          BY <1>1, <2>1, <4>1
        <4> DEFINE e == ko + m
        <4> HIDE DEF e
        <4>3. \A j \in 1 .. e - ko : Slice(ks, ko, e)[j] = ks[ko + j]
          <5>1. ks \in Seq(Cell) /\ ko \in Nat /\ e \in Nat /\ ko <= e /\ e <= Len(ks)
            BY <4>2 DEF e
          <5>2. QED
            BY <5>1, SliceFacts
        <4>4. QED
          BY <2>3, <4>1, <4>3 DEF e
      <3> DEFINE p == (ko + i) - 1
                 k == Asked - 1
      <3>2. p \in 0 .. BlockBytes - 1 /\ p \in Nat /\ ko + i \in 1 .. BlockBytes
        <4> HIDE DEF ko
        <4>1. QED
          BY <1>1, <2>1
      <3>3. k \in Nat /\ first + k = strm.next_block_offset - 1 /\ first \in Nat
        <4>1. /\ Asked \in Nat /\ first \in Nat /\ strm.next_block_offset = first + Asked
              /\ strm.next_block_offset > first
          BY <1>1, <2>2, AskedFacts
        <4> HIDE DEF Asked
        <4>2. QED
          BY <4>1
      <3>4. Len(out) + (i - 1) = k * BlockBytes + p
        <4>1. /\ Asked \in Nat /\ Len(out) + (BlockBytes - ko) = Asked * BlockBytes
          BY <1>1, AskedFacts
        <4>2. Asked * BlockBytes = k * BlockBytes + BlockBytes
          <5>1. Asked = k + 1
            BY <4>1
          <5> HIDE DEF k
          <5>2. (k + 1) * BlockBytes = k * BlockBytes + BlockBytes
            BY <1>1, <3>3, SMTT(30)
          <5>3. QED
            BY <5>1, <5>2
        <4>3. k * BlockBytes \in Nat
          BY <1>1, <3>3
        <4> DEFINE s == k * BlockBytes
        <4> HIDE DEF s, ko
        <4>4. Len(out) + (BlockBytes - ko) = s + BlockBytes /\ s \in Nat
          BY <4>1, <4>2, <4>3 DEF s
        <4>5. Len(out) + (i - 1) = s + ((ko + i) - 1)
          BY <1>1, <4>4
        <4>6. QED
          BY <4>5 DEF s
      <3>5. Met(k * BlockBytes + p)
              = {<<CpuCounter((first + k) + p \div BlockBytes), p % BlockBytes>>}
        <4> HIDE DEF k, p
        <4>1. QED
          BY <1>1, <3>2, <3>3, MetAt
      <3>6. p \div BlockBytes = 0 /\ p % BlockBytes = p
        <4> HIDE DEF p
        <4>1. QED
          BY <1>1, <3>2, SmallRemainder
      <3>7. (first + k) + 0 = strm.next_block_offset - 1
        BY <3>3
      <3>8. ks[ko + i] = {<<CpuCounter(strm.next_block_offset - 1), (ko + i) - 1>>}
        BY <2>2, <3>2
      <3> HIDE DEF k, h, ks, ko
      <3>9. QED
        BY <3>1, <3>4, <3>5, <3>6, <3>7, <3>8 DEF p
    <2> HIDE DEF ko, ks, h
    <2>6. QED
      BY <2>3, <2>4, <2>5 DEF h, ks, ko
  <1>4. QED
    BY <1>2, <1>3

LEMMA UpdateInv == ASSUME Inv, NEW n \in Nat \ {0}, Update(n) PROVE Inv'
  <1> DEFINE ko   == strm.keystream_offset
             left == BlockBytes - ko
             m    == Min({n, left})
             rest == n - m
             h    == SubSeq(strm.keystream, ko + 1, ko + m)
  <1>1. /\ mode' = mode /\ start' = start /\ first' = first /\ pc = "idle"
        /\ out' = out \o h /\ piece' = rest
        /\ strm' = [strm EXCEPT !.keystream_offset = ko + m]
    BY DEF Update
  <1>2. /\ TypeOK /\ OutRight /\ StreamRight /\ pc # "closed" /\ strm \in StreamState
        /\ len \in Nat
    BY <1>1 DEF Inv, Sizes, TypeOK
  <1>3. /\ ko \in 1 .. BlockBytes /\ BlockBytes \in Nat \ {0} /\ Len(out) \in Nat
        /\ Asked \in Nat /\ Asked * BlockBytes \in Nat
        /\ Len(out) + (BlockBytes - ko) = Asked * BlockBytes
    BY <1>2, AskedFacts
  <1>4. /\ m \in Nat /\ m <= left /\ rest \in Nat /\ ko + m \in 1 .. BlockBytes
        /\ rest # 0 => ko + m = BlockBytes
    <2>1. n \in Nat /\ left \in Nat /\ ko \in Nat
      BY <1>3
    <2>2. m = IF n <= left THEN n ELSE left
      <3> HIDE DEF left
      <3>1. QED
        BY <2>1, MinOfTwo
    <2> HIDE DEF m, ko
    <2>3. QED
      BY <1>3, <2>1, <2>2
  <1> HIDE DEF m
  <1>5. /\ h \in Seq(Cell) /\ Len(h) = m
        /\ \A i \in 1 .. m : h[i] = Met(Len(out) + (i - 1))
    BY <1>1, <1>4, HeadFacts
  <1>6. /\ strm'.keystream_offset = ko + m /\ strm'.keystream = strm.keystream
        /\ strm'.next_block_offset = strm.next_block_offset /\ strm' \in StreamState
    <2> DEFINE e == ko + m
    <2>1. e \in 0 .. BlockBytes /\ strm' = [strm EXCEPT !.keystream_offset = e]
      BY <1>1, <1>3, <1>4
    <2> HIDE DEF e, Cell
    <2>2. /\ strm'.keystream_offset = e /\ strm'.keystream = strm.keystream
          /\ strm'.next_block_offset = strm.next_block_offset /\ strm' \in StreamState
      BY <1>2, <2>1 DEF StreamState
    <2>3. QED
      BY <2>2 DEF e
  <1>7. OutRight' /\ Len(out') = Len(out) + m
    <2> HIDE DEF h, Cell
    <2>1. QED
      BY <1>1, <1>2, <1>5, Extend
  <1> HIDE DEF rest, h
  <1>8. StreamRight'
    <2> HIDE DEF ko
    <2>1. Asked' = Asked
      BY <1>1, <1>6 DEF Asked
    <2>2. Len(out') + (BlockBytes - (ko + m)) = Asked * BlockBytes
      <3> DEFINE a == Asked * BlockBytes
      <3> HIDE DEF a
      <3>1. a \in Nat /\ Len(out) + (BlockBytes - ko) = a
        BY <1>3 DEF a
      <3>2. Len(out') + (BlockBytes - (ko + m)) = a
        BY <1>3, <1>4, <1>7, <3>1
      <3>3. QED
        BY <3>2 DEF a
    <2>3. KeptRight'
      <3>1. ko + m < BlockBytes => ko < BlockBytes
        BY <1>3, <1>4
      <3>2. QED
        BY <1>1, <1>2, <1>6, <3>1, SameCounters DEF StreamRight, KeptRight, ko
    <2>4. strm'.next_block_offset >= first'
      BY <1>1, <1>2, <1>6 DEF StreamRight
    <2>5. QED
      BY <1>1, <1>4, <1>6, <2>2, <2>3, <2>4 DEF StreamRight, Asked
  <1>9. /\ TypeOK' /\ Sizes' /\ StoresFit' /\ pc' # "closed"
    <2>1. CASE rest = 0
      <3>1. pc' = "idle" /\ NoLaunch
        BY <2>1 DEF Update, rest, m, left, ko
      <3>2. Sizes' /\ StoresFit' /\ \A g \in DOMAIN item' : item'[g].turn \in 0 .. BlocksPerItem
        BY <1>6, <3>1, IdleJob
      <3>3. len' = len
        BY <3>1 DEF NoLaunch, jobVars
      <3>4. TypeOK'
        <4>1. KeptRight'
          BY <1>8 DEF StreamRight
        <4>2. /\ strm'.keystream_offset < BlockBytes => Len(strm'.keystream) = BlockBytes
              /\ piece' \in Nat /\ len' \in Nat
              /\ pc' \in {"idle", "bulk", "tail", "direct", "closed"}
          BY <1>1, <1>2, <1>4, <3>1, <3>3, <4>1 DEF KeptRight
        <4>3. TypeOK /\ mode' = mode /\ start' = start /\ first' = first /\ strm' \in StreamState
          BY <1>1, <1>2, <1>6
        <4>4. QED
          BY <3>2, <4>2, <4>3, TypesNext
      <3>5. QED
        BY <3>1, <3>2, <3>4
    <2>2. CASE rest # 0
      <3> DEFINE bytes == IF FullLen(rest) > 0 THEN FullLen(rest) ELSE BlockBytes
      <3>1. /\ Launch(bytes) /\ pc' \in {"bulk", "tail"}
            /\ pc' = "bulk" <=> FullLen(rest) > 0
        BY <2>2 DEF Update, rest, m, left, ko
      <3>2. FullLen(rest) \in Nat /\ rest < FullLen(rest) + BlockBytes
        BY <1>4, FullLenFacts
      <3>3. bytes \in Nat \ {0}
        BY <1>3, <3>2
      <3>4. strm'.keystream_offset = BlockBytes /\ piece' = rest
        BY <1>1, <1>4, <1>6, <2>2
      <3>5. pc' = "bulk" => bytes = FullLen(piece')
        BY <3>1, <3>4
      <3>6. pc' = "tail" => bytes = BlockBytes /\ piece' \in 1 .. BlockBytes - 1
        BY <1>3, <1>4, <2>2, <3>1, <3>2, <3>4
      <3> HIDE DEF bytes
      <3>7. /\ Sizes' /\ StoresFit' /\ len' \in Nat
            /\ \A g \in DOMAIN item' : item'[g].turn \in 0 .. BlocksPerItem
        BY <1>6, <3>1, <3>3, <3>4, <3>5, <3>6, NewJob
      <3>8. TypeOK'
        <4>1. /\ ~(strm'.keystream_offset < BlockBytes) /\ piece' \in Nat
              /\ pc' \in {"idle", "bulk", "tail", "direct", "closed"}
          BY <1>3, <1>4, <3>1, <3>4
        <4>2. TypeOK /\ mode' = mode /\ start' = start /\ first' = first /\ strm' \in StreamState
          BY <1>1, <1>2, <1>6
        <4>3. QED
          BY <3>7, <4>1, <4>2, TypesNext
      <3>9. QED
        BY <3>1, <3>7, <3>8
    <2>3. QED
      BY <2>1, <2>2
  <1>10. QED
    BY <1>7, <1>8, <1>9 DEF Inv

LEMMA BulkDoneInv == ASSUME Inv, BulkDone PROVE Inv'
  <1> DEFINE q    == len \div BlockBytes
             next == strm.next_block_offset
             rest == piece - len
  <1>1. /\ mode' = mode /\ start' = start /\ first' = first /\ pc = "bulk" /\ AllDone
        /\ out' = out \o ReadBack /\ piece' = rest
        /\ strm' = [strm EXCEPT !.next_block_offset = next + q]
        /\ IF rest = 0 THEN pc' = "idle" /\ NoLaunch ELSE pc' = "tail" /\ Launch(BlockBytes)
    BY DEF BulkDone
  <1>2. /\ TypeOK /\ OutRight /\ StreamRight /\ pc # "closed" /\ strm \in StreamState /\ Launched
        /\ len \in Nat /\ piece \in Nat /\ len = FullLen(piece) /\ next \in Nat
        /\ strm.keystream_offset = BlockBytes
    BY <1>1 DEF Inv, Sizes, TypeOK, Launched
  <1>3. /\ BlockBytes \in Nat \ {0} /\ Len(out) \in Nat /\ Asked \in Nat
        /\ Len(out) = Asked * BlockBytes /\ next = first + Asked /\ first \in Nat
    BY <1>2, AskedFacts
  <1>4. q \in Nat /\ q * BlockBytes = len /\ rest \in 0 .. BlockBytes - 1
    <2>1. /\ len <= piece /\ piece < len + BlockBytes /\ q \in Nat /\ q * BlockBytes = len
      BY <1>2, FullLenFacts
    <2> HIDE DEF q
    <2>2. QED
      BY <1>2, <1>3, <2>1
  <1> HIDE DEF q, next, rest
  <1>5. /\ strm' \in StreamState /\ strm'.next_block_offset = next + q
        /\ strm'.keystream_offset = BlockBytes
    <2> DEFINE e == next + q
    <2>1. e \in Nat /\ strm' = [strm EXCEPT !.next_block_offset = e]
      BY <1>1, <1>2, <1>4
    <2> HIDE DEF e, Cell
    <2>2. /\ strm' \in StreamState /\ strm'.next_block_offset = e
          /\ strm'.keystream_offset = strm.keystream_offset
      BY <1>2, <2>1 DEF StreamState
    <2>3. QED
      BY <1>2, <2>2 DEF e
  <1>6. OutRight' /\ Len(out') = Len(out) + len
    <2>1. ReadBack \in Seq(Cell) /\ Len(ReadBack) = len
      BY <1>1, <1>2, ReadBackFacts
    <2>2. \A i \in 1 .. len : ReadBack[i] = Met(Len(out) + (i - 1))
      BY <1>1, <1>2, BackIsMet
    <2> DEFINE r == ReadBack
    <2>3. /\ r \in Seq(Cell) /\ Len(r) = len /\ out' = out \o r
          /\ \A i \in 1 .. Len(r) : r[i] = Met(Len(out) + (i - 1))
      BY <1>1, <2>1, <2>2
    <2> HIDE DEF r, Cell
    <2>4. QED
      BY <1>1, <1>2, <2>3, Extend
  <1>7. StreamRight'
    <2>1. strm'.next_block_offset - first' = Asked + q
      BY <1>1, <1>3, <1>4, <1>5
    <2>2. (Asked + q) * BlockBytes = Asked * BlockBytes + q * BlockBytes
      BY <1>3, <1>4, SMTT(30)
    <2>3. BlockBytes \in 1 .. BlockBytes /\ BlockBytes - BlockBytes = 0 /\ ~(BlockBytes < BlockBytes)
      BY <1>3
    <2>4. Len(out') + (BlockBytes - BlockBytes) = (Asked + q) * BlockBytes
      BY <1>2, <1>3, <1>4, <1>6, <2>2, <2>3
    <2>5. strm'.next_block_offset >= first'
      BY <1>1, <1>3, <1>4, <1>5
    <2>6. KeptRight'
      BY <1>5, <2>3 DEF KeptRight
    <2>7. QED
      BY <1>5, <2>1, <2>3, <2>4, <2>5, <2>6 DEF StreamRight
  <1>8. /\ Sizes' /\ StoresFit' /\ len' \in Nat /\ pc' \in {"idle", "tail"}
        /\ \A g \in DOMAIN item' : item'[g].turn \in 0 .. BlocksPerItem
    <2>1. CASE rest = 0
      <3>1. pc' = "idle" /\ NoLaunch
        BY <1>1, <2>1
      <3>2. QED
        BY <1>2, <1>5, <3>1, IdleJob DEF NoLaunch, jobVars
    <2>2. CASE rest # 0
      <3>1. /\ pc' = "tail" /\ Launch(BlockBytes) /\ piece' \in 1 .. BlockBytes - 1
        BY <1>1, <1>3, <1>4, <2>2
      <3>2. QED
        BY <1>3, <1>5, <3>1, NewJob
    <2>3. QED
      BY <2>1, <2>2
  <1>9. TypeOK'
    <2>1. ~(strm'.keystream_offset < BlockBytes) /\ piece' \in Nat
      BY <1>1, <1>3, <1>4, <1>5
    <2>2. pc' \in {"idle", "bulk", "tail", "direct", "closed"}
      BY <1>8
    <2>3. QED
      BY <1>1, <1>2, <1>5, <1>8, <2>1, <2>2, TypesNext
  <1>10. QED
    BY <1>6, <1>7, <1>8, <1>9 DEF Inv

LEMMA TailDoneInv == ASSUME Inv, TailDone PROVE Inv'
  <1> DEFINE next == strm.next_block_offset
             r    == ReadBack
             t    == Take(r, piece)
  <1>1. /\ mode' = mode /\ start' = start /\ first' = first /\ pc = "tail" /\ AllDone
        /\ out' = out \o t /\ piece' = 0 /\ pc' = "idle" /\ NoLaunch
        /\ strm' = [next_block_offset |-> next + 1, keystream |-> r, keystream_offset |-> piece]
    BY DEF TailDone, AfterTail
  <1>2. /\ TypeOK /\ OutRight /\ StreamRight /\ pc # "closed" /\ Launched
        /\ len = BlockBytes /\ piece \in 1 .. BlockBytes - 1 /\ next \in Nat
        /\ strm.keystream_offset = BlockBytes
    BY <1>1 DEF Inv, Sizes, TypeOK, Launched
  <1>3. /\ BlockBytes \in Nat \ {0} /\ Len(out) \in Nat /\ Asked \in Nat
        /\ Len(out) = Asked * BlockBytes /\ next = first + Asked /\ first \in Nat
    BY <1>2, AskedFacts
  <1>4. /\ r \in Seq(Cell) /\ Len(r) = BlockBytes
        /\ \A i \in 1 .. BlockBytes :
             /\ r[i] = {<<CpuCounter(next + (i - 1) \div BlockBytes), (i - 1) % BlockBytes>>}
             /\ r[i] = Met(Len(out) + (i - 1))
    BY <1>1, <1>2, ReadBackFacts, BackIsMet
  <1> HIDE DEF r
  <1>5. \A i \in 1 .. BlockBytes : r[i] = {<<CpuCounter(next), i - 1>>}
    <2> SUFFICES ASSUME NEW i \in 1 .. BlockBytes PROVE r[i] = {<<CpuCounter(next), i - 1>>}
      OBVIOUS
    <2>1. i - 1 \in 0 .. BlockBytes - 1
      BY <1>3
    <2>2. (i - 1) \div BlockBytes = 0 /\ (i - 1) % BlockBytes = i - 1
      BY <1>3, <2>1, SmallRemainder
    <2>3. next + 0 = next
      BY <1>2
    <2>4. QED
      BY <1>4, <2>2, <2>3
  <1>6. /\ t \in Seq(Cell) /\ Len(t) = piece
        /\ \A i \in 1 .. Len(t) : t[i] = Met(Len(out) + (i - 1))
    <2>1. t = Slice(r, 0, piece)
      BY TakeSlice
    <2>2. /\ 0 \in Nat /\ piece \in Nat /\ 0 <= piece /\ piece <= Len(r) /\ piece - 0 = piece
          /\ piece <= BlockBytes
      BY <1>2, <1>3, <1>4
    <2> HIDE DEF t, Cell
    <2>3. t \in Seq(Cell) /\ Len(t) = piece
      BY <1>4, <2>1, <2>2, SliceParts
    <2>4. \A i \in 1 .. piece - 0 : t[i] = r[0 + i]
      <3>1. r \in Seq(Cell)
        BY <1>4
      <3>2. \A i \in 1 .. piece - 0 : Slice(r, 0, piece)[i] = r[0 + i]
        BY <2>2, <3>1, SliceFacts
      <3>3. QED
        BY <2>1, <3>2
    <2>5. ASSUME NEW i \in 1 .. Len(t) PROVE t[i] = Met(Len(out) + (i - 1))
      <3>1. i \in 1 .. piece - 0 /\ 0 + i = i /\ i \in 1 .. BlockBytes
        BY <1>3, <2>2, <2>3
      <3>2. QED
        BY <1>4, <2>4, <3>1
    <2>6. QED
      BY <2>3, <2>5
  <1>7. OutRight' /\ Len(out') = Len(out) + piece
    <2> HIDE DEF t, Cell
    <2>1. QED
      BY <1>1, <1>2, <1>6, Extend
  <1> HIDE DEF next, t
  <1>8. /\ strm'.next_block_offset = next + 1 /\ strm'.keystream = r
        /\ strm'.keystream_offset = piece
    BY <1>1
  <1>9. strm' \in StreamState
    <2>1. next + 1 \in Nat /\ piece \in 0 .. BlockBytes
      BY <1>2, <1>3
    <2> HIDE DEF Cell
    <2>2. QED
      BY <1>1, <1>4, <2>1 DEF StreamState
  <1>10. StreamRight'
    <2>1. strm'.next_block_offset - first' = Asked + 1 /\ strm'.next_block_offset - 1 = next
          /\ strm'.next_block_offset > first' /\ strm'.next_block_offset >= first'
      BY <1>1, <1>2, <1>3, <1>8
    <2>2. (Asked + 1) * BlockBytes = Asked * BlockBytes + BlockBytes
      BY <1>3, SMTT(30)
    <2>3. Len(out') + (BlockBytes - piece) = (Asked + 1) * BlockBytes
      <3> DEFINE a == Asked * BlockBytes
      <3> HIDE DEF a
      <3>1. Len(out) = a /\ (Asked + 1) * BlockBytes = a + BlockBytes
        BY <1>3, <2>2 DEF a
      <3>2. QED
        BY <1>2, <1>3, <1>7, <3>1
    <2>4. KeptRight'
      <3>1. CpuCounter(strm.next_block_offset - 1)' = CpuCounter(next)
        BY <1>1, <1>8, <2>1 DEF CpuCounter
      <3>2. \A j \in 1 .. BlockBytes :
              strm'.keystream[j] = {<<CpuCounter(strm.next_block_offset - 1)', j - 1>>}
        BY <1>5, <1>8, <3>1
      <3>3. QED
        BY <1>4, <1>8, <2>1, <3>2 DEF KeptRight
    <2>5. piece \in 1 .. BlockBytes
      BY <1>2, <1>3
    <2>6. QED
      BY <1>8, <2>1, <2>3, <2>4, <2>5 DEF StreamRight
  <1>11. /\ Sizes' /\ StoresFit' /\ \A g \in DOMAIN item' : item'[g].turn \in 0 .. BlocksPerItem
    BY <1>1, <1>9, IdleJob
  <1>12. TypeOK'
    <2>1. len' \in Nat /\ piece' \in Nat
      BY <1>1, <1>2, <1>3 DEF NoLaunch, jobVars
    <2>2. Len(strm'.keystream) = BlockBytes /\ pc' \in {"idle", "bulk", "tail", "direct", "closed"}
      BY <1>1, <1>4, <1>8
    <2>3. QED
      BY <1>1, <1>2, <1>9, <1>11, <2>1, <2>2, TypesNext
  <1>13. QED
    BY <1>7, <1>10, <1>11, <1>12 DEF Inv

LEMMA DirectDoneInv == ASSUME Inv, DirectDone PROVE Inv'
  <1>1. /\ mode' = mode /\ start' = start /\ first' = first /\ pc = "direct" /\ AllDone
        /\ out' = ReadBack /\ piece' = piece /\ pc' = "closed" /\ NoLaunch /\ strm' = strm
        /\ len' = len
    BY DEF DirectDone, NoLaunch, jobVars
  <1>2. /\ TypeOK /\ OutRight /\ Launched /\ out = <<>> /\ strm \in StreamState /\ pc # "closed"
    BY <1>1 DEF Inv, Sizes, Launched
  <1>3. Sizes' /\ StoresFit' /\ \A g \in DOMAIN item' : item'[g].turn \in 0 .. BlocksPerItem
    BY <1>1, <1>2, IdleJob
  <1>4. TypeOK'
    BY <1>1, <1>2, <1>3 DEF TypeOK
  <1>5. OutRight'
    <2> DEFINE r == ReadBack
    <2>1. r \in Seq(Cell) /\ Len(r) = len
      BY <1>1, <1>2, ReadBackFacts
    <2>2. \A i \in 1 .. len : r[i] = Met(Len(out) + (i - 1))
      BY <1>1, <1>2, BackIsMet
    <2>3. <<>> \o r = r
      <3> HIDE DEF r, Cell
      <3>1. QED
        BY <2>1, ConcatEmptySeq
    <2>4. out' = out \o r
      BY <1>1, <1>2, <2>3
    <2>5. \A i \in 1 .. Len(r) : r[i] = Met(Len(out) + (i - 1))
      BY <2>1, <2>2
    <2> HIDE DEF r, Cell
    <2>6. QED
      BY <1>1, <1>2, <2>1, <2>4, <2>5, Extend
  <1>6. QED
    BY <1>1, <1>3, <1>4, <1>5 DEF Inv

-----------------------------------------------------------------------------
(* The theorems of CtrStream *)

LEMMA InitInv == ASSUME Init PROVE Inv
  <1>1. /\ mode \in {"ctr", "gcm"} /\ start \in Starts /\ first \in {0, 1}
        /\ strm = Fresh(first) /\ out = <<>> /\ piece = 0 /\ pc = "idle" /\ len = 0
        /\ item = [g \in {} |-> [turn |-> 0, done |-> TRUE]] /\ cells = [i \in {} |-> {}]
    BY DEF Init
  <1>2. BlockBytes \in Nat \ {0} /\ start \in CounterBlocks /\ first \in Nat
    BY <1>1, BlockAssumption, StartsAssumption
  <1>3. /\ strm.next_block_offset = first /\ strm.keystream = <<>>
        /\ strm.keystream_offset = BlockBytes
    BY <1>1 DEF Fresh
  <1>4. /\ BlockBytes \in 0 .. BlockBytes /\ BlockBytes \in 1 .. BlockBytes
        /\ ~(BlockBytes < BlockBytes) /\ BlockBytes - BlockBytes = 0 /\ 0 * BlockBytes = 0
    BY <1>2
  <1>5. first - first = 0 /\ first >= first
    BY <1>2
  <1>6. DOMAIN item = {} /\ DOMAIN cells = {}
    BY <1>1
  <1>7. TypeOK
    BY <1>1, <1>2, <1>3, <1>4, <1>6 DEF TypeOK
  <1>8. StoresFit
    BY <1>1, <1>6 DEF StoresFit
  <1>9. OutRight
    BY <1>1 DEF OutRight
  <1>10. StreamRight
    <2>1. Len(out) = 0
      BY <1>1
    <2>2. KeptRight
      BY <1>3, <1>4 DEF KeptRight
    <2>3. QED
      BY <1>3, <1>4, <1>5, <2>1, <2>2 DEF StreamRight
  <1>11. Sizes
    <2>1. item \in [0 .. 0 - 1 -> [turn : 0 .. BlocksPerItem, done : BOOLEAN]]
      BY <1>1
    <2>2. strm \in StreamState
      BY <1>1, <1>2, <1>4 DEF Fresh, StreamState
    <2>3. 0 \in Nat
      OBVIOUS
    <2>4. QED
      BY <1>1, <2>1, <2>2, <2>3 DEF Sizes, Launched
  <1>12. QED
    BY <1>7, <1>8, <1>9, <1>10, <1>11 DEF Inv

LEMMA NextInv == ASSUME Inv, [Next]_vars PROVE Inv'
  <1>1. CASE Restart
    BY <1>1, RestartInv
  <1>2. CASE \E n \in 1 .. MaxLen - Len(out) : Update(n) \/ Direct(n)
    <2>1. PICK n \in 1 .. MaxLen - Len(out) : Update(n) \/ Direct(n)
      BY <1>2
    <2>2. n \in Nat \ {0}
      <3>1. MaxLen \in Nat /\ Len(out) \in Nat
        BY StartsAssumption, LenProperties DEF Inv, OutRight
      <3>2. QED
        BY <3>1
    <2>3. QED
      BY <2>1, <2>2, UpdateInv, DirectInv
  <1>3. CASE \E g \in DOMAIN item : ItemStep(g)
    BY <1>3, ItemStepInv
  <1>4. CASE BulkDone
    BY <1>4, BulkDoneInv
  <1>5. CASE TailDone
    BY <1>5, TailDoneInv
  <1>6. CASE DirectDone
    BY <1>6, DirectDoneInv
  <1>7. CASE EngineFails
    BY <1>7, EngineFailsInv
  <1>8. CASE UNCHANGED vars
    <2>1. /\ mode' = mode /\ start' = start /\ first' = first /\ strm' = strm /\ out' = out
          /\ piece' = piece /\ pc' = pc /\ len' = len /\ item' = item /\ cells' = cells
      BY <1>8 DEF vars, jobVars
    <2>2. TypeOK' /\ StoresFit'
      BY <2>1 DEF Inv, TypeOK, StoresFit
    <2>3. OutRight'
      BY <2>1, SameCounters DEF Inv, OutRight
    <2>4. pc' # "closed" => StreamRight'
      BY <2>1, SameCounters DEF Inv, StreamRight, KeptRight
    <2>5. JobRight => JobRight'
      <3>1. \A b, i : Stored(b, i)' = Stored(b, i)
        BY <2>1 DEF Stored, KernelCounter
      <3>2. QED
        BY <2>1, <3>1 DEF JobRight
    <2>6. Sizes'
      BY <2>1, <2>5 DEF Inv, Sizes, Launched
    <2>7. QED
      BY <2>2, <2>3, <2>4, <2>6 DEF Inv
  <1>9. QED
    BY <1>1, <1>2, <1>3, <1>4, <1>5, <1>6, <1>7, <1>8 DEF Next

LEMMA InvHolds == Spec => []Inv
  <1>1. Init => Inv
    BY InitInv
  <1>2. Inv /\ [Next]_vars => Inv'
    BY NextInv
  <1>3. QED
    BY <1>1, <1>2, PTL DEF Spec

\* The types of a CTR stream over the engine, whatever the sizes of blocks, work items and
\* groups: a stream that has keystream left has a whole block of it.
THEOREM CtrStreamTypes == Spec => []TypeOK
  <1>1. Inv => TypeOK
    BY DEF Inv
  <1>2. QED
    BY <1>1, InvHolds, PTL

\* No work item of the rounded-up launch stores beyond the bytes of the call, in any order of
\* the items' turns.
THEOREM KernelStoresFit == Spec => []StoresFit
  <1>1. Inv => StoresFit
    BY DEF Inv
  <1>2. QED
    BY <1>1, InvHolds, PTL

\* Each byte of the stream meets exactly the keystream byte it meets in the CPU library's one
\* pass: for every IV, division into updates, work group size and order of the work items.
THEOREM CtrStreamIsOneShot == Spec => []StreamIsOneShot
  <1>1. Inv => StreamIsOneShot
    <2> SUFFICES ASSUME Inv, NEW i \in DOMAIN out PROVE out[i] = Met(i - 1)
      BY DEF StreamIsOneShot, Met
    <2>1. i \in 1 .. Len(out)
      BY LenProperties DEF Inv, OutRight
    <2>2. QED
      BY <2>1 DEF Inv, OutRight
  <1>2. QED
    BY <1>1, InvHolds, PTL

-----------------------------------------------------------------------------
(* GHASH by chunks *)

\* The hash of blocks s to e-1 alone: block j is multiplied by H once for itself and
\* once for each block after it.
Horner(s, e) == {<<j, e - j>> : j \in s .. e - 1}

-----------------------------------------------------------------------------
(* Lemmas about the operators *)

\* Absorbing the next block extends a hash by it (the body of every ghash loop).
LEMMA AbsorbHorner ==
  ASSUME NEW s \in Nat, NEW e \in Nat, s <= e
  PROVE  Absorb(Horner(s, e), e) = Horner(s, e + 1)
<1> DEFINE H == Horner(s, e)
<1>1. Term(e) \cap H = {}
  BY DEF Term, Horner
<1>2. Add(H, Term(e)) = H \cup Term(e)
  BY <1>1 DEF Add
<1>3. \A t \in H \cup Term(e) : <<t[1], t[2] + 1>> \in Horner(s, e + 1)
  BY DEF Term, Horner
<1>4. \A j \in s .. e : \E t \in H \cup Term(e) : <<j, e + 1 - j>> = <<t[1], t[2] + 1>>
  <2> SUFFICES ASSUME NEW j \in s .. e
               PROVE  \E t \in H \cup Term(e) : <<j, e + 1 - j>> = <<t[1], t[2] + 1>>
    OBVIOUS
  <2>1. <<j, e - j>> \in H \cup Term(e)
    BY DEF Term, Horner
  <2>2. <<j, e + 1 - j>> = <<<<j, e - j>>[1], <<j, e - j>>[2] + 1>>
    OBVIOUS
  <2> QED BY <2>1, <2>2
<1>5. Horner(s, e + 1) = {<<j, e + 1 - j>> : j \in s .. e}
  BY DEF Horner
<1> HIDE DEF H
<1>6. Times(H \cup Term(e), 1) = Horner(s, e + 1)
  BY <1>3, <1>4, <1>5 DEF Times
<1> QED BY <1>2, <1>6 DEF Absorb, H

\* Shifting the hash of the blocks before a chunk by the length of the chunk and adding
\* the chunk's own hash gives the hash of both (gcm_ghash_reduce's loop).
LEMMA CombineHorner ==
  ASSUME NEW a \in Nat, NEW b \in Nat, a <= b
  PROVE  Add(Times(Horner(0, a), b - a), Horner(a, b)) = Horner(0, b)
<1> DEFINE T == Times(Horner(0, a), b - a)
<1>1. T = {<<j, b - j>> : j \in 0 .. a - 1}
  <2>1. \A t \in Horner(0, a) : <<t[1], t[2] + (b - a)>> \in {<<j, b - j>> : j \in 0 .. a - 1}
    BY DEF Horner
  <2>2. \A j \in 0 .. a - 1 :
          \E t \in Horner(0, a) : <<j, b - j>> = <<t[1], t[2] + (b - a)>>
    <3> SUFFICES ASSUME NEW j \in 0 .. a - 1
                 PROVE  \E t \in Horner(0, a) : <<j, b - j>> = <<t[1], t[2] + (b - a)>>
      OBVIOUS
    <3>1. <<j, a - j>> \in Horner(0, a)
      BY DEF Horner
    <3>2. <<j, b - j>> = <<<<j, a - j>>[1], <<j, a - j>>[2] + (b - a)>>
      OBVIOUS
    <3> QED BY <3>1, <3>2
  <2> QED BY <2>1, <2>2 DEF Times
<1>2. T \cap Horner(a, b) = {}
  BY <1>1 DEF Horner
<1>3. T \cup Horner(a, b) = Horner(0, b)
  BY <1>1 DEF Horner
<1> HIDE DEF T
<1>4. Add(T, Horner(a, b)) = T \cup Horner(a, b)
  BY <1>2 DEF Add
<1> QED BY <1>3, <1>4 DEF T

\* The first multiple that is not smaller: the number of chunks and of work groups.
LEMMA ChunkCountBounds ==
  ASSUME NEW a \in Nat, NEW b \in Nat \ {0}
  PROVE  /\ ChunkCount(a, b) \in Nat
         /\ ChunkCount(a, b) * b >= a
         /\ (ChunkCount(a, b) - 1) * b < a
         /\ a > 0 => ChunkCount(a, b) > 0
<1> DEFINE x == a + b - 1
           q == x \div b
<1>1. x \in Nat
  OBVIOUS
<1>2. q \in Nat /\ q * b <= x /\ x < (q + 1) * b
  BY <1>1, SMTT(30)
<1>3. (q + 1) * b = q * b + b /\ (q - 1) * b = q * b - b
  BY <1>2, SMTT(30)
<1>4. a > 0 => q > 0
  <2> SUFFICES ASSUME a > 0, q = 0 PROVE FALSE
    BY <1>2
  <2> QED BY <1>2, <1>3
<1> QED BY <1>2, <1>3, <1>4 DEF ChunkCount

-----------------------------------------------------------------------------
(* The inductive invariant of GhashChunks *)

\* The sizes that Begin chose fit each other.
SizesInv ==
  phase # "idle" =>
    /\ num_blocks > 0 /\ chunk_count > 0
    /\ (chunk_count - 1) * chunk_blocks < num_blocks
    /\ num_blocks <= chunk_count * chunk_blocks
    /\ global >= chunk_count

\* What crypto_gf128_pow has and what it still has to multiply make up the power.
PowInv ==
  /\ phase = "pow_full" => pow.result + pow.base * pow.exponent = chunk_blocks
  /\ phase = "pow_last" => pow.result + pow.base * pow.exponent = LastLen
  /\ phase \notin {"idle", "pow_full"} => pow_full = chunk_blocks
  /\ phase \notin {"idle", "pow_full", "pow_last"} => pow_last = LastLen

\* The blocks before chunk g.
BlocksBefore(g) == Smaller(num_blocks, g * chunk_blocks)

\* An item holds the hash of what it has taken of its chunk, and stores that of all.
ItemInv(g) ==
  InRange(g) =>
    /\ worker[g].taken <= chunk_blocks
    /\ g * chunk_blocks + worker[g].taken <= num_blocks
    /\ worker[g].y = Horner(g * chunk_blocks, g * chunk_blocks + worker[g].taken)
    /\ worker[g].done => chunk_hashes[g] = Horner(g * chunk_blocks, BlocksBefore(g + 1))

ReduceInv ==
  /\ phase \in {"reduce", "done"} => \A g \in 0 .. global - 1 : worker[g].done
  /\ phase = "reduce" => /\ reduced.i <= chunk_count
                         /\ reduced.y = Horner(0, BlocksBefore(reduced.i))
  /\ phase \notin {"idle", "reduce", "done"} => reduced = [i |-> 0, y |-> Zero]
  /\ phase = "done" => final_hash = Horner(0, num_blocks)

CpuInv ==
  phase # "idle" => /\ cpu.taken <= num_blocks
                    /\ cpu.y = Horner(0, cpu.taken)

HashInv ==
  /\ SizesInv
  /\ PowInv
  /\ HashesFit
  /\ \A g \in 0 .. global - 1 : ItemInv(g)
  /\ ReduceInv
  /\ CpuInv

GhashInv == GhashTypeOK /\ HashInv

-----------------------------------------------------------------------------
(* Arithmetic of the division into chunks *)

LEMMA TimesMonotone ==
  ASSUME NEW a \in Int, NEW b \in Int, NEW k \in Nat, a <= b
  PROVE  a * k <= b * k
<1>1. (b - a) * k >= 0
  BY SMTT(30)
<1>2. (b - a) * k = b * k - a * k
  BY SMTT(30)
<1> QED BY <1>1, <1>2

\* The items with something to do are those of the first chunk_count chunks: the kernel's
\* test for a surplus item, which knows the blocks only, is the right one.
LEMMA RangeIsCount ==
  ASSUME GhashTypeOK, SizesInv, phase # "idle", NEW g \in Nat
  PROVE  /\ InRange(g) <=> g < chunk_count
         /\ g * chunk_blocks \in Nat
         /\ (g + 1) * chunk_blocks = g * chunk_blocks + chunk_blocks
         /\ g < chunk_count => BlocksBefore(g) = g * chunk_blocks
         /\ g + 1 < chunk_count => BlocksBefore(g + 1) = (g + 1) * chunk_blocks
         /\ g + 1 = chunk_count => BlocksBefore(g + 1) = num_blocks
<1>0. /\ num_blocks \in Nat /\ chunk_count \in Nat /\ chunk_blocks \in Nat
      /\ (chunk_count - 1) * chunk_blocks < num_blocks
      /\ num_blocks <= chunk_count * chunk_blocks
  BY DEF GhashTypeOK, SizesInv
<1>1. g * chunk_blocks \in Nat /\ (g + 1) * chunk_blocks \in Nat
      /\ (chunk_count - 1) * chunk_blocks \in Int /\ chunk_count * chunk_blocks \in Int
  BY <1>0, SMTT(30)
<1>2. (g + 1) * chunk_blocks = g * chunk_blocks + chunk_blocks
  BY <1>0, SMTT(30)
<1>3. ASSUME g < chunk_count PROVE g * chunk_blocks < num_blocks
  <2>1. g \in Int /\ chunk_count - 1 \in Int /\ chunk_blocks \in Nat /\ g <= chunk_count - 1
    BY <1>0, <1>3
  <2>2. g * chunk_blocks <= (chunk_count - 1) * chunk_blocks
    BY ONLY <2>1, TimesMonotone
  <2> QED BY <1>0, <1>1, <2>2
<1>4. ASSUME g >= chunk_count PROVE g * chunk_blocks >= num_blocks
  <2>1. g \in Int /\ chunk_count \in Int /\ chunk_blocks \in Nat /\ chunk_count <= g
    BY <1>0, <1>4
  <2>2. chunk_count * chunk_blocks <= g * chunk_blocks
    BY ONLY <2>1, TimesMonotone
  <2> QED BY <1>0, <1>1, <2>2
<1>5. ASSUME g + 1 < chunk_count PROVE (g + 1) * chunk_blocks < num_blocks
  <2>1. g + 1 \in Int /\ chunk_count - 1 \in Int /\ chunk_blocks \in Nat /\ g + 1 <= chunk_count - 1
    BY <1>0, <1>5
  <2>2. (g + 1) * chunk_blocks <= (chunk_count - 1) * chunk_blocks
    BY ONLY <2>1, TimesMonotone
  <2> QED BY <1>0, <1>1, <2>2
<1>6. g + 1 = chunk_count => (g + 1) * chunk_blocks >= num_blocks
  BY <1>0
<1>7. InRange(g) <=> g < chunk_count
  BY <1>0, <1>1, <1>3, <1>4 DEF InRange
<1>8. /\ g < chunk_count => BlocksBefore(g) = g * chunk_blocks
      /\ g + 1 < chunk_count => BlocksBefore(g + 1) = (g + 1) * chunk_blocks
      /\ g + 1 = chunk_count => BlocksBefore(g + 1) = num_blocks
  BY <1>0, <1>1, <1>3, <1>5, <1>6 DEF BlocksBefore, Smaller
<1> QED BY <1>1, <1>2, <1>7, <1>8

LEMMA LastLenBounds ==
  ASSUME GhashTypeOK, SizesInv, phase # "idle"
  PROVE  /\ LastLen \in 1 .. chunk_blocks
         /\ (chunk_count - 1) * chunk_blocks + LastLen = num_blocks
<1> USE DEF GhashTypeOK, SizesInv
<1>1. (chunk_count - 1) * chunk_blocks \in Int
  BY SMTT(30)
<1>2. chunk_count * chunk_blocks = (chunk_count - 1) * chunk_blocks + chunk_blocks
  BY SMTT(30)
<1> QED BY <1>1, <1>2 DEF LastLen

\* One turn of the squaring loop leaves the product alone.
LEMMA PowStepKeeps ==
  ASSUME NEW r \in Nat, NEW b \in Nat, NEW e \in Nat, e > 0
  PROVE  LET b2 == IF e > 1 THEN 2 * b ELSE b
             r2 == IF e % 2 = 1 THEN r + b ELSE r
         IN  r2 + b2 * (e \div 2) = r + b * e
<1> DEFINE h == e \div 2
<1>1. h \in Nat /\ (e = 2 * h \/ e = 2 * h + 1) /\ (e % 2 = 1 <=> e = 2 * h + 1)
  OBVIOUS
<1>2. b * (2 * h) = (2 * b) * h /\ b * (2 * h + 1) = (2 * b) * h + b /\ (2 * b) * h \in Nat
  BY <1>1, SMTT(30)
<1>3. e = 1 => h = 0
  BY <1>1
<1>4. b * 0 = 0 /\ b * 1 = b
  OBVIOUS
<1>5. CASE e = 1
  BY <1>1, <1>3, <1>4, <1>5
<1>6. CASE e > 1
  BY <1>1, <1>2, <1>6
<1> QED BY <1>5, <1>6

LEMMA HornerType ==
  ASSUME NEW s \in Int, NEW e \in Int
  PROVE  Horner(s, e) \in SUBSET (Int \X Int)
BY DEF Horner

LEMMA HornerEmpty == ASSUME NEW s \in Int PROVE Horner(s, s) = Zero
BY DEF Horner, Zero


-----------------------------------------------------------------------------
(* Every step keeps the invariant *)

LEMMA GhashInitInv == GhashInit => GhashInv
BY SizesAssumption DEF GhashInit, GhashInv, GhashTypeOK, HashInv, SizesInv, PowInv, HashesFit, ReduceInv,
   CpuInv, Zero

LEMMA BeginInv == GhashInv /\ Begin => GhashInv'
<1> SUFFICES ASSUME GhashInv, Begin PROVE GhashInv'
  OBVIOUS
<1>1. PICK n \in 1 .. MaxBlocks, k \in ChunkSizes, local \in LocalSizes :
        LET count == ChunkCount(n, k)
            items == GlobalSize(count, local)
        IN
        /\ num_blocks' = n /\ chunk_blocks' = k /\ chunk_count' = count
        /\ global' = items
        /\ worker' = [g \in 0 .. items - 1 |-> [taken |-> 0, y |-> Zero, done |-> FALSE]]
        /\ chunk_hashes' = [i \in 0 .. count - 1 |-> Leftover]
        /\ pow' = [exponent |-> k, base |-> 1, result |-> 0]
  BY DEF Begin
<1> DEFINE count == ChunkCount(n, k)
           items == GlobalSize(count, local)
<1>2. n \in Nat \ {0} /\ k \in Nat \ {0}
  BY BlocksAssumption, SizesAssumption
<1>3. count \in Nat \ {0} /\ count * k >= n /\ (count - 1) * k < n
  BY <1>2, ChunkCountBounds
<1>5. items \in Nat /\ items >= count
  <2> HIDE DEF count
  <2>1. QED
    BY <1>3, GlobalSizeFacts
<1> HIDE DEF count, items
<1>6. /\ num_blocks' = n /\ chunk_blocks' = k /\ chunk_count' = count /\ global' = items
      /\ worker' = [g \in 0 .. items - 1 |-> [taken |-> 0, y |-> Zero, done |-> FALSE]]
      /\ chunk_hashes' = [i \in 0 .. count - 1 |-> Leftover]
      /\ pow' = [exponent |-> k, base |-> 1, result |-> 0]
  BY <1>1 DEF count, items
<1>7. /\ phase' = "pow_full" /\ reduced' = [i |-> 0, y |-> Zero]
      /\ cpu' = [taken |-> 0, y |-> Zero]
      /\ UNCHANGED <<pow_full, pow_last, final_hash>>
  BY DEF Begin
<1>8. GhashTypeOK'
  BY <1>2, <1>3, <1>5, <1>6, <1>7 DEF GhashInv, GhashTypeOK, Zero
<1>9. SizesInv' /\ PowInv' /\ HashesFit' /\ ReduceInv'
  BY <1>2, <1>3, <1>5, <1>6, <1>7 DEF SizesInv, PowInv, HashesFit, ReduceInv
<1>10. CpuInv'
  BY <1>2, <1>6, <1>7, HornerEmpty, 0 \in Int DEF CpuInv
<1>11. ASSUME NEW g \in (0 .. global - 1)' PROVE ItemInv(g)'
  <2>1. worker'[g] = [taken |-> 0, y |-> Zero, done |-> FALSE]
    BY <1>6
  <2>2. g \in Nat /\ g * k \in Int
    BY <1>2, <1>5, <1>6, SMTT(30)
  <2>3. Horner(g * k, g * k + 0) = Zero
    BY <2>2, HornerEmpty, g * k + 0 = g * k
  <2> QED BY <1>2, <1>6, <2>1, <2>2, <2>3 DEF ItemInv, InRange
<1> QED BY <1>8, <1>9, <1>10, <1>11 DEF GhashInv, HashInv

LEMMA PowInvariant ==
  ASSUME GhashInv, PowStep \/ PowFullDone \/ PowLastDone
  PROVE  GhashInv'
<1> USE DEF GhashInv, HashInv
<1>1. UNCHANGED <<hostVars, deviceVars, cpu>> /\ phase # "idle" /\ phase' # "idle"
  BY DEF PowStep, PowFullDone, PowLastDone
<1>2. phase \in {"pow_full", "pow_last"} /\ phase' \notin {"reduce", "done"}
  BY DEF PowStep, PowFullDone, PowLastDone
<1>3. /\ SizesInv' /\ HashesFit' /\ ReduceInv' /\ CpuInv'
      /\ \A g \in 0 .. global - 1 : ItemInv(g)'
  BY <1>1, <1>2 DEF SizesInv, HashesFit, ReduceInv, CpuInv, ItemInv, InRange, BlocksBefore, Smaller,
     hostVars, deviceVars
<1>4. LastLen \in Nat /\ LastLen' = LastLen
  BY <1>1, LastLenBounds DEF GhashTypeOK, LastLen, hostVars
<1>5. CASE PowStep
  <2>1. pow.exponent \in Nat /\ pow.base \in Nat /\ pow.result \in Nat
    BY DEF GhashTypeOK
  <2>2. /\ pow'.result + pow'.base * pow'.exponent = pow.result + pow.base * pow.exponent
        /\ pow' \in [exponent : Nat, base : Nat, result : Nat]
    <3> DEFINE e2 == pow.exponent \div 2
               b2 == IF pow.exponent > 1 THEN 2 * pow.base ELSE pow.base
               r2 == IF pow.exponent % 2 = 1 THEN pow.result + pow.base ELSE pow.result
    <3>1. pow' = [exponent |-> e2, base |-> b2, result |-> r2] /\ pow.exponent > 0
      BY <1>5 DEF PowStep
    <3>2. r2 + b2 * e2 = pow.result + pow.base * pow.exponent
      BY <2>1, <3>1, PowStepKeeps
    <3>3. e2 \in Nat /\ b2 \in Nat /\ r2 \in Nat
      BY <2>1
    <3> HIDE DEF e2, b2, r2
    <3> QED BY <3>1, <3>2, <3>3
  <2>3. UNCHANGED <<phase, pow_full, pow_last>>
    BY <1>5 DEF PowStep
  <2>4. GhashTypeOK'
    BY <1>1, <2>2, <2>3 DEF GhashTypeOK, hostVars, deviceVars
  <2>5. PowInv'
    BY <1>1, <1>4, <2>2, <2>3 DEF PowInv, hostVars
  <2> QED BY <1>1, <1>3, <2>4, <2>5 DEF hostVars
<1>6. CASE PowFullDone
  <2>1. /\ phase = "pow_full" /\ phase' = "pow_last" /\ pow_full' = pow.result
        /\ pow' = [exponent |-> LastLen, base |-> 1, result |-> 0] /\ pow_last' = pow_last
        /\ pow.exponent = 0
    BY <1>6 DEF PowFullDone
  <2>2. pow.base * pow.exponent = 0 /\ pow.base \in Nat /\ pow.result \in Nat
    BY <2>1 DEF GhashTypeOK
  <2>3. pow.result = chunk_blocks
    BY <2>1, <2>2 DEF PowInv
  <2>4. GhashTypeOK'
    BY <1>1, <1>4, <2>1, <2>2 DEF GhashTypeOK, hostVars, deviceVars
  <2>5. PowInv'
    BY <1>1, <1>4, <2>1, <2>3 DEF PowInv, hostVars
  <2> QED BY <1>1, <1>3, <2>4, <2>5 DEF hostVars
<1>7. CASE PowLastDone
  <2>1. /\ phase = "pow_last" /\ phase' = "chunks" /\ pow_last' = pow.result
        /\ UNCHANGED <<pow, pow_full>> /\ pow.exponent = 0
    BY <1>7 DEF PowLastDone
  <2>2. pow.base * pow.exponent = 0 /\ pow.base \in Nat /\ pow.result \in Nat
    BY <2>1 DEF GhashTypeOK
  <2>3. pow.result = LastLen
    BY <2>1, <2>2 DEF PowInv
  <2>4. GhashTypeOK'
    BY <1>1, <2>1, <2>2 DEF GhashTypeOK, hostVars, deviceVars
  <2>5. PowInv'
    BY <1>1, <1>4, <2>1, <2>3 DEF PowInv, hostVars
  <2> QED BY <1>1, <1>3, <2>4, <2>5 DEF hostVars
<1> QED BY <1>5, <1>6, <1>7


LEMMA ChunkStepInv ==
  ASSUME GhashInv, NEW g \in 0 .. global - 1, ChunkStep(g)
  PROVE  GhashInv'
<1> USE DEF GhashInv, HashInv
<1> DEFINE t == worker[g].taken
           s == g * chunk_blocks
<1>1. /\ UNCHANGED <<hostVars, phase, powVars, chunk_hashes, reduced, final_hash, cpu>>
      /\ phase = "chunks" /\ ~worker[g].done /\ InRange(g)
      /\ t < chunk_blocks /\ s + t < num_blocks
      /\ worker' = [worker EXCEPT ![g] = [taken |-> t + 1, y |-> Absorb(worker[g].y, s + t),
                                      done |-> FALSE]]
  BY DEF ChunkStep, HasNext, NextBlock
<1>2. g \in Nat /\ s \in Nat /\ t \in Nat
  <2>1. g \in Nat /\ t \in Nat
    BY DEF GhashTypeOK
  <2> QED BY <1>1, <2>1, RangeIsCount
<1>3. worker[g].y = Horner(s, s + t)
  BY <1>1 DEF ItemInv
<1>4. Absorb(Horner(s, s + t), s + t) = Horner(s, s + (t + 1))
  BY <1>2, AbsorbHorner, s + t \in Nat, s <= s + t, s + t + 1 = s + (t + 1)
<1>5. /\ worker'[g].taken = t + 1 /\ worker'[g].y = Horner(s, s + (t + 1))
      /\ worker'[g].done = worker[g].done
      /\ \A h \in 0 .. global - 1 : h # g => worker'[h] = worker[h]
  BY <1>1, <1>3, <1>4 DEF GhashTypeOK
<1>6. worker' \in [0 .. global - 1 -> [taken : Nat, y : SUBSET (Int \X Int), done : BOOLEAN]]
  <2>1. Absorb(worker[g].y, s + t) \in SUBSET (Int \X Int)
    BY <1>2, <1>3, <1>4, HornerType
  <2>2. worker \in [0 .. global - 1 -> [taken : Nat, y : SUBSET (Int \X Int), done : BOOLEAN]]
    BY DEF GhashTypeOK
  <2>3. t + 1 \in Nat
    BY <1>2
  <2> DEFINE y2 == Absorb(worker[g].y, s + t)
             t2 == t + 1
  <2>4. worker' = [worker EXCEPT ![g] = [taken |-> t2, y |-> y2, done |-> FALSE]]
    BY <1>1
  <2> HIDE DEF y2, t2
  <2>5. y2 \in SUBSET (Int \X Int) /\ t2 \in Nat
    BY <2>1, <2>3 DEF y2, t2
  <2> QED BY <2>2, <2>4, <2>5
<1>7. GhashTypeOK'
  BY <1>1, <1>6 DEF GhashTypeOK, hostVars, powVars
<1>8. SizesInv' /\ PowInv' /\ HashesFit' /\ CpuInv'
  BY <1>1 DEF SizesInv, PowInv, HashesFit, CpuInv, LastLen, hostVars, powVars
<1>9. ReduceInv'
  BY <1>1 DEF ReduceInv
<1>10. ASSUME NEW h \in 0 .. global - 1 PROVE ItemInv(h)'
  <2>1. CASE h # g
    BY <1>1, <1>5, <2>1 DEF ItemInv, InRange, BlocksBefore, Smaller, hostVars
  <2>2. CASE h = g
    <3>1. t + 1 <= chunk_blocks /\ s + (t + 1) <= num_blocks
      <4>1. t \in Nat /\ s \in Nat /\ num_blocks \in Nat /\ chunk_blocks \in Nat
        BY <1>2 DEF GhashTypeOK
      <4>2. t < chunk_blocks /\ s + t < num_blocks
        BY <1>1
      <4> HIDE DEF t, s
      <4> QED BY ONLY <4>1, <4>2
    <3>2. ~worker'[g].done
      BY <1>1, <1>5
    <3>3. chunk_blocks' = chunk_blocks /\ num_blocks' = num_blocks
      BY <1>1 DEF hostVars
    <3>4. worker'[g].taken = t + 1 /\ worker'[g].y = Horner(s, s + (t + 1))
      BY <1>5
    <3> HIDE DEF t
    <3> QED BY <2>2, <3>1, <3>2, <3>3, <3>4 DEF ItemInv
  <2> QED BY <2>1, <2>2
<1> QED BY <1>1, <1>7, <1>8, <1>9, <1>10 DEF hostVars

LEMMA ChunkDoneInv ==
  ASSUME GhashInv, NEW g \in 0 .. global - 1, ChunkDone(g)
  PROVE  GhashInv'
<1> USE DEF GhashInv, HashInv
<1> DEFINE t == worker[g].taken
           s == g * chunk_blocks
<1>1. /\ UNCHANGED <<hostVars, phase, powVars, reduced, final_hash, cpu>>
      /\ phase = "chunks" /\ ~worker[g].done
      /\ worker' = [worker EXCEPT ![g].done = TRUE]
  BY DEF ChunkDone
<1>2. /\ \A h \in 0 .. global - 1 : worker'[h].taken = worker[h].taken /\ worker'[h].y = worker[h].y
      /\ \A h \in 0 .. global - 1 : h # g => worker'[h].done = worker[h].done
      /\ worker' \in [0 .. global - 1 -> [taken : Nat, y : SUBSET (Int \X Int), done : BOOLEAN]]
  BY <1>1 DEF GhashTypeOK
<1>3. GhashTypeOK'
  BY <1>1, <1>2 DEF GhashTypeOK, hostVars, powVars
<1>4. SizesInv' /\ PowInv' /\ CpuInv' /\ ReduceInv'
  BY <1>1 DEF SizesInv, PowInv, CpuInv, ReduceInv, LastLen, hostVars, powVars
<1>5. g \in Nat /\ s \in Nat /\ t \in Nat /\ (InRange(g) <=> g < chunk_count)
  <2>1. g \in Nat /\ t \in Nat
    BY DEF GhashTypeOK
  <2> QED BY <1>1, <2>1, RangeIsCount
<1>6. /\ DOMAIN chunk_hashes' = DOMAIN chunk_hashes
      /\ \A h \in 0 .. chunk_count - 1 : h # g => chunk_hashes'[h] = chunk_hashes[h]
      /\ InRange(g) => ~HasNext(g) /\ chunk_hashes'[g] = worker[g].y
  <2>1. CASE ~InRange(g)
    BY <2>1 DEF ChunkDone
  <2>2. CASE InRange(g)
    <3>1. /\ ~HasNext(g)
          /\ chunk_hashes' = [i \in DOMAIN chunk_hashes \cup {g} |->
                                IF i = g THEN worker[g].y ELSE chunk_hashes[i]]
      BY <2>2 DEF ChunkDone
    <3>2. g \in DOMAIN chunk_hashes /\ DOMAIN chunk_hashes = 0 .. chunk_count - 1
      BY <1>5, <2>2 DEF HashesFit, GhashTypeOK
    <3> QED BY <3>1, <3>2
  <2> QED BY <2>1, <2>2
<1>7. HashesFit'
  BY <1>1, <1>6 DEF HashesFit, hostVars
<1>8. ASSUME NEW h \in 0 .. global - 1 PROVE ItemInv(h)'
  <2>1. h \in Nat /\ (InRange(h) <=> h < chunk_count)
    <3>1. h \in Nat
      BY DEF GhashTypeOK
    <3> QED BY <1>1, <3>1, RangeIsCount
  <2>2. CASE h # g
    <3>1. InRange(h) => chunk_hashes'[h] = chunk_hashes[h]
      BY <1>6, <2>1, <2>2 DEF GhashTypeOK
    <3> QED BY <1>1, <1>2, <2>2, <3>1 DEF ItemInv, InRange, BlocksBefore, Smaller, hostVars
  <2>3. CASE h = g
    <3> SUFFICES ASSUME InRange(g) PROVE ItemInv(g)'
      BY <1>1, <2>3 DEF ItemInv, InRange, hostVars
    <3>1. /\ t <= chunk_blocks /\ s + t <= num_blocks /\ worker[g].y = Horner(s, s + t)
      BY DEF ItemInv
    <3>2. ~(t < chunk_blocks /\ s + t < num_blocks)
      BY <1>6 DEF HasNext, NextBlock
    <3>3. BlocksBefore(g + 1) = s + t
      <4>1. (g + 1) * chunk_blocks = s + chunk_blocks
        BY <1>1, <1>5, RangeIsCount
      <4>2. num_blocks \in Nat /\ chunk_blocks \in Nat
        BY DEF GhashTypeOK
      <4> HIDE DEF s, t
      <4> QED BY <1>5, <3>1, <3>2, <4>1, <4>2 DEF BlocksBefore, Smaller
    <3>4. chunk_hashes'[g] = Horner(s, BlocksBefore(g + 1))
      BY <1>6, <3>1, <3>3
    <3> QED BY <1>1, <1>2, <3>1, <3>4 DEF ItemInv, InRange, BlocksBefore, Smaller, hostVars
  <2> QED BY <2>2, <2>3
<1> QED BY <1>1, <1>3, <1>4, <1>7, <1>8 DEF hostVars

LEMMA ReduceInvariant ==
  ASSUME GhashInv, ReduceStart \/ ReduceStep \/ ReduceDone
  PROVE  GhashInv'
<1> USE DEF GhashInv, HashInv
<1>1. /\ UNCHANGED <<hostVars, powVars, worker, chunk_hashes, cpu>>
      /\ phase \in {"chunks", "reduce"} /\ phase' \in {"reduce", "done"}
  BY DEF ReduceStart, ReduceStep, ReduceDone, deviceVars
<1>2. /\ SizesInv' /\ PowInv' /\ HashesFit' /\ CpuInv'
      /\ \A g \in 0 .. global - 1 : ItemInv(g)'
  BY <1>1 DEF SizesInv, PowInv, HashesFit, CpuInv, LastLen, ItemInv, InRange, BlocksBefore, Smaller,
     hostVars, powVars
<1>3. CASE ReduceStart
  <2>1. /\ \A g \in 0 .. global - 1 : worker[g].done
        /\ phase = "chunks" /\ phase' = "reduce" /\ UNCHANGED <<reduced, final_hash>>
    BY <1>3 DEF ReduceStart, deviceVars
  <2>2. reduced = [i |-> 0, y |-> Zero]
    BY <2>1 DEF ReduceInv
  <2>3. BlocksBefore(0) = 0 /\ Horner(0, 0) = Zero
    <3>1. 0 \in Nat /\ 0 * chunk_blocks = 0 /\ 0 < chunk_count
      BY <2>1 DEF GhashTypeOK, SizesInv
    <3> QED BY <2>1, <3>1, RangeIsCount, HornerEmpty
  <2>4. GhashTypeOK'
    BY <1>1, <2>1 DEF GhashTypeOK, hostVars, powVars
  <2>5. ReduceInv'
    BY <1>1, <2>1, <2>2, <2>3 DEF ReduceInv, GhashTypeOK, BlocksBefore, Smaller, hostVars
  <2> QED BY <1>1, <1>2, <2>4, <2>5 DEF hostVars
<1>4. CASE ReduceStep
  <2> DEFINE r == reduced.i
             power == IF r + 1 = chunk_count THEN pow_last ELSE pow_full
  <2>1. /\ phase = "reduce" /\ phase' = "reduce" /\ r < chunk_count
        /\ reduced' = [i |-> r + 1, y |-> Add(Times(reduced.y, power), chunk_hashes[r])]
        /\ UNCHANGED final_hash
    BY <1>4 DEF ReduceStep
  <2>2. r \in 0 .. global - 1 /\ r \in Nat
    BY <2>1 DEF GhashTypeOK, SizesInv
  <2>3. /\ InRange(r) /\ BlocksBefore(r) = r * chunk_blocks /\ r * chunk_blocks \in Nat
        /\ (r + 1) * chunk_blocks = r * chunk_blocks + chunk_blocks
        /\ r + 1 < chunk_count => BlocksBefore(r + 1) = (r + 1) * chunk_blocks
        /\ r + 1 = chunk_count => BlocksBefore(r + 1) = num_blocks
    BY <2>1, <2>2, RangeIsCount
  <2>4. /\ pow_full = chunk_blocks /\ pow_last = LastLen
        /\ LastLen \in 1 .. chunk_blocks
        /\ (chunk_count - 1) * chunk_blocks + LastLen = num_blocks
    BY <2>1, LastLenBounds DEF PowInv
  <2>5. power = BlocksBefore(r + 1) - BlocksBefore(r) /\ power >= 0 /\ BlocksBefore(r + 1) \in Nat
    <3>1. CASE r + 1 < chunk_count
      <4>1. power = chunk_blocks
        BY <2>2, <2>4, <3>1 DEF GhashTypeOK
      <4>2. BlocksBefore(r + 1) = BlocksBefore(r) + chunk_blocks /\ BlocksBefore(r) \in Nat
        BY <2>3, <3>1
      <4>3. chunk_blocks \in Nat
        BY DEF GhashTypeOK
      <4> QED BY <4>1, <4>2, <4>3
    <3>2. CASE r + 1 = chunk_count
      <4>1. r = chunk_count - 1
        BY <2>2, <3>2 DEF GhashTypeOK
      <4> QED BY <2>2, <2>3, <2>4, <3>2, <4>1 DEF GhashTypeOK
    <3> QED BY <2>1, <2>2, <3>1, <3>2 DEF GhashTypeOK
  <2>6. chunk_hashes[r] = Horner(BlocksBefore(r), BlocksBefore(r + 1)) /\ reduced.y = Horner(0, BlocksBefore(r))
    BY <2>1, <2>2, <2>3 DEF ReduceInv, ItemInv
  <2>7. BlocksBefore(r) \in Nat /\ BlocksBefore(r) <= BlocksBefore(r + 1)
    BY <2>3, <2>5
  <2> HIDE DEF power, r
  <2>8. reduced'.y = Horner(0, BlocksBefore(r + 1)) /\ reduced'.i = r + 1
    BY <2>1, <2>5, <2>6, <2>7, CombineHorner
  <2>9. GhashTypeOK'
    <3>1. reduced' \in [i : Nat, y : SUBSET (Int \X Int)]
      BY <2>1, <2>2, <2>5, <2>6, <2>7, CombineHorner, HornerType
    <3> QED BY <1>1, <2>1, <3>1 DEF GhashTypeOK, hostVars, powVars
  <2>10. ReduceInv'
    <3>1. BlocksBefore(r + 1)' = BlocksBefore(r + 1)'
      OBVIOUS
    <3>2. (reduced.i)' = r + 1 /\ BlocksBefore(reduced.i)' = BlocksBefore(r + 1)
      BY <1>1, <2>8 DEF BlocksBefore, Smaller, hostVars
    <3> QED BY <1>1, <2>1, <2>2, <2>8, <3>2 DEF ReduceInv, GhashTypeOK, hostVars
  <2> QED BY <1>1, <1>2, <2>9, <2>10 DEF hostVars
<1>5. CASE ReduceDone
  <2>1. /\ phase = "reduce" /\ phase' = "done" /\ reduced.i = chunk_count
        /\ final_hash' = reduced.y /\ UNCHANGED reduced
    BY <1>5 DEF ReduceDone
  <2>2. BlocksBefore(chunk_count) = num_blocks
    BY <2>1 DEF BlocksBefore, Smaller, SizesInv, GhashTypeOK
  <2>3. GhashTypeOK'
    BY <1>1, <2>1 DEF GhashTypeOK, hostVars, powVars
  <2>4. ReduceInv'
    BY <1>1, <2>1, <2>2 DEF ReduceInv, hostVars
  <2> QED BY <1>1, <1>2, <2>3, <2>4 DEF hostVars
<1> QED BY <1>3, <1>4, <1>5


LEMMA CpuStepInv == GhashInv /\ CpuStep => GhashInv'
<1> SUFFICES ASSUME GhashInv, CpuStep PROVE GhashInv'
  OBVIOUS
<1> USE DEF GhashInv, HashInv
<1> DEFINE k == cpu.taken
<1>1. /\ UNCHANGED <<hostVars, phase, powVars, deviceVars>>
      /\ phase # "idle" /\ k < num_blocks
      /\ cpu' = [taken |-> k + 1, y |-> Absorb(cpu.y, k)]
  BY DEF CpuStep
<1>2. k \in Nat /\ num_blocks \in Nat
  BY DEF GhashTypeOK
<1>3. Absorb(cpu.y, k) = Horner(0, k + 1)
  BY <1>1, <1>2, AbsorbHorner DEF CpuInv
<1> HIDE DEF k
<1>4. CpuInv'
  BY <1>1, <1>2, <1>3 DEF CpuInv, hostVars
<1>5. GhashTypeOK'
  <2>1. cpu' \in [taken : Nat, y : SUBSET (Int \X Int)]
    BY <1>1, <1>2, <1>3, HornerType
  <2> QED BY <1>1, <2>1 DEF GhashTypeOK, hostVars, powVars, deviceVars
<1>6. /\ SizesInv' /\ PowInv' /\ HashesFit' /\ ReduceInv'
      /\ \A g \in 0 .. global - 1 : ItemInv(g)'
  BY <1>1 DEF SizesInv, PowInv, HashesFit, ReduceInv, LastLen, ItemInv, InRange, BlocksBefore,
     Smaller, hostVars, powVars, deviceVars
<1> QED BY <1>1, <1>4, <1>5, <1>6 DEF hostVars

LEMMA StutterInv == GhashInv /\ UNCHANGED ghashVars => GhashInv'
BY DEF GhashInv, HashInv, GhashTypeOK, SizesInv, PowInv, HashesFit, ReduceInv, CpuInv, LastLen, ItemInv,
   InRange, BlocksBefore, Smaller, ghashVars, hostVars, powVars, deviceVars

\* The invariant holds of every step of the host, the work items and the CPU library.
THEOREM GhashInvariant == GhashSpec => []GhashInv
<1>1. GhashInv /\ [GhashNext]_ghashVars => GhashInv'
  <2> SUFFICES ASSUME GhashInv, [GhashNext]_ghashVars PROVE GhashInv'
    OBVIOUS
  <2>1. CASE Begin
    BY <2>1, BeginInv
  <2>2. CASE PowStep \/ PowFullDone \/ PowLastDone
    BY <2>2, PowInvariant
  <2>3. ASSUME NEW g \in 0 .. global - 1, ChunkStep(g) \/ ChunkDone(g) PROVE GhashInv'
    BY <2>3, ChunkStepInv, ChunkDoneInv
  <2>4. CASE ReduceStart \/ ReduceStep \/ ReduceDone
    BY <2>4, ReduceInvariant
  <2>5. CASE CpuStep
    BY <2>5, CpuStepInv
  <2>6. CASE UNCHANGED ghashVars
    BY <2>6, StutterInv
  <2> QED BY <2>1, <2>2, <2>3, <2>4, <2>5, <2>6 DEF GhashNext
<1> QED BY <1>1, GhashInitInv, PTL DEF GhashSpec

\* Types, for every bound and every set of chunk and work-group sizes.
THEOREM GhashTypeCorrect == GhashSpec => []GhashTypeOK
<1>1. GhashInv => GhashTypeOK
  BY DEF GhashInv
<1> QED BY <1>1, GhashInvariant, PTL

\* No work item of a rounded-up NDRange stores past the chunk buffer.
THEOREM ChunkStoresFit == GhashSpec => []HashesFit
<1>1. GhashInv => HashesFit
  BY DEF GhashInv, HashInv
<1> QED BY <1>1, GhashInvariant, PTL

\* The powers of H match the chunk lengths, the last chunk's included.
THEOREM PowersAreRight == GhashSpec => []PowersMatch
<1>1. GhashInv => PowersMatch
  <2> SUFFICES ASSUME GhashInv, phase \in {"chunks", "reduce", "done"}
               PROVE  /\ pow_full = chunk_blocks
                      /\ pow_last = num_blocks - (chunk_count - 1) * chunk_blocks
                      /\ pow_last \in 1 .. chunk_blocks
    BY DEF PowersMatch
  <2>1. GhashTypeOK /\ SizesInv /\ phase # "idle"
    BY DEF GhashInv, HashInv
  <2>2. pow_full = chunk_blocks /\ pow_last = LastLen
    BY DEF GhashInv, HashInv, PowInv
  <2> QED BY <2>1, <2>2, LastLenBounds DEF LastLen
<1> QED BY <1>1, GhashInvariant, PTL

\* Hashing in chunks on the device equals hashing block by block on the CPU.
THEOREM DeviceHashIsCpuHash == GhashSpec => []SameAsCpu
<1>1. GhashInv => SameAsCpu
  BY DEF GhashInv, HashInv, ReduceInv, CpuInv, SameAsCpu
<1> QED BY <1>1, GhashInvariant, PTL
=============================================================================
