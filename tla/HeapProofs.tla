------------------------------ MODULE HeapProofs ------------------------------
(***************************************************************************)
(* Proofs about Heap for every memory map, every size of region and every  *)
(* size that callers ask for.                                              *)
(***************************************************************************)
EXTENDS Heap, PhysProofs, SequenceTheorems, WellFoundedInduction

(* An element put into a sequence, or taken out of it, moves those behind. *)
LEMMA InsertAtFacts ==
  ASSUME NEW S, NEW s \in Seq(S), NEW e \in S, NEW k \in 1 .. Len(s) + 1
  PROVE  /\ InsertAt(s, k, e) \in Seq(S)
         /\ Len(InsertAt(s, k, e)) = Len(s) + 1
         /\ \A j \in 1 .. Len(s) + 1 :
              InsertAt(s, k, e)[j] = IF j < k THEN s[j] ELSE IF j = k THEN e ELSE s[j - 1]
<1> DEFINE a == SubSeq(s, 1, k - 1)
           b == SubSeq(s, k, Len(s))
<1>1. Len(s) \in Nat /\ k \in Int /\ \A i \in 1 .. Len(s) : s[i] \in S
  BY LenProperties, ElementOfSeq
<1>2. /\ a \in Seq(S) /\ Len(a) = k - 1
      /\ \A i \in 1 .. k - 1 : a[i] = s[i]
  <2>1. \A i \in 1 .. k - 1 : s[i] \in S
    BY <1>1
  <2>2. /\ a \in Seq(S)
        /\ Len(a) = IF 1 <= k - 1 THEN k - 1 - 1 + 1 ELSE 0
        /\ \A i \in 1 .. k - 1 - 1 + 1 : a[i] = s[1 + i - 1]
    BY <1>1, <2>1, SubSeqProperties
  <2>3. QED
    BY <1>1, <2>2
<1>3. /\ b \in Seq(S) /\ Len(b) = Len(s) - k + 1
      /\ \A i \in 1 .. Len(s) - k + 1 : b[i] = s[k + i - 1]
  <2>1. \A i \in k .. Len(s) : s[i] \in S
    BY <1>1
  <2>2. QED
    BY <1>1, <2>1, SubSeqProperties
<1>4. <<e>> \in Seq(S) /\ Len(<<e>>) = 1 /\ <<e>>[1] = e
  OBVIOUS
<1> HIDE DEF a, b
<1>5. /\ a \o <<e>> \in Seq(S) /\ Len(a \o <<e>>) = k
      /\ \A i \in 1 .. k : (a \o <<e>>)[i] = IF i < k THEN a[i] ELSE e
  BY <1>1, <1>2, <1>4, ConcatProperties
<1>6. /\ a \o <<e>> \o b \in Seq(S) /\ Len(a \o <<e>> \o b) = Len(s) + 1
      /\ \A i \in 1 .. Len(s) + 1 :
           (a \o <<e>> \o b)[i] = IF i <= k THEN (a \o <<e>>)[i] ELSE b[i - k]
  BY <1>1, <1>3, <1>5, ConcatProperties
<1>7. InsertAt(s, k, e) = a \o <<e>> \o b
  BY DEF InsertAt, a, b
<1>8. QED
  BY <1>1, <1>2, <1>3, <1>5, <1>6, <1>7

LEMMA RemoveAtFacts ==
  ASSUME NEW S, NEW s \in Seq(S), NEW k \in 1 .. Len(s)
  PROVE  /\ RemoveAt(s, k) \in Seq(S)
         /\ Len(RemoveAt(s, k)) = Len(s) - 1
         /\ \A j \in 1 .. Len(s) - 1 :
              RemoveAt(s, k)[j] = IF j < k THEN s[j] ELSE s[j + 1]
<1> DEFINE a == SubSeq(s, 1, k - 1)
           b == SubSeq(s, k + 1, Len(s))
<1>1. Len(s) \in Nat /\ k \in Int /\ \A i \in 1 .. Len(s) : s[i] \in S
  BY LenProperties, ElementOfSeq
<1>2. /\ a \in Seq(S) /\ Len(a) = k - 1
      /\ \A i \in 1 .. k - 1 : a[i] = s[i]
  <2>1. \A i \in 1 .. k - 1 : s[i] \in S
    BY <1>1
  <2>2. /\ a \in Seq(S)
        /\ Len(a) = IF 1 <= k - 1 THEN k - 1 - 1 + 1 ELSE 0
        /\ \A i \in 1 .. k - 1 - 1 + 1 : a[i] = s[1 + i - 1]
    BY <1>1, <2>1, SubSeqProperties
  <2>3. QED
    BY <1>1, <2>2
<1>3. /\ b \in Seq(S) /\ Len(b) = Len(s) - k
      /\ \A i \in 1 .. Len(s) - k : b[i] = s[k + i]
  <2>1. \A i \in k + 1 .. Len(s) : s[i] \in S
    BY <1>1
  <2>2. /\ b \in Seq(S)
        /\ Len(b) = IF k + 1 <= Len(s) THEN Len(s) - (k + 1) + 1 ELSE 0
        /\ \A i \in 1 .. Len(s) - (k + 1) + 1 : b[i] = s[(k + 1) + i - 1]
    BY <1>1, <2>1, SubSeqProperties
  <2>3. QED
    BY <1>1, <2>2
<1> HIDE DEF a, b
<1>4. /\ a \o b \in Seq(S) /\ Len(a \o b) = Len(s) - 1
      /\ \A i \in 1 .. Len(s) - 1 : (a \o b)[i] = IF i <= k - 1 THEN a[i] ELSE b[i - (k - 1)]
  BY <1>1, <1>2, <1>3, ConcatProperties
<1>5. RemoveAt(s, k) = a \o b
  BY DEF RemoveAt, a, b
<1>6. ASSUME NEW j \in k .. Len(s) - 1
      PROVE  b[j - (k - 1)] = s[j + 1]
  <2>1. j - (k - 1) \in 1 .. Len(s) - k /\ k + (j - (k - 1)) = j + 1
    BY <1>1
  <2>2. QED
    BY <1>3, <2>1
<1>7. QED
  BY <1>1, <1>2, <1>4, <1>5, <1>6
-----------------------------------------------------------------------------
LEMMA Multiples ==
  ASSUME NEW x \in Nat, x % Alignment = 0
  PROVE  \E w \in Nat : x = 16 * w
<1>1. x = 16 * (x \div 16) /\ x \div 16 \in Nat
  BY DEF Alignment
<1>2. QED
  BY <1>1

(* Rounding up adds less than the unit, and gives a multiple of it.        *)
LEMMA CeilToFacts ==
  ASSUME NEW v \in Nat
  PROVE  /\ CeilTo(v, Alignment) \in Nat /\ v <= CeilTo(v, Alignment)
         /\ CeilTo(v, Alignment) < v + Alignment
         /\ CeilTo(v, Alignment) % Alignment = 0
BY DEF CeilTo, Alignment

(* A payload is a multiple of the alignment, even where size_t wraps, and  *)
(* holds what was asked for where it does not.                             *)
LEMMA PayloadFacts ==
  ASSUME NEW size \in Nat
  PROVE  /\ Payload(size) \in Nat /\ Payload(size) % Alignment = 0
         /\ Payload(size) < WordSize
         /\ size + Alignment <= WordSize => size <= Payload(size)
<1> DEFINE c == CeilTo(size, Alignment)
           q == c \div WordSize
<1>1. c \in Nat /\ c % Alignment = 0 /\ size <= c /\ c < size + Alignment
  BY CeilToFacts
<1>2. WordSize \in Nat \ {0} /\ WordSize % Alignment = 0
  BY HeapAssumption
<1> HIDE DEF c
<1>3. c % WordSize \in 0 .. WordSize - 1 /\ q \in Int /\ c = WordSize * q + (c % WordSize)
  BY <1>1, <1>2
<1>4. PICK w \in Nat, d \in Nat : WordSize = Alignment * w /\ c = Alignment * d
  <2>1. WordSize = Alignment * (WordSize \div Alignment) /\ c = Alignment * (c \div Alignment)
    BY <1>1, <1>2 DEF Alignment
  <2>2. WordSize \div Alignment \in Nat /\ c \div Alignment \in Nat
    BY <1>1, <1>2 DEF Alignment
  <2>3. QED
    BY <2>1, <2>2
<1>5. (c % WordSize) % Alignment = 0
  <2> DEFINE t == w * q
  <2>1. t \in Int /\ q \in Int
    BY <1>3, <1>4
  <2>2. (Alignment * w) * q = Alignment * t
    BY <2>1, <1>4 DEF Alignment
  <2> HIDE DEF t, q
  <2>3. c % WordSize = Alignment * d - Alignment * t
    BY <1>3, <1>4, <2>1, <2>2
  <2>4. QED
    BY <1>3, <1>4, <2>1, <2>3 DEF Alignment
<1>6. ASSUME size + Alignment <= WordSize
      PROVE  c % WordSize = c
  BY <1>1, <1>2, <1>6 DEF Alignment
<1>7. QED
  BY SMTT(60), <1>1, <1>2, <1>3, <1>5, <1>6 DEF Payload, c

(* A new region has room for its header and the block it is made for.      *)
LEMMA RegionPagesFacts ==
  ASSUME NEW payload \in Nat
  PROVE  /\ RegionPages(payload) \in Nat \ {0}
         /\ RegionHeader + BlockHeader + payload <= RegionPages(payload) * PageSize
<1>1. MinRegionPages \in Nat \ {0}
  BY HeapAssumption
<1>2. /\ CeilPage(payload + 96) \in Nat
      /\ payload + 96 <= CeilPage(payload + 96) * PageSize
  BY DEF CeilPage, PageSize
<1>3. QED
  BY <1>1, <1>2 DEF RegionPages, RegionHeader, BlockHeader, PageSize
-----------------------------------------------------------------------------
(* A region: each block, behind its header, lies between the region's      *)
(* header and its end, in the order of the list, and what the region calls *)
(* its usage are the bytes of its header and of the blocks.                *)
Bytes(b)    == b.off .. AfterBlock(b) - 1
BlocksOf(r) == {r.blocks[k] : k \in DOMAIN r.blocks}
Covered(r)  == UNION {Bytes(b) : b \in BlocksOf(r)}

BlockFits(r, b) ==
  /\ RegionHeader <= b.off /\ AfterBlock(b) <= SizeOf(r)
  /\ b.off % Alignment = 0 /\ b.size % Alignment = 0

InOrder(r) ==
  \A j, k \in DOMAIN r.blocks : j < k => AfterBlock(r.blocks[j]) <= r.blocks[k].off

RegionOK(r) ==
  /\ r \in Region
  /\ \A b \in BlocksOf(r) : BlockFits(r, b)
  /\ InOrder(r)
  /\ r.usage = RegionHeader + Cardinality(Covered(r))

(* The region after place_block, kfree of one of several blocks, krealloc  *)
(* in place; and the list with another region in the place of one.         *)
Inserted(r, k, b) ==
  [r EXCEPT !.blocks = InsertAt(@, k + 1, b), !.usage = @ + BlockHeader + b.size]
Unlinked(r, k) ==
  [r EXCEPT !.blocks = RemoveAt(@, k), !.usage = @ - (BlockHeader + r.blocks[k].size)]
Shrunk(r, k, size)  == [r EXCEPT !.blocks[k].req = size]
Replaced(rs, i, u)  == [rs EXCEPT ![i] = u]

LEMMA RegionTypes ==
  ASSUME NEW r \in Region
  PROVE  /\ r.run \in Run /\ r.usage \in Nat /\ r.blocks \in Seq(Block)
         /\ Len(r.blocks) \in Nat /\ DOMAIN r.blocks = 1 .. Len(r.blocks)
         /\ \A k \in 1 .. Len(r.blocks) : r.blocks[k] \in Block
         /\ SizeOf(r) \in Nat /\ PageSize <= SizeOf(r)
<1>1. r.run \in Run /\ r.usage \in Nat /\ r.blocks \in Seq(Block)
  BY DEF Region
<1>2. r.run.count \in Nat \ {0}
  BY <1>1 DEF Run
<1>3. QED
  BY <1>1, <1>2, LenProperties, ElementOfSeq DEF SizeOf, PageSize

(* Blocks of one region are apart, and it is never more than full.         *)
LEMMA RegionFacts ==
  ASSUME NEW r, RegionOK(r)
  PROVE  /\ WellLaidOut(r)
         /\ Covered(r) \subseteq RegionHeader .. SizeOf(r) - 1
         /\ IsFiniteSet(Covered(r)) /\ Cardinality(Covered(r)) \in Nat
         /\ FreeBytes(r) \in Nat
<1>1. /\ r \in Region /\ Len(r.blocks) \in Nat /\ DOMAIN r.blocks = 1 .. Len(r.blocks)
      /\ \A k \in 1 .. Len(r.blocks) : r.blocks[k] \in Block /\ r.blocks[k] \in BlocksOf(r)
      /\ SizeOf(r) \in Nat /\ PageSize <= SizeOf(r)
  BY RegionTypes DEF RegionOK, BlocksOf
<1>2. WellLaidOut(r)
  <2>1. \A k \in DOMAIN r.blocks : r.blocks[k].off % Alignment = 0
    BY <1>1 DEF RegionOK, BlockFits
  <2>2. ASSUME NEW k \in 0 .. Len(r.blocks)
        PROVE  HoleStart(r, k) <= HoleEnd(r, k)
    <3>1. CASE k = 0 /\ k = Len(r.blocks)
      BY <1>1, <3>1 DEF HoleStart, HoleEnd, RegionHeader, PageSize
    <3>2. CASE k = 0 /\ k # Len(r.blocks)
      BY <1>1, <3>2 DEF HoleStart, HoleEnd, RegionOK, BlockFits
    <3>3. CASE k # 0 /\ k = Len(r.blocks)
      BY <1>1, <3>3 DEF HoleStart, HoleEnd, RegionOK, BlockFits
    <3>4. CASE k # 0 /\ k # Len(r.blocks)
      <4>1. k \in DOMAIN r.blocks /\ k + 1 \in DOMAIN r.blocks /\ k < k + 1
        BY <1>1, <3>4
      <4>2. QED
        BY <3>4, <4>1 DEF HoleStart, HoleEnd, RegionOK, InOrder
    <3>5. QED
      BY <3>1, <3>2, <3>3, <3>4
  <2>3. QED
    BY <2>1, <2>2 DEF WellLaidOut
<1>3. Covered(r) \subseteq RegionHeader .. SizeOf(r) - 1
  <2>1. ASSUME NEW b \in BlocksOf(r)
        PROVE  Bytes(b) \subseteq RegionHeader .. SizeOf(r) - 1
    <3>1. b \in Block /\ BlockFits(r, b)
      BY <1>1, <2>1 DEF BlocksOf, RegionOK
    <3>2. QED
      BY <1>1, <3>1 DEF Block, BlockFits, Bytes, AfterBlock, BlockHeader, RegionHeader
  <2>2. QED
    BY <2>1 DEF Covered
<1>4. /\ IsFiniteSet(Covered(r)) /\ Cardinality(Covered(r)) \in Nat
      /\ Cardinality(Covered(r)) <= SizeOf(r) - RegionHeader
  <2>1. /\ IsFiniteSet(RegionHeader .. SizeOf(r) - 1)
        /\ Cardinality(RegionHeader .. SizeOf(r) - 1) = SizeOf(r) - RegionHeader
    <3> DEFINE last == SizeOf(r) - 1
    <3>1. last \in Int /\ 48 \in Int /\ ~(48 > last) /\ last - 48 + 1 = SizeOf(r) - 48
      BY <1>1 DEF PageSize
    <3> HIDE DEF last
    <3>2. IsFiniteSet(48 .. last) /\ Cardinality(48 .. last) = last - 48 + 1
      BY <3>1, FS_Interval
    <3>3. QED
      BY <3>1, <3>2 DEF RegionHeader, last
  <2>2. QED
    BY ZenonT(60), <1>3, <2>1, FS_Subset, FS_CardinalityType
<1>5. QED
  BY <1>1, <1>2, <1>3, <1>4 DEF RegionOK, FreeBytes, RegionHeader

(* The bytes of one block more are so many more bytes.                     *)
LEMMA AddBytes ==
  ASSUME NEW S, IsFiniteSet(S), NEW b \in Block, S \cap Bytes(b) = {}
  PROVE  /\ IsFiniteSet(S \cup Bytes(b))
         /\ Cardinality(S \cup Bytes(b)) = Cardinality(S) + BlockHeader + b.size
<1> DEFINE last == AfterBlock(b) - 1
<1>1. /\ b.off \in Int /\ last \in Int /\ ~(b.off > last)
      /\ last - b.off + 1 = BlockHeader + b.size /\ BlockHeader + b.size \in Nat
  BY DEF Block, AfterBlock, BlockHeader
<1> HIDE DEF last
<1>2. IsFiniteSet(b.off .. last) /\ Cardinality(b.off .. last) = last - b.off + 1
  BY <1>1, FS_Interval
<1>3. Bytes(b) = b.off .. last
  BY DEF Bytes, last
<1>4. /\ IsFiniteSet(S \cup Bytes(b))
      /\ Cardinality(S \cup Bytes(b)) =
           Cardinality(S) + Cardinality(Bytes(b)) - Cardinality(S \cap Bytes(b))
  BY <1>2, <1>3, FS_Union
<1>5. Cardinality(S) \in Nat /\ Cardinality(S \cap Bytes(b)) = 0
  BY FS_CardinalityType, FS_EmptySet
<1>6. Cardinality(Bytes(b)) = BlockHeader + b.size
  BY <1>1, <1>2, <1>3
<1>7. b.size \in Nat /\ BlockHeader \in Nat
  BY DEF Block, BlockHeader
<1>8. QED
  BY <1>4, <1>5, <1>6, <1>7

(* place_block: the block taken from hole k lies apart from all others.    *)
LEMMA PlacedOK ==
  ASSUME NEW r, RegionOK(r), NEW k \in 0 .. Len(r.blocks), NEW b \in Block, NEW u,
         b.off = HoleStart(r, k), b.size % Alignment = 0,
         AfterBlock(b) <= HoleEnd(r, k),
         u = Inserted(r, k, b)
  PROVE  /\ RegionOK(u) /\ u.run = r.run /\ u.blocks # <<>>
         /\ Len(u.blocks) = Len(r.blocks) + 1
         /\ BlocksOf(u) = BlocksOf(r) \cup {b} /\ BlockFits(u, b)
         /\ \A c \in BlocksOf(r) : AfterBlock(c) <= b.off \/ AfterBlock(b) <= c.off
<1> DEFINE n == Len(r.blocks)
<1>1. /\ r \in Region /\ n \in Nat /\ DOMAIN r.blocks = 1 .. n
      /\ \A j \in 1 .. n : r.blocks[j] \in Block /\ r.blocks[j] \in BlocksOf(r)
      /\ SizeOf(r) \in Nat /\ PageSize <= SizeOf(r)
      /\ r.blocks \in Seq(Block) /\ r.usage \in Nat /\ r.run \in Run
  BY RegionTypes DEF RegionOK, BlocksOf
<1>2. /\ \A j \in 1 .. n : BlockFits(r, r.blocks[j]) /\ r.blocks[j].off \in Nat
                             /\ r.blocks[j].size \in Nat
      /\ \A i, j \in 1 .. n : i < j => AfterBlock(r.blocks[i]) <= r.blocks[j].off
  BY <1>1 DEF RegionOK, InOrder, Block
<1>3. /\ u.blocks = InsertAt(r.blocks, k + 1, b) /\ u.run = r.run
      /\ u.usage = r.usage + BlockHeader + b.size
      /\ u \in [run : {r.run}, usage : {u.usage}, blocks : {u.blocks}]
  BY <1>1 DEF Region, Inserted
<1>4. /\ u.blocks \in Seq(Block) /\ Len(u.blocks) = n + 1 /\ DOMAIN u.blocks = 1 .. n + 1
      /\ \A j \in 1 .. n + 1 :
           u.blocks[j] = IF j < k + 1 THEN r.blocks[j]
                         ELSE IF j = k + 1 THEN b ELSE r.blocks[j - 1]
  <2>1. k + 1 \in 1 .. Len(r.blocks) + 1
    BY <1>1
  <2>2. /\ InsertAt(r.blocks, k + 1, b) \in Seq(Block)
        /\ Len(InsertAt(r.blocks, k + 1, b)) = Len(r.blocks) + 1
        /\ \A j \in 1 .. Len(r.blocks) + 1 :
             InsertAt(r.blocks, k + 1, b)[j] =
               IF j < k + 1 THEN r.blocks[j] ELSE IF j = k + 1 THEN b ELSE r.blocks[j - 1]
    <3>1. PICK s \in Seq(Block) : s = r.blocks
      BY <1>1
    <3>2. PICK m \in 1 .. Len(s) + 1 : m = k + 1
      BY <2>1, <3>1
    <3>3. /\ InsertAt(s, m, b) \in Seq(Block)
          /\ Len(InsertAt(s, m, b)) = Len(s) + 1
          /\ \A j \in 1 .. Len(s) + 1 :
               InsertAt(s, m, b)[j] = IF j < m THEN s[j] ELSE IF j = m THEN b ELSE s[j - 1]
      <4>1. s \in Seq(Block) /\ m \in 1 .. Len(s) + 1 /\ b \in Block
        OBVIOUS
      <4>2. QED
        BY ONLY <4>1, InsertAtFacts
    <3>4. QED
      BY <3>1, <3>2, <3>3
  <2>3. DOMAIN u.blocks = 1 .. Len(u.blocks)
    BY <1>3, <2>2, LenProperties
  <2>4. QED
    BY <1>3, <2>2, <2>3
<1>5. /\ HoleStart(r, k) = IF k = 0 THEN RegionHeader ELSE AfterBlock(r.blocks[k])
      /\ HoleEnd(r, k) = IF k = n THEN SizeOf(r) ELSE r.blocks[k + 1].off
  BY DEF HoleStart, HoleEnd
<1>6. k \in 0 .. n
  OBVIOUS
<1> HIDE DEF n
<1>7. b.off \in Nat /\ b.size \in Nat /\ AfterBlock(b) = b.off + 48 + b.size
  BY DEF Block, AfterBlock, BlockHeader
<1>8. \A j \in 1 .. n : /\ AfterBlock(r.blocks[j]) = r.blocks[j].off + 48 + r.blocks[j].size
                         /\ AfterBlock(r.blocks[j]) \in Nat
  BY SMTT(60), <1>2 DEF AfterBlock, BlockHeader
<1>9. ASSUME NEW j \in 1 .. n
      PROVE  /\ j <= k => AfterBlock(r.blocks[j]) <= b.off
             /\ j > k => AfterBlock(b) <= r.blocks[j].off
  <2>1. CASE j < k
    <3>1. k \in 1 .. n /\ k # 0
      BY <1>1, <1>6, <2>1
    <3>2. AfterBlock(r.blocks[j]) <= r.blocks[k].off /\ b.off = AfterBlock(r.blocks[k])
      BY <1>2, <1>5, <2>1, <3>1
    <3>3. r.blocks[k].off <= AfterBlock(r.blocks[k])
      BY <1>2, <1>8, <3>1
    <3>4. AfterBlock(r.blocks[j]) \in Nat /\ AfterBlock(r.blocks[k]) \in Nat
      BY <1>2, <1>8, <3>1
    <3>5. QED
      BY <1>2, <1>6, <2>1, <3>1, <3>2, <3>3, <3>4
  <2>2. CASE j = k
    BY <1>1, <1>5, <1>6, <1>7, <1>8, <1>2, <2>2
  <2>3. CASE j = k + 1
    BY <1>1, <1>5, <1>6, <1>2, <2>3
  <2>4. CASE j > k + 1
    <3>1. k + 1 \in 1 .. n /\ k + 1 < j /\ k # n
      BY <1>1, <1>6, <2>4
    <3>2. AfterBlock(r.blocks[k + 1]) <= r.blocks[j].off
      BY <1>2, <3>1
    <3>3. /\ AfterBlock(b) <= r.blocks[k + 1].off
          /\ r.blocks[k + 1].off <= AfterBlock(r.blocks[k + 1])
      BY SMTT(60), <1>2, <1>5, <1>8, <3>1
    <3>4. /\ AfterBlock(b) \in Nat /\ AfterBlock(r.blocks[k + 1]) \in Nat
          /\ r.blocks[j].off \in Nat /\ r.blocks[k + 1].off \in Nat
      BY SMTT(60), <1>2, <1>7, <1>8, <3>1
    <3>5. QED
      BY <1>6, <2>4, <3>2, <3>3, <3>4
  <2>5. QED
    BY <1>1, <1>6, <2>1, <2>2, <2>3, <2>4
<1>10. BlockFits(r, b)
  <2>1. RegionHeader <= b.off
    BY <1>2, <1>5, <1>6, <1>8 DEF BlockFits, RegionHeader
  <2>2. AfterBlock(b) <= SizeOf(r)
    <3>1. CASE k = n
      BY <1>5, <3>1
    <3>2. CASE k # n
      <4>1. k + 1 \in 1 .. n
        BY <1>1, <1>6, <3>2
      <4>2. AfterBlock(r.blocks[k + 1]) <= SizeOf(r)
        BY <1>2, <4>1 DEF BlockFits
      <4>3. /\ AfterBlock(b) <= r.blocks[k + 1].off
            /\ r.blocks[k + 1].off <= AfterBlock(r.blocks[k + 1])
        BY <1>2, <1>5, <1>8, <3>2, <4>1
      <4>4. /\ AfterBlock(b) \in Nat /\ AfterBlock(r.blocks[k + 1]) \in Nat
            /\ r.blocks[k + 1].off \in Nat /\ SizeOf(r) \in Nat
        <5>1. AfterBlock(r.blocks[k + 1]) \in Nat
          BY <1>8, <4>1
        <5>2. r.blocks[k + 1].off \in Nat
          BY <1>2, <4>1
        <5>3. QED
          BY <1>1, <1>7, <5>1, <5>2
      <4>5. QED
        BY <4>2, <4>3, <4>4
    <3>3. QED
      BY <3>1, <3>2
  <2>3. b.off % Alignment = 0
    <3>1. CASE k = 0
      BY <1>5, <3>1 DEF RegionHeader, Alignment
    <3>2. CASE k # 0
      <4>1. k \in 1 .. n /\ b.off = r.blocks[k].off + 48 + r.blocks[k].size
        BY <1>1, <1>5, <1>6, <1>8, <3>2
      <4>2. /\ r.blocks[k].off % Alignment = 0 /\ r.blocks[k].size % Alignment = 0
            /\ r.blocks[k].off \in Nat /\ r.blocks[k].size \in Nat
        BY <1>2, <4>1 DEF BlockFits
      <4>3. PICK v \in Nat, w \in Nat : r.blocks[k].off = 16 * v /\ r.blocks[k].size = 16 * w
        <5>1. \E v \in Nat : r.blocks[k].off = 16 * v
          BY <4>2, Multiples
        <5>2. \E w \in Nat : r.blocks[k].size = 16 * w
          BY <4>2, Multiples
        <5>3. QED
          BY <5>1, <5>2
      <4>4. b.off = 16 * (v + 3 + w)
        BY <4>1, <4>3
      <4>5. QED
        BY <4>4 DEF Alignment
    <3>3. QED
      BY <3>1, <3>2
  <2>4. QED
    BY <2>1, <2>2, <2>3 DEF BlockFits
<1>11. BlocksOf(u) = BlocksOf(r) \cup {b}
  <2>1. ASSUME NEW j \in 1 .. n + 1
        PROVE  u.blocks[j] \in BlocksOf(r) \cup {b}
    <3>1. j < k + 1 => j \in 1 .. n
      BY <1>1, <1>6
    <3>2. j > k + 1 => j - 1 \in 1 .. n
      BY <1>1, <1>6
    <3>3. j < k + 1 \/ j = k + 1 \/ j > k + 1
      BY <1>1, <1>6
    <3>4. ~(j > k + 1 /\ j < k + 1) /\ ~(j > k + 1 /\ j = k + 1)
      BY <1>1, <1>6
    <3>5. QED
      BY <1>1, <1>4, <3>1, <3>2, <3>3, <3>4
  <2>2. ASSUME NEW j \in 1 .. n
        PROVE  r.blocks[j] \in BlocksOf(u)
    <3>1. CASE j <= k
      <4>1. j \in 1 .. n + 1 /\ j < k + 1
        BY <1>1, <1>6, <3>1
      <4>2. QED
        BY <1>4, <4>1 DEF BlocksOf
    <3>2. CASE j > k
      <4>1. j + 1 \in 1 .. n + 1 /\ ~(j + 1 < k + 1) /\ j + 1 # k + 1 /\ (j + 1) - 1 = j
        BY <1>1, <1>6, <3>2
      <4>2. u.blocks[j + 1] = r.blocks[j]
        BY <1>4, <4>1
      <4>3. QED
        BY <1>4, <4>1, <4>2 DEF BlocksOf
    <3>3. QED
      BY <1>1, <1>6, <3>1, <3>2
  <2>3. b \in BlocksOf(u)
    <3>1. k + 1 \in 1 .. n + 1 /\ ~(k + 1 < k + 1)
      BY <1>1, <1>6
    <3>2. QED
      BY <1>4, <3>1 DEF BlocksOf
  <2>4. BlocksOf(u) \subseteq BlocksOf(r) \cup {b}
    BY <1>4, <2>1 DEF BlocksOf
  <2>5. BlocksOf(r) \subseteq BlocksOf(u)
    BY <1>1, <2>2 DEF BlocksOf
  <2>6. QED
    BY <2>3, <2>4, <2>5
<1>12. InOrder(u)
  <2> SUFFICES ASSUME NEW i \in 1 .. n + 1, NEW j \in 1 .. n + 1, i < j
               PROVE  AfterBlock(u.blocks[i]) <= u.blocks[j].off
    BY <1>4 DEF InOrder
  <2>1. CASE j < k + 1
    <3>1. i \in 1 .. n /\ j \in 1 .. n /\ i < k + 1
      BY <1>1, <1>6, <2>1
    <3>2. QED
      BY <1>2, <1>4, <2>1, <3>1
  <2>2. CASE j = k + 1
    <3>1. i \in 1 .. n /\ i < k + 1 /\ i <= k /\ ~(j < k + 1)
      BY <1>1, <1>6, <2>2
    <3>2. u.blocks[i] = r.blocks[i] /\ u.blocks[j] = b
      BY <1>4, <2>2, <3>1
    <3>3. QED
      BY <1>9, <3>1, <3>2
  <2>3. CASE j > k + 1
    <3>1. j - 1 \in 1 .. n /\ j - 1 > k /\ ~(j < k + 1) /\ j # k + 1
      BY <1>1, <1>6, <2>3
    <3>2. u.blocks[j] = r.blocks[j - 1]
      BY <1>4, <3>1
    <3>3. CASE i < k + 1
      <4>1. i \in 1 .. n /\ i < j - 1
        BY <1>1, <1>6, <2>3, <3>3
      <4>2. QED
        BY <1>2, <1>4, <3>1, <3>2, <3>3, <4>1
    <3>4. CASE i = k + 1
      <4>1. u.blocks[i] = b
        <5>1. ~(i < k + 1)
          BY <1>6, <3>4
        <5>2. QED
          BY <1>4, <3>4, <5>1
      <4>2. QED
        BY <1>9, <3>1, <3>2, <4>1
    <3>5. CASE i > k + 1
      <4>1. i - 1 \in 1 .. n /\ i - 1 < j - 1 /\ ~(i < k + 1) /\ i # k + 1
        BY <1>1, <1>6, <3>5
      <4>2. u.blocks[i] = r.blocks[i - 1]
        BY <1>4, <4>1
      <4>3. QED
        BY <1>2, <3>1, <3>2, <4>1, <4>2
    <3>6. QED
      BY <1>1, <1>6, <3>3, <3>4, <3>5
  <2>4. QED
    BY <1>1, <1>6, <2>1, <2>2, <2>3
<1>13. u \in Region
  BY <1>1, <1>3, <1>4, <1>7 DEF Region, BlockHeader
<1>14. \A c \in BlocksOf(r) : AfterBlock(c) <= b.off \/ AfterBlock(b) <= c.off
  <2>1. ASSUME NEW j \in 1 .. n
        PROVE  AfterBlock(r.blocks[j]) <= b.off \/ AfterBlock(b) <= r.blocks[j].off
    BY <1>1, <1>6, <1>9
  <2>2. QED
    BY <1>1, <2>1 DEF BlocksOf
<1>15. u.usage = RegionHeader + Cardinality(Covered(u))
  <2>1. Covered(r) \cap Bytes(b) = {}
    <3>1. ASSUME NEW c \in BlocksOf(r)
          PROVE  Bytes(c) \cap Bytes(b) = {}
      <4>1. c \in Block /\ (AfterBlock(c) <= b.off \/ AfterBlock(b) <= c.off)
        BY <1>1, <1>14 DEF BlocksOf
      <4>2. c.off \in Nat /\ AfterBlock(c) \in Nat /\ AfterBlock(b) \in Nat
        BY <1>7, <4>1 DEF Block, AfterBlock, BlockHeader
      <4>3. QED
        BY <1>7, <4>1, <4>2 DEF Bytes
    <3>2. QED
      BY <3>1 DEF Covered
  <2>2. Covered(u) = Covered(r) \cup Bytes(b)
    BY <1>11 DEF Covered
  <2>3. IsFiniteSet(Covered(r)) /\ Cardinality(Covered(r)) \in Nat
    BY RegionFacts
  <2>4. Cardinality(Covered(u)) = Cardinality(Covered(r)) + BlockHeader + b.size
    BY <2>1, <2>2, <2>3, AddBytes
  <2>5. r.usage = RegionHeader + Cardinality(Covered(r))
    BY DEF RegionOK
  <2>6. QED
    BY <1>3, <1>7, <2>3, <2>4, <2>5 DEF RegionHeader, BlockHeader
<1>16. SizeOf(u) = SizeOf(r)
  BY <1>3 DEF SizeOf
<1>17. \A c \in BlocksOf(u) : BlockFits(u, c)
  BY <1>10, <1>11, <1>16 DEF RegionOK, BlockFits
<1>18. u.blocks # <<>>
  <2>1. n + 1 # 0
    BY <1>1
  <2>2. QED
    BY <1>4, <2>1
<1>19. RegionOK(u)
  BY <1>12, <1>13, <1>15, <1>17 DEF RegionOK
<1>20. QED
  BY <1>3, <1>4, <1>11, <1>14, <1>17, <1>18, <1>19 DEF n

(* Two blocks of one list do not touch, nor are they the same block twice. *)
LEMMA BlocksApart ==
  ASSUME NEW r, RegionOK(r), NEW i \in DOMAIN r.blocks, NEW j \in DOMAIN r.blocks, i # j
  PROVE  /\ r.blocks[i].off # r.blocks[j].off /\ r.blocks[i] # r.blocks[j]
         /\ \/ AfterBlock(r.blocks[i]) <= r.blocks[j].off
            \/ AfterBlock(r.blocks[j]) <= r.blocks[i].off
         /\ Bytes(r.blocks[i]) \cap Bytes(r.blocks[j]) = {}
<1>1. /\ r \in Region /\ Len(r.blocks) \in Nat /\ DOMAIN r.blocks = 1 .. Len(r.blocks)
      /\ r.blocks[i] \in Block /\ r.blocks[j] \in Block
  BY RegionTypes DEF RegionOK
<1>2. /\ r.blocks[i].off \in Nat /\ r.blocks[i].size \in Nat
      /\ r.blocks[j].off \in Nat /\ r.blocks[j].size \in Nat
      /\ AfterBlock(r.blocks[i]) = r.blocks[i].off + 48 + r.blocks[i].size
      /\ AfterBlock(r.blocks[j]) = r.blocks[j].off + 48 + r.blocks[j].size
  BY <1>1 DEF Block, AfterBlock, BlockHeader
<1>3. i \in Int /\ j \in Int
  BY <1>1
<1>4. i < j \/ j < i
  BY <1>3
<1>5. \/ AfterBlock(r.blocks[i]) <= r.blocks[j].off
      \/ AfterBlock(r.blocks[j]) <= r.blocks[i].off
  BY <1>4 DEF RegionOK, InOrder
<1>6. r.blocks[i].off # r.blocks[j].off
  BY <1>2, <1>5
<1>7. Bytes(r.blocks[i]) \cap Bytes(r.blocks[j]) = {}
  BY <1>2, <1>5 DEF Bytes
<1>8. QED
  BY <1>5, <1>6, <1>7

(* kfree: the block unlinked is gone, the rest of the list is as before.   *)
LEMMA UnlinkedOK ==
  ASSUME NEW r, RegionOK(r), NEW k \in DOMAIN r.blocks, NEW u,
         u = Unlinked(r, k)
  PROVE  /\ RegionOK(u) /\ u.run = r.run
         /\ Len(r.blocks) # 1 => u.blocks # <<>>
         /\ BlocksOf(u) = BlocksOf(r) \ {r.blocks[k]}
<1> DEFINE n == Len(r.blocks)
           b == r.blocks[k]
<1>1. /\ r \in Region /\ n \in Nat /\ DOMAIN r.blocks = 1 .. n
      /\ \A j \in 1 .. n : r.blocks[j] \in Block /\ r.blocks[j] \in BlocksOf(r)
      /\ r.blocks \in Seq(Block) /\ r.usage \in Nat /\ r.run \in Run
  BY RegionTypes DEF RegionOK, BlocksOf
<1>2. /\ u.blocks = RemoveAt(r.blocks, k) /\ u.run = r.run
      /\ u.usage = r.usage - (BlockHeader + b.size)
      /\ u \in [run : {r.run}, usage : {u.usage}, blocks : {u.blocks}]
  BY <1>1 DEF Region, Unlinked
<1>3. /\ u.blocks \in Seq(Block) /\ Len(u.blocks) = n - 1 /\ DOMAIN u.blocks = 1 .. n - 1
      /\ \A j \in 1 .. n - 1 :
           u.blocks[j] = IF j < k THEN r.blocks[j] ELSE r.blocks[j + 1]
  <2>1. PICK s \in Seq(Block) : s = r.blocks
    BY <1>1
  <2>2. PICK m \in 1 .. Len(s) : m = k
    BY <1>1, <2>1
  <2>3. /\ RemoveAt(s, m) \in Seq(Block)
        /\ Len(RemoveAt(s, m)) = Len(s) - 1
        /\ \A j \in 1 .. Len(s) - 1 : RemoveAt(s, m)[j] = IF j < m THEN s[j] ELSE s[j + 1]
    BY RemoveAtFacts
  <2>4. u.blocks = RemoveAt(s, m)
    BY <1>2, <2>1, <2>2
  <2>5. DOMAIN u.blocks = 1 .. Len(u.blocks)
    BY <2>3, <2>4, LenProperties
  <2>6. QED
    BY <2>1, <2>2, <2>3, <2>4, <2>5
<1>4. k \in 1 .. n /\ b \in Block /\ b \in BlocksOf(r)
  BY <1>1
<1> DEFINE Was(j) == IF j < k THEN j ELSE j + 1
<1>5. \A j \in 1 .. n - 1 : /\ Was(j) \in 1 .. n /\ Was(j) # k
                             /\ u.blocks[j] = r.blocks[Was(j)]
  BY <1>1, <1>3, <1>4
<1>6. \A i, j \in 1 .. n - 1 : i < j => Was(i) < Was(j)
  BY <1>1, <1>4
<1>7. \A i \in 1 .. n : i # k => \E j \in 1 .. n - 1 : Was(j) = i
  <2> SUFFICES ASSUME NEW i \in 1 .. n, i # k
               PROVE  \E j \in 1 .. n - 1 : Was(j) = i
    OBVIOUS
  <2>1. CASE i < k
    <3>1. i \in 1 .. n - 1 /\ Was(i) = i
      BY <1>1, <1>4, <2>1
    <3>2. QED
      BY <3>1
  <2>2. CASE i > k
    <3>1. i - 1 \in 1 .. n - 1 /\ Was(i - 1) = i
      BY <1>1, <1>4, <2>2
    <3>2. QED
      BY <3>1
  <2>3. QED
    BY <1>1, <1>4, <2>1, <2>2
<1> HIDE DEF Was
<1>8. BlocksOf(u) = BlocksOf(r) \ {b}
  <2>1. BlocksOf(u) \subseteq BlocksOf(r)
    <3>1. \A j \in 1 .. n - 1 : u.blocks[j] \in BlocksOf(r)
      BY <1>1, <1>5
    <3>2. QED
      BY <1>3, <3>1 DEF BlocksOf
  <2>2. b \notin BlocksOf(u)
    <3>1. ASSUME NEW j \in 1 .. n - 1
          PROVE  u.blocks[j] # b
      BY <1>1, <1>4, <1>5, BlocksApart
    <3>2. QED
      BY <1>3, <3>1 DEF BlocksOf
  <2>3. ASSUME NEW i \in 1 .. n, i # k
        PROVE  r.blocks[i] \in BlocksOf(u)
    BY <1>3, <1>5, <1>7, <2>3 DEF BlocksOf
  <2>4. BlocksOf(r) \ {b} \subseteq BlocksOf(u)
    BY <1>1, <2>3 DEF BlocksOf
  <2>5. QED
    BY <2>1, <2>2, <2>4
<1>9. InOrder(u)
  <2>1. ASSUME NEW i \in 1 .. n - 1, NEW j \in 1 .. n - 1, i < j
        PROVE  AfterBlock(u.blocks[i]) <= u.blocks[j].off
    <3>1. Was(i) < Was(j) /\ Was(i) \in DOMAIN r.blocks /\ Was(j) \in DOMAIN r.blocks
      BY <1>1, <1>5, <1>6, <2>1
    <3>2. AfterBlock(r.blocks[Was(i)]) <= r.blocks[Was(j)].off
      BY <3>1 DEF RegionOK, InOrder
    <3>3. QED
      BY <1>5, <3>2
  <2>2. QED
    BY <1>3, <2>1 DEF InOrder
<1>10. r.usage = RegionHeader + Cardinality(Covered(u)) + BlockHeader + b.size
  <2>1. Covered(r) = Covered(u) \cup Bytes(b)
    BY <1>4, <1>8 DEF Covered
  <2>2. Covered(u) \cap Bytes(b) = {}
    <3>1. ASSUME NEW j \in 1 .. n - 1
          PROVE  Bytes(u.blocks[j]) \cap Bytes(b) = {}
      <4>1. Was(j) \in DOMAIN r.blocks /\ Was(j) # k
        BY <1>1, <1>5
      <4>2. QED
        BY <1>5, <4>1, BlocksApart
    <3>2. QED
      BY <1>3, <3>1 DEF Covered, BlocksOf
  <2>3. IsFiniteSet(Covered(u))
    BY <2>1, RegionFacts, FS_Subset
  <2>4. Cardinality(Covered(r)) = Cardinality(Covered(u)) + BlockHeader + b.size
    BY <1>4, <2>1, <2>2, <2>3, AddBytes
  <2>5. Cardinality(Covered(u)) \in Nat
    BY <2>3, FS_CardinalityType
  <2>6. b.size \in Nat
    BY <1>4 DEF Block
  <2>7. QED
    BY <2>4, <2>5, <2>6 DEF RegionOK, RegionHeader, BlockHeader
<1>11. Cardinality(Covered(u)) \in Nat /\ b.size \in Nat
  <2>1. IsFiniteSet(Covered(r)) /\ Covered(u) \subseteq Covered(r)
    BY <1>8, RegionFacts DEF Covered
  <2>2. QED
    BY <1>4, <2>1, FS_Subset, FS_CardinalityType DEF Block
<1>12. /\ u.usage = RegionHeader + Cardinality(Covered(u)) /\ u.usage \in Nat
  BY <1>1, <1>2, <1>10, <1>11 DEF RegionHeader, BlockHeader
<1>13. u \in Region
  BY <1>1, <1>2, <1>3, <1>12 DEF Region
<1>14. SizeOf(u) = SizeOf(r)
  BY <1>2 DEF SizeOf
<1>15. \A c \in BlocksOf(u) : BlockFits(u, c)
  BY <1>8, <1>14 DEF RegionOK, BlockFits
<1>16. n # 1 => u.blocks # <<>>
  <2>1. n # 1 => n - 1 # 0
    BY <1>1
  <2>2. QED
    BY <1>3, <2>1
<1>17. QED
  BY <1>2, <1>8, <1>9, <1>12, <1>13, <1>15, <1>16 DEF RegionOK

(* krealloc in place: only the requested size of the block is another.     *)
LEMMA ShrunkOK ==
  ASSUME NEW r, RegionOK(r), NEW k \in DOMAIN r.blocks, NEW size \in Nat, NEW u,
         u = Shrunk(r, k, size)
  PROVE  /\ RegionOK(u) /\ u.run = r.run /\ u.blocks # <<>> /\ u.usage = r.usage
         /\ DOMAIN u.blocks = DOMAIN r.blocks
         /\ u.blocks[k] = [r.blocks[k] EXCEPT !.req = size]
         /\ BlocksOf(u) \ {u.blocks[k]} = BlocksOf(r) \ {r.blocks[k]}
         /\ u.blocks[k] \in BlocksOf(u)
<1> DEFINE n == Len(r.blocks)
           b == r.blocks[k]
           c == [b EXCEPT !.req = size]
<1>1. /\ r \in Region /\ n \in Nat /\ DOMAIN r.blocks = 1 .. n
      /\ \A j \in 1 .. n : r.blocks[j] \in Block /\ r.blocks[j] \in BlocksOf(r)
      /\ r.blocks \in Seq(Block) /\ r.usage \in Nat /\ r.run \in Run
  BY RegionTypes DEF RegionOK, BlocksOf
<1>2. b \in Block /\ c \in Block /\ c.off = b.off /\ c.size = b.size /\ k \in 1 .. n
  BY <1>1 DEF Block
<1>3. /\ u.blocks = [r.blocks EXCEPT ![k] = c] /\ u.run = r.run /\ u.usage = r.usage
      /\ u \in [run : {r.run}, usage : {u.usage}, blocks : {u.blocks}]
  BY <1>1 DEF Region, Shrunk
<1>4. /\ u.blocks \in Seq(Block) /\ Len(u.blocks) = n /\ DOMAIN u.blocks = 1 .. n
      /\ \A j \in 1 .. n : u.blocks[j] = IF j = k THEN c ELSE r.blocks[j]
  <2>1. [r.blocks EXCEPT ![k] = c] \in Seq(Block) /\ Len([r.blocks EXCEPT ![k] = c]) = n
    BY <1>1, <1>2, ExceptSeq
  <2>2. QED
    BY <1>1, <1>2, <1>3, <2>1
<1>5. \A j \in 1 .. n : /\ u.blocks[j].off = r.blocks[j].off
                         /\ u.blocks[j].size = r.blocks[j].size
  BY <1>2, <1>4
<1>6. \A j \in 1 .. n : /\ Bytes(u.blocks[j]) = Bytes(r.blocks[j])
                         /\ AfterBlock(u.blocks[j]) = AfterBlock(r.blocks[j])
  BY <1>5 DEF Bytes, AfterBlock
<1>7. Covered(u) = Covered(r)
  <2>1. \A j \in 1 .. n : Bytes(u.blocks[j]) \subseteq Covered(r)
    BY <1>1, <1>6 DEF Covered
  <2>2. \A j \in 1 .. n : Bytes(r.blocks[j]) \subseteq Covered(u)
    BY <1>4, <1>6 DEF Covered, BlocksOf
  <2>3. Covered(u) \subseteq Covered(r)
    <3>1. \A d \in BlocksOf(u) : Bytes(d) \subseteq Covered(r)
      BY <1>4, <2>1 DEF BlocksOf
    <3>2. QED
      BY <3>1 DEF Covered
  <2>4. Covered(r) \subseteq Covered(u)
    <3>1. \A d \in BlocksOf(r) : Bytes(d) \subseteq Covered(u)
      BY <1>1, <2>2 DEF BlocksOf
    <3>2. QED
      BY <3>1 DEF Covered
  <2>5. QED
    BY <2>3, <2>4
<1>8. InOrder(u)
  BY <1>1, <1>4, <1>5, <1>6 DEF RegionOK, InOrder
<1>9. \A d \in BlocksOf(u) : BlockFits(u, d)
  <2>1. ASSUME NEW j \in 1 .. n
        PROVE  BlockFits(u, u.blocks[j])
    <3>1. BlockFits(r, r.blocks[j])
      BY <1>1 DEF RegionOK
    <3>2. QED
      BY <1>3, <1>5, <1>6, <3>1 DEF BlockFits, SizeOf
  <2>2. QED
    BY <1>4, <2>1 DEF BlocksOf
<1>10. u \in Region /\ u.usage = RegionHeader + Cardinality(Covered(u))
  BY <1>1, <1>3, <1>4, <1>7 DEF Region, RegionOK
<1>11. BlocksOf(u) \ {c} = BlocksOf(r) \ {b} /\ c \in BlocksOf(u)
  <2>1. ASSUME NEW j \in 1 .. n, j # k
        PROVE  r.blocks[j] # b /\ r.blocks[j] # c /\ u.blocks[j] = r.blocks[j]
    <3>1. r.blocks[j].off # b.off
      BY <1>1, <1>2, <2>1, BlocksApart
    <3>2. QED
      BY <1>2, <1>4, <2>1, <3>1
  <2>2. BlocksOf(u) \subseteq (BlocksOf(r) \ {b}) \cup {c}
    <3>1. \A j \in 1 .. n : u.blocks[j] \in (BlocksOf(r) \ {b}) \cup {c}
      BY <1>1, <1>4, <2>1
    <3>2. QED
      BY <1>4, <3>1 DEF BlocksOf
  <2>3. BlocksOf(r) \ {b} \subseteq BlocksOf(u)
    BY <1>1, <1>4, <2>1 DEF BlocksOf
  <2>4. c \in BlocksOf(u)
    BY <1>2, <1>4 DEF BlocksOf
  <2>5. c \notin BlocksOf(r) \ {b}
    BY <1>1, <2>1 DEF BlocksOf
  <2>6. QED
    BY <2>2, <2>3, <2>4, <2>5
<1>12. u.blocks # <<>>
  BY <1>2, <1>4
<1>13. QED
  BY <1>1, <1>2, <1>3, <1>4, <1>8, <1>9, <1>10, <1>11, <1>12 DEF RegionOK
-----------------------------------------------------------------------------
(* The list of regions: what each holds, and no two of them share a page.  *)
Elems(rs)   == {rs[i] : i \in DOMAIN rs}
RunsOf(rs)  == {r.run : r \in Elems(rs)}
PagesIn(rs) == UNION {PagesOf(r.run) : r \in Elems(rs)}
Item(r, b)  == [ptr |-> PtrOf(r, b), size |-> b.req]
LiveOf(r)   == {Item(r, b) : b \in BlocksOf(r)}
LiveIn(rs)  == UNION {LiveOf(r) : r \in Elems(rs)}
BlocksIn(rs) == UNION {BlocksOf(r) : r \in Elems(rs)}

ListOK(rs) ==
  /\ rs \in Seq(Region)
  /\ \A i \in DOMAIN rs : RegionOK(rs[i]) /\ rs[i].blocks # <<>> /\ rs[i].run.start # 0
  /\ \A i, j \in DOMAIN rs : i # j => PagesOf(rs[i].run) \cap PagesOf(rs[j].run) = {}

LEMMA ListFacts ==
  ASSUME NEW rs, ListOK(rs)
  PROVE  /\ Len(rs) \in Nat /\ DOMAIN rs = 1 .. Len(rs)
         /\ \A i \in DOMAIN rs : /\ RegionOK(rs[i]) /\ rs[i] \in Elems(rs)
                                /\ rs[i] \in Region /\ rs[i].run \in Run
         /\ \A i, j \in DOMAIN rs : i # j => rs[i].run # rs[j].run /\ rs[i] # rs[j]
<1>1. rs \in Seq(Region)
  BY DEF ListOK
<1>2. Len(rs) \in Nat /\ DOMAIN rs = 1 .. Len(rs)
  BY <1>1, LenProperties
<1>3. \A i \in DOMAIN rs : /\ RegionOK(rs[i]) /\ rs[i] \in Elems(rs)
                            /\ rs[i] \in Region /\ rs[i].run \in Run
  BY RegionTypes DEF ListOK, RegionOK, Elems
<1>4. ASSUME NEW i \in DOMAIN rs, NEW j \in DOMAIN rs, i # j
      PROVE  rs[i].run # rs[j].run /\ rs[i] # rs[j]
  <2>1. PagesOf(rs[i].run) \cap PagesOf(rs[j].run) = {}
    BY <1>4 DEF ListOK
  <2>2. rs[i].run.start \in PagesOf(rs[i].run)
    BY <1>3 DEF Run, PagesOf
  <2>3. QED
    BY <2>1, <2>2
<1>5. QED
  BY <1>2, <1>3, <1>4

(* What the callers hold, as LiveSet says it and as the lemmas do.         *)
LEMMA LiveSetIs == LiveSet = LiveIn(regions) /\ LiveSet' = LiveIn(regions')
<1>1. ASSUME NEW rs, NEW x
      PROVE  x \in LiveIn(rs) <=>
               \E i \in DOMAIN rs : \E k \in DOMAIN rs[i].blocks : x = Item(rs[i], rs[i].blocks[k])
  BY DEF LiveIn, LiveOf, Elems, BlocksOf
<1>2. ASSUME NEW x
      PROVE  x \in LiveSet <=>
               \E i \in DOMAIN regions : \E k \in DOMAIN regions[i].blocks :
                 x = Item(regions[i], regions[i].blocks[k])
  BY DEF LiveSet, Item
<1>3. ASSUME NEW x
      PROVE  x \in LiveSet' <=>
               \E i \in DOMAIN regions' : \E k \in DOMAIN regions'[i].blocks :
                 x = Item(regions'[i], regions'[i].blocks[k])
  BY DEF LiveSet, Item, PtrOf
<1>4. LiveSet = LiveIn(regions)
  BY <1>1, <1>2
<1>5. LiveSet' = LiveIn(regions')
  BY <1>1, <1>3
<1>6. QED
  BY <1>4, <1>5

(* Two runs without a common page: one ends before the other starts.       *)
LEMMA RunsApart ==
  ASSUME NEW p \in Run, NEW q \in Run, PagesOf(p) \cap PagesOf(q) = {}
  PROVE  p.start + p.count <= q.start \/ q.start + q.count <= p.start
<1>1. /\ p.start \in Nat /\ p.count \in Nat \ {0}
      /\ q.start \in Nat /\ q.count \in Nat \ {0}
  BY DEF Run
<1>2. q.start \notin PagesOf(p) \/ q.start \notin PagesOf(q)
  BY <1>1
<1>3. p.start \notin PagesOf(p) \/ p.start \notin PagesOf(q)
  BY <1>1
<1>4. QED
  BY <1>1, <1>2, <1>3 DEF PagesOf

(* Headers and payloads of live blocks share no byte, in one region or in  *)
(* two: no two blocks have the same pointer.                               *)
LEMMA ItemsApart ==
  ASSUME NEW rs, ListOK(rs), NEW r \in Elems(rs), NEW t \in Elems(rs),
         NEW b \in BlocksOf(r), NEW c \in BlocksOf(t), r # t \/ b # c
  PROVE  /\ \/ PtrOf(r, b) + b.size + BlockHeader <= PtrOf(t, c)
            \/ PtrOf(t, c) + c.size + BlockHeader <= PtrOf(r, b)
         /\ PtrOf(r, b) # PtrOf(t, c)
<1>1. PICK i \in DOMAIN rs, j \in DOMAIN rs : r = rs[i] /\ t = rs[j]
  BY DEF Elems
<1>2. PICK k \in DOMAIN r.blocks, m \in DOMAIN t.blocks : b = r.blocks[k] /\ c = t.blocks[m]
  BY DEF BlocksOf
<1>3. RegionOK(r) /\ RegionOK(t) /\ r.run \in Run /\ t.run \in Run
  BY <1>1, ListFacts
<1>4. b \in Block /\ c \in Block /\ BlockFits(r, b) /\ BlockFits(t, c)
  BY <1>2, <1>3, RegionTypes DEF RegionOK
<1>5. /\ r.run.start \in Nat /\ r.run.count \in Nat
      /\ t.run.start \in Nat /\ t.run.count \in Nat
      /\ b.off \in Nat /\ b.size \in Nat /\ c.off \in Nat /\ c.size \in Nat
  BY <1>3, <1>4 DEF Run, Block
<1>6. /\ PtrOf(r, b) = r.run.start * 4096 + b.off + 48
      /\ PtrOf(t, c) = t.run.start * 4096 + c.off + 48
  BY DEF PtrOf, PageSize, BlockHeader
<1>7. CASE r = t
  <2>1. k # m
    BY <1>2, <1>7
  <2>2. AfterBlock(b) <= c.off \/ AfterBlock(c) <= b.off
    BY <1>2, <1>3, <1>7, <2>1, BlocksApart
  <2>3. QED
    BY <1>5, <1>6, <1>7, <2>2 DEF AfterBlock, BlockHeader
<1>8. CASE r # t
  <2>1. PagesOf(r.run) \cap PagesOf(t.run) = {}
    BY <1>1, <1>8 DEF ListOK
  <2>2. \/ r.run.start + r.run.count <= t.run.start
        \/ t.run.start + t.run.count <= r.run.start
    BY <1>3, <2>1, RunsApart
  <2>3. /\ 48 <= b.off /\ b.off + 48 + b.size <= r.run.count * 4096
        /\ 48 <= c.off /\ c.off + 48 + c.size <= t.run.count * 4096
    BY <1>4 DEF BlockFits, AfterBlock, SizeOf, PageSize, RegionHeader, BlockHeader
  <2>4. QED
    BY <1>5, <1>6, <2>2, <2>3 DEF BlockHeader
<1>9. QED
  BY <1>7, <1>8

(* So a caller's item tells its block: it is in the list only once.        *)
LEMMA OtherItems ==
  ASSUME NEW rs, ListOK(rs), NEW r \in Elems(rs), NEW b \in BlocksOf(r), NEW x
  PROVE  x \in LiveIn(rs) \ {Item(r, b)} <=>
           \E t \in Elems(rs) : \E c \in BlocksOf(t) : (t # r \/ c # b) /\ x = Item(t, c)
<1>1. x \in LiveIn(rs) <=> \E t \in Elems(rs) : \E c \in BlocksOf(t) : x = Item(t, c)
  BY DEF LiveIn, LiveOf
<1>2. ASSUME NEW t \in Elems(rs), NEW c \in BlocksOf(t), t # r \/ c # b
      PROVE  Item(t, c) # Item(r, b)
  <2>1. PtrOf(t, c) # PtrOf(r, b)
    BY <1>2, ItemsApart
  <2>2. Item(t, c).ptr = PtrOf(t, c) /\ Item(r, b).ptr = PtrOf(r, b)
    BY DEF Item
  <2>3. QED
    BY <2>1, <2>2
<1>3. QED
  BY <1>1, <1>2
-----------------------------------------------------------------------------
(* One region of the list replaced by the same run with other blocks.      *)
LEMMA ReplacedList ==
  ASSUME NEW rs, ListOK(rs), NEW i \in DOMAIN rs, NEW u, NEW ss,
         RegionOK(u), u.run = rs[i].run, u.blocks # <<>>, ss = Replaced(rs, i, u)
  PROVE  /\ ListOK(ss) /\ DOMAIN ss = DOMAIN rs
         /\ \A j \in DOMAIN rs : ss[j].run = rs[j].run
         /\ Elems(ss) \ {u} = Elems(rs) \ {rs[i]} /\ u \in Elems(ss)
         /\ RunsOf(ss) = RunsOf(rs)
         /\ PagesIn(ss) = PagesIn(rs)
<1>1. /\ rs \in Seq(Region) /\ u \in Region /\ Len(rs) \in Nat /\ DOMAIN rs = 1 .. Len(rs)
  BY ListFacts DEF ListOK, RegionOK
<1>2. /\ ss \in Seq(Region) /\ DOMAIN ss = DOMAIN rs
      /\ \A j \in DOMAIN rs : ss[j] = IF j = i THEN u ELSE rs[j]
  <2>1. ss \in Seq(Region) /\ Len(ss) = Len(rs)
    BY <1>1, ExceptSeq DEF Replaced
  <2>2. QED
    BY <1>1, <2>1, LenProperties DEF Replaced
<1>3. \A j \in DOMAIN rs : ss[j].run = rs[j].run
  BY <1>2
<1>4. ListOK(ss)
  <2>1. \A j \in DOMAIN ss :
          RegionOK(ss[j]) /\ ss[j].blocks # <<>> /\ ss[j].run.start # 0
    BY <1>2 DEF ListOK
  <2>2. \A j, k \in DOMAIN ss :
          j # k => PagesOf(ss[j].run) \cap PagesOf(ss[k].run) = {}
    BY <1>2, <1>3 DEF ListOK
  <2>3. QED
    BY <1>2, <2>1, <2>2 DEF ListOK
<1>5. Elems(ss) = (Elems(rs) \ {rs[i]}) \cup {u} /\ u \in Elems(ss)
  <2>1. \A j \in DOMAIN rs : j # i => rs[j] # rs[i] /\ ss[j] = rs[j]
    BY <1>2, ListFacts
  <2>2. ss[i] = u /\ u \in Elems(ss)
    BY <1>2 DEF Elems
  <2>3. Elems(ss) \subseteq (Elems(rs) \ {rs[i]}) \cup {u}
    <3>1. \A j \in DOMAIN rs : ss[j] \in (Elems(rs) \ {rs[i]}) \cup {u}
      BY <2>1, <2>2 DEF Elems
    <3>2. QED
      BY <1>2, <3>1 DEF Elems
  <2>4. Elems(rs) \ {rs[i]} \subseteq Elems(ss)
    BY <1>2, <2>1 DEF Elems
  <2>5. QED
    BY <2>2, <2>3, <2>4
<1>6. rs[i] \in Elems(rs)
  BY DEF Elems
<1>7. RunsOf(ss) = RunsOf(rs)
  BY <1>5, <1>6 DEF RunsOf
<1>8. PagesIn(ss) = PagesIn(rs)
  BY <1>5, <1>6 DEF PagesIn
<1>9. u \notin Elems(rs) \ {rs[i]}
  BY ListFacts DEF Elems
<1>10. QED
  BY <1>2, <1>3, <1>4, <1>5, <1>7, <1>8, <1>9

(* A region more at the end of the list, on pages no other one has.        *)
LEMMA AppendedList ==
  ASSUME NEW rs, ListOK(rs), NEW u, NEW ss,
         RegionOK(u), u.blocks # <<>>, u.run.start # 0,
         \A i \in DOMAIN rs : PagesOf(rs[i].run) \cap PagesOf(u.run) = {},
         ss = Append(rs, u)
  PROVE  /\ ListOK(ss)
         /\ Elems(ss) = Elems(rs) \cup {u} /\ u \in Elems(ss) /\ u \notin Elems(rs)
         /\ RunsOf(ss) = RunsOf(rs) \cup {u.run}
         /\ PagesIn(ss) = PagesIn(rs) \cup PagesOf(u.run)
         /\ PagesIn(rs) \cap PagesOf(u.run) = {}
<1> DEFINE n == Len(rs)
<1>1. /\ rs \in Seq(Region) /\ u \in Region /\ n \in Nat /\ DOMAIN rs = 1 .. n
  BY ListFacts DEF ListOK, RegionOK
<1>2. /\ ss \in Seq(Region) /\ Len(ss) = n + 1 /\ DOMAIN ss = 1 .. n + 1
      /\ ss[n + 1] = u /\ \A j \in 1 .. n : ss[j] = rs[j]
  <2>1. /\ ss \in Seq(Region) /\ Len(ss) = n + 1
        /\ \A j \in 1 .. n + 1 : ss[j] = IF j = n + 1 THEN u ELSE rs[j]
    BY <1>1, AppendProperties
  <2>2. DOMAIN ss = 1 .. n + 1
    BY <2>1, LenProperties
  <2>3. n + 1 \in 1 .. n + 1 /\ \A j \in 1 .. n : j \in 1 .. n + 1 /\ j # n + 1
    BY <1>1
  <2>4. QED
    BY <2>1, <2>2, <2>3
<1> HIDE DEF n
<1>3. /\ \A j \in 1 .. n + 1 : j \in 1 .. n \/ j = n + 1
      /\ 1 .. n \subseteq 1 .. n + 1 /\ n + 1 \in 1 .. n + 1
  BY <1>1
<1>4. ListOK(ss)
  <2>1. \A j \in DOMAIN ss :
          RegionOK(ss[j]) /\ ss[j].blocks # <<>> /\ ss[j].run.start # 0
    BY <1>1, <1>2, <1>3 DEF ListOK
  <2>2. \A j, k \in 1 .. n : j # k => PagesOf(ss[j].run) \cap PagesOf(ss[k].run) = {}
    BY <1>1, <1>2 DEF ListOK
  <2>3. \A j \in 1 .. n : PagesOf(ss[j].run) \cap PagesOf(ss[n + 1].run) = {}
    BY <1>1, <1>2
  <2>4. \A j, k \in DOMAIN ss :
          j # k => PagesOf(ss[j].run) \cap PagesOf(ss[k].run) = {}
    BY <1>2, <1>3, <2>2, <2>3
  <2>5. QED
    BY <1>2, <2>1, <2>4 DEF ListOK
<1>5. Elems(ss) = Elems(rs) \cup {u} /\ u \in Elems(ss)
  BY <1>1, <1>2, <1>3 DEF Elems
<1>6. u \notin Elems(rs)
  <2>1. u.run \in Run
    BY <1>1, RegionTypes
  <2>2. u.run.start \in PagesOf(u.run)
    BY <2>1 DEF Run, PagesOf
  <2>3. \A i \in DOMAIN rs : rs[i] # u
    BY <2>2
  <2>4. QED
    BY <2>3 DEF Elems
<1>7. RunsOf(ss) = RunsOf(rs) \cup {u.run}
  BY <1>5 DEF RunsOf
<1>8. PagesIn(ss) = PagesIn(rs) \cup PagesOf(u.run)
  BY <1>5 DEF PagesIn
<1>9. PagesIn(rs) \cap PagesOf(u.run) = {}
  BY DEF PagesIn, Elems
<1>10. QED
  BY <1>4, <1>5, <1>6, <1>7, <1>8, <1>9

(* A region unlinked: its pages are its own.                               *)
LEMMA RemovedList ==
  ASSUME NEW rs, ListOK(rs), NEW i \in DOMAIN rs, NEW ss, ss = RemoveAt(rs, i)
  PROVE  /\ ListOK(ss)
         /\ Elems(ss) = Elems(rs) \ {rs[i]}
         /\ RunsOf(ss) = RunsOf(rs) \ {rs[i].run}
         /\ PagesIn(ss) = PagesIn(rs) \ PagesOf(rs[i].run)
         /\ PagesOf(rs[i].run) \subseteq PagesIn(rs)
<1> DEFINE n == Len(rs)
           Was(j) == IF j < i THEN j ELSE j + 1
<1>1. rs \in Seq(Region) /\ n \in Nat /\ DOMAIN rs = 1 .. n /\ i \in 1 .. n
  BY ListFacts DEF ListOK
<1>2. /\ ss \in Seq(Region) /\ DOMAIN ss = 1 .. n - 1
      /\ \A j \in 1 .. n - 1 : ss[j] = IF j < i THEN rs[j] ELSE rs[j + 1]
  <2>1. /\ ss \in Seq(Region) /\ Len(ss) = n - 1
        /\ \A j \in 1 .. n - 1 : ss[j] = IF j < i THEN rs[j] ELSE rs[j + 1]
    BY <1>1, RemoveAtFacts
  <2>2. QED
    BY <2>1, LenProperties
<1>3. \A j \in 1 .. n - 1 : Was(j) \in 1 .. n /\ Was(j) # i /\ ss[j] = rs[Was(j)]
  BY <1>1, <1>2
<1>4. \A j, k \in 1 .. n - 1 : j # k => Was(j) # Was(k)
  BY <1>1
<1>5. \A j \in 1 .. n : j # i => \E k \in 1 .. n - 1 : Was(k) = j
  <2> SUFFICES ASSUME NEW j \in 1 .. n, j # i
               PROVE  \E k \in 1 .. n - 1 : Was(k) = j
    OBVIOUS
  <2>1. CASE j < i
    <3>1. j \in 1 .. n - 1 /\ Was(j) = j
      BY <1>1, <2>1
    <3>2. QED
      BY <3>1
  <2>2. CASE j > i
    <3>1. j - 1 \in 1 .. n - 1 /\ Was(j - 1) = j
      BY <1>1, <2>2
    <3>2. QED
      BY <3>1
  <2>3. QED
    BY <1>1, <2>1, <2>2
<1> HIDE DEF n, Was
<1>6. ListOK(ss)
  <2>1. \A j \in DOMAIN ss :
          RegionOK(ss[j]) /\ ss[j].blocks # <<>> /\ ss[j].run.start # 0
    BY <1>1, <1>2, <1>3 DEF ListOK
  <2>2. ASSUME NEW j \in 1 .. n - 1, NEW k \in 1 .. n - 1, j # k
        PROVE  PagesOf(ss[j].run) \cap PagesOf(ss[k].run) = {}
    BY <1>1, <1>3, <1>4, <2>2 DEF ListOK
  <2>3. QED
    BY <1>2, <2>1, <2>2 DEF ListOK
<1>7. Elems(ss) = Elems(rs) \ {rs[i]}
  <2>1. \A j \in 1 .. n : j # i => rs[j] # rs[i] /\ rs[j] \in Elems(ss)
    <3>1. \A j \in 1 .. n - 1 : rs[Was(j)] \in Elems(ss)
      BY <1>2, <1>3 DEF Elems
    <3>2. \A j \in 1 .. n : j # i => rs[j] # rs[i]
      BY <1>1, ListFacts
    <3>3. \A j \in 1 .. n : j # i => rs[j] \in Elems(ss)
      BY <1>5, <3>1
    <3>4. QED
      BY <3>2, <3>3
  <2>2. \A j \in 1 .. n - 1 : ss[j] \in Elems(rs) \ {rs[i]}
    BY <1>1, <1>3, <2>1 DEF Elems
  <2>3. QED
    BY <1>1, <1>2, <2>1, <2>2 DEF Elems
<1>8. \A r \in Elems(rs) : r # rs[i] => /\ r.run # rs[i].run
                                       /\ PagesOf(r.run) \cap PagesOf(rs[i].run) = {}
  BY ListFacts DEF Elems, ListOK
<1>9. rs[i] \in Elems(rs)
  BY DEF Elems
<1>10. RunsOf(ss) = RunsOf(rs) \ {rs[i].run}
  BY <1>7, <1>8, <1>9 DEF RunsOf
<1>11. PagesOf(rs[i].run) \subseteq PagesIn(rs)
  BY <1>9 DEF PagesIn
<1>12. PagesIn(ss) = PagesIn(rs) \ PagesOf(rs[i].run)
  BY <1>7, <1>8, <1>9 DEF PagesIn
<1>13. QED
  BY <1>6, <1>7, <1>10, <1>11, <1>12

(* A block placed in a region, or read backwards one unlinked from it: the *)
(* callers hold one item more, and the same others.                        *)
LEMMA LiveOneMore ==
  ASSUME NEW rs, NEW ss, ListOK(ss), NEW r \in Elems(rs), NEW u \in Elems(ss),
         Elems(rs) \ {r} = Elems(ss) \ {u}, u.run = r.run,
         NEW b, b \notin BlocksOf(r), BlocksOf(u) = BlocksOf(r) \cup {b}
  PROVE  Item(u, b) \in LiveIn(ss) /\ LiveIn(rs) = LiveIn(ss) \ {Item(u, b)}
<1>1. \A c : Item(u, c) = Item(r, c)
  BY DEF Item, PtrOf
<1>2. ASSUME NEW x
      PROVE  x \in LiveIn(rs) <=> x \in LiveIn(ss) \ {Item(u, b)}
  <2>1. x \in LiveIn(rs) <=> \E t \in Elems(rs) : \E c \in BlocksOf(t) : x = Item(t, c)
    BY DEF LiveIn, LiveOf
  <2>2. x \in LiveIn(ss) \ {Item(u, b)} <=>
          \E t \in Elems(ss) : \E c \in BlocksOf(t) : (t # u \/ c # b) /\ x = Item(t, c)
    BY OtherItems
  <2>3. (\E t \in Elems(rs) : \E c \in BlocksOf(t) : x = Item(t, c)) <=>
          \/ \E t \in Elems(rs) \ {r} : \E c \in BlocksOf(t) : x = Item(t, c)
          \/ \E c \in BlocksOf(r) : x = Item(r, c)
    OBVIOUS
  <2>4. (\E t \in Elems(ss) : \E c \in BlocksOf(t) : (t # u \/ c # b) /\ x = Item(t, c)) <=>
          \/ \E t \in Elems(ss) \ {u} : \E c \in BlocksOf(t) : x = Item(t, c)
          \/ \E c \in BlocksOf(u) \ {b} : x = Item(u, c)
    OBVIOUS
  <2>5. BlocksOf(u) \ {b} = BlocksOf(r)
    OBVIOUS
  <2>6. QED
    BY <1>1, <2>1, <2>2, <2>3, <2>4, <2>5
<1>3. Item(u, b) \in LiveIn(ss)
  BY DEF LiveIn, LiveOf
<1>4. QED
  BY <1>2, <1>3

(* A block exchanged for another one in the same region.                   *)
LEMMA LiveSwap ==
  ASSUME NEW rs, NEW ss, ListOK(rs), ListOK(ss), NEW r \in Elems(rs), NEW u \in Elems(ss),
         Elems(rs) \ {r} = Elems(ss) \ {u}, u.run = r.run,
         NEW b \in BlocksOf(r), NEW c \in BlocksOf(u), BlocksOf(r) \ {b} = BlocksOf(u) \ {c}
  PROVE  /\ Item(r, b) \in LiveIn(rs) /\ Item(u, c) \in LiveIn(ss)
         /\ LiveIn(rs) \ {Item(r, b)} = LiveIn(ss) \ {Item(u, c)}
<1>1. \A d : Item(u, d) = Item(r, d)
  BY DEF Item, PtrOf
<1>2. ASSUME NEW x
      PROVE  x \in LiveIn(rs) \ {Item(r, b)} <=> x \in LiveIn(ss) \ {Item(u, c)}
  <2>1. x \in LiveIn(rs) \ {Item(r, b)} <=>
          \E t \in Elems(rs) : \E d \in BlocksOf(t) : (t # r \/ d # b) /\ x = Item(t, d)
    BY OtherItems
  <2>2. x \in LiveIn(ss) \ {Item(u, c)} <=>
          \E t \in Elems(ss) : \E d \in BlocksOf(t) : (t # u \/ d # c) /\ x = Item(t, d)
    BY OtherItems
  <2>3. (\E t \in Elems(rs) : \E d \in BlocksOf(t) : (t # r \/ d # b) /\ x = Item(t, d)) <=>
          \/ \E t \in Elems(rs) \ {r} : \E d \in BlocksOf(t) : x = Item(t, d)
          \/ \E d \in BlocksOf(r) \ {b} : x = Item(r, d)
    OBVIOUS
  <2>4. (\E t \in Elems(ss) : \E d \in BlocksOf(t) : (t # u \/ d # c) /\ x = Item(t, d)) <=>
          \/ \E t \in Elems(ss) \ {u} : \E d \in BlocksOf(t) : x = Item(t, d)
          \/ \E d \in BlocksOf(u) \ {c} : x = Item(u, d)
    OBVIOUS
  <2>5. QED
    BY <1>1, <2>1, <2>2, <2>3, <2>4
<1>3. Item(r, b) \in LiveIn(rs) /\ Item(u, c) \in LiveIn(ss)
  BY DEF LiveIn, LiveOf
<1>4. QED
  BY <1>2, <1>3

(* A region with a single block created, or read backwards destroyed.      *)
LEMMA LiveWholeRegion ==
  ASSUME NEW rs, NEW ss, ListOK(ss), NEW u \in Elems(ss), Elems(rs) = Elems(ss) \ {u},
         NEW b, BlocksOf(u) = {b}
  PROVE  Item(u, b) \in LiveIn(ss) /\ LiveIn(rs) = LiveIn(ss) \ {Item(u, b)}
<1>1. ASSUME NEW x
      PROVE  x \in LiveIn(rs) <=> x \in LiveIn(ss) \ {Item(u, b)}
  <2>1. x \in LiveIn(rs) <=> \E t \in Elems(rs) : \E c \in BlocksOf(t) : x = Item(t, c)
    BY DEF LiveIn, LiveOf
  <2>2. x \in LiveIn(ss) \ {Item(u, b)} <=>
          \E t \in Elems(ss) : \E c \in BlocksOf(t) : (t # u \/ c # b) /\ x = Item(t, c)
    BY OtherItems
  <2>3. QED
    BY <2>1, <2>2
<1>2. Item(u, b) \in LiveIn(ss)
  BY DEF LiveIn, LiveOf
<1>3. QED
  BY <1>1, <1>2

(* One more or one less, counted.                                          *)
LEMMA CountOneMore ==
  ASSUME NEW S, NEW T, NEW x, x \in T, S = T \ {x}, IsFiniteSet(S)
  PROVE  IsFiniteSet(T) /\ Cardinality(T) = Cardinality(S) + 1
<1>1. T = S \cup {x} /\ x \notin S
  OBVIOUS
<1>2. QED
  BY <1>1, FS_AddElement

LEMMA CountOneLess ==
  ASSUME NEW S, NEW T, NEW x, x \in S, T = S \ {x}, IsFiniteSet(S)
  PROVE  /\ IsFiniteSet(T) /\ Cardinality(T) = Cardinality(S) - 1
         /\ Cardinality(T) \in Nat /\ Cardinality(S) \in Nat
<1>1. IsFiniteSet(T) /\ Cardinality(T) = Cardinality(S) - 1
  BY FS_RemoveElement
<1>2. QED
  BY <1>1, FS_CardinalityType

(* The bytes of a run more, or less, on pages that are only its own.       *)
LEMMA CountRun ==
  ASSUME NEW S, NEW T, NEW r \in Run, IsFiniteSet(S),
         T = S \cup PagesOf(r), S \cap PagesOf(r) = {}
  PROVE  IsFiniteSet(T) /\ Cardinality(T) = Cardinality(S) + r.count
<1>1. IsFiniteSet(PagesOf(r)) /\ Cardinality(PagesOf(r)) = r.count
  BY RunSize
<1>2. /\ IsFiniteSet(T)
      /\ Cardinality(T) =
           Cardinality(S) + Cardinality(PagesOf(r)) - Cardinality(S \cap PagesOf(r))
  BY <1>1, FS_Union
<1>3. Cardinality(S \cap PagesOf(r)) = 0
  BY FS_EmptySet
<1>4. Cardinality(S) \in Nat /\ r.count \in Nat
  BY FS_CardinalityType DEF Run
<1>5. QED
  BY <1>1, <1>2, <1>3, <1>4
-----------------------------------------------------------------------------
(* The inductive invariant.  Beside the page allocator's own it says whose *)
(* the runs are that clients hold, and what the two counters count that    *)
(* kfree subtracts from: live blocks and pages of regions.                 *)
OwnersOK ==
  /\ owned = RunsOf(regions) \cup dmaRuns
  /\ RunsOf(regions) \cap dmaRuns = {}

CountsOK ==
  /\ IsFiniteSet(LiveIn(regions)) /\ IsFiniteSet(PagesIn(regions))
  /\ liveAllocations = Cardinality(LiveIn(regions))
  /\ totalRegionBytes = PageSize * Cardinality(PagesIn(regions))

ScalarsOK ==
  /\ best \in Nat /\ growing \in Nat
  /\ inUseBytes \in 0 .. (WordSize - 1) /\ peakInUseBytes \in 0 .. (WordSize - 1)
  /\ dmaReady \in BOOLEAN /\ dmaRuns \subseteq Run

HeapInv == PhysIInv /\ ListOK(regions) /\ OwnersOK /\ CountsOK /\ ScalarsOK /\ HintValid

LEMMA HeapInitInv == HeapInit => HeapInv
<1> SUFFICES ASSUME HeapInit PROVE HeapInv
  OBVIOUS
<1>1. PhysIInv
  BY InitInv DEF HeapInit
<1>2. regions = <<>> /\ Elems(regions) = {}
  BY DEF HeapInit, Elems
<1>3. PagesIn(regions) = {} /\ LiveIn(regions) = {} /\ RunsOf(regions) = {}
  BY <1>2 DEF PagesIn, LiveIn, RunsOf
<1>4. ListOK(regions)
  BY <1>2 DEF ListOK
<1>5. OwnersOK
  BY <1>3 DEF OwnersOK, HeapInit, PhysInit
<1>6. CountsOK
  <2>1. IsFiniteSet({}) /\ Cardinality({}) = 0
    BY FS_EmptySet
  <2>2. IsFiniteSet(LiveIn(regions)) /\ IsFiniteSet(PagesIn(regions))
    BY <1>3, <2>1
  <2>3. Cardinality(LiveIn(regions)) = 0 /\ PageSize * Cardinality(PagesIn(regions)) = 0
    BY <1>3, <2>1 DEF PageSize
  <2>4. liveAllocations = 0 /\ totalRegionBytes = 0
    BY DEF HeapInit
  <2>5. QED
    BY <2>2, <2>3, <2>4 DEF CountsOK
<1>7. ScalarsOK
  <2>1. 0 \in Nat /\ 0 \in 0 .. (WordSize - 1)
    BY HeapAssumption
  <2>2. /\ best = 0 /\ growing = 0 /\ inUseBytes = 0 /\ peakInUseBytes = 0
        /\ dmaReady = FALSE /\ dmaRuns = {}
    BY DEF HeapInit
  <2>3. QED
    BY <2>1, <2>2 DEF ScalarsOK
<1>8. HintValid
  BY <1>2 DEF HintValid, HeapInit
<1>9. QED
  BY <1>1, <1>4, <1>5, <1>6, <1>7, <1>8 DEF HeapInv

(* refresh_best_hint leaves a hint on a region that is there.              *)
LEMMA RefreshedHint ==
  ASSUME ListOK(regions'), RefreshBestHint
  PROVE  best' \in Nat /\ HintValid'
<1>1. \A i \in DOMAIN regions' : /\ FreeBytes(regions'[i]) \in Nat
                                 /\ regions'[i].run.start \in Nat
                                 /\ regions'[i].run.start # 0
  <2>1. ASSUME NEW i \in DOMAIN regions'
        PROVE  /\ FreeBytes(regions'[i]) \in Nat /\ regions'[i].run.start \in Nat
               /\ regions'[i].run.start # 0
    <3>1. RegionOK(regions'[i]) /\ regions'[i].run \in Run
      BY ListFacts
    <3>2. QED
      BY <3>1, RegionFacts DEF ListOK, Run
  <2>2. QED
    BY <2>1
<1>2. IsBest(regions', best')
  BY DEF RefreshBestHint
<1>3. CASE best' = 0
  BY <1>1, <1>2, <1>3 DEF IsBest, HintValid
<1>4. CASE best' # 0
  BY <1>1, <1>2, <1>4 DEF IsBest, HintValid
<1>5. QED
  BY <1>3, <1>4

(* Where the hint is left alone: no region moved, none got fuller or gone. *)
LEMMA KeptHint ==
  ASSUME HintValid, UNCHANGED best, DOMAIN regions' = DOMAIN regions,
         \A i \in DOMAIN regions : regions'[i].run = regions[i].run,
         best # 0 \/ \A i \in DOMAIN regions : regions'[i].usage = regions[i].usage
  PROVE  HintValid'
BY DEF HintValid, FreeBytes, SizeOf

LEMMA HoleTypes ==
  ASSUME NEW r, RegionOK(r), NEW k \in 0 .. Len(r.blocks)
  PROVE  HoleStart(r, k) \in Nat /\ HoleEnd(r, k) \in Nat
<1>1. /\ Len(r.blocks) \in Nat /\ SizeOf(r) \in Nat
      /\ \A j \in 1 .. Len(r.blocks) : /\ r.blocks[j].off \in Nat
                                       /\ AfterBlock(r.blocks[j]) \in Nat
  <2>1. /\ Len(r.blocks) \in Nat /\ SizeOf(r) \in Nat
        /\ \A j \in 1 .. Len(r.blocks) : r.blocks[j] \in Block
    BY RegionTypes DEF RegionOK
  <2>2. \A b \in Block : b.off \in Nat /\ AfterBlock(b) \in Nat
    BY DEF Block, AfterBlock, BlockHeader
  <2>3. QED
    BY <2>1, <2>2
<1>2. (k # 0 => k \in 1 .. Len(r.blocks)) /\ (k # Len(r.blocks) => k + 1 \in 1 .. Len(r.blocks))
  BY <1>1
<1>3. QED
  BY <1>1, <1>2 DEF HoleStart, HoleEnd, RegionHeader

(* What the counters of the statistics do when a block is placed.          *)
LEMMA CountedTypes ==
  ASSUME ScalarsOK, NEW size \in Nat, Counted(size)
  PROVE  inUseBytes' \in 0 .. (WordSize - 1) /\ peakInUseBytes' \in 0 .. (WordSize - 1)
<1>1. WordSize \in Nat \ {0}
  BY HeapAssumption
<1>2. inUseBytes + size \in Nat
  BY DEF ScalarsOK
<1>3. (inUseBytes + size) % WordSize \in 0 .. (WordSize - 1)
  BY <1>1, <1>2
<1>4. QED
  BY <1>3 DEF ScalarsOK, Counted

(* The new block of a caller: apart from all others, the rest as before.   *)
NewBlock(size) ==
  \E u \in Elems(regions') : \E b \in BlocksOf(u) :
    /\ b.size = Payload(size) /\ b.req = ReqSize(size)
    /\ Item(u, b) \in LiveIn(regions') /\ LiveIn(regions) = LiveIn(regions') \ {Item(u, b)}
    /\ BlocksIn(regions') = BlocksIn(regions) \cup {b}

(* A list with one item more, or one less, and the counters that follow.   *)
LEMMA PlacedCounts ==
  ASSUME CountsOK, NEW x, x \in LiveIn(regions'), LiveIn(regions) = LiveIn(regions') \ {x},
         liveAllocations' = liveAllocations + 1,
         PagesIn(regions') = PagesIn(regions), UNCHANGED totalRegionBytes
  PROVE  CountsOK'
<1>1. /\ IsFiniteSet(LiveIn(regions'))
      /\ Cardinality(LiveIn(regions')) = Cardinality(LiveIn(regions)) + 1
  BY CountOneMore DEF CountsOK
<1>2. QED
  BY <1>1 DEF CountsOK

(* place_block in a region of the list.                                    *)
LEMMA PlaceInRegionInv ==
  ASSUME HeapInv, NEW size \in Nat, PlaceInRegion(size), growing' \in Nat, UNCHANGED dmaVars
  PROVE  HeapInv' /\ NewBlock(size)
<1>1. /\ PhysIInv /\ ListOK(regions) /\ OwnersOK /\ CountsOK /\ ScalarsOK /\ HintValid
      /\ UNCHANGED physVars /\ UNCHANGED <<owned, totalRegionBytes, dmaReady, dmaRuns>>
  BY DEF HeapInv, PlaceInRegion, dmaVars, physVars
<1>2. PICK i \in DOMAIN regions :
        /\ \E m \in 0 .. Len(regions[i].blocks) :
             /\ FirstHole(regions[i], m, Payload(size))
             /\ regions' = [regions EXCEPT ![i] = Placed(regions[i], m, size)]
        /\ IF regions[i].run.start = best THEN UNCHANGED best ELSE RefreshBestHint
  BY DEF PlaceInRegion
<1>hole. PICK k \in 0 .. Len(regions[i].blocks) :
        /\ FirstHole(regions[i], k, Payload(size))
        /\ regions' = [regions EXCEPT ![i] = Placed(regions[i], k, size)]
  BY <1>2
<1> DEFINE r == regions[i]
           b == [off |-> HoleStart(r, k), size |-> Payload(size), req |-> ReqSize(size)]
<1>3. RegionOK(r) /\ r.blocks # <<>> /\ r \in Elems(regions)
  BY <1>1, ListFacts DEF ListOK
<1>4. /\ HoleStart(r, k) \in Nat /\ HoleEnd(r, k) \in Nat
      /\ HoleEnd(r, k) - HoleStart(r, k) >= BlockHeader + Payload(size)
  BY <1>hole, <1>3, HoleTypes DEF FirstHole, Fits
<1>5. Payload(size) \in Nat /\ Payload(size) % Alignment = 0
  BY PayloadFacts
<1>6. ReqSize(size) \in Nat
  BY HeapAssumption DEF ReqSize
<1>7. b \in Block /\ b.off = HoleStart(r, k) /\ b.size = Payload(size)
  BY <1>4, <1>5, <1>6 DEF Block
<1>8. AfterBlock(b) <= HoleEnd(r, k)
  BY <1>4, <1>5, <1>7 DEF AfterBlock, BlockHeader
<1>9. PICK u : u = Placed(r, k, size) /\ u = Inserted(r, k, b)
  BY DEF Placed, Inserted
<1> HIDE DEF b, r
<1>10. /\ RegionOK(u) /\ u.run = r.run /\ u.blocks # <<>> /\ BlocksOf(u) = BlocksOf(r) \cup {b}
       /\ \A c \in BlocksOf(r) : AfterBlock(c) <= b.off \/ AfterBlock(b) <= c.off
  <2>1. k \in 0 .. Len(r.blocks) /\ b.size % Alignment = 0
    BY <1>5, <1>7 DEF r
  <2>2. QED
    BY <1>3, <1>7, <1>8, <1>9, <2>1, PlacedOK
<1>11. b \notin BlocksOf(r)
  BY <1>7, <1>10 DEF AfterBlock, BlockHeader, Block
<1>12. regions' = Replaced(regions, i, u)
  BY <1>hole, <1>9 DEF r, Replaced
<1>13. /\ ListOK(regions') /\ DOMAIN regions' = DOMAIN regions
       /\ \A j \in DOMAIN regions : regions'[j].run = regions[j].run
       /\ Elems(regions') \ {u} = Elems(regions) \ {r} /\ u \in Elems(regions')
       /\ RunsOf(regions') = RunsOf(regions) /\ PagesIn(regions') = PagesIn(regions)
  <2>1. ListOK(regions) /\ RegionOK(u) /\ u.run = regions[i].run /\ u.blocks # <<>>
    BY <1>1, <1>10 DEF r
  <2>2. QED
    BY <1>12, <2>1, ReplacedList DEF r
<1>14. Item(u, b) \in LiveIn(regions') /\ LiveIn(regions) = LiveIn(regions') \ {Item(u, b)}
  BY <1>3, <1>10, <1>11, <1>13, LiveOneMore
<1>15. PhysIInv'
  BY <1>1, NextInv
<1>16. OwnersOK'
  BY <1>1, <1>13 DEF OwnersOK
<1>17. CountsOK'
  <2>1. liveAllocations' = liveAllocations + 1
    BY DEF PlaceInRegion, Counted
  <2>2. QED
    BY <1>1, <1>13, <1>14, <2>1, PlacedCounts
<1>18. best' \in Nat /\ HintValid'
  <2>1. CASE regions[i].run.start = best
    <3>1. UNCHANGED best /\ best # 0
      BY <1>1, <1>2, <2>1 DEF ListOK
    <3>2. QED
      BY <1>1, <1>13, <3>1, KeptHint DEF ScalarsOK
  <2>2. CASE regions[i].run.start # best
    BY <1>2, <1>13, <2>2, RefreshedHint
  <2>3. QED
    BY <2>1, <2>2
<1>19. ScalarsOK'
  <2>1. inUseBytes' \in 0 .. (WordSize - 1) /\ peakInUseBytes' \in 0 .. (WordSize - 1)
    BY <1>1, CountedTypes DEF PlaceInRegion
  <2>2. QED
    BY <1>1, <1>18, <2>1 DEF ScalarsOK
<1>20. BlocksIn(regions') = BlocksIn(regions) \cup {b}
  BY <1>3, <1>10, <1>13 DEF BlocksIn
<1>21. NewBlock(size)
  <2>1. b.req = ReqSize(size) /\ b \in BlocksOf(u)
    BY <1>10 DEF b
  <2>2. QED
    BY <1>7, <1>13, <1>14, <1>20, <2>1 DEF NewBlock
<1>22. QED
  BY <1>13, <1>15, <1>16, <1>17, <1>18, <1>19, <1>21 DEF HeapInv

(* Pages just granted belong to nobody, and page 0 is not among them.      *)
LEMMA GrantedApart ==
  ASSUME PhysIInv, NEW run \in Run, Take(run)
  PROVE  /\ run.start # 0 /\ run \notin owned
         /\ \A p \in owned : PagesOf(p) \cap PagesOf(run) = {}
         /\ PhysIInv' /\ owned' = owned \cup {run}
<1>1. phase = "ready" /\ Grant(run) /\ owned' = owned \cup {run}
  BY DEF Take, Grant
<1>2. PagesOf(run) \subseteq Pages \ bitmap
  BY <1>1, ReadyFacts, GrantIsFree DEF PhysIInv
<1>3. run.start \in PagesOf(run)
  BY DEF Run, PagesOf
<1>4. run.start # 0
  BY <1>1, <1>2, <1>3, ReadyFacts
<1>5. \A p \in owned : PagesOf(p) \subseteq bitmap
  BY <1>1 DEF PhysIInv, BitmapExact, OwnedPages
<1>6. \A p \in owned : PagesOf(p) \cap PagesOf(run) = {}
  BY <1>2, <1>5
<1>7. QED
  BY <1>1, <1>3, <1>4, <1>6, TakeInv

(* create_region and place_block in what it made.                          *)
LEMMA PlaceInNewRegionInv ==
  ASSUME HeapInv, NEW size \in Nat, PlaceInNewRegion(size), growing' \in Nat,
         UNCHANGED dmaVars
  PROVE  HeapInv' /\ NewBlock(size)
<1>1. /\ PhysIInv /\ ListOK(regions) /\ OwnersOK /\ CountsOK /\ ScalarsOK /\ HintValid
      /\ UNCHANGED <<dmaReady, dmaRuns>>
  BY DEF HeapInv, dmaVars
<1> DEFINE count == RegionPages(Payload(size))
           b == [off |-> RegionHeader, size |-> Payload(size), req |-> ReqSize(size)]
           Run1(s)  == [start |-> s, count |-> count]
           Empty(s) == [run |-> Run1(s), usage |-> RegionHeader, blocks |-> <<>>]
<1>2. PICK s \in Pages :
        /\ Take(Run1(s)) /\ regions' = Append(regions, Placed(Empty(s), 0, size))
        /\ totalRegionBytes' = totalRegionBytes + SizeOf(Empty(s))
  BY DEF PlaceInNewRegion
<1>3. /\ Payload(size) \in Nat /\ Payload(size) % Alignment = 0
      /\ count \in Nat \ {0} /\ RegionHeader + BlockHeader + Payload(size) <= count * PageSize
  BY PayloadFacts, RegionPagesFacts
<1>4. ReqSize(size) \in Nat
  BY HeapAssumption DEF ReqSize
<1> HIDE DEF count
<1>5. PICK run \in Run : run = Run1(s)
  <2>1. s \in Nat
    BY <1>1 DEF Pages, PhysIInv, PhysTypeOK
  <2>2. QED
    BY <1>3, <2>1 DEF Run
<1>6. PICK r : r = Empty(s) /\ r.run = run /\ r.usage = RegionHeader /\ r.blocks = <<>>
  <2>1. PICK r : r = Empty(s)
    OBVIOUS
  <2>2. r.run = run /\ r.usage = RegionHeader /\ r.blocks = <<>>
    BY <1>5, <2>1
  <2>3. QED
    BY <2>1, <2>2
<1>7. /\ b \in Block /\ b.off = RegionHeader /\ b.size = Payload(size)
  BY <1>3, <1>4 DEF Block, RegionHeader
<1>8. RegionOK(r)
  <2>1. r \in Region
    BY <1>5, <1>6 DEF Region, RegionHeader
  <2>2. BlocksOf(r) = {} /\ Covered(r) = {}
    BY <1>6 DEF BlocksOf, Covered
  <2>3. InOrder(r)
    BY <1>6 DEF InOrder
  <2>4. Cardinality(Covered(r)) = 0
    BY <2>2, FS_EmptySet
  <2>5. QED
    BY <1>6, <2>1, <2>2, <2>3, <2>4 DEF RegionOK, RegionHeader
<1>9. Len(r.blocks) = 0 /\ HoleStart(r, 0) = RegionHeader /\ HoleEnd(r, 0) = SizeOf(r)
  BY <1>6 DEF HoleStart, HoleEnd
<1>10. SizeOf(r) = count * PageSize
  BY <1>5, <1>6 DEF SizeOf
<1>11. AfterBlock(b) <= HoleEnd(r, 0)
  <2>1. count * PageSize \in Nat
    BY <1>3 DEF PageSize
  <2>2. AfterBlock(b) = RegionHeader + BlockHeader + Payload(size)
    BY <1>3, <1>7 DEF AfterBlock, RegionHeader, BlockHeader
  <2>3. QED
    BY <1>3, <1>9, <1>10, <2>2
<1>12. PICK u : u = Placed(r, 0, size) /\ u = Inserted(r, 0, b)
  BY <1>9 DEF Placed, Inserted
<1> HIDE DEF b, Run1, Empty
<1>13. /\ RegionOK(u) /\ u.run = run /\ u.blocks # <<>> /\ BlocksOf(u) = BlocksOf(r) \cup {b}
  <2>1. 0 \in 0 .. Len(r.blocks) /\ b.off = HoleStart(r, 0) /\ b.size % Alignment = 0
    BY <1>3, <1>7, <1>9
  <2>2. QED
    BY <1>6, <1>7, <1>8, <1>11, <1>12, <2>1, PlacedOK
<1>14. BlocksOf(u) = {b}
  <2>1. BlocksOf(r) = {}
    BY <1>6 DEF BlocksOf
  <2>2. QED
    BY <1>13, <2>1
<1>15. regions' = Append(regions, u)
  BY <1>2, <1>6, <1>12
<1>16. /\ run.start # 0 /\ run \notin owned /\ PhysIInv' /\ owned' = owned \cup {run}
       /\ \A p \in owned : PagesOf(p) \cap PagesOf(run) = {}
  BY <1>1, <1>2, <1>5, GrantedApart
<1>17. \A i \in DOMAIN regions : PagesOf(regions[i].run) \cap PagesOf(u.run) = {}
  BY <1>1, <1>13, <1>16 DEF OwnersOK, RunsOf, Elems
<1>18. /\ ListOK(regions')
       /\ Elems(regions') = Elems(regions) \cup {u} /\ u \in Elems(regions')
       /\ u \notin Elems(regions) /\ RunsOf(regions') = RunsOf(regions) \cup {run}
       /\ PagesIn(regions') = PagesIn(regions) \cup PagesOf(run)
       /\ PagesIn(regions) \cap PagesOf(run) = {}
  <2>1. u.run.start # 0
    BY <1>13, <1>16
  <2>2. ListOK(regions) /\ RegionOK(u) /\ u.blocks # <<>>
    BY <1>1, <1>13
  <2>3. /\ ListOK(regions')
        /\ Elems(regions') = Elems(regions) \cup {u} /\ u \in Elems(regions')
        /\ u \notin Elems(regions) /\ RunsOf(regions') = RunsOf(regions) \cup {u.run}
        /\ PagesIn(regions') = PagesIn(regions) \cup PagesOf(u.run)
        /\ PagesIn(regions) \cap PagesOf(u.run) = {}
    BY ONLY <1>15, <1>17, <2>1, <2>2, AppendedList
  <2>4. QED
    BY <1>13, <2>3
<1>19. OwnersOK'
  BY <1>1, <1>16, <1>18 DEF OwnersOK
<1>20. CountsOK'
  <2>1. Item(u, b) \in LiveIn(regions') /\ LiveIn(regions) = LiveIn(regions') \ {Item(u, b)}
    <3>1. Elems(regions) = Elems(regions') \ {u}
      BY <1>18
    <3>2. QED
      <4>1. ListOK(regions') /\ u \in Elems(regions')
        BY <1>18
      <4>2. QED
        BY ONLY <1>14, <3>1, <4>1, LiveWholeRegion
  <2>2. /\ IsFiniteSet(LiveIn(regions'))
        /\ Cardinality(LiveIn(regions')) = Cardinality(LiveIn(regions)) + 1
    BY <1>1, <2>1, CountOneMore DEF CountsOK
  <2>3. /\ IsFiniteSet(PagesIn(regions'))
        /\ Cardinality(PagesIn(regions')) = Cardinality(PagesIn(regions)) + run.count
    BY <1>1, <1>18, CountRun DEF CountsOK
  <2>4. Cardinality(PagesIn(regions)) \in Nat /\ run.count \in Nat
    BY <1>1, FS_CardinalityType DEF CountsOK, Run
  <2>5. totalRegionBytes' = totalRegionBytes + run.count * PageSize
    BY <1>2, <1>6 DEF SizeOf
  <2>6. totalRegionBytes' = PageSize * Cardinality(PagesIn(regions'))
    BY <1>1, <2>3, <2>4, <2>5 DEF CountsOK, PageSize
  <2>7. liveAllocations' = liveAllocations + 1
    BY DEF PlaceInNewRegion, Counted
  <2>8. QED
    BY <1>1, <2>2, <2>3, <2>6, <2>7 DEF CountsOK
<1>21. best' \in Nat /\ HintValid'
  BY <1>18, RefreshedHint DEF PlaceInNewRegion
<1>22. ScalarsOK'
  <2>1. inUseBytes' \in 0 .. (WordSize - 1) /\ peakInUseBytes' \in 0 .. (WordSize - 1)
    BY <1>1, CountedTypes DEF PlaceInNewRegion
  <2>2. QED
    BY <1>1, <1>21, <2>1 DEF ScalarsOK
<1>23. NewBlock(size)
  <2>1. Item(u, b) \in LiveIn(regions') /\ LiveIn(regions) = LiveIn(regions') \ {Item(u, b)}
    <3>1. Elems(regions) = Elems(regions') \ {u} /\ ListOK(regions') /\ u \in Elems(regions')
      BY <1>18
    <3>2. QED
      BY ONLY <1>14, <3>1, LiveWholeRegion
  <2>2. BlocksIn(regions') = BlocksIn(regions) \cup {b}
    BY <1>14, <1>18 DEF BlocksIn
  <2>3. b.req = ReqSize(size) /\ b \in BlocksOf(u)
    BY <1>14 DEF b
  <2>4. QED
    BY <1>7, <1>18, <2>1, <2>2, <2>3 DEF NewBlock
<1>24. QED
  BY <1>16, <1>18, <1>19, <1>20, <1>21, <1>22, <1>23 DEF HeapInv

(* kfree of the only block of a region, with destroy_region.               *)
LEMMA DestroyFacts ==
  ASSUME HeapInv, NEW i \in DOMAIN regions, NEW k \in DOMAIN regions[i].blocks,
         Len(regions[i].blocks) = 1, DestroyRegion(i), UNCHANGED dmaVars,
         liveAllocations' = liveAllocations - 1
  PROVE  /\ PhysIInv' /\ ListOK(regions') /\ OwnersOK' /\ CountsOK'
         /\ Item(regions[i], regions[i].blocks[k]) \in LiveIn(regions)
         /\ LiveIn(regions') = LiveIn(regions) \ {Item(regions[i], regions[i].blocks[k])}
         /\ BlocksIn(regions') \subseteq BlocksIn(regions)
<1>1. /\ PhysIInv /\ ListOK(regions) /\ OwnersOK /\ CountsOK /\ UNCHANGED dmaRuns
  BY DEF HeapInv, dmaVars
<1>2. PICK r : r = regions[i]
  OBVIOUS
<1>3. PICK b : b = r.blocks[k]
  OBVIOUS
<1>4. /\ RegionOK(r) /\ r \in Elems(regions) /\ r.run \in Run
  BY <1>1, <1>2, ListFacts
<1>5. /\ ListOK(regions') /\ Elems(regions') = Elems(regions) \ {r}
      /\ RunsOf(regions') = RunsOf(regions) \ {r.run}
      /\ PagesIn(regions') = PagesIn(regions) \ PagesOf(r.run)
      /\ PagesOf(r.run) \subseteq PagesIn(regions)
  <2>1. regions' = RemoveAt(regions, i) /\ ListOK(regions)
    BY <1>1 DEF DestroyRegion
  <2>2. QED
    BY ONLY <1>2, <2>1, i \in DOMAIN regions, RemovedList
<1>6. r.run \in RunsOf(regions) /\ r.run \in owned /\ r.run \notin dmaRuns
  BY <1>1, <1>4 DEF RunsOf, OwnersOK
<1>7. FreePages(r.run) /\ totalRegionBytes' = totalRegionBytes - SizeOf(r)
  BY <1>2 DEF DestroyRegion
<1>8. PhysIInv'
  BY <1>1, <1>6, <1>7, FreeInv
<1>9. OwnersOK'
  BY <1>1, <1>5, <1>6, <1>7 DEF OwnersOK, FreePages
<1>10. BlocksOf(r) = {b}
  <2>1. DOMAIN r.blocks = 1 .. 1
    BY <1>2, <1>4, RegionTypes DEF RegionOK
  <2>2. k = 1 /\ \A j \in DOMAIN r.blocks : j = 1
    BY <1>2, <2>1
  <2>3. QED
    BY <1>2, <1>3, <2>2 DEF BlocksOf
<1>11. Item(r, b) \in LiveIn(regions) /\ LiveIn(regions') = LiveIn(regions) \ {Item(r, b)}
  BY ONLY <1>1, <1>4, <1>5, <1>10, LiveWholeRegion
<1>12. CountsOK'
  <2>1. /\ IsFiniteSet(LiveIn(regions'))
        /\ Cardinality(LiveIn(regions')) = Cardinality(LiveIn(regions)) - 1
    BY <1>1, <1>11, CountOneLess DEF CountsOK
  <2>2. IsFiniteSet(PagesIn(regions'))
    BY <1>1, <1>5, FS_Subset DEF CountsOK
  <2>3. /\ PagesIn(regions) = PagesIn(regions') \cup PagesOf(r.run)
        /\ PagesIn(regions') \cap PagesOf(r.run) = {}
    BY <1>5
  <2>4. Cardinality(PagesIn(regions)) = Cardinality(PagesIn(regions')) + r.run.count
    BY <1>4, <2>2, <2>3, CountRun
  <2>5. Cardinality(PagesIn(regions')) \in Nat /\ r.run.count \in Nat
    BY <1>4, <2>2, FS_CardinalityType DEF Run
  <2>6. totalRegionBytes' = PageSize * Cardinality(PagesIn(regions'))
    BY <1>1, <1>7, <2>4, <2>5 DEF CountsOK, SizeOf, PageSize
  <2>7. QED
    BY <1>1, <2>1, <2>2, <2>6 DEF CountsOK
<1>13. BlocksIn(regions') \subseteq BlocksIn(regions)
  BY <1>5 DEF BlocksIn
<1>14. QED
  BY <1>2, <1>3, <1>5, <1>8, <1>9, <1>11, <1>12, <1>13

(* kfree of one of several blocks.                                         *)
LEMMA UnlinkFacts ==
  ASSUME HeapInv, NEW i \in DOMAIN regions, NEW k \in DOMAIN regions[i].blocks,
         Len(regions[i].blocks) # 1, UnlinkBlock(i, k), UNCHANGED dmaVars,
         liveAllocations' = liveAllocations - 1
  PROVE  /\ PhysIInv' /\ ListOK(regions') /\ OwnersOK' /\ CountsOK'
         /\ Item(regions[i], regions[i].blocks[k]) \in LiveIn(regions)
         /\ LiveIn(regions') = LiveIn(regions) \ {Item(regions[i], regions[i].blocks[k])}
         /\ BlocksIn(regions') \subseteq BlocksIn(regions)
<1>1. /\ PhysIInv /\ ListOK(regions) /\ OwnersOK /\ CountsOK
      /\ UNCHANGED <<dmaRuns, owned, totalRegionBytes>> /\ UNCHANGED physVars
  BY DEF HeapInv, dmaVars, UnlinkBlock, physVars
<1>2. PICK r : r = regions[i]
  OBVIOUS
<1>3. PICK b : b = r.blocks[k]
  OBVIOUS
<1>4. /\ RegionOK(r) /\ r \in Elems(regions) /\ b \in BlocksOf(r)
  BY <1>1, <1>2, <1>3, ListFacts DEF BlocksOf
<1>5. PICK u : u = Unlinked(r, k)
  OBVIOUS
<1>6. regions' = Replaced(regions, i, u)
  BY <1>2, <1>5 DEF UnlinkBlock, Replaced, Unlinked
<1>7. /\ RegionOK(u) /\ u.run = r.run /\ u.blocks # <<>>
      /\ BlocksOf(u) = BlocksOf(r) \ {b}
  BY <1>2, <1>3, <1>4, <1>5, UnlinkedOK
<1>8. /\ ListOK(regions')
      /\ Elems(regions') \ {u} = Elems(regions) \ {r} /\ u \in Elems(regions')
      /\ RunsOf(regions') = RunsOf(regions) /\ PagesIn(regions') = PagesIn(regions)
  BY <1>1, <1>2, <1>6, <1>7, ReplacedList
<1>9. Item(r, b) \in LiveIn(regions) /\ LiveIn(regions') = LiveIn(regions) \ {Item(r, b)}
  <2>1. b \notin BlocksOf(u) /\ BlocksOf(r) = BlocksOf(u) \cup {b} /\ ListOK(regions)
    BY <1>1, <1>4, <1>7
  <2>2. /\ r \in Elems(regions) /\ u \in Elems(regions') /\ r.run = u.run
        /\ Elems(regions') \ {u} = Elems(regions) \ {r}
    BY <1>4, <1>7, <1>8
  <2>3. QED
    BY ONLY <2>1, <2>2, LiveOneMore
<1>10. PhysIInv'
  BY <1>1, NextInv
<1>11. OwnersOK'
  BY <1>1, <1>8 DEF OwnersOK
<1>12. CountsOK'
  <2>1. /\ IsFiniteSet(LiveIn(regions'))
        /\ Cardinality(LiveIn(regions')) = Cardinality(LiveIn(regions)) - 1
    BY <1>1, <1>9, CountOneLess DEF CountsOK
  <2>2. QED
    BY <1>1, <1>8, <2>1 DEF CountsOK
<1>13. BlocksIn(regions') \subseteq BlocksIn(regions)
  BY <1>4, <1>7, <1>8 DEF BlocksIn
<1>14. QED
  BY <1>2, <1>3, <1>8, <1>9, <1>10, <1>11, <1>12, <1>13

LEMMA ReleaseInv ==
  ASSUME HeapInv, NEW i \in DOMAIN regions, NEW k \in DOMAIN regions[i].blocks,
         Release(i, k), growing' \in Nat
  PROVE  /\ HeapInv' /\ BlocksIn(regions') \subseteq BlocksIn(regions)
         /\ Item(regions[i], regions[i].blocks[k]) \in LiveIn(regions)
         /\ LiveIn(regions') = LiveIn(regions) \ {Item(regions[i], regions[i].blocks[k])}
<1>1. /\ ListOK(regions) /\ ScalarsOK /\ UNCHANGED <<peakInUseBytes, dmaReady, dmaRuns>>
      /\ UNCHANGED dmaVars /\ liveAllocations' = liveAllocations - 1
      /\ inUseBytes' = (inUseBytes - regions[i].blocks[k].req) % WordSize
  BY DEF HeapInv, Release, dmaVars
<1>2. /\ PhysIInv' /\ ListOK(regions') /\ OwnersOK' /\ CountsOK'
      /\ BlocksIn(regions') \subseteq BlocksIn(regions)
      /\ Item(regions[i], regions[i].blocks[k]) \in LiveIn(regions)
      /\ LiveIn(regions') = LiveIn(regions) \ {Item(regions[i], regions[i].blocks[k])}
  BY <1>1, DestroyFacts, UnlinkFacts DEF Release
<1>3. best' \in Nat /\ HintValid'
  BY <1>2, RefreshedHint DEF Release
<1>4. inUseBytes' \in 0 .. (WordSize - 1)
  <2>1. WordSize \in Nat \ {0} /\ inUseBytes \in Int
    BY <1>1, HeapAssumption DEF ScalarsOK
  <2>2. regions[i].blocks[k].req \in Nat
    <3>1. regions[i].blocks[k] \in Block
      BY <1>1, ListFacts, RegionTypes
    <3>2. QED
      BY <3>1 DEF Block
  <2>3. PICK d \in Int : d = inUseBytes - regions[i].blocks[k].req
    BY <2>1, <2>2
  <2>4. d % WordSize \in 0 .. (WordSize - 1)
    BY <2>1
  <2>5. QED
    BY <1>1, <2>3, <2>4
<1>5. ScalarsOK'
  BY <1>1, <1>3, <1>4 DEF ScalarsOK
<1>6. QED
  BY <1>2, <1>3, <1>5 DEF HeapInv

(* krealloc in place.                                                      *)
LEMMA InPlaceFacts ==
  ASSUME HeapInv, NEW i \in DOMAIN regions, NEW k \in DOMAIN regions[i].blocks,
         NEW size \in Nat, KreallocInPlace(i, k, size)
  PROVE  /\ HeapInv'
         /\ Item(regions[i], regions[i].blocks[k]) \in LiveIn(regions)
         /\ [ptr |-> PtrOf(regions[i], regions[i].blocks[k]), size |-> size] \in LiveIn(regions')
         /\ LiveIn(regions) \ {Item(regions[i], regions[i].blocks[k])} =
              LiveIn(regions') \
                {[ptr |-> PtrOf(regions[i], regions[i].blocks[k]), size |-> size]}
         /\ BlocksIn(regions') \subseteq
              BlocksIn(regions) \cup {[regions[i].blocks[k] EXCEPT !.req = size]}
         /\ regions[i].blocks[k] \in BlocksIn(regions)
<1>1. /\ PhysIInv /\ ListOK(regions) /\ OwnersOK /\ CountsOK /\ ScalarsOK /\ HintValid
      /\ UNCHANGED physVars
      /\ UNCHANGED <<owned, totalRegionBytes, dmaReady, dmaRuns, best, growing,
                      peakInUseBytes, liveAllocations>>
  BY DEF HeapInv, dmaVars, KreallocInPlace, physVars
<1>2. PICK r : r = regions[i]
  OBVIOUS
<1>3. PICK b : b = r.blocks[k]
  OBVIOUS
<1>4. /\ RegionOK(r) /\ r \in Elems(regions) /\ b \in BlocksOf(r) /\ b \in Block
  BY <1>1, <1>2, <1>3, ListFacts, RegionTypes DEF BlocksOf
<1>5. PICK u : u = Shrunk(r, k, size)
  OBVIOUS
<1>6. regions' = Replaced(regions, i, u)
  BY <1>2, <1>5 DEF KreallocInPlace, Replaced, Shrunk
<1>7. PICK c : c = u.blocks[k]
  OBVIOUS
<1>8. /\ RegionOK(u) /\ u.run = r.run /\ u.blocks # <<>> /\ u.usage = r.usage
      /\ c = [b EXCEPT !.req = size] /\ c \in BlocksOf(u)
      /\ BlocksOf(u) \ {c} = BlocksOf(r) \ {b}
  BY <1>2, <1>3, <1>4, <1>5, <1>7, ShrunkOK
<1>9. /\ ListOK(regions') /\ DOMAIN regions' = DOMAIN regions
      /\ \A j \in DOMAIN regions : regions'[j].run = regions[j].run
      /\ Elems(regions') \ {u} = Elems(regions) \ {r} /\ u \in Elems(regions')
      /\ RunsOf(regions') = RunsOf(regions) /\ PagesIn(regions') = PagesIn(regions)
  BY <1>1, <1>2, <1>6, <1>8, ReplacedList
<1>10. /\ Item(r, b) \in LiveIn(regions) /\ Item(u, c) \in LiveIn(regions')
       /\ LiveIn(regions) \ {Item(r, b)} = LiveIn(regions') \ {Item(u, c)}
  BY ONLY <1>1, <1>4, <1>8, <1>9, LiveSwap
<1>11. Item(u, c) = [ptr |-> PtrOf(r, b), size |-> size]
  BY <1>4, <1>8 DEF Item, PtrOf, Block
<1>12. PhysIInv'
  BY <1>1, NextInv
<1>13. OwnersOK'
  BY <1>1, <1>9 DEF OwnersOK
<1>14. CountsOK'
  <2>1. PICK M : M = LiveIn(regions) \ {Item(r, b)}
    OBVIOUS
  <2>2. /\ IsFiniteSet(M) /\ Cardinality(M) = Cardinality(LiveIn(regions)) - 1
        /\ Cardinality(LiveIn(regions)) \in Nat
    BY <1>1, <1>10, <2>1, CountOneLess DEF CountsOK
  <2>3. /\ IsFiniteSet(LiveIn(regions')) /\ Cardinality(LiveIn(regions')) = Cardinality(M) + 1
    BY <1>10, <2>1, <2>2, CountOneMore
  <2>4. QED
    BY <1>1, <1>9, <2>2, <2>3 DEF CountsOK
<1>15. HintValid'
  <2>1. \A j \in DOMAIN regions : regions'[j].usage = regions[j].usage
    BY <1>2, <1>6, <1>8 DEF Replaced
  <2>2. QED
    BY <1>1, <1>9, <2>1, KeptHint
<1>16. ScalarsOK'
  <2>1. inUseBytes' \in 0 .. (WordSize - 1)
    <3>1. WordSize \in Nat \ {0} /\ inUseBytes \in Int /\ b.req \in Int
      BY <1>1, <1>4, HeapAssumption DEF ScalarsOK, Block
    <3>2. PICK d \in Int : d = inUseBytes - b.req + size
      BY <3>1
    <3>3. d % WordSize \in 0 .. (WordSize - 1)
      BY <3>1
    <3>4. inUseBytes' = d % WordSize
      BY <1>2, <1>3, <3>2 DEF KreallocInPlace
    <3>5. QED
      BY <3>3, <3>4
  <2>2. QED
    BY <1>1, <2>1 DEF ScalarsOK
<1>17. HeapInv'
  BY <1>9, <1>12, <1>13, <1>14, <1>15, <1>16 DEF HeapInv
<1>18. BlocksIn(regions') \subseteq BlocksIn(regions) \cup {c} /\ b \in BlocksIn(regions)
  BY <1>4, <1>8, <1>9 DEF BlocksIn
<1>19. QED
  BY <1>2, <1>3, <1>8, <1>10, <1>11, <1>17, <1>18

(* Steps that leave the heap alone.                                        *)
LEMMA SameHeap ==
  ASSUME HeapInv, PhysIInv', OwnersOK', UNCHANGED heapVars,
         dmaReady' \in BOOLEAN, dmaRuns' \subseteq Run
  PROVE  HeapInv'
<1>1. UNCHANGED <<regions, best, growing, totalRegionBytes, inUseBytes,
                  peakInUseBytes, liveAllocations>>
  BY DEF heapVars
<1>2. ListOK(regions') /\ CountsOK'
  BY <1>1 DEF HeapInv, CountsOK
<1>3. HintValid'
  BY <1>1 DEF HeapInv, HintValid
<1>4. ScalarsOK'
  BY <1>1 DEF HeapInv, ScalarsOK
<1>5. QED
  BY <1>2, <1>3, <1>4 DEF HeapInv

LEMMA DmaInitInv ==
  ASSUME HeapInv, DmaInit
  PROVE  HeapInv'
<1>1. Boot /\ UNCHANGED heapVars /\ UNCHANGED dmaRuns
  BY DEF DmaInit
<1>2. UNCHANGED owned
  BY <1>1 DEF Boot, InitStart, InitFails, MarkUsable, KeepBitmapReserved
<1>3. PhysIInv'
  BY <1>1, NextInv DEF HeapInv, PhysNext
<1>4. OwnersOK'
  BY <1>1, <1>2 DEF HeapInv, OwnersOK, heapVars
<1>5. dmaReady' \in BOOLEAN
  BY Zenon DEF DmaInit
<1>6. QED
  BY <1>1, <1>3, <1>4, <1>5, SameHeap DEF HeapInv, ScalarsOK

LEMMA DmaAllocInv ==
  ASSUME HeapInv, NEW size \in Nat, DmaAlloc(size)
  PROVE  HeapInv'
<1>1. PICK s \in Pages : /\ Take([start |-> s, count |-> CeilPage(size)])
                         /\ dmaRuns' = dmaRuns \cup {[start |-> s, count |-> CeilPage(size)]}
  BY DEF DmaAlloc
<1>2. PICK run \in Run : run = [start |-> s, count |-> CeilPage(size)]
  <2>1. s \in Nat
    BY DEF HeapInv, PhysIInv, PhysTypeOK, Pages
  <2>2. CeilPage(size) \in Nat
    BY DEF CeilPage, PageSize
  <2>3. CeilPage(size) > 0
    BY <1>1 DEF Take, Grant
  <2>4. [start |-> s, count |-> CeilPage(size)] \in Run
    BY <2>1, <2>2, <2>3 DEF Run
  <2>5. QED
    BY <2>4
<1>3. /\ run \notin owned /\ PhysIInv' /\ owned' = owned \cup {run}
  BY <1>1, <1>2, GrantedApart DEF HeapInv
<1>4. UNCHANGED heapVars /\ UNCHANGED <<regions, dmaReady>>
  BY DEF DmaAlloc, heapVars
<1>5. OwnersOK'
  BY <1>1, <1>2, <1>3, <1>4 DEF HeapInv, OwnersOK
<1>6. dmaReady' \in BOOLEAN /\ dmaRuns' \subseteq Run
  BY <1>1, <1>2, <1>4 DEF HeapInv, ScalarsOK
<1>7. QED
  BY <1>3, <1>4, <1>5, <1>6, SameHeap

LEMMA DmaStopInv ==
  ASSUME HeapInv, DmaStop
  PROVE  HeapInv'
<1>1. /\ UNCHANGED physVars /\ UNCHANGED heapVars /\ UNCHANGED <<dmaRuns, regions, owned>>
      /\ dmaReady' = FALSE
  BY DEF DmaStop, heapVars, physVars
<1>2. PhysIInv'
  BY <1>1, NextInv DEF HeapInv
<1>3. OwnersOK'
  BY <1>1 DEF HeapInv, OwnersOK
<1>4. QED
  BY <1>1, <1>2, <1>3, SameHeap DEF HeapInv, ScalarsOK

LEMMA HeapUnchanged ==
  ASSUME HeapInv, UNCHANGED vars
  PROVE  HeapInv'
<1>1. /\ UNCHANGED physVars /\ UNCHANGED heapVars
      /\ UNCHANGED <<dmaRuns, dmaReady, regions, owned>>
  BY DEF vars, heapVars, dmaVars, physVars
<1>2. PhysIInv'
  BY <1>1, NextInv DEF HeapInv
<1>3. OwnersOK'
  BY <1>1 DEF HeapInv, OwnersOK
<1>4. QED
  BY <1>1, <1>2, <1>3, SameHeap DEF HeapInv, ScalarsOK

LEMMA KmallocInv ==
  ASSUME HeapInv, NEW size \in Nat, KmallocSucceeds(size), growing' \in Nat,
         UNCHANGED dmaVars
  PROVE  HeapInv' /\ NewBlock(size)
BY PlaceInRegionInv, PlaceInNewRegionInv DEF KmallocSucceeds

(* The pointer krealloc moves away from is an address.                     *)
LEMMA PtrType ==
  ASSUME ListOK(regions), NEW i \in DOMAIN regions, NEW k \in DOMAIN regions[i].blocks
  PROVE  PtrOf(regions[i], regions[i].blocks[k]) \in Nat
<1>1. regions[i].run \in Run /\ regions[i].blocks[k] \in Block
  BY ListFacts, RegionTypes
<1>2. regions[i].run.start \in Nat /\ regions[i].blocks[k].off \in Nat
  BY <1>1 DEF Run, Block
<1>3. QED
  BY <1>2 DEF PtrOf, PageSize, BlockHeader

LEMMA KreallocInv ==
  ASSUME HeapInv, NEW i \in DOMAIN regions, NEW k \in DOMAIN regions[i].blocks,
         NEW size \in Nat, Krealloc(i, k, size)
  PROVE  HeapInv'
<1>1. growing \in Nat
  BY DEF HeapInv, ScalarsOK
<1>2. CASE size = 0 /\ Kfree(i, k)
  BY <1>1, <1>2, ReleaseInv DEF Kfree
<1>3. CASE KreallocInPlace(i, k, size)
  BY <1>3, InPlaceFacts
<1>4. CASE KreallocGrow(i, k, size)
  <2>1. growing' \in Nat
    BY <1>4, PtrType DEF KreallocGrow, HeapInv
  <2>2. KmallocSucceeds(size) /\ UNCHANGED dmaVars
    BY <1>4 DEF KreallocGrow
  <2>3. QED
    BY <2>1, <2>2, KmallocInv
<1>5. CASE KreallocReturnsNull(i, k, size)
  BY <1>5, HeapUnchanged DEF KreallocReturnsNull
<1>6. QED
  BY <1>2, <1>3, <1>4, <1>5 DEF Krealloc

LEMMA KcallocSize ==
  ASSUME NEW count \in CallocCounts, NEW size \in HeapSizes
  PROVE  size \in Nat /\ count \in Nat /\ count * size \in Nat
BY HeapAssumption

LEMMA HeapNextInv == HeapInv /\ [HeapNext]_vars => HeapInv'
<1> SUFFICES ASSUME HeapInv, [HeapNext]_vars PROVE HeapInv'
  OBVIOUS
<1>1. growing \in Nat /\ HeapSizes \subseteq Nat /\ DmaSizes \subseteq Nat
  BY HeapAssumption DEF HeapInv, ScalarsOK
<1>2. CASE DmaInit
  BY <1>2, DmaInitInv
<1>3. ASSUME NEW size \in Nat, Kmalloc(size)
      PROVE  HeapInv'
  BY <1>1, <1>3, KmallocInv DEF Kmalloc
<1>4. ASSUME NEW size \in Nat, KmallocReturnsNull(size)
      PROVE  HeapInv'
  BY <1>4, HeapUnchanged DEF KmallocReturnsNull
<1>5. ASSUME NEW size \in HeapSizes, NEW count \in CallocCounts, Kcalloc(count, size)
      PROVE  HeapInv'
  BY <1>3, <1>5, KcallocSize DEF Kcalloc
<1>6. ASSUME NEW size \in HeapSizes, NEW count \in CallocCounts, KcallocReturnsNull(count, size)
      PROVE  HeapInv'
  BY <1>4, <1>6, KcallocSize, HeapUnchanged DEF KcallocReturnsNull
<1>7. ASSUME NEW i \in DOMAIN regions, NEW k \in DOMAIN regions[i].blocks, Kfree(i, k)
      PROVE  HeapInv'
  BY <1>1, <1>7, ReleaseInv DEF Kfree
<1>8. ASSUME NEW i \in DOMAIN regions, NEW k \in DOMAIN regions[i].blocks,
             NEW size \in HeapSizes, Krealloc(i, k, size)
      PROVE  HeapInv'
  BY <1>1, <1>8, KreallocInv
<1>9. CASE KreallocFreeOld
  BY <1>9, ReleaseInv DEF KreallocFreeOld
<1>10. ASSUME NEW size \in DmaSizes, DmaAlloc(size) \/ DmaAllocReturnsNull(size)
       PROVE  HeapInv'
  BY <1>1, <1>10, DmaAllocInv, HeapUnchanged DEF DmaAllocReturnsNull
<1>11. CASE DmaStop
  BY <1>11, DmaStopInv
<1>12. CASE UNCHANGED vars
  BY <1>12, HeapUnchanged
<1>13. QED
  BY <1>1, <1>2, <1>3, <1>4, <1>5, <1>6, <1>7, <1>8, <1>9, <1>10, <1>11, <1>12 DEF HeapNext

(* The invariant of the heap and of the page allocator under it.           *)
THEOREM HeapInvariant == HeapSpec => []HeapInv
BY HeapInitInv, HeapNextInv, PTL DEF HeapSpec

(* Every variable of the heap and of the DMA allocator stays in its range; *)
(* no counter that kfree subtracts from goes below 0.                      *)
THEOREM HeapTypeCorrect == HeapSpec => []HeapTypeOK
<1>1. HeapInv => HeapTypeOK
  <2> SUFFICES ASSUME HeapInv PROVE HeapTypeOK
    OBVIOUS
  <2>1. liveAllocations \in Nat /\ totalRegionBytes \in Nat
    <3>1. /\ Cardinality(LiveIn(regions)) \in Nat /\ Cardinality(PagesIn(regions)) \in Nat
      BY FS_CardinalityType DEF HeapInv, CountsOK
    <3>2. QED
      BY <3>1 DEF HeapInv, CountsOK, PageSize
  <2>2. QED
    BY <2>1 DEF HeapInv, ScalarsOK, ListOK, HeapTypeOK
<1>2. QED
  BY <1>1, HeapInvariant, PTL

(* Whatever sizes are asked for and whichever blocks are freed in whatever *)
(* order: the blocks of a region stay in address order, aligned and apart. *)
THEOREM HeapWellLaidOut == HeapSpec => []BlocksWellLaidOut
<1>1. HeapInv => BlocksWellLaidOut
  BY ListFacts, RegionFacts DEF HeapInv, BlocksWellLaidOut
<1>2. QED
  BY <1>1, HeapInvariant, PTL

(* The pages that clients hold are those of the regions and of the DMA     *)
(* buffers, and no region is left empty.                                   *)
THEOREM HeapPagesAccounted == HeapSpec => []PagesAccounted
<1>1. HeapInv => PagesAccounted
  <2> SUFFICES ASSUME HeapInv PROVE PagesAccounted
    OBVIOUS
  <2>1. RunsOf(regions) = {regions[i].run : i \in DOMAIN regions}
    BY DEF RunsOf, Elems
  <2>2. \A i, j \in DOMAIN regions : regions[i].run = regions[j].run => i = j
    BY ListFacts DEF HeapInv
  <2>3. \A i \in DOMAIN regions : regions[i].blocks # <<>> /\ regions[i].run \notin dmaRuns
    BY <2>1 DEF HeapInv, ListOK, OwnersOK
  <2>4. QED
    BY <2>1, <2>2, <2>3 DEF HeapInv, OwnersOK, PagesAccounted
<1>2. QED
  BY <1>1, HeapInvariant, PTL

(* The hint kmalloc follows unseen is never left on a destroyed region.    *)
THEOREM HeapHintValid == HeapSpec => []HintValid
<1>1. HeapInv => HintValid
  BY DEF HeapInv
<1>2. QED
  BY <1>1, HeapInvariant, PTL
-----------------------------------------------------------------------------
(* What follows rests on what callers ask for: the page counts that the    *)
(* page allocator is told of, and sizes that align_up does not wrap to 0.  *)
(* A product that overflows is refused by kcalloc before it is asked for.  *)
Asked ==
  HeapSizes \cup
    {n \in 0 .. (WordSize - 1) : \E count \in CallocCounts, size \in HeapSizes : n = count * size}

KnownRequests ==
  /\ \A size \in Asked : Creatable(size) => RegionPages(Payload(size)) \in Requests
  /\ \A size \in DmaSizes : CeilPage(size) \in Requests

NoWrap == \A size \in Asked : size + Alignment <= WordSize

LEMMA AskedSizes ==
  /\ Asked \subseteq Nat /\ HeapSizes \subseteq Asked
  /\ \A count \in CallocCounts, size \in HeapSizes :
       count * size < WordSize => count * size \in Asked
<1>1. HeapSizes \subseteq Nat /\ WordSize \in Nat
  BY HeapAssumption
<1>2. ASSUME NEW count \in CallocCounts, NEW size \in HeapSizes, count * size < WordSize
      PROVE  count * size \in Asked
  <2>1. count * size \in 0 .. (WordSize - 1)
    BY <1>1, <1>2, KcallocSize
  <2>2. QED
    BY <2>1 DEF Asked
<1>3. Asked \subseteq HeapSizes \cup 0 .. (WordSize - 1) /\ HeapSizes \subseteq Asked
  BY ZenonT(30) DEF Asked
<1>4. 0 .. (WordSize - 1) \subseteq Nat
  BY <1>1
<1>5. Asked \subseteq Nat
  BY <1>1, <1>3, <1>4
<1>6. QED
  BY <1>2, <1>3, <1>5

(* Every step of the heap is a step of a lawful client of the page         *)
(* allocator: an allocation of a count it knows, a release of a run held.  *)
LEMMA ClientKmalloc ==
  ASSUME KnownRequests, HeapInv, NEW size \in Asked, KmallocSucceeds(size)
  PROVE  [PhysNext]_physVars
<1>1. CASE PlaceInRegion(size)
  BY <1>1 DEF PlaceInRegion
<1>2. CASE PlaceInNewRegion(size)
  <2>1. \E s \in Pages : Take([start |-> s, count |-> RegionPages(Payload(size))])
    BY <1>2 DEF PlaceInNewRegion
  <2>2. RegionPages(Payload(size)) \in Requests
    BY <1>2 DEF PlaceInNewRegion, KnownRequests
  <2>3. QED
    BY <2>1, <2>2 DEF PhysNext, AllocPages
<1>3. QED
  BY <1>1, <1>2 DEF KmallocSucceeds

LEMMA ClientRelease ==
  ASSUME HeapInv, NEW i \in DOMAIN regions, NEW k \in DOMAIN regions[i].blocks, Release(i, k)
  PROVE  [PhysNext]_physVars
<1>1. regions[i].run \in owned
  BY DEF HeapInv, OwnersOK, RunsOf, Elems
<1>2. QED
  BY <1>1 DEF Release, DestroyRegion, UnlinkBlock, PhysNext

LEMMA ClientNext ==
  ASSUME KnownRequests
  PROVE  HeapInv /\ [HeapNext]_vars => [PhysNext]_physVars
<1> SUFFICES ASSUME HeapInv, [HeapNext]_vars PROVE [PhysNext]_physVars
  OBVIOUS
<1>1. CASE DmaInit
  BY <1>1 DEF DmaInit, PhysNext
<1>2. ASSUME NEW size \in Asked, Kmalloc(size) \/ KmallocReturnsNull(size)
      PROVE  [PhysNext]_physVars
  BY <1>2, ClientKmalloc DEF Kmalloc, KmallocReturnsNull, vars
<1>3. ASSUME NEW size \in HeapSizes, NEW count \in CallocCounts,
             Kcalloc(count, size) \/ KcallocReturnsNull(count, size)
      PROVE  [PhysNext]_physVars
  <2>1. CASE count * size < WordSize
    <3>1. count * size \in Asked
      BY <2>1, AskedSizes
    <3>2. QED
      BY <1>2, <1>3, <2>1, <3>1 DEF Kcalloc, KcallocReturnsNull
  <2>2. CASE ~(count * size < WordSize)
    BY <1>3, <2>2 DEF Kcalloc, KcallocReturnsNull, vars
  <2>3. QED
    BY <2>1, <2>2
<1>4. ASSUME NEW i \in DOMAIN regions, NEW k \in DOMAIN regions[i].blocks, Kfree(i, k)
      PROVE  [PhysNext]_physVars
  BY <1>4, ClientRelease DEF Kfree
<1>5. ASSUME NEW i \in DOMAIN regions, NEW k \in DOMAIN regions[i].blocks,
             NEW size \in HeapSizes, Krealloc(i, k, size)
      PROVE  [PhysNext]_physVars
  <2>1. CASE KreallocGrow(i, k, size)
    BY <2>1, AskedSizes, ClientKmalloc DEF KreallocGrow
  <2>2. CASE KreallocInPlace(i, k, size) \/ KreallocReturnsNull(i, k, size)
    BY <2>2 DEF KreallocInPlace, KreallocReturnsNull, vars
  <2>3. QED
    BY <1>4, <1>5, <2>1, <2>2 DEF Krealloc
<1>6. CASE KreallocFreeOld
  BY <1>6, ClientRelease DEF KreallocFreeOld
<1>7. ASSUME NEW size \in DmaSizes, DmaAlloc(size) \/ DmaAllocReturnsNull(size)
      PROVE  [PhysNext]_physVars
  <2>1. CASE DmaAlloc(size)
    <3>1. \E s \in Pages : Take([start |-> s, count |-> CeilPage(size)])
      BY <2>1 DEF DmaAlloc
    <3>2. CeilPage(size) \in Requests
      BY DEF KnownRequests
    <3>3. QED
      BY <3>1, <3>2 DEF PhysNext, AllocPages
  <2>2. CASE DmaAllocReturnsNull(size)
    BY <2>2 DEF DmaAllocReturnsNull, vars
  <2>3. QED
    BY <1>7, <2>1, <2>2
<1>8. CASE DmaStop
  BY <1>8 DEF DmaStop
<1>9. CASE UNCHANGED vars
  BY <1>9 DEF vars
<1>10. QED
  BY <1>1, <1>2, <1>3, <1>4, <1>5, <1>6, <1>7, <1>8, <1>9, AskedSizes DEF HeapNext

(* The heap and the DMA allocator are a lawful client of the page          *)
(* allocator, so that all that is proved of PhysSpec holds under them.     *)
THEOREM HeapLawfulClient ==
  ASSUME KnownRequests
  PROVE  HeapSpec => LawfulClient
<1>1. HeapInit => PhysInit
  BY DEF HeapInit
<1>2. HeapInv /\ [HeapNext]_vars => [PhysNext]_physVars
  BY ClientNext
<1>3. QED
  BY <1>1, <1>2, HeapInvariant, PTL DEF HeapSpec, LawfulClient, PhysSpec
-----------------------------------------------------------------------------
(* A block is at least as large as the size it was asked for.              *)
LargeEnough(b) == b.req \in 1 .. b.size

ReqsOK == \A b \in BlocksIn(regions) : LargeEnough(b)

(* The request that a block records is the size it was asked for.          *)
LEMMA RequestKept ==
  ASSUME NoWrap, NEW size \in Asked, Acceptable(size)
  PROVE  ReqSize(size) = size /\ size \in Nat
<1>1. size \in Nat /\ size <= Payload(size) /\ Payload(size) <= MaxU32 /\ Payload(size) \in Nat
  BY AskedSizes, PayloadFacts DEF NoWrap, Acceptable
<1>2. MaxU32 \in Nat /\ size <= MaxU32
  BY <1>1, HeapAssumption
<1>3. QED
  BY <1>1, <1>2 DEF ReqSize

LEMMA AskedBlock ==
  ASSUME NoWrap, NEW size \in Asked, Acceptable(size), NEW b,
         b.size = Payload(size), b.req = ReqSize(size)
  PROVE  LargeEnough(b)
<1>1. size \in Nat /\ size > 0 /\ size <= Payload(size) /\ Payload(size) \in Nat
  BY AskedSizes, PayloadFacts DEF NoWrap, Acceptable
<1>2. QED
  BY <1>1, RequestKept DEF LargeEnough

LEMMA NewBlockReqs ==
  ASSUME NoWrap, ReqsOK, NEW size \in Asked, Acceptable(size), NewBlock(size)
  PROVE  ReqsOK'
<1>1. PICK u \in Elems(regions') :
        \E b \in BlocksOf(u) :
          /\ b.size = Payload(size) /\ b.req = ReqSize(size)
          /\ BlocksIn(regions') = BlocksIn(regions) \cup {b}
  BY DEF NewBlock
<1>2. PICK b \in BlocksOf(u) :
        /\ b.size = Payload(size) /\ b.req = ReqSize(size)
        /\ BlocksIn(regions') = BlocksIn(regions) \cup {b}
  BY <1>1
<1>3. LargeEnough(b)
  BY <1>2, AskedBlock
<1>4. QED
  BY <1>2, <1>3 DEF ReqsOK

(* A new block is a Malloc of the abstract heap.                           *)
LEMMA MallocStep ==
  ASSUME ListOK(regions'), ReqsOK', NEW size, NewBlock(size)
  PROVE  Callers!Malloc
<1>1. PICK u \in Elems(regions') :
        \E b \in BlocksOf(u) :
          /\ Item(u, b) \in LiveIn(regions')
          /\ LiveIn(regions) = LiveIn(regions') \ {Item(u, b)}
  BY DEF NewBlock
<1>2. PICK b \in BlocksOf(u) : /\ Item(u, b) \in LiveIn(regions')
                              /\ LiveIn(regions) = LiveIn(regions') \ {Item(u, b)}
  BY <1>1
<1>3. LiveSet = LiveIn(regions) /\ LiveSet' = LiveIn(regions')
  BY LiveSetIs
<1>4. ASSUME NEW t \in Elems(regions'), NEW c \in BlocksOf(t)
      PROVE  /\ t.run.start \in Nat /\ t.run.start # 0
             /\ c.off \in Nat /\ c.size \in Nat /\ c.off % Alignment = 0
             /\ c.req \in 1 .. c.size
  <2>1. PICK i \in DOMAIN regions' : t = regions'[i]
    BY DEF Elems
  <2>2. RegionOK(t) /\ t.run \in Run /\ t.run.start # 0
    BY <2>1, ListFacts DEF ListOK
  <2>3. c \in Block /\ BlockFits(t, c)
    BY <2>2, RegionTypes DEF RegionOK, BlocksOf
  <2>4. c.req \in 1 .. c.size
    BY DEF ReqsOK, BlocksIn, LargeEnough
  <2>5. QED
    BY <2>2, <2>3, <2>4 DEF Run, Block, BlockFits
<1>5. PICK x : x = Item(u, b) /\ x.ptr = PtrOf(u, b) /\ x.size = b.req
  <2>1. PICK x : x = Item(u, b)
    OBVIOUS
  <2>2. QED
    BY <2>1 DEF Item
<1>6. x.size > 0 /\ x.ptr > 0 /\ x.ptr % Alignment = 0
  <2>1. /\ u.run.start \in Nat /\ u.run.start # 0 /\ b.off \in Nat /\ b.off % 16 = 0
        /\ b.req > 0
    BY <1>4 DEF Alignment
  <2>2. x.ptr = u.run.start * 4096 + b.off + 48
    BY <1>5 DEF PtrOf, PageSize, BlockHeader
  <2>3. x.ptr % 16 = 0
    <3>1. PICK w \in Nat : b.off = 16 * w
      BY <2>1, Multiples DEF Alignment
    <3>2. x.ptr = 16 * (u.run.start * 256 + w + 3)
      BY <2>1, <2>2, <3>1
    <3>3. QED
      BY <2>1, <3>2
  <2>4. QED
    BY <1>5, <2>1, <2>2, <2>3 DEF Alignment
<1>7. ASSUME NEW y \in LiveSet
      PROVE  Callers!Apart(x, y)
  <2>1. PICK t \in Elems(regions') : \E c \in BlocksOf(t) : (t # u \/ c # b) /\ y = Item(t, c)
    BY <1>2, <1>3, OtherItems
  <2>2. PICK c \in BlocksOf(t) : (t # u \/ c # b) /\ y = Item(t, c)
    BY <2>1
  <2>3. y.ptr = PtrOf(t, c) /\ y.size = c.req
    BY <2>2 DEF Item
  <2>4. \/ PtrOf(u, b) + b.size + BlockHeader <= PtrOf(t, c)
        \/ PtrOf(t, c) + c.size + BlockHeader <= PtrOf(u, b)
    BY <2>2, ItemsApart
  <2>5. /\ b.size \in Nat /\ c.size \in Nat /\ b.req \in 1 .. b.size /\ c.req \in 1 .. c.size
        /\ u.run.start \in Nat /\ t.run.start \in Nat /\ b.off \in Nat /\ c.off \in Nat
    BY <1>4
  <2>6. PtrOf(u, b) \in Nat /\ PtrOf(t, c) \in Nat
    BY <2>5 DEF PtrOf, PageSize, BlockHeader
  <2>7. PtrOf(u, b) + b.req <= PtrOf(t, c) \/ PtrOf(t, c) + c.req <= PtrOf(u, b)
    BY <2>4, <2>5, <2>6 DEF BlockHeader
  <2>8. QED
    BY <1>5, <2>3, <2>7 DEF Callers!Apart
<1>8. x \in LiveSet' \ LiveSet /\ LiveSet' = LiveSet \cup {x}
  BY <1>2, <1>3, <1>5
<1>9. QED
  BY <1>6, <1>7, <1>8 DEF Callers!Malloc

LEMMA FreeStep ==
  ASSUME NEW x, x \in LiveIn(regions), LiveIn(regions') = LiveIn(regions) \ {x}
  PROVE  Callers!Free
<1>1. LiveSet = LiveIn(regions) /\ LiveSet' = LiveIn(regions')
  BY LiveSetIs
<1>2. QED
  BY <1>1 DEF Callers!Free

LEMMA ShrinkStep ==
  ASSUME NEW x, NEW y, x \in LiveIn(regions), y \in LiveIn(regions'),
         LiveIn(regions) \ {x} = LiveIn(regions') \ {y},
         y.ptr = x.ptr, y.size \in 1 .. x.size
  PROVE  Callers!Shrink
<1>1. LiveSet = LiveIn(regions) /\ LiveSet' = LiveIn(regions')
  BY LiveSetIs
<1>2. LiveSet' = (LiveSet \ {x}) \cup {y}
  BY <1>1
<1>3. QED
  BY <1>1, <1>2 DEF Callers!Shrink

LEMMA SameLive ==
  ASSUME UNCHANGED regions, ReqsOK
  PROVE  ReqsOK' /\ UNCHANGED LiveSet
BY DEF ReqsOK, LiveSet

LEMMA CallersKmalloc ==
  ASSUME NoWrap, HeapInv, HeapInv', ReqsOK, NEW size \in Asked, KmallocSucceeds(size),
         UNCHANGED dmaVars
  PROVE  ReqsOK' /\ Callers!Malloc
<1>1. Acceptable(size) /\ size \in Nat
  BY AskedSizes DEF KmallocSucceeds, PlaceInRegion, PlaceInNewRegion
<1>2. NewBlock(size)
  BY <1>1, KmallocInv DEF HeapInv, ScalarsOK
<1>3. ReqsOK'
  BY <1>1, <1>2, NewBlockReqs
<1>4. QED
  BY <1>1, <1>2, <1>3, MallocStep DEF HeapInv

LEMMA CallersRelease ==
  ASSUME HeapInv, HeapInv', ReqsOK, NEW i \in DOMAIN regions,
         NEW k \in DOMAIN regions[i].blocks, Release(i, k)
  PROVE  ReqsOK' /\ Callers!Free
<1>1. PICK x : /\ BlocksIn(regions') \subseteq BlocksIn(regions)
              /\ x \in LiveIn(regions) /\ LiveIn(regions') = LiveIn(regions) \ {x}
  BY ReleaseInv DEF HeapInv, ScalarsOK
<1>2. ReqsOK'
  BY <1>1 DEF ReqsOK
<1>3. QED
  BY <1>1, <1>2, FreeStep

LEMMA CallersInPlace ==
  ASSUME HeapInv, ReqsOK, NEW i \in DOMAIN regions, NEW k \in DOMAIN regions[i].blocks,
         NEW size \in Nat, KreallocInPlace(i, k, size)
  PROVE  ReqsOK' /\ Callers!Shrink
<1>1. PICK b : b = regions[i].blocks[k]
  OBVIOUS
<1>2. PICK p : p = PtrOf(regions[i], b)
  OBVIOUS
<1>3. PICK x, y, c : /\ x = Item(regions[i], b) /\ y = [ptr |-> p, size |-> size]
                     /\ c = [b EXCEPT !.req = size]
  OBVIOUS
<1>4. /\ x \in LiveIn(regions) /\ y \in LiveIn(regions')
      /\ LiveIn(regions) \ {x} = LiveIn(regions') \ {y}
      /\ BlocksIn(regions') \subseteq BlocksIn(regions) \cup {c}
      /\ b \in BlocksIn(regions)
  BY <1>1, <1>2, <1>3, InPlaceFacts
<1>5. b \in Block
  BY <1>1, ListFacts, RegionTypes DEF HeapInv
<1>6. size \in 1 .. b.req /\ b.req \in 1 .. b.size /\ b.req \in Nat /\ b.size \in Nat
  BY <1>1, <1>4, <1>5 DEF KreallocInPlace, ReqsOK, LargeEnough, Block
<1>7. c.req = size /\ c.size = b.size
  BY <1>3, <1>5 DEF Block
<1>8. LargeEnough(c)
  BY <1>6, <1>7 DEF LargeEnough
<1>9. ReqsOK'
  BY <1>4, <1>8 DEF ReqsOK
<1>10. y.ptr = x.ptr /\ y.size \in 1 .. x.size
  BY <1>2, <1>3, <1>6 DEF Item
<1>11. QED
  BY <1>4, <1>9, <1>10, ShrinkStep

LEMMA CallersNext ==
  ASSUME NoWrap
  PROVE  HeapInv /\ HeapInv' /\ ReqsOK /\ [HeapNext]_vars =>
           ReqsOK' /\ [Callers!LBNext]_LiveSet
<1> SUFFICES ASSUME HeapInv, HeapInv', ReqsOK, [HeapNext]_vars
             PROVE  ReqsOK' /\ [Callers!LBNext]_LiveSet
  OBVIOUS
<1> DEFINE Good == ReqsOK' /\ [Callers!LBNext]_LiveSet
<1>1. UNCHANGED regions => Good
  BY SameLive
<1>2. ASSUME NEW size \in Asked, KmallocSucceeds(size), UNCHANGED dmaVars
      PROVE  Good
  BY <1>2, CallersKmalloc DEF Callers!LBNext
<1>3. ASSUME NEW i \in DOMAIN regions, NEW k \in DOMAIN regions[i].blocks, Release(i, k)
      PROVE  Good
  BY <1>3, CallersRelease DEF Callers!LBNext
<1>4. ASSUME DmaInit \/ DmaStop \/ UNCHANGED vars
      PROVE  Good
  BY <1>1, <1>4 DEF DmaInit, DmaStop, vars, heapVars
<1>5. ASSUME NEW size \in Asked, Kmalloc(size) \/ KmallocReturnsNull(size)
      PROVE  Good
  BY <1>1, <1>2, <1>5 DEF Kmalloc, KmallocReturnsNull, vars, heapVars, dmaVars
<1>6. ASSUME NEW size \in HeapSizes, NEW count \in CallocCounts,
             Kcalloc(count, size) \/ KcallocReturnsNull(count, size)
      PROVE  Good
  <2>1. CASE count * size < WordSize
    <3>1. count * size \in Asked
      BY <2>1, AskedSizes
    <3>2. QED
      BY <1>5, <1>6, <2>1, <3>1 DEF Kcalloc, KcallocReturnsNull
  <2>2. CASE ~(count * size < WordSize)
    BY <1>1, <1>6, <2>2 DEF Kcalloc, KcallocReturnsNull, vars, heapVars
  <2>3. QED
    BY <2>1, <2>2
<1>7. ASSUME NEW i \in DOMAIN regions, NEW k \in DOMAIN regions[i].blocks, Kfree(i, k)
      PROVE  Good
  BY <1>3, <1>7 DEF Kfree
<1>8. ASSUME NEW i \in DOMAIN regions, NEW k \in DOMAIN regions[i].blocks,
             NEW size \in HeapSizes, Krealloc(i, k, size)
      PROVE  Good
  <2>1. CASE KreallocGrow(i, k, size)
    BY <1>2, <2>1, AskedSizes DEF KreallocGrow
  <2>2. CASE KreallocInPlace(i, k, size)
    BY <2>2, CallersInPlace, AskedSizes DEF Callers!LBNext
  <2>3. CASE KreallocReturnsNull(i, k, size)
    BY <1>1, <2>3 DEF KreallocReturnsNull, vars, heapVars
  <2>4. QED
    BY <1>7, <1>8, <2>1, <2>2, <2>3 DEF Krealloc
<1>9. ASSUME KreallocFreeOld
      PROVE  Good
  BY <1>3, <1>9 DEF KreallocFreeOld
<1>10. ASSUME NEW size \in DmaSizes, DmaAlloc(size) \/ DmaAllocReturnsNull(size)
       PROVE  Good
  BY <1>1, <1>10 DEF DmaAlloc, DmaAllocReturnsNull, vars, heapVars
<1> HIDE DEF Good
<1>11. ASSUME NEW size \in HeapSizes, Kmalloc(size) \/ KmallocReturnsNull(size)
       PROVE  Good
  BY <1>5, <1>11, AskedSizes
<1>12. ASSUME HeapNext
       PROVE  Good
  BY <1>4, <1>6, <1>7, <1>8, <1>9, <1>10, <1>11, <1>12 DEF HeapNext
<1>13. Good
  BY <1>4, <1>12
<1>14. QED
  BY <1>13 DEF Good

(* What callers of the heap are promised: aligned blocks apart from every  *)
(* other live block, which no call but their own moves, shrinks or frees.  *)
THEOREM HeapImplementsLiveBlocks ==
  ASSUME NoWrap
  PROVE  HeapSpec => ImplementsLiveBlocks
<1>1. HeapInit => Callers!LBInit /\ ReqsOK
  <2> SUFFICES ASSUME HeapInit PROVE LiveSet = {} /\ ReqsOK
    BY DEF Callers!LBInit
  <2>1. regions = <<>> /\ Elems(regions) = {}
    BY DEF HeapInit, Elems
  <2>2. QED
    BY <2>1 DEF ReqsOK, BlocksIn, LiveSet
<1>2. HeapInv /\ HeapInv' /\ ReqsOK /\ [HeapNext]_vars =>
        ReqsOK' /\ [Callers!LBNext]_LiveSet
  BY CallersNext
<1>3. QED
  BY <1>1, <1>2, HeapInvariant, PTL DEF HeapSpec, ImplementsLiveBlocks, Callers!LBSpec
-----------------------------------------------------------------------------
(* The least number of a set: what induction comes down to.                *)
LEMMA LeastNumber ==
  ASSUME NEW T, T \subseteq Nat, T # {}
  PROVE  \E n \in T : \A m \in T : n <= m
<1> DEFINE R == OpToRel(<, Nat)
<1>1. IsWellFoundedOn(R, Nat)
  BY NatLessThanWellFounded
<1> HIDE DEF R
<1>2. PICK n \in T : \A m \in T : <<m, n>> \notin R
  BY <1>1, WFMin
<1>3. \A m \in T : m < n => <<m, n>> \in R
  BY DEF R, OpToRel
<1>4. ASSUME NEW m \in T PROVE n <= m
  <2>1. m \in Nat /\ n \in Nat
    OBVIOUS
  <2>2. ~(m < n)
    BY <1>2, <1>3
  <2>3. QED
    BY <2>1, <2>2
<1>5. QED
  BY <1>4

(* Induction, with a set in the place of the operator.                    *)
LEMMA Induction ==
  ASSUME NEW S, 0 \in S, \A n \in Nat : n \in S => n + 1 \in S
  PROVE  Nat \subseteq S
<1>1. SUFFICES ASSUME Nat \ S # {} PROVE FALSE
  OBVIOUS
<1>2. PICK n \in Nat \ S : \A m \in Nat \ S : n <= m
  BY <1>1, LeastNumber
<1>3. n # 0 /\ n - 1 \in Nat
  BY <1>2
<1>4. n - 1 \in S
  BY <1>2, <1>3
<1>5. QED
  BY <1>3, <1>4

(* A sequence of integers: empty, or its head and the rest.                *)
LEMMA IntsFacts ==
  ASSUME NEW s \in Seq(Int), s # <<>>
  PROVE  /\ Head(s) \in Int /\ Head(s) = s[1] /\ Tail(s) \in Seq(Int)
         /\ Len(s) \in Nat \ {0} /\ Len(Tail(s)) = Len(s) - 1
         /\ \A i \in 1 .. Len(s) - 1 : Tail(s)[i] = s[i + 1]
<1>1. Len(s) \in Nat /\ Len(s) # 0
  BY EmptySeq, LenProperties
<1>2. QED
  BY <1>1, HeadTailProperties

(* The sum obeys its equation: a function that does for sequences up to a  *)
(* length is extended to the next length, and two that do agree.           *)
SumsTo(g, n) ==
  \A s \in Seq(Int) :
    Len(s) <= n => g[s] = IF s = <<>> THEN 0 ELSE Head(s) + g[Tail(s)]

(* Two functions that sum sequences up to a length agree on them.         *)
LEMMA SumsAgree ==
  ASSUME NEW g, NEW h, NEW n \in Nat, SumsTo(g, n), SumsTo(h, n)
  PROVE  \A s \in Seq(Int) : Len(s) <= n => g[s] = h[s]
<1> DEFINE S == {m \in Nat : \A s \in Seq(Int) : Len(s) = m /\ m <= n => g[s] = h[s]}
<1>1. 0 \in S
  <2>1. ASSUME NEW s \in Seq(Int), Len(s) = 0 PROVE g[s] = h[s]
    <3>1. s = <<>> /\ Len(s) <= n
      BY <2>1, EmptySeq
    <3>2. QED
      BY <3>1 DEF SumsTo
  <2>2. QED
    BY <2>1
<1>2. ASSUME NEW m \in Nat, m \in S PROVE m + 1 \in S
  <2>1. ASSUME NEW s \in Seq(Int), Len(s) = m + 1, m + 1 <= n PROVE g[s] = h[s]
    <3>1. s # <<>>
      BY <2>1, EmptySeq
    <3>2. Tail(s) \in Seq(Int) /\ Len(Tail(s)) = m
      BY <2>1, <3>1, IntsFacts
    <3>3. m <= n /\ Len(s) <= n
      BY <2>1
    <3>4. g[Tail(s)] = h[Tail(s)]
      BY <1>2, <3>2, <3>3
    <3>5. QED
      BY <3>1, <3>3, <3>4 DEF SumsTo
  <2>2. QED
    BY <2>1
<1>3. Nat \subseteq S
  <2> HIDE DEF S
  <2>1. QED
    BY <1>1, <1>2, Induction
<1>4. QED
  <2>1. ASSUME NEW s \in Seq(Int), Len(s) <= n PROVE g[s] = h[s]
    <3>1. Len(s) \in S
      BY <1>3, LenProperties
    <3>2. QED
      BY <2>1, <3>1
  <2>2. QED
    BY <2>1

(* There is such a function for every length.                             *)
LEMMA SumsExist == \A n \in Nat : \E g : SumsTo(g, n)
<1> DEFINE S == {n \in Nat : \E g : SumsTo(g, n)}
<1>1. 0 \in S
  <2>1. SumsTo([s \in Seq(Int) |-> 0], 0)
    <3>1. ASSUME NEW s \in Seq(Int), Len(s) <= 0 PROVE s = <<>>
      BY <3>1, EmptySeq, LenProperties
    <3>2. QED
      BY <3>1 DEF SumsTo
  <2>2. QED
    BY <2>1
<1>2. ASSUME NEW n \in Nat, n \in S PROVE n + 1 \in S
  <2>1. PICK g : SumsTo(g, n)
    BY <1>2
  <2> DEFINE h == [s \in Seq(Int) |-> IF s = <<>> THEN 0 ELSE Head(s) + g[Tail(s)]]
  <2>2. SumsTo(h, n + 1)
    <3>1. ASSUME NEW s \in Seq(Int), Len(s) <= n + 1, s # <<>>
          PROVE  h[s] = Head(s) + h[Tail(s)]
      <4>1. Tail(s) \in Seq(Int) /\ Len(Tail(s)) <= n
        BY <3>1, IntsFacts
      <4>2. g[Tail(s)] = h[Tail(s)]
        BY <2>1, <4>1 DEF SumsTo
      <4>3. QED
        BY <3>1, <4>2
    <3>2. h[<<>>] = 0
      OBVIOUS
    <3> HIDE DEF h
    <3>3. QED
      BY <3>1, <3>2 DEF SumsTo
  <2>3. QED
    BY <2>2
<1>3. Nat \subseteq S
  <2> HIDE DEF S
  <2>1. QED
    BY <1>1, <1>2, Induction
<1>4. QED
  BY <1>3

(* The recursive function is what its definition says.                    *)
LEMMA SumEquation ==
  /\ sumOf[<<>>] = 0
  /\ \A s \in Seq(Int) : s # <<>> => sumOf[s] = Head(s) + sumOf[Tail(s)]
<1>1. PICK G : \A n \in Nat : SumsTo(G[n], n)
  <2> DEFINE H == [n \in Nat |-> CHOOSE g : SumsTo(g, n)]
  <2>1. \A n \in Nat : SumsTo(H[n], n)
    BY SumsExist
  <2>2. QED
    BY <2>1
<1>2. <<>> \in Seq(Int) /\ Len(<<>>) = 0
  OBVIOUS
<1>3. PICK f : f = [s \in Seq(Int) |-> G[Len(s)][s]]
  OBVIOUS
<1>4. f[<<>>] = 0
  <2>1. PICK e \in Seq(Int) : e = <<>> /\ Len(e) = 0
    BY <1>2
  <2>2. PICK g : g = G[0]
    OBVIOUS
  <2>3. SumsTo(g, 0)
    BY <1>1, <2>2
  <2>4. g[e] = 0
    <3>1. Len(e) <= 0 => g[e] = IF e = <<>> THEN 0 ELSE Head(e) + g[Tail(e)]
      BY <2>3 DEF SumsTo
    <3>2. QED
      BY <2>1, <3>1
  <2>5. QED
    BY <1>3, <2>1, <2>2, <2>4
<1>5. ASSUME NEW s \in Seq(Int), s # <<>>
      PROVE  f[s] = Head(s) + f[Tail(s)]
  <2>1. /\ Tail(s) \in Seq(Int) /\ Len(s) \in Nat \ {0} /\ Len(Tail(s)) = Len(s) - 1
    BY <1>5, IntsFacts
  <2> DEFINE n == Len(s) - 1
  <2>2. n \in Nat /\ Len(s) = n + 1 /\ Len(Tail(s)) = n
    BY <2>1
  <2> HIDE DEF n
  <2>3. n + 1 \in Nat /\ SumsTo(G[n], n) /\ SumsTo(G[n + 1], n + 1)
    BY <1>1, <2>2
  <2>4. SumsTo(G[n + 1], n)
    <3>1. \A u \in Seq(Int) : Len(u) \in Nat /\ (Len(u) <= n => Len(u) <= n + 1)
      BY <2>2, LenProperties
    <3>2. QED
      BY <2>3, <3>1 DEF SumsTo
  <2>5. G[n][Tail(s)] = G[n + 1][Tail(s)]
    <3>1. \A u \in Seq(Int) : Len(u) <= n => G[n][u] = G[n + 1][u]
      BY <2>2, <2>3, <2>4, SumsAgree
    <3>2. Len(Tail(s)) <= n
      BY <2>2
    <3>3. QED
      BY <2>1, <3>1, <3>2
  <2>6. G[n + 1][s] = Head(s) + G[n + 1][Tail(s)]
    BY <1>5, <2>1, <2>2, <2>3 DEF SumsTo
  <2>7. f[s] = G[n + 1][s] /\ f[Tail(s)] = G[n][Tail(s)]
    BY <1>3, <2>1, <2>2
  <2>8. QED
    BY <2>5, <2>6, <2>7
<1>6. f = [s \in Seq(Int) |-> IF s = <<>> THEN 0 ELSE Head(s) + f[Tail(s)]]
  <2>1. \A s \in Seq(Int) : f[s] = IF s = <<>> THEN 0 ELSE Head(s) + f[Tail(s)]
    BY <1>4, <1>5
  <2>2. f = [s \in Seq(Int) |-> f[s]]
    BY <1>3
  <2>3. QED
    BY <2>1, <2>2
<1>7. sumOf = [s \in Seq(Int) |-> IF s = <<>> THEN 0 ELSE Head(s) + sumOf[Tail(s)]]
  BY <1>6 DEF sumOf
<1>8. QED
  BY <1>2, <1>7

LEMMA SumType == \A s \in Seq(Int) : sumOf[s] \in Int
<1> DEFINE S == {n \in Nat : \A s \in Seq(Int) : Len(s) = n => sumOf[s] \in Int}
<1>1. 0 \in S
  BY SumEquation, EmptySeq
<1>2. ASSUME NEW n \in Nat, n \in S PROVE n + 1 \in S
  <2>1. ASSUME NEW s \in Seq(Int), Len(s) = n + 1 PROVE sumOf[s] \in Int
    <3>1. s # <<>>
      BY <2>1, EmptySeq
    <3>2. Tail(s) \in Seq(Int) /\ Len(Tail(s)) = n /\ Head(s) \in Int
      BY <2>1, <3>1, IntsFacts
    <3>3. sumOf[Tail(s)] \in Int
      BY <1>2, <3>2
    <3>4. QED
      BY <3>1, <3>2, <3>3, SumEquation
  <2>2. QED
    BY <2>1
<1> HIDE DEF S
<1>3. Nat \subseteq S
  BY <1>1, <1>2, Induction
<1>4. QED
  BY <1>3, LenProperties DEF S

(* The sums of a sequence and of one that is nowhere less.                 *)
LEMMA SumMonotone ==
  ASSUME NEW s \in Seq(Int), NEW t \in Seq(Int), Len(s) = Len(t),
         \A j \in 1 .. Len(s) : s[j] <= t[j]
  PROVE  sumOf[s] <= sumOf[t]
<1> DEFINE Le(u, v) == Len(u) = Len(v) /\ \A j \in 1 .. Len(u) : u[j] <= v[j]
           S == {n \in Nat : \A u, v \in Seq(Int) :
                   Len(u) = n /\ Le(u, v) => sumOf[u] <= sumOf[v]}
<1>1. 0 \in S
  <2>1. ASSUME NEW u \in Seq(Int), NEW v \in Seq(Int), Len(u) = 0, Le(u, v)
        PROVE  sumOf[u] <= sumOf[v]
    <3>1. u = <<>> /\ v = <<>>
      BY <2>1, EmptySeq
    <3>2. QED
      BY <3>1, SumEquation
  <2>2. QED
    BY <2>1
<1>2. ASSUME NEW n \in Nat, n \in S PROVE n + 1 \in S
  <2>1. ASSUME NEW u \in Seq(Int), NEW v \in Seq(Int), Len(u) = n + 1, Le(u, v)
        PROVE  sumOf[u] <= sumOf[v]
    <3>1. u # <<>> /\ v # <<>>
      BY <2>1, EmptySeq
    <3>2. /\ Tail(u) \in Seq(Int) /\ Len(Tail(u)) = n /\ Head(u) \in Int /\ Head(u) = u[1]
          /\ Tail(v) \in Seq(Int) /\ Len(Tail(v)) = n /\ Head(v) \in Int /\ Head(v) = v[1]
          /\ \A i \in 1 .. n : Tail(u)[i] = u[i + 1] /\ Tail(v)[i] = v[i + 1]
      BY <2>1, <3>1, IntsFacts
    <3>3. Le(Tail(u), Tail(v)) /\ Head(u) <= Head(v)
      BY <2>1, <3>2
    <3>4. sumOf[Tail(u)] <= sumOf[Tail(v)]
      BY <1>2, <3>2, <3>3
    <3>5. sumOf[Tail(u)] \in Int /\ sumOf[Tail(v)] \in Int
      BY <3>2, SumType
    <3>6. sumOf[u] = Head(u) + sumOf[Tail(u)] /\ sumOf[v] = Head(v) + sumOf[Tail(v)]
      BY <3>1, SumEquation
    <3>7. QED
      BY <3>2, <3>3, <3>4, <3>5, <3>6
  <2>2. QED
    BY <2>1
<1>3. Nat \subseteq S
  <2> HIDE DEF S
  <2>1. QED
    BY <1>1, <1>2, Induction
<1>4. Len(s) \in S /\ Le(s, t)
  BY <1>3, LenProperties
<1>5. QED
  BY <1>4

(* The head of a sequence that has one, and the sum of the rest.           *)
LEMMA HeadAndRest ==
  ASSUME NEW v \in Seq(Int), NEW n \in Nat, Len(v) = n + 1
  PROVE  /\ v # <<>> /\ v[1] \in Int /\ Tail(v) \in Seq(Int) /\ Len(Tail(v)) = n
         /\ \A i \in 1 .. n : Tail(v)[i] = v[i + 1]
         /\ sumOf[v] = v[1] + sumOf[Tail(v)] /\ sumOf[v] \in Int /\ sumOf[Tail(v)] \in Int
<1>1. v # <<>> /\ Len(v) - 1 = n
  BY EmptySeq
<1>2. /\ Head(v) \in Int /\ Head(v) = v[1] /\ Tail(v) \in Seq(Int)
      /\ Len(Tail(v)) = Len(v) - 1 /\ \A i \in 1 .. Len(v) - 1 : Tail(v)[i] = v[i + 1]
  BY <1>1, IntsFacts
<1>3. sumOf[v] = Head(v) + sumOf[Tail(v)] /\ sumOf[v] \in Int /\ sumOf[Tail(v)] \in Int
  BY <1>1, <1>2, SumEquation, SumType
<1>4. QED
  BY <1>1, <1>2, <1>3

(* A sum of nothing negative.                                             *)
LEMMA SumNonNegative ==
  ASSUME NEW s \in Seq(Int), \A j \in 1 .. Len(s) : 0 <= s[j]
  PROVE  0 <= sumOf[s]
<1> DEFINE S == {n \in Nat : \A u \in Seq(Int) :
                   Len(u) = n /\ (\A j \in 1 .. n : 0 <= u[j]) => 0 <= sumOf[u]}
<1>1. 0 \in S
  BY SumEquation, EmptySeq
<1>2. ASSUME NEW n \in Nat, n \in S PROVE n + 1 \in S
  <2>1. ASSUME NEW u \in Seq(Int), Len(u) = n + 1, \A j \in 1 .. n + 1 : 0 <= u[j]
        PROVE  0 <= sumOf[u]
    <3>1. /\ u[1] \in Int /\ Tail(u) \in Seq(Int) /\ Len(Tail(u)) = n
          /\ \A i \in 1 .. n : Tail(u)[i] = u[i + 1]
          /\ sumOf[u] = u[1] + sumOf[Tail(u)] /\ sumOf[Tail(u)] \in Int
      BY <2>1, HeadAndRest
    <3>2. 0 <= u[1] /\ \A i \in 1 .. n : 0 <= Tail(u)[i]
      BY <2>1, <3>1
    <3>3. 0 <= sumOf[Tail(u)]
      BY <1>2, <3>1, <3>2
    <3>4. QED
      BY <3>1, <3>2, <3>3
  <2>2. QED
    BY <2>1
<1> HIDE DEF S
<1>3. Nat \subseteq S
  BY <1>1, <1>2, Induction
<1>4. QED
  BY <1>3, LenProperties DEF S

(* A sequence with one element more, put in anywhere.                      *)
OneMore(s, t, k) ==
  /\ k \in 1 .. Len(t) /\ Len(t) = Len(s) + 1
  /\ \A j \in 1 .. Len(s) : t[IF j < k THEN j ELSE j + 1] = s[j]

(* Its sum is more by that element.                                       *)
LEMMA SumOneMore ==
  ASSUME NEW s \in Seq(Int), NEW t \in Seq(Int), NEW k \in Nat, OneMore(s, t, k)
  PROVE  sumOf[t] = sumOf[s] + t[k]
<1> DEFINE S == {n \in Nat : \A u, v \in Seq(Int) :
                   OneMore(u, v, n + 1) => sumOf[v] = sumOf[u] + v[n + 1]}
<1>1. 0 \in S
  <2>1. ASSUME NEW u \in Seq(Int), NEW v \in Seq(Int), OneMore(u, v, 1)
        PROVE  sumOf[v] = sumOf[u] + v[1]
    <3> DEFINE m == Len(u)
    <3>1. m \in Nat /\ Len(v) = m + 1 /\ \A j \in 1 .. m : v[j + 1] = u[j]
      <4>1. \A j \in 1 .. Len(u) : v[IF j < 1 THEN j ELSE j + 1] = u[j]
        BY <2>1 DEF OneMore
      <4>2. Len(u) \in Nat /\ Len(v) = Len(u) + 1
        BY <2>1, LenProperties DEF OneMore
      <4>3. \A j \in 1 .. Len(u) : ~(j < 1)
        BY <4>2
      <4>4. QED
        BY <4>1, <4>2, <4>3
    <3>2. /\ v[1] \in Int /\ Tail(v) \in Seq(Int) /\ Len(Tail(v)) = m
          /\ \A i \in 1 .. m : Tail(v)[i] = v[i + 1]
          /\ sumOf[v] = v[1] + sumOf[Tail(v)] /\ sumOf[Tail(v)] \in Int
      BY <3>1, HeadAndRest
    <3>3. Tail(v) = u
      BY <3>1, <3>2, SeqEqual
    <3>4. sumOf[u] \in Int /\ sumOf[v] = v[1] + sumOf[u]
      BY <3>2, <3>3
    <3>5. QED
      BY <3>2, <3>4
  <2>2. QED
    BY <2>1
<1>2. ASSUME NEW n \in Nat, n \in S PROVE n + 1 \in S
  <2>1. ASSUME NEW u \in Seq(Int), NEW v \in Seq(Int), OneMore(u, v, n + 2)
        PROVE  sumOf[v] = sumOf[u] + v[n + 2]
    <3> DEFINE m == Len(u) - 1
    <3>1. m \in Nat /\ Len(u) = m + 1 /\ Len(v) = m + 2 /\ n <= m
      BY <2>1, LenProperties DEF OneMore
    <3>2. \A j \in 1 .. m + 1 : v[IF j < n + 2 THEN j ELSE j + 1] = u[j]
      BY <2>1, <3>1 DEF OneMore
    <3> HIDE DEF m
    <3>3. /\ v[1] \in Int /\ Tail(v) \in Seq(Int) /\ Len(Tail(v)) = m + 1
          /\ \A i \in 1 .. m + 1 : Tail(v)[i] = v[i + 1]
          /\ sumOf[v] = v[1] + sumOf[Tail(v)] /\ sumOf[Tail(v)] \in Int
      <4>1. m + 1 \in Nat /\ Len(v) = (m + 1) + 1
        BY <3>1
      <4>2. QED
        BY <4>1, HeadAndRest
    <3>4. /\ u[1] \in Int /\ Tail(u) \in Seq(Int) /\ Len(Tail(u)) = m
          /\ \A i \in 1 .. m : Tail(u)[i] = u[i + 1]
          /\ sumOf[u] = u[1] + sumOf[Tail(u)] /\ sumOf[Tail(u)] \in Int
      BY <3>1, HeadAndRest
    <3>5. v[1] = u[1]
      <4>1. 1 \in 1 .. m + 1 /\ 1 < n + 2
        BY <3>1
      <4>2. QED
        BY <3>2, <4>1
    <3>6. ASSUME NEW j \in 1 .. m
          PROVE  Tail(v)[IF j < n + 1 THEN j ELSE j + 1] = Tail(u)[j]
      <4>1. /\ j \in 1 .. m + 1 /\ j + 1 \in 1 .. m + 1
            /\ Tail(u)[j] = u[j + 1] /\ Tail(v)[j] = v[j + 1] /\ Tail(v)[j + 1] = v[j + 1 + 1]
        <5>1. j \in 1 .. m + 1 /\ j + 1 \in 1 .. m + 1
          BY <3>1
        <5>2. QED
          BY <3>3, <3>4, <5>1
      <4>2. v[IF j + 1 < n + 2 THEN j + 1 ELSE j + 1 + 1] = u[j + 1]
        BY <3>2, <4>1
      <4>3. j + 1 < n + 2 <=> j < n + 1
        BY <4>1
      <4>4. QED
        BY <4>1, <4>2, <4>3
    <3>7. OneMore(Tail(u), Tail(v), n + 1)
      BY SMTT(60), <3>1, <3>3, <3>4, <3>6 DEF OneMore
    <3>8. sumOf[Tail(v)] = sumOf[Tail(u)] + Tail(v)[n + 1]
      BY <1>2, <3>3, <3>4, <3>7
    <3>9. Tail(v)[n + 1] = v[n + 2] /\ v[n + 2] \in Int
      <4>1. n + 1 \in 1 .. m + 1 /\ n + 2 \in 1 .. Len(v) /\ n + 1 + 1 = n + 2
        BY <3>1
      <4>2. QED
        BY <3>3, <4>1, ElementOfSeq
    <3>10. /\ sumOf[v] = u[1] + (sumOf[Tail(u)] + v[n + 2])
           /\ sumOf[u] = u[1] + sumOf[Tail(u)]
      BY <3>3, <3>4, <3>5, <3>8, <3>9
    <3>11. u[1] \in Int /\ sumOf[Tail(u)] \in Int /\ v[n + 2] \in Int
      BY <3>4, <3>9
    <3>12. QED
      BY ONLY <3>10, <3>11
  <2>2. n + 1 + 1 = n + 2
    OBVIOUS
  <2>3. QED
    BY <2>1, <2>2
<1>3. Nat \subseteq S
  <2> HIDE DEF S
  <2>1. QED
    BY <1>1, <1>2, Induction
<1>4. k - 1 \in Nat /\ k - 1 + 1 = k
  BY LenProperties DEF OneMore
<1>5. QED
  BY <1>3, <1>4

(* One element changed.                                                    *)
LEMMA SumChanged ==
  ASSUME NEW s \in Seq(Int), NEW t \in Seq(Int), NEW n \in Nat, Len(s) = n, Len(t) = n,
         NEW k \in 1 .. n, \A j \in 1 .. n : j # k => t[j] = s[j]
  PROVE  sumOf[t] = sumOf[s] - s[k] + t[k]
<1>1. Len(s) \in Nat \ {0} /\ k \in Nat /\ k \in 1 .. Len(s) /\ Len(t) = Len(s)
      /\ \A j \in 1 .. Len(s) : j # k => t[j] = s[j]
  <2>1. n # 0 /\ k \in Nat
    OBVIOUS
  <2>2. QED
    BY <2>1
<1>2. PICK m : m = [j \in 1 .. Len(s) - 1 |-> s[IF j < k THEN j ELSE j + 1]]
  OBVIOUS
<1>3. ASSUME NEW j \in 1 .. Len(s) - 1
      PROVE  /\ (IF j < k THEN j ELSE j + 1) \in 1 .. Len(s)
             /\ (IF j < k THEN j ELSE j + 1) # k
  BY <1>1
<1>4. m \in Seq(Int) /\ Len(m) = Len(s) - 1
  <2>1. \A j \in 1 .. Len(s) : s[j] \in Int
    BY ElementOfSeq
  <2>2. m \in [1 .. Len(s) - 1 -> Int]
    BY <1>2, <1>3, <2>1
  <2>3. QED
    BY <1>1, <1>2, <2>2, IsASeq, LenProperties
<1>5. OneMore(m, s, k) /\ OneMore(m, t, k)
  BY <1>1, <1>2, <1>3, <1>4 DEF OneMore
<1>6. sumOf[s] = sumOf[m] + s[k] /\ sumOf[t] = sumOf[m] + t[k]
  BY <1>1, <1>4, <1>5, SumOneMore
<1>7. sumOf[m] \in Int /\ s[k] \in Int /\ t[k] \in Int
  BY <1>4, SumType, ElementOfSeq
<1>8. QED
  BY <1>6, <1>7
-----------------------------------------------------------------------------
(* The sequences that the statistics sum up are sequences of numbers.      *)
LEMMA BlockSeqs ==
  ASSUME NEW r \in Region
  PROVE  /\ TakenBy(r) \in Seq(Int) /\ Len(TakenBy(r)) = Len(r.blocks)
         /\ RequestedIn(r) \in Seq(Int) /\ Len(RequestedIn(r)) = Len(r.blocks)
         /\ \A k \in 1 .. Len(r.blocks) :
              /\ TakenBy(r)[k] = BlockHeader + r.blocks[k].size
              /\ RequestedIn(r)[k] = r.blocks[k].req
<1>1. /\ Len(r.blocks) \in Nat /\ DOMAIN r.blocks = 1 .. Len(r.blocks)
      /\ \A k \in 1 .. Len(r.blocks) : r.blocks[k].size \in Nat /\ r.blocks[k].req \in Nat
  BY RegionTypes DEF Block
<1>2. /\ TakenBy(r) \in [1 .. Len(r.blocks) -> Int]
      /\ RequestedIn(r) \in [1 .. Len(r.blocks) -> Int]
      /\ \A k \in 1 .. Len(r.blocks) :
           /\ TakenBy(r)[k] = BlockHeader + r.blocks[k].size
           /\ RequestedIn(r)[k] = r.blocks[k].req
  BY <1>1 DEF TakenBy, RequestedIn, BlockHeader
<1>3. \A s : s \in [1 .. Len(r.blocks) -> Int] => s \in Seq(Int) /\ Len(s) = Len(r.blocks)
  BY <1>1
<1>4. QED
  BY <1>2, <1>3

(* What the statistics say of a region, and what they sum up of it.        *)
UsageExact(r) == r.usage = RegionHeader + sumOf[TakenBy(r)]

LEMMA RegionSums ==
  ASSUME NEW r \in Region
  PROVE  /\ sumOf[TakenBy(r)] \in Int /\ sumOf[RequestedIn(r)] \in Int
         /\ Len(r.blocks) \in Int /\ SizeOf(r) \in Int
BY BlockSeqs, SumType, RegionTypes

(* What a list of regions is summed up from.                              *)
LEMMA ListSeqs ==
  ASSUME NEW rs \in Seq(Region)
  PROVE  /\ Requested(rs) \in Seq(Int) /\ Len(Requested(rs)) = Len(rs)
         /\ BlockCounts(rs) \in Seq(Int) /\ Len(BlockCounts(rs)) = Len(rs)
         /\ RegionSizes(rs) \in Seq(Int) /\ Len(RegionSizes(rs)) = Len(rs)
         /\ \A i \in 1 .. Len(rs) :
              /\ Requested(rs)[i] = sumOf[RequestedIn(rs[i])]
              /\ BlockCounts(rs)[i] = Len(rs[i].blocks)
              /\ RegionSizes(rs)[i] = SizeOf(rs[i])
<1>1. /\ Len(rs) \in Nat /\ DOMAIN rs = 1 .. Len(rs)
      /\ \A i \in 1 .. Len(rs) :
           /\ sumOf[RequestedIn(rs[i])] \in Int
           /\ Len(rs[i].blocks) \in Int /\ SizeOf(rs[i]) \in Int
  BY LenProperties, ElementOfSeq, RegionSums
<1>2. /\ Requested(rs) \in [1 .. Len(rs) -> Int]
      /\ BlockCounts(rs) \in [1 .. Len(rs) -> Int]
      /\ RegionSizes(rs) \in [1 .. Len(rs) -> Int]
      /\ \A i \in 1 .. Len(rs) :
           /\ Requested(rs)[i] = sumOf[RequestedIn(rs[i])]
           /\ BlockCounts(rs)[i] = Len(rs[i].blocks)
           /\ RegionSizes(rs)[i] = SizeOf(rs[i])
  BY <1>1 DEF Requested, BlockCounts, RegionSizes
<1>3. \A s : s \in [1 .. Len(rs) -> Int] => s \in Seq(Int) /\ Len(s) = Len(rs)
  BY <1>1
<1>4. QED
  BY <1>2, <1>3

(* The sums of a list with one region changed, added, or taken out.        *)
Sums(rs) ==
  [requested |-> sumOf[Requested(rs)], blocks |-> sumOf[BlockCounts(rs)],
   bytes |-> sumOf[RegionSizes(rs)]]
Part(r) ==
  [requested |-> sumOf[RequestedIn(r)], blocks |-> Len(r.blocks), bytes |-> SizeOf(r)]

More(S, T, p) ==
  /\ T.requested = S.requested + p.requested
  /\ T.blocks = S.blocks + p.blocks
  /\ T.bytes = S.bytes + p.bytes

(* One region changed.                                                    *)
LEMMA ChangedSums ==
  ASSUME NEW rs \in Seq(Region), NEW i \in 1 .. Len(rs), NEW u \in Region, NEW ss,
         ss = Replaced(rs, i, u)
  PROVE  /\ ss \in Seq(Region) /\ Len(ss) = Len(rs)
         /\ Sums(ss).requested =
              Sums(rs).requested - sumOf[RequestedIn(rs[i])] + sumOf[RequestedIn(u)]
         /\ Sums(ss).blocks = Sums(rs).blocks - Len(rs[i].blocks) + Len(u.blocks)
         /\ Sums(ss).bytes = Sums(rs).bytes - SizeOf(rs[i]) + SizeOf(u)
<1>1. /\ ss \in Seq(Region) /\ Len(ss) = Len(rs) /\ ss[i] = u
      /\ \A j \in 1 .. Len(rs) : j # i => ss[j] = rs[j]
  BY ExceptSeq DEF Replaced
<1>2. /\ Requested(rs) \in Seq(Int) /\ Len(Requested(rs)) = Len(rs)
      /\ BlockCounts(rs) \in Seq(Int) /\ Len(BlockCounts(rs)) = Len(rs)
      /\ RegionSizes(rs) \in Seq(Int) /\ Len(RegionSizes(rs)) = Len(rs)
      /\ \A j \in 1 .. Len(rs) :
           /\ Requested(rs)[j] = sumOf[RequestedIn(rs[j])]
           /\ BlockCounts(rs)[j] = Len(rs[j].blocks)
           /\ RegionSizes(rs)[j] = SizeOf(rs[j])
  BY ListSeqs
<1>3. /\ Requested(ss) \in Seq(Int) /\ Len(Requested(ss)) = Len(rs)
      /\ BlockCounts(ss) \in Seq(Int) /\ Len(BlockCounts(ss)) = Len(rs)
      /\ RegionSizes(ss) \in Seq(Int) /\ Len(RegionSizes(ss)) = Len(rs)
      /\ \A j \in 1 .. Len(rs) :
           /\ Requested(ss)[j] = sumOf[RequestedIn(ss[j])]
           /\ BlockCounts(ss)[j] = Len(ss[j].blocks)
           /\ RegionSizes(ss)[j] = SizeOf(ss[j])
  BY <1>1, ListSeqs
<1>4. /\ \A j \in 1 .. Len(rs) : j # i => Requested(ss)[j] = Requested(rs)[j]
      /\ \A j \in 1 .. Len(rs) : j # i => BlockCounts(ss)[j] = BlockCounts(rs)[j]
      /\ \A j \in 1 .. Len(rs) : j # i => RegionSizes(ss)[j] = RegionSizes(rs)[j]
      /\ Len(rs) \in Nat
  <2>1. \A j \in 1 .. Len(rs) : j # i => Requested(ss)[j] = Requested(rs)[j]
    BY ZenonT(60), <1>1, <1>2, <1>3
  <2>2. \A j \in 1 .. Len(rs) : j # i => BlockCounts(ss)[j] = BlockCounts(rs)[j]
    BY ZenonT(60), <1>1, <1>2, <1>3
  <2>3. \A j \in 1 .. Len(rs) : j # i => RegionSizes(ss)[j] = RegionSizes(rs)[j]
    BY ZenonT(60), <1>1, <1>2, <1>3
  <2>4. QED
    BY <2>1, <2>2, <2>3, LenProperties
<1>5. sumOf[Requested(ss)] = sumOf[Requested(rs)] - Requested(rs)[i] + Requested(ss)[i]
  BY <1>2, <1>3, <1>4, SumChanged
<1>6. sumOf[BlockCounts(ss)] = sumOf[BlockCounts(rs)] - BlockCounts(rs)[i] + BlockCounts(ss)[i]
  BY <1>2, <1>3, <1>4, SumChanged
<1>7. sumOf[RegionSizes(ss)] = sumOf[RegionSizes(rs)] - RegionSizes(rs)[i] + RegionSizes(ss)[i]
  BY <1>2, <1>3, <1>4, SumChanged
<1>8. QED
  BY <1>1, <1>2, <1>3, <1>5, <1>6, <1>7 DEF Sums

(* A list with one region more, at place i.                                *)
LEMMA OneRegionMore ==
  ASSUME NEW rs \in Seq(Region), NEW ss \in Seq(Region), NEW i \in Nat, OneMore(rs, ss, i)
  PROVE  More(Sums(rs), Sums(ss), Part(ss[i]))
<1>1. /\ Requested(rs) \in Seq(Int) /\ Len(Requested(rs)) = Len(rs)
      /\ BlockCounts(rs) \in Seq(Int) /\ Len(BlockCounts(rs)) = Len(rs)
      /\ RegionSizes(rs) \in Seq(Int) /\ Len(RegionSizes(rs)) = Len(rs)
      /\ \A j \in 1 .. Len(rs) :
           /\ Requested(rs)[j] = sumOf[RequestedIn(rs[j])]
           /\ BlockCounts(rs)[j] = Len(rs[j].blocks)
           /\ RegionSizes(rs)[j] = SizeOf(rs[j])
  BY ListSeqs
<1>2. /\ Requested(ss) \in Seq(Int) /\ Len(Requested(ss)) = Len(ss)
      /\ BlockCounts(ss) \in Seq(Int) /\ Len(BlockCounts(ss)) = Len(ss)
      /\ RegionSizes(ss) \in Seq(Int) /\ Len(RegionSizes(ss)) = Len(ss)
      /\ \A j \in 1 .. Len(ss) :
           /\ Requested(ss)[j] = sumOf[RequestedIn(ss[j])]
           /\ BlockCounts(ss)[j] = Len(ss[j].blocks)
           /\ RegionSizes(ss)[j] = SizeOf(ss[j])
  BY ListSeqs
<1>3. /\ i \in 1 .. Len(ss) /\ Len(ss) = Len(rs) + 1 /\ Len(rs) \in Nat
      /\ \A j \in 1 .. Len(rs) : /\ (IF j < i THEN j ELSE j + 1) \in 1 .. Len(ss)
                                 /\ ss[IF j < i THEN j ELSE j + 1] = rs[j]
  <2>1. i \in 1 .. Len(ss) /\ Len(ss) = Len(rs) + 1 /\ Len(rs) \in Nat
    BY LenProperties DEF OneMore
  <2>2. \A j \in 1 .. Len(rs) : (IF j < i THEN j ELSE j + 1) \in 1 .. Len(ss)
    BY <2>1
  <2>3. QED
    BY <2>1, <2>2 DEF OneMore
<1>4. /\ OneMore(Requested(rs), Requested(ss), i)
      /\ OneMore(BlockCounts(rs), BlockCounts(ss), i)
      /\ OneMore(RegionSizes(rs), RegionSizes(ss), i)
  <2>1. ASSUME NEW j \in 1 .. Len(rs)
        PROVE  /\ Requested(ss)[IF j < i THEN j ELSE j + 1] = Requested(rs)[j]
               /\ BlockCounts(ss)[IF j < i THEN j ELSE j + 1] = BlockCounts(rs)[j]
               /\ RegionSizes(ss)[IF j < i THEN j ELSE j + 1] = RegionSizes(rs)[j]
    <3>1. PICK h \in 1 .. Len(ss) : h = (IF j < i THEN j ELSE j + 1) /\ ss[h] = rs[j]
      BY <1>3
    <3>2. /\ Requested(ss)[h] = Requested(rs)[j] /\ BlockCounts(ss)[h] = BlockCounts(rs)[j]
          /\ RegionSizes(ss)[h] = RegionSizes(rs)[j]
      BY <1>1, <1>2, <3>1
    <3>3. QED
      BY <3>1, <3>2
  <2>2. QED
    BY <1>1, <1>2, <1>3, <2>1 DEF OneMore
<1>5. sumOf[Requested(ss)] = sumOf[Requested(rs)] + Requested(ss)[i]
  BY <1>1, <1>2, <1>4, SumOneMore
<1>6. sumOf[BlockCounts(ss)] = sumOf[BlockCounts(rs)] + BlockCounts(ss)[i]
  BY <1>1, <1>2, <1>4, SumOneMore
<1>7. sumOf[RegionSizes(ss)] = sumOf[RegionSizes(rs)] + RegionSizes(ss)[i]
  BY <1>1, <1>2, <1>4, SumOneMore
<1>8. QED
  BY <1>2, <1>3, <1>5, <1>6, <1>7 DEF Sums, Part, More
-----------------------------------------------------------------------------
(* What place_block, kfree and krealloc do to a region, seen in its sums.  *)
LEMMA InsertedSums ==
  ASSUME NEW r \in Region, NEW b \in Block, NEW k \in 0 .. Len(r.blocks), NEW u,
         u = Inserted(r, k, b), u \in Region
  PROVE  /\ sumOf[TakenBy(u)] = sumOf[TakenBy(r)] + BlockHeader + b.size
         /\ sumOf[RequestedIn(u)] = sumOf[RequestedIn(r)] + b.req
         /\ Len(u.blocks) = Len(r.blocks) + 1 /\ SizeOf(u) = SizeOf(r)
         /\ UsageExact(r) => UsageExact(u)
<1> DEFINE n == Len(r.blocks)
<1>1. /\ n \in Nat /\ r.blocks \in Seq(Block) /\ r.usage \in Nat /\ k + 1 \in 1 .. n + 1
      /\ b.size \in Nat /\ b.req \in Nat
  BY RegionTypes DEF Block
<1>2. /\ u.blocks = InsertAt(r.blocks, k + 1, b) /\ u.run = r.run
      /\ u.usage = r.usage + BlockHeader + b.size
  BY DEF Inserted, Region
<1>3. /\ Len(u.blocks) = n + 1
      /\ \A j \in 1 .. n + 1 :
           u.blocks[j] = IF j < k + 1 THEN r.blocks[j]
                         ELSE IF j = k + 1 THEN b ELSE r.blocks[j - 1]
  <2>1. PICK s \in Seq(Block) : s = r.blocks
    BY <1>1
  <2>2. PICK m \in 1 .. Len(s) + 1 : m = k + 1
    BY <1>1, <2>1
  <2>3. /\ Len(InsertAt(s, m, b)) = Len(s) + 1
        /\ \A j \in 1 .. Len(s) + 1 :
             InsertAt(s, m, b)[j] = IF j < m THEN s[j] ELSE IF j = m THEN b ELSE s[j - 1]
    <3>1. s \in Seq(Block) /\ m \in 1 .. Len(s) + 1 /\ b \in Block
      OBVIOUS
    <3>2. QED
      BY ONLY <3>1, InsertAtFacts
  <2>4. QED
    BY <1>2, <2>1, <2>2, <2>3
<1>4. /\ TakenBy(r) \in Seq(Int) /\ Len(TakenBy(r)) = n
      /\ RequestedIn(r) \in Seq(Int) /\ Len(RequestedIn(r)) = n
      /\ \A j \in 1 .. n : /\ TakenBy(r)[j] = BlockHeader + r.blocks[j].size
                           /\ RequestedIn(r)[j] = r.blocks[j].req
  BY BlockSeqs
<1>5. /\ TakenBy(u) \in Seq(Int) /\ Len(TakenBy(u)) = n + 1
      /\ RequestedIn(u) \in Seq(Int) /\ Len(RequestedIn(u)) = n + 1
      /\ \A j \in 1 .. n + 1 : /\ TakenBy(u)[j] = BlockHeader + u.blocks[j].size
                               /\ RequestedIn(u)[j] = u.blocks[j].req
  BY <1>3, BlockSeqs
<1> HIDE DEF n
<1>6. OneMore(TakenBy(r), TakenBy(u), k + 1) /\ OneMore(RequestedIn(r), RequestedIn(u), k + 1)
  <2>1. ASSUME NEW j \in 1 .. n
        PROVE  /\ TakenBy(u)[IF j < k + 1 THEN j ELSE j + 1] = TakenBy(r)[j]
               /\ RequestedIn(u)[IF j < k + 1 THEN j ELSE j + 1] = RequestedIn(r)[j]
    <3>1. PICK h \in 1 .. n + 1 : /\ h = (IF j < k + 1 THEN j ELSE j + 1)
                                  /\ u.blocks[h] = r.blocks[j]
      <4>1. CASE j < k + 1
        <5>1. j \in 1 .. n + 1 /\ u.blocks[j] = r.blocks[j]
          BY <1>1, <1>3, <4>1
        <5>2. QED
          BY <4>1, <5>1
      <4>2. CASE ~(j < k + 1)
        <5>1. /\ j + 1 \in 1 .. n + 1 /\ ~(j + 1 < k + 1) /\ j + 1 # k + 1 /\ j + 1 - 1 = j
          BY <1>1, <4>2
        <5>2. u.blocks[j + 1] = r.blocks[j]
          BY <1>3, <5>1
        <5>3. QED
          BY <4>2, <5>1, <5>2
      <4>3. QED
        BY <4>1, <4>2
    <3>2. TakenBy(u)[h] = TakenBy(r)[j] /\ RequestedIn(u)[h] = RequestedIn(r)[j]
      BY <1>4, <1>5, <3>1
    <3>3. QED
      BY <3>1, <3>2
  <2>2. QED
    BY <1>1, <1>4, <1>5, <2>1 DEF OneMore
<1>7. u.blocks[k + 1] = b
  BY <1>1, <1>3
<1>8. k + 1 \in Nat
  BY <1>1
<1>9. /\ sumOf[TakenBy(u)] = sumOf[TakenBy(r)] + (BlockHeader + b.size)
      /\ sumOf[RequestedIn(u)] = sumOf[RequestedIn(r)] + b.req
  <2>1. /\ sumOf[TakenBy(u)] = sumOf[TakenBy(r)] + TakenBy(u)[k + 1]
        /\ sumOf[RequestedIn(u)] = sumOf[RequestedIn(r)] + RequestedIn(u)[k + 1]
    BY <1>4, <1>5, <1>6, <1>8, SumOneMore
  <2>2. QED
    BY <1>1, <1>5, <1>7, <2>1
<1>10. sumOf[TakenBy(r)] \in Int
  BY RegionSums
<1>11. SizeOf(u) = SizeOf(r)
  BY <1>2 DEF SizeOf
<1>12. UsageExact(r) => UsageExact(u)
  BY <1>1, <1>2, <1>9, <1>10 DEF UsageExact, RegionHeader, BlockHeader
<1>13. sumOf[TakenBy(u)] = sumOf[TakenBy(r)] + BlockHeader + b.size
  BY <1>1, <1>9, <1>10 DEF BlockHeader
<1>14. QED
  BY <1>3, <1>9, <1>11, <1>12, <1>13 DEF n

(* kfree of one of several blocks.                                        *)
LEMMA UnlinkedSums ==
  ASSUME NEW r \in Region, NEW k \in 1 .. Len(r.blocks), NEW u, u = Unlinked(r, k), u \in Region
  PROVE  /\ sumOf[RequestedIn(u)] = sumOf[RequestedIn(r)] - r.blocks[k].req
         /\ Len(u.blocks) = Len(r.blocks) - 1 /\ SizeOf(u) = SizeOf(r)
         /\ UsageExact(r) => UsageExact(u)
<1> DEFINE n == Len(r.blocks) - 1
<1>1. /\ n \in Nat /\ Len(r.blocks) = n + 1 /\ r.blocks \in Seq(Block) /\ r.usage \in Nat
      /\ r.blocks[k].size \in Nat /\ r.blocks[k].req \in Nat /\ k \in 1 .. n + 1 /\ k \in Nat
  <2>1. Len(r.blocks) \in Nat /\ r.blocks \in Seq(Block) /\ r.blocks[k] \in Block /\ r.usage \in Nat
    BY RegionTypes
  <2>2. r.blocks[k].size \in Nat /\ r.blocks[k].req \in Nat
    BY <2>1 DEF Block
  <2>3. n \in Nat /\ Len(r.blocks) = n + 1 /\ k \in 1 .. n + 1 /\ k \in Nat
    BY <2>1
  <2>4. QED
    BY <2>1, <2>2, <2>3
<1>2. /\ u.blocks = RemoveAt(r.blocks, k) /\ u.run = r.run
      /\ u.usage = r.usage - (BlockHeader + r.blocks[k].size)
  BY DEF Unlinked, Region
<1>3. /\ Len(u.blocks) = n
      /\ \A j \in 1 .. n : u.blocks[j] = r.blocks[IF j < k THEN j ELSE j + 1]
  <2>1. /\ Len(RemoveAt(r.blocks, k)) = Len(r.blocks) - 1
        /\ \A j \in 1 .. Len(r.blocks) - 1 :
             RemoveAt(r.blocks, k)[j] = IF j < k THEN r.blocks[j] ELSE r.blocks[j + 1]
    BY <1>1, RemoveAtFacts
  <2>2. QED
    BY <1>1, <1>2, <2>1
<1>4. /\ TakenBy(r) \in Seq(Int) /\ Len(TakenBy(r)) = n + 1
      /\ RequestedIn(r) \in Seq(Int) /\ Len(RequestedIn(r)) = n + 1
      /\ \A j \in 1 .. n + 1 : /\ TakenBy(r)[j] = BlockHeader + r.blocks[j].size
                               /\ RequestedIn(r)[j] = r.blocks[j].req
  BY <1>1, BlockSeqs
<1>5. /\ TakenBy(u) \in Seq(Int) /\ Len(TakenBy(u)) = n
      /\ RequestedIn(u) \in Seq(Int) /\ Len(RequestedIn(u)) = n
      /\ \A j \in 1 .. n : /\ TakenBy(u)[j] = BlockHeader + u.blocks[j].size
                           /\ RequestedIn(u)[j] = u.blocks[j].req
  BY <1>3, BlockSeqs
<1> HIDE DEF n
<1>6. OneMore(TakenBy(u), TakenBy(r), k) /\ OneMore(RequestedIn(u), RequestedIn(r), k)
  <2>1. ASSUME NEW j \in 1 .. n
        PROVE  /\ TakenBy(r)[IF j < k THEN j ELSE j + 1] = TakenBy(u)[j]
               /\ RequestedIn(r)[IF j < k THEN j ELSE j + 1] = RequestedIn(u)[j]
    <3>1. PICK h \in 1 .. n + 1 : h = (IF j < k THEN j ELSE j + 1) /\ u.blocks[j] = r.blocks[h]
      BY <1>1, <1>3
    <3>2. TakenBy(r)[h] = TakenBy(u)[j] /\ RequestedIn(r)[h] = RequestedIn(u)[j]
      BY ZenonT(60), <1>4, <1>5, <3>1
    <3>3. QED
      BY <3>1, <3>2
  <2>2. QED
    BY <1>1, <1>4, <1>5, <2>1 DEF OneMore
<1>7. /\ sumOf[TakenBy(r)] = sumOf[TakenBy(u)] + (BlockHeader + r.blocks[k].size)
      /\ sumOf[RequestedIn(r)] = sumOf[RequestedIn(u)] + r.blocks[k].req
  <2>1. /\ sumOf[TakenBy(r)] = sumOf[TakenBy(u)] + TakenBy(r)[k]
        /\ sumOf[RequestedIn(r)] = sumOf[RequestedIn(u)] + RequestedIn(r)[k]
    BY <1>1, <1>4, <1>5, <1>6, SumOneMore
  <2>2. QED
    BY <1>1, <1>4, <2>1
<1>8. sumOf[TakenBy(u)] \in Int /\ sumOf[RequestedIn(u)] \in Int
  BY RegionSums
<1>9. SizeOf(u) = SizeOf(r)
  BY <1>2 DEF SizeOf
<1>10. UsageExact(r) => UsageExact(u)
  BY SMTT(60), <1>1, <1>2, <1>7, <1>8 DEF UsageExact, RegionHeader, BlockHeader
<1>11. sumOf[RequestedIn(u)] = sumOf[RequestedIn(r)] - r.blocks[k].req
  BY <1>1, <1>7, <1>8
<1>12. QED
  BY <1>3, <1>9, <1>10, <1>11 DEF n

(* krealloc in place.                                                     *)
LEMMA ShrunkSums ==
  ASSUME NEW r \in Region, NEW k \in 1 .. Len(r.blocks), NEW size \in Nat, NEW u,
         u = Shrunk(r, k, size), u \in Region
  PROVE  /\ sumOf[RequestedIn(u)] = sumOf[RequestedIn(r)] - r.blocks[k].req + size
         /\ Len(u.blocks) = Len(r.blocks) /\ SizeOf(u) = SizeOf(r)
         /\ UsageExact(r) => UsageExact(u)
<1> DEFINE n == Len(r.blocks)
           c == [r.blocks[k] EXCEPT !.req = size]
<1>1. n \in Nat /\ r.blocks \in Seq(Block) /\ r.blocks[k] \in Block /\ k \in 1 .. n
  BY RegionTypes
<1>2. c \in Block /\ c.size = r.blocks[k].size /\ c.req = size
  BY <1>1 DEF Block
<1>3. u.blocks = [r.blocks EXCEPT ![k] = c] /\ u.run = r.run /\ u.usage = r.usage
  BY <1>1 DEF Shrunk, Region
<1>4. /\ Len(u.blocks) = n
      /\ \A j \in 1 .. n : u.blocks[j] = IF j = k THEN c ELSE r.blocks[j]
  <2> HIDE DEF c
  <2>1. QED
    BY <1>1, <1>2, <1>3, ExceptSeq
<1>5. /\ TakenBy(r) \in Seq(Int) /\ Len(TakenBy(r)) = n
      /\ RequestedIn(r) \in Seq(Int) /\ Len(RequestedIn(r)) = n
      /\ \A j \in 1 .. n : /\ TakenBy(r)[j] = BlockHeader + r.blocks[j].size
                           /\ RequestedIn(r)[j] = r.blocks[j].req
  BY BlockSeqs
<1>6. /\ TakenBy(u) \in Seq(Int) /\ Len(TakenBy(u)) = n
      /\ RequestedIn(u) \in Seq(Int) /\ Len(RequestedIn(u)) = n
      /\ \A j \in 1 .. n : /\ TakenBy(u)[j] = BlockHeader + u.blocks[j].size
                           /\ RequestedIn(u)[j] = u.blocks[j].req
  BY <1>4, BlockSeqs
<1> HIDE DEF n, c
<1>7. \A j \in 1 .. n : /\ TakenBy(u)[j] = TakenBy(r)[j]
                        /\ j # k => RequestedIn(u)[j] = RequestedIn(r)[j]
  <2>1. ASSUME NEW j \in 1 .. n
        PROVE  /\ TakenBy(u)[j] = TakenBy(r)[j]
               /\ j # k => RequestedIn(u)[j] = RequestedIn(r)[j]
    <3>1. CASE j = k
      <4>1. u.blocks[j] = c
        BY <1>4, <3>1
      <4>2. u.blocks[j].size = r.blocks[j].size
        BY <1>2, <3>1, <4>1
      <4>3. QED
        BY <1>5, <1>6, <3>1, <4>2
    <3>2. CASE j # k
      BY <1>4, <1>5, <1>6, <3>2
    <3>3. QED
      BY <3>1, <3>2
  <2>2. QED
    BY <2>1
<1>8. TakenBy(u) = TakenBy(r)
  BY <1>5, <1>6, <1>7, SeqEqual
<1>9. sumOf[RequestedIn(u)] = sumOf[RequestedIn(r)] - RequestedIn(r)[k] + RequestedIn(u)[k]
  BY <1>1, <1>5, <1>6, <1>7, SumChanged
<1>10. RequestedIn(r)[k] = r.blocks[k].req /\ RequestedIn(u)[k] = size
  BY <1>1, <1>2, <1>4, <1>5, <1>6
<1>11. QED
  BY <1>3, <1>4, <1>8, <1>9, <1>10 DEF UsageExact, SizeOf, n
-----------------------------------------------------------------------------
(* The memory of a machine is far smaller than what a size_t can count, so *)
(* that what the blocks in use were asked for stays below 2^64.            *)
MemoryFits ==
  \A m \in MemMaps : \A i \in DOMAIN m :
    m[i].usable => CeilPage(End(m[i])) * PageSize < WordSize

Addressable == totalPages * PageSize < WordSize
SizesFit    == totalRegionBytes < WordSize

(* The regions are pages of memory, each counted once.                    *)
LEMMA HeapFits ==
  ASSUME HeapInv, Addressable
  PROVE  SizesFit
<1>1. totalPages \in Nat /\ owned = RunsOf(regions) \cup dmaRuns
  BY DEF HeapInv, PhysIInv, PhysTypeOK, OwnersOK
<1>2. PagesIn(regions) \subseteq Pages
  BY <1>1 DEF HeapInv, PhysIInv, NoDoubleGrant, PagesIn, RunsOf
<1>3. IsFiniteSet(Pages) /\ Cardinality(Pages) = totalPages
  <2>1. CASE totalPages = 0
    BY <2>1, FS_EmptySet DEF Pages
  <2>2. CASE totalPages # 0
    <3> DEFINE last == totalPages - 1
    <3>1. 0 \in Int /\ last \in Int /\ ~(0 > last) /\ last - 0 + 1 = totalPages
      BY <1>1, <2>2
    <3> HIDE DEF last
    <3>2. IsFiniteSet(0 .. last) /\ Cardinality(0 .. last) = last - 0 + 1
      BY <3>1, FS_Interval
    <3>3. QED
      BY <3>1, <3>2 DEF Pages, last
  <2>3. QED
    BY <2>1, <2>2
<1>4. Cardinality(PagesIn(regions)) <= totalPages /\ Cardinality(PagesIn(regions)) \in Nat
  BY <1>2, <1>3, FS_Subset, FS_CardinalityType
<1>5. totalRegionBytes = PageSize * Cardinality(PagesIn(regions))
  BY DEF HeapInv, CountsOK
<1>6. WordSize \in Nat
  BY HeapAssumption
<1>7. QED
  BY <1>1, <1>4, <1>5, <1>6 DEF Addressable, SizesFit, PageSize

(* Only init measures memory.                                             *)
LEMMA AddressableNext ==
  ASSUME MemoryFits, HeapInv, Addressable, Boot \/ UNCHANGED totalPages
  PROVE  Addressable'
<1>1. CASE UNCHANGED totalPages
  BY <1>1 DEF Addressable
<1>2. memmap \in MemMaps
  BY DEF HeapInv, PhysIInv, PhysTypeOK
<1>3. ASSUME NEW j \in Usable, totalPages' = CeilPage(End(memmap[j]))
      PROVE  Addressable'
  BY <1>2, <1>3 DEF MemoryFits, Usable, Addressable
<1>4. ASSUME totalPages' = CeilPage(0)
      PROVE  Addressable'
  BY <1>4, HeapAssumption DEF Addressable, CeilPage, PageSize
<1>5. CASE InitStart
  BY <1>3, <1>5 DEF InitStart
<1>6. CASE InitFails
  BY <1>3, <1>4, <1>6 DEF InitFails
<1>7. CASE MarkUsable \/ KeepBitmapReserved
  BY <1>1, <1>7 DEF MarkUsable, KeepBitmapReserved
<1>8. QED
  BY <1>1, <1>5, <1>6, <1>7 DEF Boot
-----------------------------------------------------------------------------
AllExact(rs) == \A i \in DOMAIN rs : UsageExact(rs[i])

(* A block is no smaller than its request, a region no smaller than its    *)
(* blocks: what was asked for fits into the regions.                       *)
LEMMA RequestedBelowSizes ==
  ASSUME NEW rs, ListOK(rs), AllExact(rs), \A b \in BlocksIn(rs) : LargeEnough(b)
  PROVE  0 <= sumOf[Requested(rs)] /\ sumOf[Requested(rs)] <= sumOf[RegionSizes(rs)]
<1>1. /\ rs \in Seq(Region) /\ Len(rs) \in Nat /\ DOMAIN rs = 1 .. Len(rs)
      /\ \A i \in 1 .. Len(rs) : RegionOK(rs[i]) /\ rs[i] \in Elems(rs)
  BY ListFacts DEF ListOK
<1>2. ASSUME NEW i \in 1 .. Len(rs)
      PROVE  0 <= sumOf[RequestedIn(rs[i])] /\ sumOf[RequestedIn(rs[i])] <= SizeOf(rs[i])
  <2>1. PICK r : r = rs[i]
    OBVIOUS
  <2>2. RegionOK(r) /\ r \in Region /\ UsageExact(r) /\ BlocksOf(r) \subseteq BlocksIn(rs)
    BY <1>1, <2>1 DEF RegionOK, AllExact, BlocksIn
  <2>3. /\ TakenBy(r) \in Seq(Int) /\ Len(TakenBy(r)) = Len(r.blocks)
        /\ RequestedIn(r) \in Seq(Int) /\ Len(RequestedIn(r)) = Len(r.blocks)
        /\ \A j \in 1 .. Len(r.blocks) : /\ TakenBy(r)[j] = BlockHeader + r.blocks[j].size
                                         /\ RequestedIn(r)[j] = r.blocks[j].req
    BY <2>2, BlockSeqs
  <2>4. ASSUME NEW j \in 1 .. Len(r.blocks)
        PROVE  0 <= RequestedIn(r)[j] /\ RequestedIn(r)[j] <= TakenBy(r)[j]
    <3>1. r.blocks[j] \in Block /\ r.blocks[j] \in BlocksOf(r)
      BY <2>2, RegionTypes DEF BlocksOf
    <3>2. r.blocks[j].req \in 1 .. r.blocks[j].size /\ r.blocks[j].size \in Nat
      BY <2>2, <3>1 DEF LargeEnough, Block
    <3>3. QED
      BY SMTT(60), <2>3, <3>2 DEF BlockHeader
  <2>5. sumOf[RequestedIn(r)] <= sumOf[TakenBy(r)]
    BY <2>3, <2>4, SumMonotone
  <2>6. 0 <= sumOf[RequestedIn(r)]
    BY <2>3, <2>4, SumNonNegative
  <2>7. sumOf[TakenBy(r)] \in Int /\ sumOf[RequestedIn(r)] \in Int
    BY <2>2, RegionSums
  <2>8. sumOf[TakenBy(r)] <= SizeOf(r) /\ SizeOf(r) \in Int
    <3>1. FreeBytes(r) \in Nat /\ r.usage \in Nat /\ SizeOf(r) \in Nat
      BY <2>2, RegionFacts, RegionTypes
    <3>2. QED
      BY <2>2, <2>7, <3>1 DEF FreeBytes, UsageExact, RegionHeader
  <2>9. QED
    BY <2>1, <2>5, <2>6, <2>7, <2>8
<1>3. /\ Requested(rs) \in Seq(Int) /\ Len(Requested(rs)) = Len(rs)
      /\ RegionSizes(rs) \in Seq(Int) /\ Len(RegionSizes(rs)) = Len(rs)
      /\ \A i \in 1 .. Len(rs) : /\ Requested(rs)[i] = sumOf[RequestedIn(rs[i])]
                                 /\ RegionSizes(rs)[i] = SizeOf(rs[i])
  BY <1>1, ListSeqs
<1>4. \A i \in 1 .. Len(rs) : 0 <= Requested(rs)[i] /\ Requested(rs)[i] <= RegionSizes(rs)[i]
  BY <1>2, <1>3
<1>5. QED
  BY <1>3, <1>4, SumMonotone, SumNonNegative
-----------------------------------------------------------------------------
(* A step after which the regions' sums and the counters have moved by the *)
(* same amounts keeps the statistics: the sum fits, nothing wraps.         *)
LEMMA CountersFollow ==
  ASSUME HeapInv, HeapInv', SizesFit', ReqsOK', StatisticsExact, AllExact(regions'),
         NEW requested \in Int, NEW blocks \in Int, NEW bytes \in Int,
         sumOf[Requested(regions')] = sumOf[Requested(regions)] + requested,
         sumOf[BlockCounts(regions')] = sumOf[BlockCounts(regions)] + blocks,
         sumOf[RegionSizes(regions')] = sumOf[RegionSizes(regions)] + bytes,
         inUseBytes' = (inUseBytes + requested) % WordSize,
         liveAllocations' = liveAllocations + blocks,
         totalRegionBytes' = totalRegionBytes + bytes,
         \/ peakInUseBytes' >= inUseBytes'
         \/ requested <= 0 /\ UNCHANGED peakInUseBytes
  PROVE  StatisticsExact'
<1>1. /\ ListOK(regions') /\ inUseBytes \in Nat /\ peakInUseBytes \in Nat /\ WordSize \in Nat
      /\ totalRegionBytes' < WordSize /\ WordSize \in Nat \ {0}
  BY HeapAssumption DEF HeapInv, ScalarsOK, SizesFit
<1>2. /\ inUseBytes = sumOf[Requested(regions)] /\ liveAllocations = sumOf[BlockCounts(regions)]
      /\ totalRegionBytes = sumOf[RegionSizes(regions)] /\ peakInUseBytes >= inUseBytes
  BY DEF StatisticsExact
<1>3. 0 <= sumOf[Requested(regions')] /\ sumOf[Requested(regions')] <= sumOf[RegionSizes(regions')]
  BY <1>1, RequestedBelowSizes DEF ReqsOK
<1>4. regions' \in Seq(Region)
  BY <1>1 DEF ListOK
<1>5. sumOf[Requested(regions')] \in Int /\ sumOf[RegionSizes(regions')] \in Int
  BY <1>4, ListSeqs, SumType
<1>6. totalRegionBytes' = sumOf[RegionSizes(regions')]
  BY <1>2
<1>7. inUseBytes + requested \in 0 .. WordSize - 1
  BY <1>1, <1>2, <1>3, <1>5, <1>6
<1>8. inUseBytes' = inUseBytes + requested
  BY <1>1, <1>7
<1>9. peakInUseBytes' >= inUseBytes'
  BY <1>1, <1>2, <1>8
<1>10. inUseBytes' = sumOf[Requested(regions')] /\ liveAllocations' = sumOf[BlockCounts(regions')]
  BY <1>2, <1>8
<1>11. \A i \in DOMAIN regions' : regions'[i].usage = RegionHeader + sumOf[TakenBy(regions'[i])]
  BY DEF AllExact, UsageExact
<1>12. QED
  BY <1>6, <1>9, <1>10, <1>11 DEF StatisticsExact

(* place_block inserts a block of the payload and of the request.         *)
LEMMA PlacedBlock ==
  ASSUME NEW r, NEW k \in 0 .. Len(r.blocks), HoleStart(r, k) \in Nat, NEW size \in Nat
  PROVE  \E b \in Block : /\ b.size = Payload(size) /\ b.req = ReqSize(size)
                          /\ Placed(r, k, size) = Inserted(r, k, b)
<1> DEFINE b == [off |-> HoleStart(r, k), size |-> Payload(size), req |-> ReqSize(size)]
<1>1. Payload(size) \in Nat /\ ReqSize(size) \in Nat
  <2>1. ReqSize(size) \in Nat
    BY HeapAssumption DEF ReqSize
  <2>2. QED
    BY <2>1, PayloadFacts
<1>2. b \in Block /\ b.size = Payload(size) /\ b.req = ReqSize(size)
  BY <1>1 DEF Block
<1>3. Placed(r, k, size) = Inserted(r, k, b)
  BY DEF Placed, Inserted
<1>4. QED
  BY <1>2, <1>3

(* The counters that the invariant ties to sets are numbers.              *)
LEMMA HeapTypes ==
  ASSUME HeapInv
  PROVE  liveAllocations \in Nat /\ totalRegionBytes \in Nat
<1>1. /\ Cardinality(LiveIn(regions)) \in Nat /\ Cardinality(PagesIn(regions)) \in Nat
      /\ liveAllocations = Cardinality(LiveIn(regions))
      /\ totalRegionBytes = PageSize * Cardinality(PagesIn(regions))
  BY FS_CardinalityType DEF HeapInv, CountsOK
<1>2. QED
  BY <1>1 DEF PageSize

(* What replaced a region is one.                                         *)
LEMMA ReplacedType ==
  ASSUME NEW rs \in Seq(Region), NEW i \in 1 .. Len(rs), NEW u,
         NEW ss \in Seq(Region), ss = Replaced(rs, i, u)
  PROVE  u \in Region
<1>1. DOMAIN rs = 1 .. Len(rs) /\ DOMAIN ss = DOMAIN rs /\ ss[i] = u
  BY LenProperties DEF Replaced
<1>2. QED
  BY <1>1, ElementOfSeq, LenProperties

(* The sums of a list with one region changed but not its size.           *)
LEMMA MovedSums ==
  ASSUME NEW rs \in Seq(Region), NEW i \in 1 .. Len(rs), NEW u \in Region, NEW ss,
         ss = Replaced(rs, i, u), SizeOf(u) = SizeOf(rs[i])
  PROVE  /\ sumOf[Requested(ss)] =
              sumOf[Requested(rs)] - sumOf[RequestedIn(rs[i])] + sumOf[RequestedIn(u)]
         /\ sumOf[BlockCounts(ss)] = sumOf[BlockCounts(rs)] - Len(rs[i].blocks) + Len(u.blocks)
         /\ sumOf[RegionSizes(ss)] = sumOf[RegionSizes(rs)] + 0
         /\ sumOf[Requested(rs)] \in Int /\ sumOf[BlockCounts(rs)] \in Int
         /\ sumOf[RequestedIn(rs[i])] \in Int /\ Len(rs[i].blocks) \in Int
<1>1. /\ sumOf[Requested(ss)] =
           sumOf[Requested(rs)] - sumOf[RequestedIn(rs[i])] + sumOf[RequestedIn(u)]
      /\ sumOf[BlockCounts(ss)] = sumOf[BlockCounts(rs)] - Len(rs[i].blocks) + Len(u.blocks)
      /\ sumOf[RegionSizes(ss)] = sumOf[RegionSizes(rs)] - SizeOf(rs[i]) + SizeOf(u)
  BY ChangedSums DEF Sums
<1>2. /\ sumOf[Requested(rs)] \in Int /\ sumOf[BlockCounts(rs)] \in Int
      /\ sumOf[RegionSizes(rs)] \in Int
  BY ListSeqs, SumType
<1>3. rs[i] \in Region
  BY ElementOfSeq
<1>4. /\ sumOf[RequestedIn(rs[i])] \in Int /\ Len(rs[i].blocks) \in Int
      /\ SizeOf(rs[i]) \in Int
  BY <1>3, RegionSums
<1>5. sumOf[RegionSizes(ss)] = sumOf[RegionSizes(rs)] + 0
  BY <1>1, <1>2, <1>4
<1>6. QED
  BY <1>1, <1>2, <1>4, <1>5

(* Exact regions stay exact where one is replaced by an exact one.        *)
LEMMA ExactReplaced ==
  ASSUME NEW rs \in Seq(Region), AllExact(rs), NEW i \in 1 .. Len(rs), NEW u,
         NEW ss, ss = Replaced(rs, i, u), UsageExact(rs[i]) => UsageExact(u)
  PROVE  AllExact(ss)
<1>1. /\ DOMAIN rs = 1 .. Len(rs) /\ DOMAIN ss = DOMAIN rs /\ ss[i] = u
      /\ \A j \in DOMAIN rs : j # i => ss[j] = rs[j]
  BY LenProperties DEF Replaced
<1>2. QED
  BY <1>1 DEF AllExact

(* The peak is the largest value so far.                                  *)
LEMMA PeakFollows ==
  ASSUME HeapInv', NEW size, Counted(size)
  PROVE  peakInUseBytes' >= inUseBytes'
BY DEF HeapInv, ScalarsOK, Counted

(* The operations, one by one.                                            *)
LEMMA PlaceInRegionStats ==
  ASSUME NoWrap, HeapInv, HeapInv', SizesFit', ReqsOK', StatisticsExact,
         NEW size \in Asked, PlaceInRegion(size)
  PROVE  StatisticsExact'
<1>1. /\ Acceptable(size) /\ Counted(size) /\ UNCHANGED totalRegionBytes
  BY DEF PlaceInRegion
<1>2. PICK i \in DOMAIN regions : \E m \in 0 .. Len(regions[i].blocks) :
        regions' = [regions EXCEPT ![i] = Placed(regions[i], m, size)]
  BY DEF PlaceInRegion
<1>3. PICK k \in 0 .. Len(regions[i].blocks) :
        regions' = [regions EXCEPT ![i] = Placed(regions[i], k, size)]
  BY <1>2
<1>4. /\ ListOK(regions) /\ ListOK(regions') /\ regions \in Seq(Region) /\ regions' \in Seq(Region)
      /\ liveAllocations \in Nat /\ totalRegionBytes \in Nat
  BY HeapTypes DEF HeapInv, ListOK
<1>5. /\ RegionOK(regions[i]) /\ regions[i] \in Region /\ i \in 1 .. Len(regions)
  BY <1>4, ListFacts
<1>6. ReqSize(size) = size /\ size \in Nat
  BY <1>1, RequestKept
<1>7. HoleStart(regions[i], k) \in Nat
  BY <1>5, HoleTypes
<1>8. PICK b \in Block : /\ b.req = size
                         /\ Placed(regions[i], k, size) = Inserted(regions[i], k, b)
  BY <1>6, <1>7, PlacedBlock
<1>9. PICK u : u = Inserted(regions[i], k, b) /\ regions' = Replaced(regions, i, u)
  BY <1>3, <1>8 DEF Replaced
<1>10. AllExact(regions)
  BY DEF StatisticsExact, AllExact, UsageExact
<1>11. u \in Region
  BY <1>4, <1>5, <1>9, ReplacedType
<1>12. /\ sumOf[RequestedIn(u)] = sumOf[RequestedIn(regions[i])] + size
       /\ Len(u.blocks) = Len(regions[i].blocks) + 1 /\ SizeOf(u) = SizeOf(regions[i])
       /\ UsageExact(regions[i]) => UsageExact(u)
  BY <1>5, <1>8, <1>9, <1>11, InsertedSums
<1>13. AllExact(regions')
  BY <1>4, <1>5, <1>9, <1>10, <1>12, ExactReplaced
<1>14. /\ sumOf[Requested(regions')] = sumOf[Requested(regions)] + size
       /\ sumOf[BlockCounts(regions')] = sumOf[BlockCounts(regions)] + 1
       /\ sumOf[RegionSizes(regions')] = sumOf[RegionSizes(regions)] + 0
  <2>1. /\ sumOf[Requested(regions')] = sumOf[Requested(regions)]
             - sumOf[RequestedIn(regions[i])] + sumOf[RequestedIn(u)]
        /\ sumOf[BlockCounts(regions')] =
             sumOf[BlockCounts(regions)] - Len(regions[i].blocks) + Len(u.blocks)
        /\ sumOf[RegionSizes(regions')] = sumOf[RegionSizes(regions)] + 0
        /\ sumOf[Requested(regions)] \in Int /\ sumOf[BlockCounts(regions)] \in Int
        /\ sumOf[RequestedIn(regions[i])] \in Int /\ Len(regions[i].blocks) \in Int
    BY <1>4, <1>5, <1>9, <1>11, <1>12, MovedSums
  <2>2. QED
    BY SMTT(60), <1>6, <1>12, <2>1
<1>15. QED
  BY <1>1, <1>4, <1>6, <1>13, <1>14, PeakFollows, CountersFollow DEF Counted

(* A list with one region more or less is exact if its regions are.        *)
LEMMA ExactAppended ==
  ASSUME NEW rs \in Seq(Region), AllExact(rs), NEW u \in Region, UsageExact(u), NEW ss,
         ss = Append(rs, u)
  PROVE  AllExact(ss) /\ OneMore(rs, ss, Len(rs) + 1) /\ ss[Len(rs) + 1] = u
<1>1. /\ Len(rs) \in Nat /\ DOMAIN rs = 1 .. Len(rs) /\ DOMAIN ss = 1 .. Len(rs) + 1
      /\ Len(ss) = Len(rs) + 1 /\ ss[Len(rs) + 1] = u
      /\ \A j \in 1 .. Len(rs) : ss[j] = rs[j]
  <2>1. ss \in Seq(Region) /\ Len(ss) = Len(rs) + 1
    BY AppendProperties
  <2>2. QED
    BY <2>1, AppendProperties, LenProperties
<1>2. AllExact(ss)
  BY <1>1 DEF AllExact
<1>3. \A j \in 1 .. Len(rs) : j < Len(rs) + 1
  BY <1>1
<1>4. QED
  BY <1>1, <1>2, <1>3 DEF OneMore

LEMMA ExactRemoved ==
  ASSUME NEW rs \in Seq(Region), AllExact(rs), NEW i \in 1 .. Len(rs), NEW ss,
         ss = RemoveAt(rs, i)
  PROVE  ss \in Seq(Region) /\ AllExact(ss) /\ OneMore(ss, rs, i)
<1>1. /\ ss \in Seq(Region) /\ Len(ss) = Len(rs) - 1
      /\ \A j \in 1 .. Len(rs) - 1 : ss[j] = IF j < i THEN rs[j] ELSE rs[j + 1]
  BY RemoveAtFacts
<1>2. /\ Len(rs) \in Nat /\ DOMAIN rs = 1 .. Len(rs) /\ DOMAIN ss = 1 .. Len(ss)
  BY <1>1, LenProperties
<1>3. ASSUME NEW j \in 1 .. Len(ss)
      PROVE  /\ ss[j] = rs[IF j < i THEN j ELSE j + 1]
             /\ (IF j < i THEN j ELSE j + 1) \in 1 .. Len(rs)
  BY <1>1, <1>2
<1>4. AllExact(ss)
  BY <1>2, <1>3 DEF AllExact
<1>5. QED
  BY <1>1, <1>2, <1>3, <1>4 DEF OneMore

(* A region of no block, and of one.                                       *)
LEMMA FewBlocks ==
  ASSUME NEW r \in Region
  PROVE  /\ Len(r.blocks) = 0 => sumOf[RequestedIn(r)] = 0 /\ sumOf[TakenBy(r)] = 0
         /\ Len(r.blocks) = 1 => sumOf[RequestedIn(r)] = r.blocks[1].req
<1>1. /\ TakenBy(r) \in Seq(Int) /\ Len(TakenBy(r)) = Len(r.blocks)
      /\ RequestedIn(r) \in Seq(Int) /\ Len(RequestedIn(r)) = Len(r.blocks)
      /\ \A j \in 1 .. Len(r.blocks) : RequestedIn(r)[j] = r.blocks[j].req
  BY BlockSeqs
<1>2. ASSUME Len(r.blocks) = 0
      PROVE  sumOf[RequestedIn(r)] = 0 /\ sumOf[TakenBy(r)] = 0
  BY <1>1, <1>2, EmptySeq, SumEquation
<1>3. ASSUME Len(r.blocks) = 1
      PROVE  sumOf[RequestedIn(r)] = r.blocks[1].req
  <2>1. PICK v \in Seq(Int) : v = RequestedIn(r) /\ Len(v) = 0 + 1 /\ v[1] = r.blocks[1].req
    BY <1>1, <1>3
  <2>2. /\ v[1] \in Int /\ Tail(v) \in Seq(Int) /\ Len(Tail(v)) = 0
        /\ sumOf[v] = v[1] + sumOf[Tail(v)]
    BY <2>1, HeadAndRest
  <2>3. sumOf[Tail(v)] = 0
    BY <2>2, EmptySeq, SumEquation
  <2>4. QED
    BY <2>1, <2>2, <2>3
<1>4. QED
  BY <1>2, <1>3

LEMMA PlaceInNewRegionStats ==
  ASSUME NoWrap, HeapInv, HeapInv', SizesFit', ReqsOK', StatisticsExact,
         NEW size \in Asked, PlaceInNewRegion(size)
  PROVE  StatisticsExact'
<1> DEFINE Empty(s) == [run |-> [start |-> s, count |-> RegionPages(Payload(size))],
                        usage |-> RegionHeader, blocks |-> <<>>]
<1>1. Acceptable(size) /\ Counted(size)
  BY DEF PlaceInNewRegion
<1>2. PICK s \in Pages :
        /\ regions' = Append(regions, Placed(Empty(s), 0, size))
        /\ totalRegionBytes' = totalRegionBytes + SizeOf(Empty(s))
  BY DEF PlaceInNewRegion
<1>3. /\ ListOK(regions) /\ ListOK(regions') /\ regions \in Seq(Region) /\ regions' \in Seq(Region)
      /\ liveAllocations \in Nat /\ totalRegionBytes \in Nat
  BY HeapTypes DEF HeapInv, ListOK
<1>4. ReqSize(size) = size /\ size \in Nat
  BY <1>1, RequestKept
<1>5. s \in Nat /\ RegionPages(Payload(size)) \in Nat \ {0}
  <2>1. totalPages \in Nat
    BY DEF HeapInv, PhysIInv, PhysTypeOK
  <2>2. QED
    BY <1>4, <2>1, PayloadFacts, RegionPagesFacts DEF Pages
<1>6. PICK r : r = Empty(s)
  OBVIOUS
<1>7. r \in Region /\ r.usage = RegionHeader /\ r.blocks = <<>> /\ Len(r.blocks) = 0
  BY <1>5, <1>6 DEF Region, Run, RegionHeader
<1> HIDE DEF Empty
<1>8. sumOf[RequestedIn(r)] = 0 /\ sumOf[TakenBy(r)] = 0 /\ UsageExact(r)
  BY <1>7, FewBlocks DEF UsageExact, RegionHeader
<1>9. 0 \in 0 .. Len(r.blocks) /\ HoleStart(r, 0) \in Nat
  BY <1>7 DEF HoleStart, RegionHeader
<1>10. PICK b \in Block : b.req = size /\ Placed(r, 0, size) = Inserted(r, 0, b)
  BY <1>4, <1>9, PlacedBlock
<1>11. PICK u : u = Inserted(r, 0, b) /\ regions' = Append(regions, u)
  BY <1>2, <1>6, <1>10
<1>12. u \in Region
  <2>1. PICK n \in Nat : n = Len(regions)
    BY <1>3, LenProperties
  <2>2. /\ Append(regions, u)[n + 1] = u /\ n + 1 \in DOMAIN regions'
    BY <1>3, <1>11, <2>1
  <2>3. QED
    BY <1>3, <1>11, <2>2, ElementOfSeq, LenProperties
<1>13. /\ sumOf[RequestedIn(u)] = size /\ Len(u.blocks) = 1 /\ SizeOf(u) = SizeOf(r)
       /\ UsageExact(u)
  <2>1. /\ sumOf[RequestedIn(u)] = sumOf[RequestedIn(r)] + b.req
        /\ Len(u.blocks) = Len(r.blocks) + 1 /\ SizeOf(u) = SizeOf(r)
        /\ UsageExact(r) => UsageExact(u)
    <3>1. PICK k \in 0 .. Len(r.blocks) : k = 0
      BY <1>9
    <3>2. u = Inserted(r, k, b)
      BY <1>11, <3>1
    <3>3. QED
      BY ZenonT(60), <1>7, <1>12, <3>2, InsertedSums
  <2>2. QED
    BY <1>4, <1>7, <1>8, <1>10, <2>1
<1>14. /\ AllExact(regions') /\ OneMore(regions, regions', Len(regions) + 1)
       /\ regions'[Len(regions) + 1] = u
  <2>1. AllExact(regions)
    BY DEF StatisticsExact, AllExact, UsageExact
  <2>2. QED
    BY <1>3, <1>11, <1>12, <1>13, <2>1, ExactAppended
<1>15. /\ sumOf[Requested(regions')] = sumOf[Requested(regions)] + size
       /\ sumOf[BlockCounts(regions')] = sumOf[BlockCounts(regions)] + 1
       /\ sumOf[RegionSizes(regions')] = sumOf[RegionSizes(regions)] + SizeOf(r)
  <2>1. PICK n \in Nat : n = Len(regions) + 1
    BY <1>3, LenProperties
  <2>2. More(Sums(regions), Sums(regions'), Part(u))
    BY <1>3, <1>14, <2>1, OneRegionMore
  <2>3. QED
    BY <1>13, <2>2 DEF More, Sums, Part
<1>16. SizeOf(r) \in Int
  BY <1>7, RegionSums
<1>17. QED
  BY <1>1, <1>2, <1>3, <1>4, <1>6, <1>14, <1>15, <1>16, PeakFollows, CountersFollow DEF Counted

LEMMA ReleaseStats ==
  ASSUME HeapInv, HeapInv', SizesFit', ReqsOK', StatisticsExact,
         NEW i \in DOMAIN regions, NEW k \in DOMAIN regions[i].blocks, Release(i, k)
  PROVE  StatisticsExact'
<1>1. PICK r : r = regions[i]
  OBVIOUS
<1>2. /\ ListOK(regions) /\ regions \in Seq(Region) /\ regions' \in Seq(Region)
      /\ liveAllocations \in Nat /\ totalRegionBytes \in Nat /\ inUseBytes \in Nat
      /\ i \in 1 .. Len(regions) /\ i \in Nat
  <2>1. ListOK(regions) /\ ListOK(regions') /\ inUseBytes \in 0 .. (WordSize - 1)
    BY DEF HeapInv, ScalarsOK
  <2>2. regions \in Seq(Region) /\ regions' \in Seq(Region)
    BY <2>1 DEF ListOK
  <2>3. i \in 1 .. Len(regions) /\ i \in Nat /\ inUseBytes \in Nat
    BY <2>1, <2>2, LenProperties
  <2>4. QED
    BY <2>1, <2>2, <2>3, HeapTypes
<1>3. r \in Region /\ k \in 1 .. Len(r.blocks) /\ r.blocks[k] \in Block
  BY <1>1, <1>2, ListFacts, RegionTypes
<1>4. PICK req \in Nat : req = r.blocks[k].req
  BY <1>3 DEF Block
<1>5. /\ inUseBytes' = (inUseBytes - req) % WordSize /\ liveAllocations' = liveAllocations - 1
      /\ UNCHANGED peakInUseBytes
  BY <1>1, <1>4 DEF Release
<1>6. AllExact(regions)
  BY DEF StatisticsExact, AllExact, UsageExact
<1>7. PICK less \in Int, one \in Int : less = 0 - req /\ one = -1
  BY <1>4
<1>8. /\ inUseBytes' = (inUseBytes + less) % WordSize /\ liveAllocations' = liveAllocations + one
      /\ less <= 0
  <2>1. /\ inUseBytes - req = inUseBytes + less /\ less <= 0
        /\ liveAllocations - 1 = liveAllocations + one
    BY <1>2, <1>4, <1>7
  <2>2. QED
    BY <1>5, <2>1
<1>9. /\ sumOf[Requested(regions)] \in Int /\ sumOf[BlockCounts(regions)] \in Int
      /\ sumOf[RegionSizes(regions)] \in Int
      /\ sumOf[Requested(regions')] \in Int /\ sumOf[BlockCounts(regions')] \in Int
      /\ sumOf[RegionSizes(regions')] \in Int
  BY <1>2, ListSeqs, SumType
<1>10. CASE Len(r.blocks) = 1
  <2>1. regions' = RemoveAt(regions, i) /\ totalRegionBytes' = totalRegionBytes - SizeOf(r)
    BY <1>1, <1>10 DEF Release, DestroyRegion
  <2>2. AllExact(regions') /\ OneMore(regions', regions, i)
    BY <1>2, <1>6, <2>1, ExactRemoved
  <2>3. More(Sums(regions'), Sums(regions), Part(r))
    BY <1>1, <1>2, <2>2, OneRegionMore
  <2>4. k = 1 /\ sumOf[RequestedIn(r)] = req
    BY <1>3, <1>4, <1>10, FewBlocks
  <2>5. /\ sumOf[Requested(regions)] = sumOf[Requested(regions')] + req
        /\ sumOf[BlockCounts(regions)] = sumOf[BlockCounts(regions')] + 1
        /\ sumOf[RegionSizes(regions)] = sumOf[RegionSizes(regions')] + SizeOf(r)
    BY <1>10, <2>3, <2>4 DEF More, Sums, Part
  <2>6. PICK bytes \in Int : bytes = 0 - SizeOf(r)
    BY <1>3, RegionSums
  <2>7. /\ sumOf[Requested(regions')] = sumOf[Requested(regions)] + less
        /\ sumOf[BlockCounts(regions')] = sumOf[BlockCounts(regions)] + one
        /\ sumOf[RegionSizes(regions')] = sumOf[RegionSizes(regions)] + bytes
        /\ totalRegionBytes' = totalRegionBytes + bytes
    <3>1. SizeOf(r) \in Int
      BY <1>3, RegionSums
    <3>2. sumOf[RegionSizes(regions')] = sumOf[RegionSizes(regions)] + bytes
      BY <1>9, <2>5, <2>6, <3>1
    <3>3. totalRegionBytes' = totalRegionBytes + bytes
      BY <1>2, <2>1, <2>6, <3>1
    <3>4. QED
      BY <1>4, <1>7, <1>9, <2>5, <3>2, <3>3
  <2>8. QED
    BY <1>5, <1>8, <2>2, <2>7, CountersFollow
<1>11. CASE Len(r.blocks) # 1
  <2>1. PICK u : u = Unlinked(r, k) /\ regions' = Replaced(regions, i, u)
    BY <1>1, <1>11 DEF Release, UnlinkBlock, Replaced, Unlinked
  <2>2. u \in Region
    BY <1>2, <2>1, ReplacedType
  <2>3. /\ sumOf[RequestedIn(u)] = sumOf[RequestedIn(r)] - req
        /\ Len(u.blocks) = Len(r.blocks) - 1 /\ SizeOf(u) = SizeOf(r)
        /\ UsageExact(r) => UsageExact(u)
    BY <1>3, <1>4, <2>1, <2>2, UnlinkedSums
  <2>4. AllExact(regions')
    BY <1>1, <1>2, <1>6, <2>1, <2>3, ExactReplaced
  <2>5. /\ sumOf[Requested(regions')] = sumOf[Requested(regions)] + less
        /\ sumOf[BlockCounts(regions')] = sumOf[BlockCounts(regions)] + one
        /\ sumOf[RegionSizes(regions')] = sumOf[RegionSizes(regions)] + 0
    <3>1. SizeOf(u) = SizeOf(regions[i])
      BY <1>1, <2>3
    <3>2. /\ sumOf[Requested(regions')] = sumOf[Requested(regions)]
               - sumOf[RequestedIn(regions[i])] + sumOf[RequestedIn(u)]
          /\ sumOf[BlockCounts(regions')] =
               sumOf[BlockCounts(regions)] - Len(regions[i].blocks) + Len(u.blocks)
          /\ sumOf[RegionSizes(regions')] = sumOf[RegionSizes(regions)] + 0
          /\ sumOf[RequestedIn(regions[i])] \in Int /\ Len(regions[i].blocks) \in Int
      BY <1>2, <2>1, <2>2, <3>1, MovedSums
    <3>3. sumOf[RequestedIn(r)] \in Int /\ Len(r.blocks) \in Int
      BY <1>1, <3>2
    <3>4. /\ sumOf[RequestedIn(u)] = sumOf[RequestedIn(regions[i])] + less
          /\ Len(u.blocks) = Len(regions[i].blocks) + one
      BY <1>1, <1>4, <1>7, <2>3, <3>3
    <3>5. sumOf[Requested(regions')] = sumOf[Requested(regions)] + less
      BY <1>7, <1>9, <3>2, <3>4
    <3>6. sumOf[BlockCounts(regions')] = sumOf[BlockCounts(regions)] + one
      BY SMTT(60), <1>7, <1>9, <3>2, <3>4
    <3>7. QED
      BY <3>2, <3>5, <3>6
  <2>6. totalRegionBytes' = totalRegionBytes + 0
    BY <1>1, <1>2, <1>11 DEF Release, UnlinkBlock
  <2>7. QED
    BY <1>5, <1>8, <2>4, <2>5, <2>6, CountersFollow
<1>12. QED
  BY <1>10, <1>11

LEMMA InPlaceStats ==
  ASSUME HeapInv, HeapInv', SizesFit', ReqsOK', StatisticsExact,
         NEW i \in DOMAIN regions, NEW k \in DOMAIN regions[i].blocks, NEW size \in Nat,
         KreallocInPlace(i, k, size)
  PROVE  StatisticsExact'
<1>1. PICK r : r = regions[i]
  OBVIOUS
<1>2. /\ ListOK(regions) /\ regions \in Seq(Region) /\ regions' \in Seq(Region)
      /\ liveAllocations \in Nat /\ totalRegionBytes \in Nat /\ inUseBytes \in Nat
      /\ i \in 1 .. Len(regions) /\ i \in Nat
  <2>1. ListOK(regions) /\ ListOK(regions') /\ inUseBytes \in 0 .. (WordSize - 1)
    BY DEF HeapInv, ScalarsOK
  <2>2. regions \in Seq(Region) /\ regions' \in Seq(Region)
    BY <2>1 DEF ListOK
  <2>3. i \in 1 .. Len(regions) /\ i \in Nat /\ inUseBytes \in Nat
    BY <2>1, <2>2, LenProperties
  <2>4. QED
    BY <2>1, <2>2, <2>3, HeapTypes
<1>3. r \in Region /\ k \in 1 .. Len(r.blocks) /\ r.blocks[k] \in Block
  BY <1>1, <1>2, ListFacts, RegionTypes
<1>4. PICK req \in Nat : req = r.blocks[k].req
  BY <1>3 DEF Block
<1>5. /\ inUseBytes' = (inUseBytes - req + size) % WordSize /\ size <= req
      /\ UNCHANGED <<peakInUseBytes, liveAllocations, totalRegionBytes>>
  BY <1>1, <1>4 DEF KreallocInPlace
<1>6. PICK less \in Int : less = size - req
  BY <1>4
<1>7. inUseBytes' = (inUseBytes + less) % WordSize /\ less <= 0
  <2>1. less <= 0
    BY <1>4, <1>5, <1>6
  <2>2. inUseBytes \in Nat
    BY <1>2
  <2>3. inUseBytes - req + size = inUseBytes + less
    BY ONLY <2>2, <1>4, <1>6, size \in Nat
  <2>4. QED
    BY ONLY <1>5, <2>1, <2>3
<1>8. liveAllocations' = liveAllocations + 0 /\ totalRegionBytes' = totalRegionBytes + 0
  BY <1>2, <1>5
<1>9. PICK u : u = Shrunk(r, k, size) /\ regions' = Replaced(regions, i, u)
  BY <1>1 DEF KreallocInPlace, Replaced, Shrunk
<1>10. u \in Region
  BY <1>2, <1>9, ReplacedType
<1>11. /\ sumOf[RequestedIn(u)] = sumOf[RequestedIn(r)] - req + size
       /\ Len(u.blocks) = Len(r.blocks) /\ SizeOf(u) = SizeOf(r)
       /\ UsageExact(r) => UsageExact(u)
  BY <1>3, <1>4, <1>9, <1>10, ShrunkSums
<1>12. AllExact(regions')
  <2>1. AllExact(regions)
    BY DEF StatisticsExact, AllExact, UsageExact
  <2>2. QED
    BY <1>1, <1>2, <1>9, <1>11, <2>1, ExactReplaced
<1>13. /\ sumOf[Requested(regions')] = sumOf[Requested(regions)] + less
       /\ sumOf[BlockCounts(regions')] = sumOf[BlockCounts(regions)] + 0
       /\ sumOf[RegionSizes(regions')] = sumOf[RegionSizes(regions)] + 0
  <2>1. SizeOf(u) = SizeOf(regions[i])
    BY <1>1, <1>11
  <2>2. /\ sumOf[Requested(regions')] = sumOf[Requested(regions)]
             - sumOf[RequestedIn(regions[i])] + sumOf[RequestedIn(u)]
        /\ sumOf[BlockCounts(regions')] =
             sumOf[BlockCounts(regions)] - Len(regions[i].blocks) + Len(u.blocks)
        /\ sumOf[RegionSizes(regions')] = sumOf[RegionSizes(regions)] + 0
        /\ sumOf[Requested(regions)] \in Int /\ sumOf[BlockCounts(regions)] \in Int
        /\ sumOf[RequestedIn(regions[i])] \in Int /\ Len(regions[i].blocks) \in Int
    BY <1>2, <1>9, <1>10, <2>1, MovedSums
  <2>3. sumOf[RequestedIn(u)] = sumOf[RequestedIn(regions[i])] + less
    <3>1. sumOf[RequestedIn(r)] \in Int
      BY <1>1, <2>2
    <3>2. QED
      BY <1>1, <1>4, <1>6, <1>11, <3>1
  <2>4. sumOf[Requested(regions')] = sumOf[Requested(regions)] + less
    BY <1>6, <2>2, <2>3
  <2>5. sumOf[BlockCounts(regions')] = sumOf[BlockCounts(regions)] + 0
    BY <1>1, <1>11, <2>2
  <2>6. QED
    BY <2>2, <2>4, <2>5
<1>14. QED
  BY <1>5, <1>7, <1>8, <1>12, <1>13, CountersFollow

(* Steps that leave the heap alone.                                       *)
LEMMA SameStats ==
  ASSUME StatisticsExact,
         UNCHANGED <<regions, totalRegionBytes, inUseBytes, peakInUseBytes, liveAllocations>>
  PROVE  StatisticsExact'
BY DEF StatisticsExact

(* Every step of the heap.                                                *)
LEMMA StatsNext ==
  ASSUME NoWrap, HeapInv, HeapInv', SizesFit', ReqsOK', StatisticsExact, [HeapNext]_vars
  PROVE  StatisticsExact'
<1>1. UNCHANGED heapVars => StatisticsExact'
  BY SameStats DEF heapVars
<1>2. ASSUME NEW size \in Asked, KmallocSucceeds(size)
      PROVE  StatisticsExact'
  BY <1>2, PlaceInRegionStats, PlaceInNewRegionStats DEF KmallocSucceeds
<1>3. ASSUME NEW i \in DOMAIN regions, NEW k \in DOMAIN regions[i].blocks, Release(i, k)
      PROVE  StatisticsExact'
  BY <1>3, ReleaseStats
<1>4. ASSUME DmaInit \/ DmaStop \/ UNCHANGED vars
      PROVE  StatisticsExact'
  BY <1>1, <1>4 DEF DmaInit, DmaStop, vars
<1>5. ASSUME NEW size \in Asked, Kmalloc(size) \/ KmallocReturnsNull(size)
      PROVE  StatisticsExact'
  BY <1>1, <1>2, <1>5 DEF Kmalloc, KmallocReturnsNull, vars
<1>6. ASSUME NEW size \in HeapSizes, NEW count \in CallocCounts,
             Kcalloc(count, size) \/ KcallocReturnsNull(count, size)
      PROVE  StatisticsExact'
  <2>1. CASE count * size < WordSize
    <3>1. count * size \in Asked
      BY <2>1, AskedSizes
    <3>2. QED
      BY <1>5, <1>6, <2>1, <3>1 DEF Kcalloc, KcallocReturnsNull
  <2>2. CASE ~(count * size < WordSize)
    BY <1>1, <1>6, <2>2 DEF Kcalloc, KcallocReturnsNull, vars
  <2>3. QED
    BY <2>1, <2>2
<1>7. ASSUME NEW i \in DOMAIN regions, NEW k \in DOMAIN regions[i].blocks, Kfree(i, k)
      PROVE  StatisticsExact'
  BY <1>3, <1>7 DEF Kfree
<1>8. ASSUME NEW i \in DOMAIN regions, NEW k \in DOMAIN regions[i].blocks,
             NEW size \in HeapSizes, Krealloc(i, k, size)
      PROVE  StatisticsExact'
  <2>1. CASE KreallocGrow(i, k, size)
    BY <1>2, <2>1, AskedSizes DEF KreallocGrow
  <2>2. CASE KreallocInPlace(i, k, size)
    BY <2>2, InPlaceStats, AskedSizes
  <2>3. CASE KreallocReturnsNull(i, k, size)
    BY <1>1, <2>3 DEF KreallocReturnsNull, vars
  <2>4. QED
    BY <1>7, <1>8, <2>1, <2>2, <2>3 DEF Krealloc
<1>9. ASSUME KreallocFreeOld
      PROVE  StatisticsExact'
  BY <1>3, <1>9 DEF KreallocFreeOld
<1>10. ASSUME NEW size \in DmaSizes, DmaAlloc(size) \/ DmaAllocReturnsNull(size)
       PROVE  StatisticsExact'
  BY <1>1, <1>10 DEF DmaAlloc, DmaAllocReturnsNull, vars
<1>11. ASSUME NEW size \in HeapSizes, Kmalloc(size) \/ KmallocReturnsNull(size)
       PROVE  StatisticsExact'
  BY <1>5, <1>11, AskedSizes
<1>12. QED
  BY <1>4, <1>6, <1>7, <1>8, <1>9, <1>10, <1>11 DEF HeapNext

(* Memory keeps the size that init measured.                               *)
LEMMA TotalPagesKept ==
  ASSUME [HeapNext]_vars
  PROVE  Boot \/ UNCHANGED totalPages
<1>1. UNCHANGED physVars => UNCHANGED totalPages
  BY DEF physVars
<1>2. ASSUME NEW run, Take(run) \/ FreePages(run)
      PROVE  UNCHANGED totalPages
  BY <1>2 DEF Take, FreePages, bootVars
<1>3. ASSUME NEW size, KmallocSucceeds(size)
      PROVE  UNCHANGED totalPages
  BY <1>1, <1>2, <1>3 DEF KmallocSucceeds, PlaceInRegion, PlaceInNewRegion
<1>4. ASSUME NEW i, NEW k, Release(i, k)
      PROVE  UNCHANGED totalPages
  BY <1>1, <1>2, <1>4 DEF Release, DestroyRegion, UnlinkBlock
<1>5. ASSUME NEW size, Kmalloc(size) \/ KmallocReturnsNull(size)
      PROVE  UNCHANGED totalPages
  BY <1>1, <1>3, <1>5 DEF Kmalloc, KmallocReturnsNull, vars
<1>6. ASSUME NEW count, NEW size, Kcalloc(count, size) \/ KcallocReturnsNull(count, size)
      PROVE  UNCHANGED totalPages
  BY <1>1, <1>5, <1>6 DEF Kcalloc, KcallocReturnsNull, vars
<1>7. ASSUME NEW i, NEW k, NEW size, Krealloc(i, k, size)
      PROVE  UNCHANGED totalPages
  BY <1>1, <1>3, <1>4, <1>7
     DEF Krealloc, Kfree, KreallocInPlace, KreallocGrow, KreallocReturnsNull, vars
<1>8. ASSUME NEW size, DmaAlloc(size) \/ DmaAllocReturnsNull(size)
      PROVE  UNCHANGED totalPages
  BY <1>1, <1>2, <1>8 DEF DmaAlloc, DmaAllocReturnsNull, vars
<1>9. ASSUME NEW i, NEW k, Kfree(i, k)
      PROVE  UNCHANGED totalPages
  BY <1>4, <1>9 DEF Kfree
<1>10. CASE DmaInit
  BY <1>10 DEF DmaInit
<1>11. CASE KreallocFreeOld
  BY <1>4, <1>11 DEF KreallocFreeOld
<1>12. CASE DmaStop \/ UNCHANGED vars
  BY <1>1, <1>12 DEF DmaStop, vars
<1>13. QED
  BY <1>5, <1>6, <1>7, <1>8, <1>9, <1>10, <1>11, <1>12 DEF HeapNext

(* At the start there is nothing to count.                                *)
LEMMA StatsInit ==
  ASSUME HeapInit
  PROVE  StatisticsExact /\ ReqsOK /\ Addressable
<1>1. regions = <<>> /\ DOMAIN regions = {} /\ Elems(regions) = {} /\ totalPages = 0
  BY DEF HeapInit, PhysInit, Elems
<1>2. Requested(regions) = <<>> /\ BlockCounts(regions) = <<>> /\ RegionSizes(regions) = <<>>
  <2>1. regions \in Seq(Region) /\ Len(regions) = 0
    BY <1>1
  <2>2. /\ Requested(regions) \in Seq(Int) /\ Len(Requested(regions)) = 0
        /\ BlockCounts(regions) \in Seq(Int) /\ Len(BlockCounts(regions)) = 0
        /\ RegionSizes(regions) \in Seq(Int) /\ Len(RegionSizes(regions)) = 0
    BY <2>1, ListSeqs
  <2>3. QED
    BY <2>2, EmptySeq
<1>3. StatisticsExact
  BY <1>1, <1>2, SumEquation DEF StatisticsExact, HeapInit
<1>4. ReqsOK
  BY <1>1 DEF ReqsOK, BlocksIn
<1>5. Addressable
  BY <1>1, HeapAssumption DEF Addressable, PageSize
<1>6. QED
  BY <1>3, <1>4, <1>5

(* The statistics of the heap are the truth, and so is the usage a region  *)
(* records, from which the hint is computed: on every path of kmalloc,     *)
(* kcalloc, kfree and krealloc, for every machine whose memory a size_t    *)
(* can count.                                                              *)
THEOREM HeapStatisticsExact ==
  ASSUME NoWrap, MemoryFits
  PROVE  HeapSpec => []StatisticsExact
<1>1. HeapInit => StatisticsExact /\ ReqsOK /\ Addressable
  BY StatsInit
<1>2. HeapInv /\ Addressable /\ [HeapNext]_vars => Addressable'
  BY AddressableNext, TotalPagesKept
<1>3. HeapInv /\ Addressable => SizesFit
  BY HeapFits
<1>4. HeapInv /\ HeapInv' /\ ReqsOK /\ [HeapNext]_vars => ReqsOK'
  BY CallersNext
<1>5. HeapInv /\ HeapInv' /\ SizesFit' /\ ReqsOK' /\ StatisticsExact /\ [HeapNext]_vars
        => StatisticsExact'
  BY StatsNext
<1>6. QED
  BY <1>1, <1>2, <1>3, <1>4, <1>5, HeapInvariant, PTL DEF HeapSpec
=============================================================================
