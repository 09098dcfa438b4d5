----------------------------- MODULE Ext2Proofs -----------------------------
(***************************************************************************)
(* Proofs about Ext2 for every size of block, of group and of volume: the  *)
(* counters are exact, no block is pointed to twice, and no inode has two  *)
(* names.                                                                  *)
(***************************************************************************)
EXTENDS Ext2, FiniteSetTheorems, FunctionTheorems, SequenceTheorems, WellFoundedInduction, TLAPS

(* Every set of numbers that has a member has a least one.                 *)
LEMMA LeastNumber ==
  ASSUME NEW T, T \subseteq Nat, T # {}
  PROVE  \E n \in T : \A m \in T : n <= m
<1> DEFINE R == OpToRel(<, Nat)
<1>1. IsWellFoundedOn(R, Nat)
  BY NatLessThanWellFounded
<1> HIDE DEF R
<1>2. PICK n \in T : \A m \in T : <<m, n>> \notin R
  BY <1>1, WFMin
<1>3. \A m \in T : m < n => <<m, n>> \in R
  BY DEF R, OpToRel
<1>4. ASSUME NEW m \in T PROVE n <= m
  <2>1. m \in Nat /\ n \in Nat
    OBVIOUS
  <2>2. ~(m < n)
    BY <1>2, <1>3
  <2>3. QED
    BY <2>1, <2>2
<1>5. QED
  BY <1>4

(* Induction, with a set in the place of the operator.                    *)
LEMMA Induction ==
  ASSUME NEW S, 0 \in S, \A n \in Nat : n \in S => n + 1 \in S
  PROVE  Nat \subseteq S
<1>1. SUFFICES ASSUME Nat \ S # {} PROVE FALSE
  OBVIOUS
<1>2. PICK n \in Nat \ S : \A m \in Nat \ S : n <= m
  BY <1>1, LeastNumber
<1>3. n # 0 /\ n - 1 \in Nat
  BY <1>2
<1>4. n - 1 \in S
  BY <1>2, <1>3
<1>5. QED
  BY <1>3, <1>4

(* Steps counted from 0 to n, each from the one before it, exist.          *)
Iterated(n, T, start, next) ==
  \E at \in [0 .. n -> T] :
    at = [i \in 0 .. n |-> IF i = 0 THEN start ELSE next[<<i, at[i - 1]>>]]

LEMMA Iteration ==
  ASSUME NEW n \in Nat, NEW T, NEW start \in T, NEW next \in [(1 .. n) \X T -> T]
  PROVE  Iterated(n, T, start, next)
<1> DEFINE Upto(k) ==
             \E at \in [0 .. k -> T] :
               at = [i \in 0 .. k |-> IF i = 0 THEN start ELSE next[<<i, at[i - 1]>>]]
           S == {k \in Nat : k <= n => Upto(k)}
<1>1. 0 \in S
  <2>1. [i \in 0 .. 0 |-> start] \in [0 .. 0 -> T]
    OBVIOUS
  <2>2. \A i \in 0 .. 0 : i = 0
    OBVIOUS
  <2>3. Upto(0)
    BY <2>1, <2>2
  <2>4. QED
    BY <2>3
<1>2. ASSUME NEW k \in Nat, k \in S PROVE k + 1 \in S
  <2>1. SUFFICES ASSUME k + 1 <= n PROVE Upto(k + 1)
    OBVIOUS
  <2>2. PICK at \in [0 .. k -> T] :
          at = [i \in 0 .. k |-> IF i = 0 THEN start ELSE next[<<i, at[i - 1]>>]]
    BY <1>2, <2>1
  <2> DEFINE bt == [i \in 0 .. k + 1 |-> IF i = k + 1 THEN next[<<k + 1, at[k]>>] ELSE at[i]]
  <2>3. at[k] \in T /\ k + 1 \in 1 .. n
    BY <2>1
  <2>4. next[<<k + 1, at[k]>>] \in T
    BY <2>3
  <2>5. bt \in [0 .. k + 1 -> T]
    BY <2>4
  <2>6. ASSUME NEW i \in 0 .. k + 1
        PROVE  bt[i] = IF i = 0 THEN start ELSE next[<<i, bt[i - 1]>>]
    <3>1. CASE i = k + 1
      BY SMTT(60), <3>1
    <3>2. CASE i # k + 1
      <4>1. i \in 0 .. k /\ bt[i] = at[i]
        BY <3>2
      <4>2. i # 0 => i - 1 \in 0 .. k + 1 /\ i - 1 # k + 1 /\ bt[i - 1] = at[i - 1]
        BY <3>2
      <4>3. at[i] = IF i = 0 THEN start ELSE next[<<i, at[i - 1]>>]
        BY <2>2, <4>1
      <4> HIDE DEF bt
      <4>4. QED
        BY <4>1, <4>2, <4>3
    <3>3. QED
      BY <3>1, <3>2
  <2>7. bt = [i \in 0 .. k + 1 |-> IF i = 0 THEN start ELSE next[<<i, bt[i - 1]>>]]
    <3> HIDE DEF bt
    <3>1. QED
      BY <2>5, <2>6
  <2>8. QED
    BY <2>5, <2>7
<1>3. n \in S
  <2> HIDE DEF S
  <2>1. QED
    BY <1>1, <1>2, Induction
<1>4. QED
  BY <1>3 DEF Iterated

-----------------------------------------------------------------------------
(***************************************************************************)
(* The layout of a volume.                                                 *)
(***************************************************************************)
LEMMA Params ==
  /\ FirstDataBlock \in {0, 1} /\ FirstDataBlock \in Nat
  /\ BlocksPerGroup \in Nat \ {0} /\ BlocksPerGroup < Word16
  /\ InodesPerGroup \in Nat \ {0} /\ InodeTableBlocks \in Nat \ {0}
  /\ DescsPerBlock \in Nat \ {0} /\ ReservedInodes \in Nat \ {0}
  /\ DirectBlocks \in Nat \ {0} /\ PtrsPerBlock \in Nat \ {0}
  /\ RootInode <= ReservedInodes /\ ReservedInodes <= InodesPerGroup
  /\ DirUnits \in Nat /\ DirUnits >= 2
  /\ \A t \in Totals : t \in Nat /\ CanFormat(t) /\ LastGroupFits(t)
  /\ "." \notin Names /\ ".." \notin Names
  BY Ext2Assumption

LEMMA DivUnique ==
  ASSUME NEW a \in Int, NEW q \in Int, NEW n \in Nat \ {0}, q * n <= a, a < q * n + n
  PROVE  a \div n = q /\ a % n = a - q * n
<1>1. a % n \in 0 .. (n - 1) /\ a \div n \in Int /\ a = n * (a \div n) + (a % n)
  OBVIOUS
<1> DEFINE d == a \div n
<1> HIDE DEF d
<1>2. n * d <= a /\ a < n * d + n /\ d \in Int
  BY <1>1 DEF d
<1>3. ~(d < q)
  <2>1. SUFFICES ASSUME d < q PROVE FALSE
    OBVIOUS
  <2>2. d + 1 <= q
    BY <1>2, <2>1
  <2>3. n * (d + 1) <= n * q
    BY <1>2, <2>2
  <2>4. QED
    BY <1>2, <2>3
<1>4. ~(q < d)
  <2>1. SUFFICES ASSUME q < d PROVE FALSE
    OBVIOUS
  <2>2. q + 1 <= d
    BY <1>2, <2>1
  <2>3. n * (q + 1) <= n * d
    BY <1>2, <2>2
  <2>4. QED
    BY <1>2, <2>3
<1>5. d = q
  BY <1>2, <1>3, <1>4
<1>6. QED
  BY <1>1, <1>5 DEF d

LEMMA DivFacts ==
  ASSUME NEW a \in Nat, NEW n \in Nat \ {0}
  PROVE  /\ a \div n \in Nat /\ a % n \in 0 .. (n - 1)
         /\ a = (a \div n) * n + (a % n)
<1>1. a % n \in 0 .. (n - 1) /\ a \div n \in Int /\ a = n * (a \div n) + (a % n)
  OBVIOUS
<1> DEFINE d == a \div n
<1> HIDE DEF d
<1>2. n * d <= a /\ a < n * d + n /\ d \in Int
  BY <1>1 DEF d
<1>3. ~(d < 0)
  <2>1. SUFFICES ASSUME d < 0 PROVE FALSE
    OBVIOUS
  <2>2. d + 1 <= 0
    BY <1>2, <2>1
  <2>3. n * (d + 1) <= 0
    BY <1>2, <2>2
  <2>4. QED
    BY <1>2, <2>3
<1>4. d \in Nat /\ n * d = d * n
  BY <1>2, <1>3
<1>5. a = d * n + (a % n) /\ a % n \in 0 .. (n - 1)
  BY <1>1, <1>4 DEF d
<1>6. QED
  BY <1>4, <1>5 DEF d

(* What there is to know of a volume's groups.                             *)
GroupsLaidOut(t) ==
  /\ GroupsCount(t) \in Nat \ {0}
  /\ \A g \in Nat : GroupStart(g) \in Nat /\ GroupStart(g + 1) = GroupStart(g) + BlocksPerGroup
  /\ GroupStart(GroupsCount(t) - 1) < t /\ t <= GroupStart(GroupsCount(t))

LEMMA Layout ==
  ASSUME NEW t \in Totals
  PROVE  GroupsLaidOut(t)
<1> DEFINE d == t - FirstDataBlock
           G == GroupsCount(t)
           n == BlocksPerGroup
<1>1. d \in Nat /\ d >= 8 /\ t \in Nat /\ n \in Nat \ {0}
  BY Params DEF CanFormat
<1>2. G = (d + n - 1) \div n
  BY DEF GroupsCount, CeilDiv, DataBlocks
<1> HIDE DEF d, G, n
<1>3. d + n - 1 \in Nat
  BY <1>1
<1>4. G \in Nat /\ G * n <= d + n - 1 /\ d + n - 1 < G * n + n
  <2>1. PICK a \in Nat : a = d + n - 1
    BY <1>3
  <2>2. a \div n \in Nat /\ a % n \in 0 .. (n - 1) /\ a = (a \div n) * n + (a % n)
    BY ONLY <1>1, <2>1, DivFacts
  <2>3. PICK r \in 0 .. (n - 1) : a = G * n + r
    BY <1>2, <2>1, <2>2
  <2>4. G \in Nat /\ G * n \in Int
    BY <1>1, <1>2, <2>1, <2>2
  <2>5. QED
    BY <1>1, <2>1, <2>3, <2>4
<1>5. d <= G * n
  BY <1>1, <1>4
<1>6. G # 0
  BY <1>1, <1>5
<1>7. (G - 1) * n < d
  <2>1. (G - 1) * n = G * n - n
    BY <1>1, <1>4
  <2>2. G * n \in Int
    BY <1>1, <1>4
  <2>3. QED
    BY <1>1, <1>4, <2>1, <2>2
<1>8. ASSUME NEW g \in Nat
      PROVE  GroupStart(g) \in Nat /\ GroupStart(g + 1) = GroupStart(g) + BlocksPerGroup
  <2>1. (g + 1) * n = g * n + n /\ g * n \in Nat
    BY <1>1
  <2>2. QED
    BY <1>1, <2>1, Params DEF GroupStart, n
<1>9. GroupStart(G - 1) < t
  <2>1. GroupStart(G - 1) = FirstDataBlock + (G - 1) * n
    BY DEF GroupStart, n
  <2>2. (G - 1) * n \in Int
    BY <1>1, <1>4
  <2>3. QED
    BY <1>1, <1>7, <2>1, <2>2, Params DEF d
<1>10. t <= GroupStart(G)
  <2>1. GroupStart(G) = FirstDataBlock + G * n
    BY DEF GroupStart, n
  <2>2. G * n \in Int
    BY <1>1, <1>4
  <2>3. QED
    BY <1>1, <1>5, <2>1, <2>2, Params DEF d
<1>11. QED
  BY <1>4, <1>6, <1>8, <1>9, <1>10 DEF GroupsLaidOut, G

Bits(t)     == FirstDataBlock .. (GroupStart(GroupsCount(t)) - 1)
DataArea(t) == Blocks(t) \ Metadata(t)
Pointees(t) == {0} \cup DataArea(t)

LEMMA GroupOrder ==
  ASSUME NEW g \in Nat, NEW h \in Nat, g < h
  PROVE  GroupStart(g) + BlocksPerGroup <= GroupStart(h)
<1> DEFINE n == BlocksPerGroup
<1>1. n \in Nat /\ g + 1 <= h
  BY Params
<1> HIDE DEF n
<1>2. (g + 1) * n <= h * n
  BY <1>1
<1>3. g * n + n <= h * n /\ g * n \in Int /\ h * n \in Int
  BY <1>1, <1>2
<1>4. QED
  BY <1>1, <1>3, Params DEF GroupStart, n

LEMMA GroupOfBlock ==
  ASSUME NEW g \in Nat, NEW b \in GroupBlocks(g)
  PROVE  GroupOf(b) = g /\ b \in Nat
<1>1. g * BlocksPerGroup \in Nat
  BY Params
<1>2. b \in Int /\ FirstDataBlock + g * BlocksPerGroup <= b
      /\ b < FirstDataBlock + g * BlocksPerGroup + BlocksPerGroup
  BY <1>1, Params DEF GroupBlocks, GroupStart
<1>3. PICK a \in Int : a = b - FirstDataBlock
  BY <1>2, Params
<1>4. g * BlocksPerGroup <= a /\ a < g * BlocksPerGroup + BlocksPerGroup
  BY <1>1, <1>2, <1>3, Params
<1>5. a \div BlocksPerGroup = g
  BY <1>4, DivUnique, Params
<1>6. QED
  BY <1>1, <1>2, <1>3, <1>5, Params DEF GroupOf

LEMMA BlocksOfGroups ==
  ASSUME NEW t \in Totals
  PROVE  /\ \A g \in Groups(t) : GroupBlocks(g) \subseteq Bits(t)
         /\ \A b \in Bits(t) : GroupOf(b) \in Groups(t) /\ b \in GroupBlocks(GroupOf(b))
         /\ Blocks(t) \subseteq Bits(t) /\ Bits(t) \subseteq Nat
<1> DEFINE G == GroupsCount(t)
           n == BlocksPerGroup
<1>1. GroupsLaidOut(t) /\ t \in Nat /\ FirstDataBlock \in Nat /\ n \in Nat \ {0}
  BY Layout, Params
<1>2. G \in Nat \ {0} /\ GroupStart(G) \in Nat /\ t <= GroupStart(G)
  BY <1>1 DEF GroupsLaidOut
<1> HIDE DEF G
<1>3. ASSUME NEW g \in Groups(t) PROVE GroupBlocks(g) \subseteq Bits(t)
  <2>1. g \in Nat /\ g < G
    BY <1>2 DEF Groups, G
  <2>2. GroupStart(g) + n <= GroupStart(G) /\ GroupStart(g) \in Nat
    BY <1>1, <1>2, <2>1, GroupOrder DEF GroupsLaidOut
  <2>3. FirstDataBlock <= GroupStart(g)
    <3>1. g * n \in Nat
      BY <1>1, <2>1
    <3>2. QED
      BY <1>1, <3>1 DEF GroupStart
  <2>4. QED
    BY <1>1, <1>2, <2>2, <2>3 DEF GroupBlocks, Bits, G
<1>4. ASSUME NEW b \in Bits(t)
      PROVE  GroupOf(b) \in Groups(t) /\ b \in GroupBlocks(GroupOf(b))
  <2>1. b \in Int /\ FirstDataBlock <= b /\ b < GroupStart(G)
    BY <1>1, <1>2 DEF Bits, G
  <2>2. PICK a \in Nat : a = b - FirstDataBlock
    BY <1>1, <2>1
  <2>3. PICK q \in Nat, r \in 0 .. n - 1 : q = GroupOf(b) /\ a = q * n + r
    <3>1. a \div n \in Nat /\ a % n \in 0 .. (n - 1) /\ a = (a \div n) * n + (a % n)
      BY ONLY <1>1, DivFacts
    <3>2. QED
      BY <2>2, <3>1 DEF GroupOf
  <2>4. b \in GroupBlocks(q)
    <3>1. q * n \in Nat
      BY <1>1
    <3>2. QED
      BY <1>1, <2>1, <2>2, <2>3, <3>1 DEF GroupBlocks, GroupStart
  <2>5. q < G
    <3>1. SUFFICES ASSUME G <= q PROVE FALSE
      BY <1>2
    <3>2. G * n <= q * n /\ G * n \in Int /\ q * n \in Int
      BY <1>1, <1>2, <3>1
    <3>3. QED
      BY <1>1, <2>1, <2>2, <2>3, <3>2 DEF GroupStart
  <2>6. QED
    BY <1>2, <2>3, <2>4, <2>5 DEF Groups, G
<1>5. Blocks(t) \subseteq Bits(t) /\ Bits(t) \subseteq Nat
  BY <1>1, <1>2 DEF Blocks, Bits, G
<1>6. QED
  BY <1>3, <1>4, <1>5

LEMMA OneGroup ==
  ASSUME NEW g \in Nat, NEW h \in Nat, g # h
  PROVE  GroupBlocks(g) \cap GroupBlocks(h) = {}
  BY GroupOfBlock

(* Each group has room for its metadata, the first for the root as well.   *)
GroupFits(t, g) ==
  /\ Overhead(t, g) \in Nat \ {0} /\ GroupSize(t, g) \in Nat
  /\ Overhead(t, g) <= GroupSize(t, g) /\ GroupSize(t, g) <= BlocksPerGroup
  /\ g = 0 => Overhead(t, g) < GroupSize(t, g)
  /\ GroupStart(g) + GroupSize(t, g) <= t
  /\ GroupSize(t, g) < BlocksPerGroup => GroupStart(g) + GroupSize(t, g) = t

LEMMA GroupsFit ==
  ASSUME NEW t \in Totals, NEW g \in Groups(t)
  PROVE  GroupFits(t, g)
<1> DEFINE G == GroupsCount(t)
           n == BlocksPerGroup
           bgd == BgdBlocks(t)
           s == GroupStart(g)
<1>1. /\ GroupsLaidOut(t) /\ t \in Nat /\ FirstDataBlock \in Nat /\ n \in Nat \ {0}
      /\ InodeTableBlocks \in Nat \ {0}
  BY Layout, Params
<1>2. /\ G \in Nat \ {0} /\ g \in 0 .. G - 1 /\ s \in Nat
      /\ GroupStart(G) \in Nat /\ GroupStart(G - 1) < t /\ t <= GroupStart(G)
  BY <1>1 DEF GroupsLaidOut, Groups
<1>3. bgd \in Nat
  <2>1. PICK a \in Nat : a = G + DescsPerBlock - 1
    BY <1>2, Params
  <2>2. a \div DescsPerBlock \in Nat
    BY DivFacts, Params
  <2>3. QED
    BY <2>1, <2>2 DEF BgdBlocks, CeilDiv
<1>4. s = FirstDataBlock + g * n /\ g * n \in Nat /\ GroupStart(0) = FirstDataBlock
  BY <1>1, <1>2 DEF GroupStart
<1>5. GroupSize(t, g) = IF n < t - s THEN n ELSE t - s
  BY <1>1, <1>4 DEF GroupSize, Smaller, DataBlocks
<1>6. Overhead(t, g) = (IF g = 0 THEN 1 + bgd ELSE 0) + 2 + InodeTableBlocks
  BY <1>1, <1>2, <1>3 DEF Overhead, BitmapsStart
<1>7. Overhead(t, 0) = 1 + bgd + 2 + InodeTableBlocks
  BY <1>1, <1>3, <1>4 DEF Overhead, BitmapsStart
<1>8. Overhead(t, 0) + 1 < n
  BY Params DEF CanFormat
<1>9. /\ GroupSize(t, G - 1) >= Overhead(t, G - 1)
      /\ FirstDataBlock + Overhead(t, 0) < t
  BY Params DEF LastGroupFits, RootBlock
<1>10. CASE g = G - 1
  <2>1. s < t
    BY <1>2, <1>10
  <2>2. GroupSize(t, g) >= Overhead(t, g)
    BY <1>9, <1>10
  <2> HIDE DEF G, n, bgd, s
  <2>3. g = 0 => s = FirstDataBlock
    BY <1>4, <1>1
  <2>4. QED
    BY <1>1, <1>2, <1>3, <1>5, <1>6, <1>7, <1>8, <1>9, <2>1, <2>2, <2>3 DEF GroupFits, n, s
<1>11. CASE g # G - 1
  <2>1. g + 1 \in Nat /\ G - 1 \in Nat /\ g < G - 1
    BY <1>2, <1>11
  <2>2. s + n <= GroupStart(G - 1)
    BY <1>2, <2>1, GroupOrder
  <2>3. GroupStart(G - 1) \in Nat
    BY <1>1, <2>1 DEF GroupsLaidOut
  <2> HIDE DEF G, n, bgd, s
  <2>4. QED
    BY <1>1, <1>2, <1>3, <1>5, <1>6, <1>7, <1>8, <2>2, <2>3 DEF GroupFits, n, s
<1>12. QED
  BY <1>10, <1>11

(* Which blocks of a group are metadata, and which lie behind the end.     *)
OwnMetadata(t, g) == GroupStart(g) .. (GroupStart(g) + Overhead(t, g) - 1)

LEMMA MetadataFacts ==
  ASSUME NEW t \in Totals
  PROVE  /\ \A g \in Groups(t) :
              /\ Metadata(t) \cap GroupBlocks(g) = OwnMetadata(t, g)
              /\ BeyondEnd(t) \cap GroupBlocks(g) =
                   (GroupStart(g) + GroupSize(t, g)) .. (GroupStart(g) + BlocksPerGroup - 1)
         /\ Metadata(t) \subseteq Blocks(t)
         /\ BeyondEnd(t) \subseteq Bits(t) /\ BeyondEnd(t) \cap Blocks(t) = {}
<1>1. /\ GroupsLaidOut(t) /\ t \in Nat /\ FirstDataBlock \in Nat
      /\ BlocksPerGroup \in Nat \ {0}
  BY Layout, Params
<1>2. /\ GroupsCount(t) \in Nat \ {0} /\ Groups(t) \subseteq Nat
      /\ GroupStart(GroupsCount(t)) \in Nat /\ t <= GroupStart(GroupsCount(t))
      /\ \A g \in Groups(t) : GroupStart(g) \in Nat
  BY <1>1 DEF GroupsLaidOut, Groups
<1>3. ASSUME NEW g \in Groups(t)
      PROVE  OwnMetadata(t, g) \subseteq GroupBlocks(g) /\ OwnMetadata(t, g) \subseteq Blocks(t)
  <2>1. GroupFits(t, g) /\ GroupStart(g) \in Nat /\ g \in Nat
    BY <1>2, GroupsFit
  <2>2. FirstDataBlock <= GroupStart(g)
    <3>1. g * BlocksPerGroup \in Nat
      BY <1>1, <2>1
    <3>2. QED
      BY <1>1, <3>1 DEF GroupStart
  <2> USE <1>1, <2>1, <2>2 DEF GroupFits
  <2> HIDE DEF GroupBlocks
  <2>3. OwnMetadata(t, g) \subseteq GroupBlocks(g)
    BY DEF OwnMetadata, GroupBlocks
  <2>4. OwnMetadata(t, g) \subseteq Blocks(t)
    BY DEF OwnMetadata, Blocks
  <2>5. QED
    BY <2>3, <2>4
<1>4. Metadata(t) = UNION {OwnMetadata(t, g) : g \in Groups(t)}
  BY DEF Metadata, OwnMetadata
<1>5. ASSUME NEW g \in Groups(t)
      PROVE  Metadata(t) \cap GroupBlocks(g) = OwnMetadata(t, g)
  <2>1. ASSUME NEW h \in Groups(t), h # g PROVE OwnMetadata(t, h) \cap GroupBlocks(g) = {}
    BY <1>2, <1>3, <2>1, OneGroup
  <2>2. QED
    BY <1>3, <1>4, <2>1
<1>6. ASSUME NEW g \in Groups(t)
      PROVE  BeyondEnd(t) \cap GroupBlocks(g) =
               (GroupStart(g) + GroupSize(t, g)) .. (GroupStart(g) + BlocksPerGroup - 1)
  <2>1. GroupFits(t, g) /\ GroupStart(g) \in Nat
    BY <1>2, GroupsFit
  <2>2. GroupBlocks(g) \subseteq Bits(t)
    BY BlocksOfGroups
  <2>3. GroupStart(g) + BlocksPerGroup - 1 \in GroupBlocks(g)
    BY <1>1, <2>1 DEF GroupBlocks
  <2>4. GroupStart(g) + BlocksPerGroup <= GroupStart(GroupsCount(t))
    BY <1>1, <1>2, <2>1, <2>2, <2>3 DEF Bits
  <2>5. QED
    BY <1>1, <1>2, <2>1, <2>4 DEF GroupFits, BeyondEnd, GroupBlocks
<1>7. BeyondEnd(t) \subseteq Bits(t) /\ BeyondEnd(t) \cap Blocks(t) = {}
  <2>1. FirstDataBlock <= t
    BY <1>1, Params DEF CanFormat
  <2>2. QED
    BY <1>1, <1>2, <2>1 DEF BeyondEnd, Bits, Blocks
<1>8. QED
  BY <1>3, <1>4, <1>5, <1>6, <1>7

LEMMA DataFacts ==
  ASSUME NEW t \in Totals
  PROVE  /\ DataArea(t) \subseteq Blocks(t) /\ 0 \notin DataArea(t)
         /\ DataArea(t) \subseteq Bits(t)
         /\ \A b \in Bits(t) : b \notin Metadata(t) \cup BeyondEnd(t) => b \in DataArea(t)
         /\ RootBlock(t) \in DataArea(t) /\ RootBlock(t) \in GroupBlocks(0)
         /\ RootBlock(t) # 0
<1>1. /\ GroupsLaidOut(t) /\ t \in Nat /\ FirstDataBlock \in Nat
      /\ BlocksPerGroup \in Nat \ {0}
  BY Layout, Params
<1>2. 0 \in Groups(t) /\ GroupStart(0) = FirstDataBlock
  BY <1>1 DEF GroupsLaidOut, Groups, GroupStart
<1>3. GroupFits(t, 0)
  BY <1>2, GroupsFit
<1>4. FirstDataBlock \in OwnMetadata(t, 0)
  BY <1>1, <1>2, <1>3 DEF OwnMetadata, GroupFits
<1>5. FirstDataBlock \in Metadata(t)
  BY <1>2, <1>4, MetadataFacts
<1>6. 0 \notin DataArea(t)
  BY <1>1, <1>5, Params DEF DataArea, Blocks
<1>7. \A b \in Bits(t) : b \notin Metadata(t) \cup BeyondEnd(t) => b \in DataArea(t)
  <2>1. GroupStart(GroupsCount(t)) \in Nat
    BY <1>1 DEF GroupsLaidOut
  <2>2. QED
    BY <1>1, <2>1 DEF Bits, BeyondEnd, DataArea, Blocks
<1>8. RootBlock(t) \in GroupBlocks(0) /\ RootBlock(t) \notin OwnMetadata(t, 0)
      /\ RootBlock(t) \in Blocks(t) /\ RootBlock(t) # 0
  BY <1>1, <1>2, <1>3 DEF GroupFits, RootBlock, GroupBlocks, OwnMetadata, Blocks
<1>9. RootBlock(t) \in DataArea(t)
  BY <1>2, <1>8, MetadataFacts DEF DataArea
<1>10. QED
  BY <1>6, <1>7, <1>8, <1>9, BlocksOfGroups DEF DataArea

(* The bits of the inodes.                                                 *)
BitsOfInodes(t) == Groups(t) \X (0 .. (InodesPerGroup - 1))

LEMMA InodeNumbers ==
  ASSUME NEW t \in Totals
  PROVE  /\ \A n \in Inodes(t) : InodeBit(n) \in BitsOfInodes(t) /\ InodeAt(InodeBit(n)) = n
         /\ \A bit \in BitsOfInodes(t) :
              InodeAt(bit) \in Inodes(t) /\ InodeBit(InodeAt(bit)) = bit
         /\ Inodes(t) \subseteq Nat \ {0} /\ 1 .. ReservedInodes \subseteq Inodes(t)
<1> DEFINE G == GroupsCount(t)
           k == InodesPerGroup
<1>1. G \in Nat \ {0} /\ k \in Nat \ {0} /\ G * k \in Nat /\ k <= G * k
  <2>1. G \in Nat \ {0} /\ k \in Nat \ {0}
    BY Layout, Params DEF GroupsLaidOut
  <2> HIDE DEF G, k
  <2>2. 1 * k <= G * k
    BY <2>1
  <2>3. QED
    BY <2>1, <2>2
<1>2. Inodes(t) = 1 .. (G * k) /\ Groups(t) = 0 .. (G - 1)
  BY DEF Inodes, Groups
<1> HIDE DEF G
<1>3. ASSUME NEW n \in Inodes(t)
      PROVE  InodeBit(n) \in BitsOfInodes(t) /\ InodeAt(InodeBit(n)) = n
  <2>1. PICK a \in Nat : a = n - 1 /\ a < G * k
    BY <1>1, <1>2
  <2>2. a \div k \in Nat /\ a % k \in 0 .. (k - 1) /\ a = (a \div k) * k + (a % k)
    BY <1>1, <2>1, DivFacts
  <2>3. PICK q \in Nat, r \in 0 .. (k - 1) : q = a \div k /\ r = a % k /\ a = q * k + r
    BY <2>2
  <2>4. q < G
    <3>1. SUFFICES ASSUME G <= q PROVE FALSE
      BY <1>1
    <3> HIDE DEF k
    <3>2. G * k <= q * k /\ G * k \in Int /\ q * k \in Int
      BY <1>1, <3>1
    <3>3. QED
      BY <1>1, <2>1, <2>3, <3>2
  <2>5. InodeBit(n) = <<q, r>>
    BY <2>1, <2>3 DEF InodeBit
  <2>6. InodeAt(<<q, r>>) = n
    <3>1. q * k \in Int
      BY <1>1
    <3>2. QED
      BY SMTT(60), <1>1, <1>2, <2>1, <2>3, <3>1 DEF InodeAt
  <2>7. QED
    BY <1>1, <1>2, <2>4, <2>5, <2>6 DEF BitsOfInodes
<1>4. ASSUME NEW bit \in BitsOfInodes(t)
      PROVE  InodeAt(bit) \in Inodes(t) /\ InodeBit(InodeAt(bit)) = bit
  <2>1. PICK q \in 0 .. (G - 1), r \in 0 .. (k - 1) : bit = <<q, r>>
    BY <1>2 DEF BitsOfInodes
  <2>2. q \in Nat /\ r \in Nat /\ r < k /\ q + 1 <= G
    BY <1>1, <2>1
  <2> HIDE DEF k
  <2>3. (q + 1) * k <= G * k /\ q * k \in Nat
    BY <1>1, <2>2
  <2>4. PICK a \in Nat : a = q * k + r /\ a < G * k
    BY <1>1, <2>2, <2>3
  <2>5. a \div k = q /\ a % k = r
    <3>1. q * k <= a /\ a < q * k + k /\ a - q * k = r
      BY <1>1, <2>2, <2>3, <2>4
    <3>2. QED
      BY <1>1, <2>2, <3>1, DivUnique
  <2>6. InodeAt(bit) = a + 1
    BY <2>1, <2>4 DEF InodeAt, k
  <2>7. InodeBit(a + 1) = <<q, r>>
    <3>1. (a + 1) - 1 = a
      BY <2>4
    <3>2. QED
      BY <2>5, <3>1 DEF InodeBit, k
  <2>8. QED
    BY <1>1, <1>2, <2>1, <2>4, <2>6, <2>7
<1>5. Inodes(t) \subseteq Nat \ {0} /\ 1 .. ReservedInodes \subseteq Inodes(t)
  BY <1>1, <1>2, Params
<1>6. QED
  BY <1>3, <1>4, <1>5

(* Only the bits of the first group can be those of reserved inodes.       *)
LEMMA ReservedBits ==
  ASSUME NEW t \in Totals, NEW n \in Inodes(t)
  PROVE  n <= ReservedInodes <=> \E i \in 0 .. (ReservedInodes - 1) : InodeBit(n) = <<0, i>>
<1>1. PICK g \in Nat, i \in 0 .. (InodesPerGroup - 1) :
        InodeBit(n) = <<g, i>> /\ n = g * InodesPerGroup + i + 1
  <2>1. InodeBit(n) \in BitsOfInodes(t) /\ InodeAt(InodeBit(n)) = n
    BY InodeNumbers
  <2>2. Groups(t) \subseteq Nat
    BY Layout DEF GroupsLaidOut, Groups
  <2>3. QED
    BY <2>1, <2>2 DEF BitsOfInodes, InodeAt
<1>2. CASE g = 0
  <2>1. n = i + 1
    BY <1>1, <1>2, Params
  <2>2. QED
    BY <1>1, <1>2, <2>1, Params
<1>3. CASE g # 0
  <2>1. 1 * InodesPerGroup <= g * InodesPerGroup /\ g * InodesPerGroup \in Nat
    BY <1>1, <1>3, Params
  <2>2. ~(n <= ReservedInodes)
    BY <1>1, <2>1, Params
  <2>3. QED
    BY <1>1, <1>3, <2>2
<1>4. QED
  BY <1>2, <1>3

(***************************************************************************)
(* What one group gains or loses the sum over the groups does as well.     *)
(***************************************************************************)
Partial(t, f, s) ==
  /\ s \in [0 .. GroupsCount(t) -> Nat]
  /\ s[0] = 0
  /\ \A k \in 1 .. GroupsCount(t) : s[k] = s[k - 1] + f[k - 1]
  /\ Sum(t, f) = s[GroupsCount(t)]

LEMMA SumFacts ==
  ASSUME NEW t \in Totals, NEW f \in [Groups(t) -> Nat]
  PROVE  \E s : Partial(t, f, s)
<1> DEFINE n == GroupsCount(t)
           next == [x \in (1 .. n) \X Nat |-> x[2] + f[x[1] - 1]]
<1>1. n \in Nat \ {0} /\ Groups(t) = 0 .. (n - 1)
  BY Layout DEF GroupsLaidOut, Groups
<1>2. next \in [(1 .. n) \X Nat -> Nat]
  BY <1>1
<1>3. PICK at \in [0 .. n -> Nat] :
        at = [i \in 0 .. n |-> IF i = 0 THEN 0 ELSE next[<<i, at[i - 1]>>]]
  <2> HIDE DEF next, n
  <2>1. n \in Nat /\ 0 \in Nat
    BY <1>1
  <2>2. Iterated(n, Nat, 0, next)
    BY ONLY <1>2, <2>1, Iteration
  <2>3. QED
    BY ONLY <2>2 DEF Iterated
<1>4. at = [k \in 0 .. n |-> IF k = 0 THEN 0 ELSE at[k - 1] + f[k - 1]]
  <2>1. ASSUME NEW i \in 0 .. n, i # 0 PROVE next[<<i, at[i - 1]>>] = at[i - 1] + f[i - 1]
    <3>1. <<i, at[i - 1]>> \in (1 .. n) \X Nat
      BY <1>1, <2>1
    <3>2. QED
      BY <3>1
  <2> HIDE DEF next, n
  <2>2. QED
    BY <1>3, <2>1
<1> DEFINE sum == CHOOSE s : s = [k \in 0 .. n |-> IF k = 0 THEN 0 ELSE s[k - 1] + f[k - 1]]
<1>5. sum = [k \in 0 .. n |-> IF k = 0 THEN 0 ELSE sum[k - 1] + f[k - 1]]
  BY <1>4
<1>6. Sum(t, f) = sum[n]
  BY DEF Sum
<1> HIDE DEF sum, n
<1>7. sum[0] = 0 /\ \A k \in 1 .. n : sum[k] = sum[k - 1] + f[k - 1]
  <2>1. 0 \in 0 .. n /\ \A i \in 1 .. n : i \in 0 .. n /\ i # 0
    BY <1>1
  <2>2. QED
    BY <1>5, <2>1
<1> DEFINE Good == {k \in Nat : k <= n => sum[k] \in Nat}
<1>8. 0 \in Good
  BY <1>7
<1>9. ASSUME NEW k \in Nat, k \in Good PROVE k + 1 \in Good
  <2>1. SUFFICES ASSUME k + 1 <= n PROVE sum[k + 1] \in Nat
    OBVIOUS
  <2>2. sum[k] \in Nat /\ k + 1 \in 1 .. n /\ (k + 1) - 1 = k /\ f[k] \in Nat
    BY <1>1, <1>9, <2>1
  <2>3. sum[k + 1] = sum[k] + f[k]
    BY <1>7, <2>2
  <2>4. QED
    BY <2>2, <2>3
<1>10. Nat \subseteq Good
  <2> HIDE DEF Good
  <2>1. QED
    BY <1>8, <1>9, Induction
<1>11. sum \in [0 .. n -> Nat]
  <2>1. \A k \in 0 .. n : sum[k] \in Nat
    BY <1>1, <1>10
  <2> HIDE DEF Good
  <2>2. sum = [k \in 0 .. n |-> sum[k]]
    BY <1>5
  <2>3. QED
    BY <2>1, <2>2, Zenon
<1>12. Partial(t, f, sum)
  BY <1>6, <1>7, <1>11 DEF Partial, n
<1>13. QED
  BY <1>12

LEMMA SumMoves ==
  ASSUME NEW t \in Totals, NEW f \in [Groups(t) -> Nat], NEW h \in [Groups(t) -> Nat],
         NEW g \in Groups(t), NEW d \in Int, h[g] = f[g] + d,
         \A k \in Groups(t) : k # g => h[k] = f[k]
  PROVE  Sum(t, h) = Sum(t, f) + d /\ Sum(t, f) \in Nat /\ Sum(t, h) \in Nat
<1> DEFINE n == GroupsCount(t)
<1>1. n \in Nat \ {0} /\ Groups(t) = 0 .. (n - 1)
  BY Layout DEF GroupsLaidOut, Groups
<1>2. PICK sf : Partial(t, f, sf)
  BY SumFacts
<1>3. PICK sh : Partial(t, h, sh)
  BY SumFacts
<1> HIDE DEF n
<1>4. /\ sf \in [0 .. n -> Nat] /\ sf[0] = 0
      /\ \A k \in 1 .. n : sf[k] = sf[k - 1] + f[k - 1]
      /\ Sum(t, f) = sf[n]
  BY <1>2 DEF Partial, n
<1>5. /\ sh \in [0 .. n -> Nat] /\ sh[0] = 0
      /\ \A k \in 1 .. n : sh[k] = sh[k - 1] + h[k - 1]
      /\ Sum(t, h) = sh[n]
  BY <1>3 DEF Partial, n
<1> DEFINE Good == {k \in Nat : k <= n => sh[k] = sf[k] + IF k > g THEN d ELSE 0}
<1>6. 0 \in Good
  BY <1>1, <1>4, <1>5
<1>7. ASSUME NEW k \in Nat, k \in Good PROVE k + 1 \in Good
  <2>1. SUFFICES ASSUME k + 1 <= n PROVE sh[k + 1] = sf[k + 1] + IF k + 1 > g THEN d ELSE 0
    OBVIOUS
  <2>2. /\ sh[k] = sf[k] + IF k > g THEN d ELSE 0
        /\ k + 1 \in 1 .. n /\ (k + 1) - 1 = k /\ f[k] \in Nat /\ h[k] \in Nat
        /\ sf[k] \in Nat /\ sh[k] \in Nat /\ k \in Groups(t)
    BY <1>1, <1>4, <1>5, <1>7, <2>1
  <2>3. sh[k + 1] = sh[k] + h[k] /\ sf[k + 1] = sf[k] + f[k]
    BY <1>4, <1>5, <2>2
  <2>4. CASE k = g
    BY <1>1, <2>2, <2>3, <2>4
  <2>5. CASE k # g
    BY SMTT(60), <1>1, <2>2, <2>3, <2>5
  <2>6. QED
    BY <2>4, <2>5
<1>8. Nat \subseteq Good
  <2> HIDE DEF Good
  <2>1. QED
    BY <1>6, <1>7, Induction
<1>9. n \in Good /\ n > g
  BY <1>1, <1>8
<1>10. QED
  BY <1>1, <1>4, <1>5, <1>9

(* A part is no more than the whole.                                       *)
LEMMA SumBounds ==
  ASSUME NEW t \in Totals, NEW f \in [Groups(t) -> Nat], NEW g \in Groups(t)
  PROVE  f[g] <= Sum(t, f) /\ Sum(t, f) \in Nat
<1> DEFINE h == [f EXCEPT ![g] = 0]
<1>1. h \in [Groups(t) -> Nat] /\ h[g] = 0 /\ \A k \in Groups(t) : k # g => h[k] = f[k]
  OBVIOUS
<1>2. f[g] \in Nat /\ (-f[g]) \in Int /\ h[g] = f[g] + (-f[g])
  BY <1>1
<1> HIDE DEF h
<1>3. Sum(t, h) = Sum(t, f) + (-f[g]) /\ Sum(t, f) \in Nat /\ Sum(t, h) \in Nat
  BY <1>1, <1>2, SumMoves
<1>4. QED
  BY <1>2, <1>3

LEMMA SumOfEqual ==
  ASSUME NEW t \in Totals, NEW c \in Nat
  PROVE  Sum(t, [g \in Groups(t) |-> c]) = GroupsCount(t) * c
<1> DEFINE n == GroupsCount(t)
           f == [g \in Groups(t) |-> c]
<1>1. n \in Nat \ {0} /\ Groups(t) = 0 .. (n - 1) /\ f \in [Groups(t) -> Nat]
  BY Layout DEF GroupsLaidOut, Groups
<1>2. PICK s : Partial(t, f, s)
  BY <1>1, SumFacts
<1> HIDE DEF n
<1>3. /\ s \in [0 .. n -> Nat] /\ s[0] = 0
      /\ \A k \in 1 .. n : s[k] = s[k - 1] + f[k - 1]
      /\ Sum(t, f) = s[n]
  BY <1>2 DEF Partial, n
<1> DEFINE Good == {k \in Nat : k <= n => s[k] = k * c}
<1>4. 0 \in Good
  BY <1>3
<1>5. ASSUME NEW k \in Nat, k \in Good PROVE k + 1 \in Good
  <2>1. SUFFICES ASSUME k + 1 <= n PROVE s[k + 1] = (k + 1) * c
    OBVIOUS
  <2>2. s[k] = k * c /\ k + 1 \in 1 .. n /\ (k + 1) - 1 = k /\ f[k] = c
    BY <1>1, <1>5, <2>1
  <2>3. s[k + 1] = s[k] + c
    BY <1>3, <2>2
  <2>4. (k + 1) * c = k * c + c
    OBVIOUS
  <2>5. QED
    BY <2>2, <2>3, <2>4
<1>6. Nat \subseteq Good
  <2> HIDE DEF Good
  <2>1. QED
    BY <1>4, <1>5, Induction
<1>7. QED
  BY <1>1, <1>3, <1>6 DEF n

-----------------------------------------------------------------------------
(***************************************************************************)
(* The values a volume can have.                                           *)
(***************************************************************************)
RecordsOf(t) ==
  {r \in [inode : {0} \cup Inodes(t), name : Names \cup {".", ".."}, units : Nat] :
     r.name \in {".", ".."} => r.inode # 0}

Maps(t) == [0 .. (PtrsPerBlock - 1) -> Pointees(t)]

Contents(t) ==
  {Nothing} \cup {Text(x) : x \in Texts} \cup {Ptrs(f) : f \in Maps(t)}
    \cup {Dir(rs) : rs \in Seq(RecordsOf(t))}

InodesOf(t) ==
  [type : {"none", "file", "dir"}, size : Nat, block : [0 .. Double -> Pointees(t)]]

Volumes(t) ==
  [total     : {t},
   blockBits : SUBSET Bits(t),
   inodeBits : SUBSET BitsOfInodes(t),
   groups    : [Groups(t) -> [blocks : Nat, inodes : Nat, dirs : Nat]],
   sb        : [blocks : Nat, inodes : Nat],
   inode     : [Inodes(t) -> InodesOf(t)],
   data      : [Blocks(t) -> Contents(t)]]

LEMMA ContentKinds ==
  ASSUME NEW t, NEW c \in Contents(t)
  PROVE  /\ c.kind = "ptrs" => c.to \in Maps(t)
         /\ c.kind = "dir" => c.records \in Seq(RecordsOf(t))
<1>1. CASE c = Nothing
  BY <1>1 DEF Nothing
<1>2. CASE \E x \in Texts : c = Text(x)
  BY <1>2 DEF Text
<1>3. CASE \E f \in Maps(t) : c = Ptrs(f)
  BY <1>3 DEF Ptrs
<1>4. CASE \E rs \in Seq(RecordsOf(t)) : c = Dir(rs)
  BY <1>4 DEF Dir
<1>5. QED
  BY <1>1, <1>2, <1>3, <1>4 DEF Contents

LEMMA ContentMade ==
  ASSUME NEW t
  PROVE  /\ Nothing \in Contents(t) /\ Nothing.kind \notin {"ptrs", "dir"}
         /\ \A x \in Texts : Text(x) \in Contents(t) /\ Text(x).kind \notin {"ptrs", "dir"}
         /\ \A f \in Maps(t) :
              Ptrs(f) \in Contents(t) /\ Ptrs(f).kind = "ptrs" /\ Ptrs(f).to = f
         /\ \A rs \in Seq(RecordsOf(t)) :
              Dir(rs) \in Contents(t) /\ Dir(rs).kind = "dir" /\ Dir(rs).records = rs
         /\ NoPtrs \in Maps(t)
<1>1. Nothing \in Contents(t) /\ Nothing.kind \notin {"ptrs", "dir"}
  BY DEF Contents, Nothing
<1>2. \A x \in Texts : Text(x) \in Contents(t) /\ Text(x).kind \notin {"ptrs", "dir"}
  BY DEF Contents, Text
<1>3. \A f \in Maps(t) : Ptrs(f) \in Contents(t) /\ Ptrs(f).kind = "ptrs" /\ Ptrs(f).to = f
  BY DEF Contents, Ptrs
<1>4. \A rs \in Seq(RecordsOf(t)) :
        Dir(rs) \in Contents(t) /\ Dir(rs).kind = "dir" /\ Dir(rs).records = rs
  BY DEF Contents, Dir
<1>5. NoPtrs \in Maps(t)
  BY DEF NoPtrs, Maps, Pointees
<1>6. QED
  BY <1>1, <1>2, <1>3, <1>4, <1>5

(* A content's pointers and records, whatever it is.                       *)
PtrsIn(c)    == IF c.kind = "ptrs" THEN c.to ELSE NoPtrs
RecordsIn(c) == IF c.kind = "dir" THEN c.records ELSE <<>>

LEMMA Held ==
  ASSUME NEW t \in Totals, NEW v \in Volumes(t), NEW b \in Blocks(t)
  PROVE  /\ Pointers(v, b) = PtrsIn(v.data[b]) /\ Pointers(v, b) \in Maps(t)
         /\ Records(v, b) \in Seq(RecordsOf(t))
         /\ b # 0 => Records(v, b) = RecordsIn(v.data[b])
<1>1. v.data[b] \in Contents(t)
  BY DEF Volumes
<1>2. /\ v.data[b].kind = "ptrs" => v.data[b].to \in Maps(t)
      /\ v.data[b].kind = "dir" => v.data[b].records \in Seq(RecordsOf(t))
  BY <1>1, ContentKinds
<1>3. <<>> \in Seq(RecordsOf(t)) /\ NoPtrs \in Maps(t)
  BY ContentMade
<1>4. QED
  BY <1>2, <1>3 DEF Pointers, PtrsIn, Records, RecordsIn

(***************************************************************************)
(* Writing a block changes what it holds, and nothing else.                *)
(***************************************************************************)
SameBits(v, w) ==
  w.blockBits = v.blockBits /\ w.inodeBits = v.inodeBits
    /\ w.groups = v.groups /\ w.sb = v.sb

LEMMA DataChanged ==
  ASSUME NEW t \in Totals, NEW v \in Volumes(t), NEW w, NEW b \in DataArea(t), NEW c,
         w.data = [v.data EXCEPT ![b] = c], NEW x \in Blocks(t)
  PROVE  /\ Pointers(w, x) = IF x = b THEN PtrsIn(c) ELSE Pointers(v, x)
         /\ Records(w, x) = IF x = b THEN RecordsIn(c) ELSE Records(v, x)
<1>1. b \in Blocks(t) /\ b # 0
  BY DataFacts
<1>2. w.data[x] = IF x = b THEN c ELSE v.data[x]
  BY DEF Volumes
<1>3. QED
  BY <1>1, <1>2 DEF Pointers, Records, PtrsIn, RecordsIn

LEMMA PutFacts ==
  ASSUME NEW t \in Totals, NEW v \in Volumes(t), NEW b \in DataArea(t), NEW c \in Contents(t)
  PROVE  /\ Put(v, b, c) \in Volumes(t) /\ SameBits(v, Put(v, b, c))
         /\ Put(v, b, c).inode = v.inode
         /\ Put(v, b, c).data = [v.data EXCEPT ![b] = c]
<1>1. b \in Blocks(t)
  BY DataFacts
<1>2. v.data \in [Blocks(t) -> Contents(t)]
  BY DEF Volumes
<1>3. Put(v, b, c) \in Volumes(t)
  BY <1>1, <1>2 DEF Put, Volumes
<1>4. QED
  BY <1>3 DEF Put, Volumes, SameBits

-----------------------------------------------------------------------------
(***************************************************************************)
(* The invariant of a volume.  First what is reserved stays in use, and a  *)
(* block that is not in use holds nothing.                                 *)
(***************************************************************************)
Kept(v) ==
  /\ Metadata(v.total) \cup BeyondEnd(v.total) \subseteq v.blockBits
  /\ \A i \in 0 .. (ReservedInodes - 1) : <<0, i>> \in v.inodeBits
  /\ \A b \in Blocks(v.total) : b \notin v.blockBits => v.data[b] = Nothing

(* A record that gives an inode its name; and those of a block.            *)
IsNamed(r) == r.inode # 0 /\ r.name \notin {".", ".."}

Roster(rs) == {rs[k].inode : k \in {l \in DOMAIN rs : IsNamed(rs[l])}}

OnceEach(rs) ==
  \A k, l \in DOMAIN rs :
    IsNamed(rs[k]) /\ IsNamed(rs[l]) /\ rs[k].inode = rs[l].inode => k = l

InUse(v, n) == n > ReservedInodes /\ InodeBit(n) \in v.inodeBits

Unnamed(v, n) == \A b \in Blocks(v.total) : n \notin Roster(Records(v, b))

(* An inode has one name, and is in use while it has it.                   *)
NamedOnce(v) ==
  /\ \A b \in Blocks(v.total) :
       OnceEach(Records(v, b)) /\ \A n \in Roster(Records(v, b)) : InUse(v, n)
  /\ \A b, c \in Blocks(v.total) :
       b # c => Roster(Records(v, b)) \cap Roster(Records(v, c)) = {}

(* The counters.                                                           *)
Used(v, g) == Cardinality(v.blockBits \cap GroupBlocks(g))

BlocksCounted(v) ==
  /\ \A g \in Groups(v.total) :
       v.groups[g].blocks = BlocksPerGroup - Used(v, g)
  /\ v.sb.blocks = Sum(v.total, [g \in Groups(v.total) |-> v.groups[g].blocks])

BitsTaken(v, g) == {bit \in v.inodeBits : bit[1] = g}
Taken(v, g)     == Cardinality(BitsTaken(v, g))

InodesCounted(v) ==
  /\ \A g \in Groups(v.total) :
       v.groups[g].inodes = InodesPerGroup - Taken(v, g)
  /\ v.sb.inodes = Sum(v.total, [g \in Groups(v.total) |-> v.groups[g].inodes])

Solid(v) == Kept(v) /\ NamedOnce(v) /\ BlocksCounted(v) /\ InodesCounted(v)

(***************************************************************************)
(* The places that point to blocks: those of inodes, and those of blocks   *)
(* of pointers.  The inodes are a parameter: a command works on a copy of  *)
(* an inode that it writes at its end.  No two places point to one block,  *)
(* and what they point to is in use.                                       *)
(***************************************************************************)
Slots(t) == ({0} \X Inodes(t) \X (0 .. Double))
              \cup ({1} \X Blocks(t) \X (0 .. (PtrsPerBlock - 1)))

At(v, ino, s) == IF s[1] = 0 THEN ino[s[2]].block[s[3]] ELSE Pointers(v, s[2])[s[3]]

Apart(v, ino) ==
  /\ \A s \in Slots(v.total) : At(v, ino, s) # 0 => At(v, ino, s) \in v.blockBits
  /\ \A r, s \in Slots(v.total) :
       At(v, ino, r) # 0 /\ At(v, ino, r) = At(v, ino, s) => r = s

Loose(v, ino, b) == \A s \in Slots(v.total) : At(v, ino, s) # b

Inos(t) == [Inodes(t) -> InodesOf(t)]

LEMMA SlotKinds ==
  ASSUME NEW t, NEW s \in Slots(t)
  PROVE  \/ \E n \in Inodes(t), i \in 0 .. Double : s = <<0, n, i>>
         \/ \E b \in Blocks(t), i \in 0 .. (PtrsPerBlock - 1) : s = <<1, b, i>>
  BY DEF Slots

LEMMA SlotsAt ==
  ASSUME NEW t
  PROVE  /\ \A n \in Inodes(t), i \in 0 .. Double :
              <<0, n, i>> \in Slots(t)
              /\ \A v, ino : At(v, ino, <<0, n, i>>) = ino[n].block[i]
         /\ \A b \in Blocks(t), i \in 0 .. (PtrsPerBlock - 1) :
              <<1, b, i>> \in Slots(t)
              /\ \A v, ino : At(v, ino, <<1, b, i>>) = Pointers(v, b)[i]
  BY DEF Slots, At

LEMMA PointsToData ==
  ASSUME NEW t \in Totals, NEW v \in Volumes(t), NEW ino \in Inos(t), NEW s \in Slots(t)
  PROVE  At(v, ino, s) \in Pointees(t)
<1>1. CASE \E n \in Inodes(t), i \in 0 .. Double : s = <<0, n, i>>
  <2>1. PICK n \in Inodes(t), i \in 0 .. Double : s = <<0, n, i>>
    BY <1>1
  <2>2. ino[n].block[i] \in Pointees(t)
    BY DEF Inos, InodesOf
  <2>3. QED
    BY <2>1, <2>2, SlotsAt
<1>2. CASE \E b \in Blocks(t), i \in 0 .. (PtrsPerBlock - 1) : s = <<1, b, i>>
  <2>1. PICK b \in Blocks(t), i \in 0 .. (PtrsPerBlock - 1) : s = <<1, b, i>>
    BY <1>2
  <2>2. Pointers(v, b) \in Maps(t)
    BY Held
  <2>3. Pointers(v, b)[i] \in Pointees(t)
    BY <2>2 DEF Maps
  <2>4. QED
    BY <2>1, <2>3, SlotsAt
<1>3. QED
  BY <1>1, <1>2, SlotKinds

(* Pointers that go away leave the others apart.                           *)
LEMMA ApartFewer ==
  ASSUME NEW v, NEW w, NEW ino, NEW jno, Apart(v, ino), w.total = v.total,
         \A s \in Slots(v.total) : At(w, jno, s) # 0 =>
           At(w, jno, s) = At(v, ino, s) /\ At(v, ino, s) \in w.blockBits
  PROVE  Apart(w, jno)
  BY DEF Apart

(* A pointer to a block nothing points to is added.                        *)
LEMMA ApartMore ==
  ASSUME NEW v, NEW w, NEW ino, NEW jno, Apart(v, ino), w.total = v.total,
         NEW b \in w.blockBits, Loose(v, ino, b), NEW z \in Slots(v.total),
         v.blockBits \subseteq w.blockBits,
         \A s \in Slots(v.total) : s # z => At(w, jno, s) \in {0, At(v, ino, s)},
         At(w, jno, z) = b
  PROVE  Apart(w, jno)
<1>1. ASSUME NEW s \in Slots(v.total), At(w, jno, s) # 0
      PROVE  At(w, jno, s) \in w.blockBits
  BY <1>1 DEF Apart
<1>2. ASSUME NEW r \in Slots(v.total), NEW s \in Slots(v.total), At(w, jno, r) # 0,
             At(w, jno, r) = At(w, jno, s)
      PROVE  r = s
  <2>1. CASE r = z
    BY <1>2, <2>1 DEF Loose
  <2>2. CASE s = z
    BY <1>2, <2>2 DEF Loose
  <2>3. CASE r # z /\ s # z
    BY <1>2, <2>3 DEF Apart
  <2>4. QED
    BY <2>1, <2>2, <2>3
<1>3. QED
  BY <1>1, <1>2 DEF Apart

-----------------------------------------------------------------------------
(***************************************************************************)
(* Blocks are taken and given back.                                        *)
(***************************************************************************)
LEMMA OneMoreBlock ==
  ASSUME NEW t \in Totals, NEW bits \in SUBSET Bits(t), NEW b \in Bits(t), b \notin bits,
         NEW g \in Groups(t)
  PROVE  /\ Cardinality(bits \cap GroupBlocks(g)) \in 0 .. BlocksPerGroup
         /\ Cardinality((bits \cup {b}) \cap GroupBlocks(g)) =
              Cardinality(bits \cap GroupBlocks(g)) + IF g = GroupOf(b) THEN 1 ELSE 0
         /\ Cardinality((bits \cup {b}) \cap GroupBlocks(g)) \in 0 .. BlocksPerGroup
<1>1. GroupStart(g) \in Nat /\ BlocksPerGroup \in Nat \ {0} /\ g \in Nat
  <2>1. g \in Nat
    BY Layout DEF GroupsLaidOut, Groups
  <2>2. QED
    BY <2>1, Layout, Params DEF GroupsLaidOut
<1>2. IsFiniteSet(GroupBlocks(g)) /\ Cardinality(GroupBlocks(g)) = BlocksPerGroup
  <2>1. GroupStart(g) + BlocksPerGroup - 1 \in Int
    BY <1>1
  <2>2. QED
    BY <1>1, <2>1, FS_Interval DEF GroupBlocks
<1>3. \A S : IsFiniteSet(S \cap GroupBlocks(g))
               /\ Cardinality(S \cap GroupBlocks(g)) \in 0 .. BlocksPerGroup
  <2>1. ASSUME NEW S
        PROVE  IsFiniteSet(S \cap GroupBlocks(g))
                 /\ Cardinality(S \cap GroupBlocks(g)) \in 0 .. BlocksPerGroup
    <3>1. S \cap GroupBlocks(g) \subseteq GroupBlocks(g)
      OBVIOUS
    <3>2. /\ IsFiniteSet(S \cap GroupBlocks(g))
          /\ Cardinality(S \cap GroupBlocks(g)) <= BlocksPerGroup
      BY <1>2, <3>1, FS_Subset
    <3>3. Cardinality(S \cap GroupBlocks(g)) \in Nat
      BY <3>2, FS_CardinalityType
    <3>4. QED
      BY <1>1, <3>2, <3>3
  <2>2. QED
    BY <2>1
<1>4. CASE b \in GroupBlocks(g)
  <2>1. GroupOf(b) = g
    BY <1>1, <1>4, GroupOfBlock
  <2>2. (bits \cup {b}) \cap GroupBlocks(g) = (bits \cap GroupBlocks(g)) \cup {b}
    BY <1>4
  <2>3. Cardinality((bits \cap GroupBlocks(g)) \cup {b}) =
          Cardinality(bits \cap GroupBlocks(g)) + 1
    BY <1>3, FS_AddElement
  <2>4. QED
    BY <1>3, <2>1, <2>2, <2>3
<1>5. CASE b \notin GroupBlocks(g)
  <2>1. GroupOf(b) # g
    BY <1>5, BlocksOfGroups
  <2>2. (bits \cup {b}) \cap GroupBlocks(g) = bits \cap GroupBlocks(g)
    BY <1>5
  <2>3. Cardinality(bits \cap GroupBlocks(g)) \in 0 .. BlocksPerGroup
    BY <1>3
  <2>4. QED
    BY <1>1, <2>1, <2>2, <2>3
<1>6. QED
  BY <1>4, <1>5

(* The counters after one group's has changed.                             *)
LEMMA BlocksRecounted ==
  ASSUME NEW t \in Totals, NEW v \in Volumes(t), NEW w \in Volumes(t), BlocksCounted(v),
         NEW g \in Groups(t), NEW d \in Int,
         w.groups[g].blocks = v.groups[g].blocks + d,
         \A h \in Groups(t) : h # g => w.groups[h].blocks = v.groups[h].blocks,
         w.sb.blocks = v.sb.blocks + d,
         Used(w, g) = Used(v, g) - d,
         \A h \in Groups(t) : Used(v, h) \in Nat,
         \A h \in Groups(t) : h # g => Used(w, h) = Used(v, h)
  PROVE  BlocksCounted(w)
<1> DEFINE vf == [h \in Groups(t) |-> v.groups[h].blocks]
           wf == [h \in Groups(t) |-> w.groups[h].blocks]
<1>1. v.total = t /\ w.total = t /\ vf \in [Groups(t) -> Nat] /\ wf \in [Groups(t) -> Nat]
  BY DEF Volumes
<1>2. /\ \A h \in Groups(t) :
           v.groups[h].blocks = BlocksPerGroup - Used(v, h)
      /\ v.sb.blocks = Sum(t, vf)
  BY <1>1 DEF BlocksCounted
<1>3. Sum(t, wf) = Sum(t, vf) + d
  <2>1. wf[g] = vf[g] + d /\ \A h \in Groups(t) : h # g => wf[h] = vf[h]
    OBVIOUS
  <2> HIDE DEF vf, wf
  <2>2. QED
    BY <1>1, <2>1, SumMoves
<1>4. w.sb.blocks = Sum(t, wf)
  BY <1>2, <1>3
<1>5. ASSUME NEW h \in Groups(t)
      PROVE  w.groups[h].blocks = BlocksPerGroup - Used(w, h)
  <2>1. CASE h = g
    <3>1. v.groups[h].blocks = BlocksPerGroup - Used(v, h)
      BY <1>2
    <3>2. QED
      BY <2>1, <3>1, Params
  <2>2. CASE h # g
    BY <1>2, <2>2
  <2>3. QED
    BY <2>1, <2>2
<1>6. QED
  BY <1>1, <1>4, <1>5 DEF BlocksCounted

(* Counters that stay, over bits that stay.                                *)
SameBlockCounts(v, w, t) ==
  /\ w.total = t /\ v.total = t /\ w.blockBits = v.blockBits /\ w.sb.blocks = v.sb.blocks
  /\ \A h \in Groups(t) : w.groups[h].blocks = v.groups[h].blocks

LEMMA BlocksSame ==
  ASSUME NEW t, NEW v, NEW w, BlocksCounted(v), SameBlockCounts(v, w, t)
  PROVE  BlocksCounted(w)
<1>1. [h \in Groups(t) |-> w.groups[h].blocks] = [h \in Groups(t) |-> v.groups[h].blocks]
  BY DEF SameBlockCounts
<1>2. \A h : Used(w, h) = Used(v, h)
  BY DEF Used, SameBlockCounts
<1>3. QED
  BY <1>1, <1>2, Zenon DEF BlocksCounted, SameBlockCounts

SameInodeCounts(v, w, t) ==
  /\ w.total = t /\ v.total = t /\ w.inodeBits = v.inodeBits /\ w.sb.inodes = v.sb.inodes
  /\ \A h \in Groups(t) : w.groups[h].inodes = v.groups[h].inodes

LEMMA InodesSame ==
  ASSUME NEW t, NEW v, NEW w, InodesCounted(v), SameInodeCounts(v, w, t)
  PROVE  InodesCounted(w)
<1>1. [h \in Groups(t) |-> w.groups[h].inodes] = [h \in Groups(t) |-> v.groups[h].inodes]
  BY DEF SameInodeCounts
<1>2. \A h : Taken(w, h) = Taken(v, h)
  BY DEF Taken, BitsTaken, SameInodeCounts
<1>3. QED
  BY <1>1, <1>2, Zenon DEF InodesCounted, SameInodeCounts

(* What does not depend on the blocks' bits and counters stays.            *)
LEMMA SameContents ==
  ASSUME NEW v, NEW w, w.data = v.data
  PROVE  /\ \A x : Pointers(w, x) = Pointers(v, x) /\ Records(w, x) = Records(v, x)
         /\ \A ino, s : At(w, ino, s) = At(v, ino, s)
  BY DEF Pointers, Records, At

LEMMA SameNames ==
  ASSUME NEW v, NEW w, NamedOnce(v), w.total = v.total, v.inodeBits \subseteq w.inodeBits,
         \A b \in Blocks(v.total) : Records(w, b) \in {<<>>, Records(v, b)}
  PROVE  NamedOnce(w)
<1>1. \A b \in Blocks(v.total) : Roster(Records(w, b)) \subseteq Roster(Records(v, b))
  BY DEF Roster
<1>2. \A b \in Blocks(v.total) : OnceEach(Records(w, b))
  BY DEF NamedOnce, OnceEach
<1>3. ASSUME NEW b \in Blocks(v.total), NEW n \in Roster(Records(w, b))
      PROVE  InUse(w, n)
  <2>1. InUse(v, n)
    BY <1>1 DEF NamedOnce
  <2>2. QED
    BY <2>1 DEF InUse
<1>4. ASSUME NEW b \in Blocks(v.total), NEW c \in Blocks(v.total), b # c
      PROVE  Roster(Records(w, b)) \cap Roster(Records(w, c)) = {}
  <2>1. Roster(Records(v, b)) \cap Roster(Records(v, c)) = {}
    BY <1>4 DEF NamedOnce
  <2>2. QED
    BY <1>1, <2>1
<1>5. QED
  BY <1>2, <1>3, <1>4 DEF NamedOnce

LEMMA LeastMember ==
  ASSUME NEW S, S \subseteq Nat, S # {}
  PROVE  Min(S) \in S /\ \A n \in S : Min(S) <= n
<1>1. \E x \in S : \A y \in S : x <= y
  BY LeastNumber
<1>2. QED
  BY <1>1 DEF Min

(* A volume on which the block b, free before, has been taken.             *)
Took(v, w, b) ==
  /\ w.blockBits = v.blockBits \cup {b} /\ b \notin v.blockBits
  /\ w.data = v.data /\ w.inode = v.inode /\ w.inodeBits = v.inodeBits

LEMMA TakeFacts ==
  ASSUME NEW t \in Totals, NEW v \in Volumes(t), Solid(v),
         NEW b \in Bits(t), b \notin v.blockBits
  PROVE  /\ TakeBlock(v, b) \in Volumes(t) /\ Solid(TakeBlock(v, b))
         /\ Took(v, TakeBlock(v, b), b) /\ b \in DataArea(t)
<1> DEFINE w == TakeBlock(v, b)
           g == GroupOf(b)
<1>1. g \in Groups(t) /\ v.total = t
  BY BlocksOfGroups DEF Volumes
<1>2. /\ v.groups \in [Groups(t) -> [blocks : Nat, inodes : Nat, dirs : Nat]]
      /\ v.sb \in [blocks : Nat, inodes : Nat] /\ v.blockBits \subseteq Bits(t)
  BY DEF Volumes
<1> DEFINE gr == [v.groups EXCEPT ![g].blocks = OneLess(@)]
           sb == [v.sb EXCEPT !.blocks = OneLess(@)]
<1>2a. w = [v EXCEPT !.blockBits = v.blockBits \cup {b}, !.groups = gr, !.sb = sb]
  BY DEF TakeBlock
<1> HIDE DEF g, w
<1>2b. gr \in [Groups(t) -> [blocks : Nat, inodes : Nat, dirs : Nat]]
  BY <1>1, <1>2 DEF OneLess
<1>2c. sb \in [blocks : Nat, inodes : Nat]
  BY <1>2 DEF OneLess
<1>2d. /\ gr[g].blocks = OneLess(v.groups[g].blocks)
       /\ \A h \in Groups(t) : h # g => gr[h] = v.groups[h]
       /\ \A h \in Groups(t) : gr[h].inodes = v.groups[h].inodes
       /\ sb.blocks = OneLess(v.sb.blocks) /\ sb.inodes = v.sb.inodes
  BY <1>1, <1>2
<1> HIDE DEF gr, sb
<1>3. /\ w.blockBits = v.blockBits \cup {b} /\ w.data = v.data /\ w.inode = v.inode
      /\ w.inodeBits = v.inodeBits /\ w.total = t
      /\ w.groups = gr /\ w.sb = sb
  BY <1>1, <1>2a DEF Volumes
<1>4. w \in Volumes(t)
  BY <1>2, <1>2a, <1>2b, <1>2c DEF Volumes
<1>5. BlocksCounted(v)
  BY DEF Solid
<1>6. ASSUME NEW h \in Groups(t)
      PROVE  /\ Used(v, h) \in 0 .. BlocksPerGroup /\ Used(w, h) \in 0 .. BlocksPerGroup
             /\ Used(w, h) = Used(v, h) + IF h = g THEN 1 ELSE 0
  <2>1. v.blockBits \in SUBSET Bits(t)
    BY <1>2
  <2>2. QED
    BY <1>3, <2>1, OneMoreBlock DEF g, Used
<1>7. v.groups[g].blocks \in Nat /\ v.groups[g].blocks > 0
  <2>1. v.groups[g].blocks = BlocksPerGroup - Used(v, g)
    BY <1>1, <1>5 DEF BlocksCounted
  <2>2. Used(v, g) + 1 <= BlocksPerGroup
    BY <1>1, <1>6, Params
  <2>3. QED
    BY <1>1, <1>6, <2>1, <2>2, Params
<1>8. v.sb.blocks \in Nat /\ v.sb.blocks > 0
  <2> DEFINE f == [h \in Groups(t) |-> v.groups[h].blocks]
  <2>1. f \in [Groups(t) -> Nat] /\ f[g] = v.groups[g].blocks
    BY <1>1, <1>2
  <2>2. v.sb.blocks = Sum(t, f)
    BY <1>1, <1>5 DEF BlocksCounted
  <2> HIDE DEF f
  <2>3. f[g] <= Sum(t, f)
    BY <1>1, <2>1, SumBounds
  <2>4. QED
    BY <1>2, <1>7, <2>1, <2>2, <2>3
<1>9. BlocksCounted(w)
  <2>1. w.groups[g].blocks = v.groups[g].blocks + (-1)
    BY <1>2d, <1>3, <1>7 DEF OneLess
  <2>2. \A h \in Groups(t) : h # g => w.groups[h].blocks = v.groups[h].blocks
    BY <1>2d, <1>3
  <2>3. w.sb.blocks = v.sb.blocks + (-1)
    BY <1>2d, <1>3, <1>8 DEF OneLess
  <2>4. Used(w, g) = Used(v, g) - (-1)
    BY <1>1, <1>6, Params
  <2>5. \A h \in Groups(t) :
          /\ Used(v, h) \in Nat
          /\ h # g => Used(w, h) = Used(v, h)
    BY <1>6, Params
  <2>6. -1 \in Int
    OBVIOUS
  <2>7. QED
    BY <1>1, <1>4, <1>5, <2>1, <2>2, <2>3, <2>4, <2>5, <2>6, BlocksRecounted
<1>10. InodesCounted(w)
  <2>1. SameInodeCounts(v, w, t)
    BY <1>1, <1>2d, <1>3 DEF SameInodeCounts
  <2>2. QED
    BY <2>1, InodesSame DEF Solid
<1>11. NamedOnce(w)
  <2>1. NamedOnce(v)
    BY DEF Solid
  <2>2. \A x : Records(w, x) = Records(v, x)
    BY <1>3, SameContents
  <2>3. QED
    BY <1>1, <1>3, <2>1, <2>2, SameNames
<1>12. Kept(w)
  BY <1>1, <1>3 DEF Kept, Solid
<1>13. b \in DataArea(t)
  BY <1>1, DataFacts DEF Kept, Solid
<1>14. QED
  BY <1>3, <1>4, <1>9, <1>10, <1>11, <1>12, <1>13 DEF Took, Solid, w

(* alloc_block_internal.                                                   *)
LEMMA AllocFacts ==
  ASSUME NEW t \in Totals, NEW v \in Volumes(t), Solid(v)
  PROVE  LET a == AllocBlock(v)
         IN  /\ a.volume \in Volumes(t) /\ Solid(a.volume)
             /\ a.block = 0 => a.volume = v
             /\ a.block # 0 => Took(v, a.volume, a.block) /\ a.block \in DataArea(t)
<1>1. CASE ClearBlocks(v) = {}
  BY <1>1 DEF AllocBlock
<1>2. CASE ClearBlocks(v) # {}
  <2>1. v.total = t
    BY DEF Volumes
  <2>2. ClearBlocks(v) \subseteq Bits(t) /\ ClearBlocks(v) \cap v.blockBits = {}
    BY <2>1, BlocksOfGroups DEF ClearBlocks
  <2>3. ClearBlocks(v) \subseteq Nat
    BY <2>2, BlocksOfGroups
  <2>4. PICK b : b = Min(ClearBlocks(v)) /\ b \in ClearBlocks(v)
    BY <1>2, <2>3, LeastMember
  <2>5. AllocBlock(v) = [volume |-> TakeBlock(v, b), block |-> b]
    BY <1>2, <2>4 DEF AllocBlock
  <2>6. b \in Bits(t) /\ b \notin v.blockBits
    BY <2>2, <2>4
  <2>7. /\ TakeBlock(v, b) \in Volumes(t) /\ Solid(TakeBlock(v, b))
        /\ Took(v, TakeBlock(v, b), b) /\ b \in DataArea(t)
    BY <2>6, TakeFacts
  <2>8. b # 0
    BY <2>7, DataFacts
  <2>9. QED
    BY <2>5, <2>7, <2>8
<1>3. QED
  BY <1>1, <1>2

(* A block that was free is pointed to by nothing.                         *)
LEMMA TookApart ==
  ASSUME NEW t \in Totals, NEW v \in Volumes(t), NEW w \in Volumes(t), NEW ino \in Inos(t),
         Apart(v, ino), NEW b \in DataArea(t), Took(v, w, b)
  PROVE  Apart(w, ino) /\ Loose(w, ino, b)
<1>1. v.total = t /\ w.total = t
  BY DEF Volumes
<1>2. \A s : At(w, ino, s) = At(v, ino, s)
  BY SameContents DEF Took
<1>3. Apart(w, ino)
  BY <1>1, <1>2, ApartFewer DEF Apart, Took
<1>4. b # 0
  BY DataFacts
<1>5. Loose(w, ino, b)
  BY <1>1, <1>2, <1>4 DEF Loose, Apart, Took
<1>6. QED
  BY <1>3, <1>5

(* A volume on which the block b, in use before, has been given back.      *)
Gave(v, w, b) ==
  /\ w.blockBits = v.blockBits \ {b}
  /\ w.data = [v.data EXCEPT ![b] = Nothing]
  /\ w.inode = v.inode /\ w.inodeBits = v.inodeBits

LEMMA NothingHeld == PtrsIn(Nothing) = NoPtrs /\ RecordsIn(Nothing) = <<>>
  BY DEF PtrsIn, RecordsIn, Nothing

LEMMA CounterFits ==
  ASSUME NEW u \in 1 .. BlocksPerGroup
  PROVE  (BlocksPerGroup - u + 1) % Word16 = BlocksPerGroup - u + 1
<1>1. BlocksPerGroup \in Nat /\ BlocksPerGroup < 65536
  BY Params DEF Word16
<1>2. PICK n \in Nat : n = BlocksPerGroup - u + 1 /\ n < 65536
  BY <1>1
<1>3. n % 65536 = n
  BY ONLY <1>2
<1>4. QED
  BY <1>2, <1>3 DEF Word16

(* free_block.                                                             *)
LEMMA FreeFacts ==
  ASSUME NEW t \in Totals, NEW v \in Volumes(t), Solid(v), NEW b \in DataArea(t),
         b \in v.blockBits
  PROVE  /\ FreeBlock(v, b) \in Volumes(t) /\ Solid(FreeBlock(v, b))
         /\ Gave(v, FreeBlock(v, b), b)
<1> DEFINE w == FreeBlock(v, b)
           g == GroupOf(b)
           gr == [v.groups EXCEPT ![g].blocks = (@ + 1) % Word16]
           sb == [v.sb EXCEPT !.blocks = @ + 1]
           data == [v.data EXCEPT ![b] = Nothing]
<1>1. g \in Groups(t) /\ v.total = t /\ b \in Bits(t) /\ b \in Blocks(t) /\ b # 0
  BY BlocksOfGroups, DataFacts DEF Volumes
<1>2. /\ v.groups \in [Groups(t) -> [blocks : Nat, inodes : Nat, dirs : Nat]]
      /\ v.sb \in [blocks : Nat, inodes : Nat] /\ v.blockBits \subseteq Bits(t)
      /\ v.data \in [Blocks(t) -> Contents(t)]
  BY DEF Volumes
<1>3. Freeable(v, b)
  BY <1>1, Params DEF Freeable, Blocks
<1>4. w = [v EXCEPT !.blockBits = v.blockBits \ {b}, !.data = data, !.groups = gr, !.sb = sb]
  BY <1>3 DEF FreeBlock
<1> HIDE DEF g, w
<1>5. (\A n \in Nat : (n + 1) % Word16 \in Nat)
  BY DEF Word16
<1>6. gr \in [Groups(t) -> [blocks : Nat, inodes : Nat, dirs : Nat]]
  BY <1>1, <1>2, <1>5
<1>7. sb \in [blocks : Nat, inodes : Nat]
  BY <1>2
<1>8. /\ gr[g].blocks = (v.groups[g].blocks + 1) % Word16
      /\ \A h \in Groups(t) : h # g => gr[h] = v.groups[h]
      /\ \A h \in Groups(t) : gr[h].inodes = v.groups[h].inodes
      /\ sb.blocks = v.sb.blocks + 1 /\ sb.inodes = v.sb.inodes
  BY <1>1, <1>2
<1>9. data \in [Blocks(t) -> Contents(t)]
  BY <1>1, <1>2, ContentMade
<1> HIDE DEF gr, sb
<1>10. Gave(v, w, b) /\ w.total = t /\ w.groups = gr /\ w.sb = sb
  BY <1>1, <1>4 DEF Volumes, Gave
<1> HIDE DEF data
<1>11. w \in Volumes(t)
  BY <1>2, <1>4, <1>6, <1>7, <1>9 DEF Volumes
<1>12. w.blockBits \in SUBSET Bits(t) /\ b \notin w.blockBits /\ v.blockBits = w.blockBits \cup {b}
  BY <1>2, <1>10 DEF Gave
<1>13. ASSUME NEW h \in Groups(t)
       PROVE  /\ Used(v, h) \in 0 .. BlocksPerGroup /\ Used(w, h) \in 0 .. BlocksPerGroup
              /\ Used(v, h) = Used(w, h) + IF h = g THEN 1 ELSE 0
  BY <1>1, <1>12, OneMoreBlock DEF g, Used
<1>14. BlocksCounted(v)
  BY DEF Solid
<1>15. gr[g].blocks = v.groups[g].blocks + 1
  <2>1. v.groups[g].blocks = BlocksPerGroup - Used(v, g)
    BY <1>1, <1>14 DEF BlocksCounted
  <2>2. Used(v, g) \in 1 .. BlocksPerGroup
    BY <1>1, <1>13, Params
  <2>3. QED
    BY <1>8, <2>1, <2>2, CounterFits
<1>16. BlocksCounted(w)
  <2>1. w.groups[g].blocks = v.groups[g].blocks + 1
    BY <1>10, <1>15
  <2>2. \A h \in Groups(t) : h # g => w.groups[h].blocks = v.groups[h].blocks
    BY <1>8, <1>10
  <2>3. w.sb.blocks = v.sb.blocks + 1
    BY <1>8, <1>10
  <2>4. Used(w, g) = Used(v, g) - 1
    BY <1>1, <1>13, Params
  <2>5. \A h \in Groups(t) : Used(v, h) \in Nat /\ (h # g => Used(w, h) = Used(v, h))
    BY <1>13, Params
  <2>6. QED
    BY <1>1, <1>11, <1>14, <2>1, <2>2, <2>3, <2>4, <2>5, BlocksRecounted
<1>17. InodesCounted(w)
  <2>1. SameInodeCounts(v, w, t)
    BY <1>1, <1>8, <1>10 DEF SameInodeCounts, Gave
  <2>2. QED
    BY <2>1, InodesSame DEF Solid
<1>18. NamedOnce(w)
  <2>1. NamedOnce(v)
    BY DEF Solid
  <2>2. \A x \in Blocks(t) : Records(w, x) \in {<<>>, Records(v, x)}
    BY <1>10, DataChanged, NothingHeld DEF Gave
  <2>3. QED
    BY <1>1, <1>10, <2>1, <2>2, SameNames DEF Gave
<1>19. Kept(w)
  <2>1. b \notin Metadata(t) \cup BeyondEnd(t)
    BY <1>1, MetadataFacts DEF DataArea
  <2>2. \A x \in Blocks(t) : w.data[x] = IF x = b THEN Nothing ELSE v.data[x]
    BY <1>2, <1>10 DEF Gave
  <2>3. QED
    BY <1>1, <1>10, <1>12, <2>1, <2>2 DEF Kept, Solid, Gave
<1>20. QED
  BY <1>10, <1>11, <1>16, <1>17, <1>18, <1>19 DEF Solid, w

LEMMA GaveApart ==
  ASSUME NEW t \in Totals, NEW v \in Volumes(t), NEW w \in Volumes(t), NEW ino \in Inos(t),
         Apart(v, ino), NEW b \in DataArea(t), Loose(v, ino, b), Gave(v, w, b)
  PROVE  Apart(w, ino) /\ \A c : Loose(v, ino, c) /\ c # 0 => Loose(w, ino, c)
<1>1. v.total = t /\ w.total = t
  BY DEF Volumes
<1>2. ASSUME NEW s \in Slots(t) PROVE At(w, ino, s) \in {0, At(v, ino, s)}
  <2>1. CASE \E n \in Inodes(t), i \in 0 .. Double : s = <<0, n, i>>
    <3>1. PICK n \in Inodes(t), i \in 0 .. Double : s = <<0, n, i>>
      BY <2>1
    <3>2. At(w, ino, s) = ino[n].block[i] /\ At(v, ino, s) = ino[n].block[i]
      BY <3>1, SlotsAt
    <3>3. QED
      BY <3>2
  <2>2. CASE \E x \in Blocks(t), i \in 0 .. (PtrsPerBlock - 1) : s = <<1, x, i>>
    <3>1. PICK x \in Blocks(t), i \in 0 .. (PtrsPerBlock - 1) : s = <<1, x, i>>
      BY <2>2
    <3>2. Pointers(w, x) = IF x = b THEN NoPtrs ELSE Pointers(v, x)
      BY DataChanged, NothingHeld DEF Gave
    <3>3. NoPtrs[i] = 0
      BY DEF NoPtrs
    <3>4. At(w, ino, s) = Pointers(w, x)[i] /\ At(v, ino, s) = Pointers(v, x)[i]
      BY <3>1, SlotsAt
    <3>5. QED
      BY <3>2, <3>3, <3>4
  <2>3. QED
    BY <2>1, <2>2, SlotKinds
<1>3. Apart(w, ino)
  <2>1. ASSUME NEW s \in Slots(t), At(w, ino, s) # 0
        PROVE  At(w, ino, s) = At(v, ino, s) /\ At(v, ino, s) \in w.blockBits
    BY <1>1, <1>2, <2>1 DEF Apart, Loose, Gave
  <2>2. QED
    BY <1>1, <2>1, ApartFewer
<1>4. QED
  BY <1>1, <1>2, <1>3 DEF Loose

-----------------------------------------------------------------------------
(***************************************************************************)
(* Inodes are taken and given back.                                        *)
(***************************************************************************)
LEMMA FirstPair ==
  ASSUME NEW S, S \subseteq Nat \X Nat, S # {}
  PROVE  /\ First(S) \in S
         /\ \A q \in S : First(S) = q \/ IsLower(First(S), q)
<1> DEFINE G == {p[1] : p \in S}
<1>1. G \subseteq Nat /\ G # {}
  OBVIOUS
<1>2. PICK g \in G : \A h \in G : g <= h
  <2> HIDE DEF G
  <2>1. QED
    BY <1>1, LeastNumber
<1> DEFINE K == {p[2] : p \in {q \in S : q[1] = g}}
<1>3. K \subseteq Nat /\ K # {}
  OBVIOUS
<1>4. PICK k \in K : \A l \in K : k <= l
  <2> HIDE DEF K, G
  <2>1. QED
    BY <1>3, LeastNumber
<1>5. <<g, k>> \in S
  <2>1. PICK p \in S : p[1] = g /\ p[2] = k
    OBVIOUS
  <2>2. PICK x \in Nat, y \in Nat : p = <<x, y>>
    OBVIOUS
  <2>3. QED
    BY <2>1, <2>2
<1>6. ASSUME NEW q \in S PROVE <<g, k>> = q \/ IsLower(<<g, k>>, q)
  <2>1. PICK x \in Nat, y \in Nat : q = <<x, y>>
    OBVIOUS
  <2>2. x \in G /\ (x = g => y \in K)
    BY <2>1
  <2>3. g \in Nat /\ k \in Nat
    BY <1>1, <1>3
  <2>4. g <= x /\ (x = g => k <= y)
    BY <1>2, <1>4, <2>2
  <2>5. QED
    BY <2>1, <2>3, <2>4 DEF IsLower
<1>7. QED
  BY <1>5, <1>6 DEF First

LEMMA RowSize ==
  ASSUME NEW g
  PROVE  /\ IsFiniteSet({g} \X (0 .. (InodesPerGroup - 1)))
         /\ Cardinality({g} \X (0 .. (InodesPerGroup - 1))) = InodesPerGroup
<1> DEFINE row == {g} \X (0 .. (InodesPerGroup - 1))
<1>1. /\ IsFiniteSet(0 .. (InodesPerGroup - 1))
      /\ Cardinality(0 .. (InodesPerGroup - 1)) = InodesPerGroup
  <2>1. 0 \in Int /\ InodesPerGroup - 1 \in Int /\ ~(0 > InodesPerGroup - 1)
        /\ InodesPerGroup - 1 - 0 + 1 = InodesPerGroup
    BY Params
  <2>2. QED
    BY <2>1, FS_Interval
<1>2. IsFiniteSet({g}) /\ Cardinality({g}) = 1
  BY FS_Singleton
<1>3. IsFiniteSet(row) /\ Cardinality(row) = 1 * InodesPerGroup
  BY ZenonT(60), <1>1, <1>2, FS_Product
<1>4. QED
  BY <1>3, Params

LEMMA OneMoreInode ==
  ASSUME NEW t \in Totals, NEW v, NEW w, v.inodeBits \subseteq BitsOfInodes(t),
         NEW bit \in BitsOfInodes(t), bit \notin v.inodeBits,
         w.inodeBits = v.inodeBits \cup {bit}, NEW g \in Groups(t)
  PROVE  /\ Taken(v, g) \in 0 .. InodesPerGroup /\ Taken(w, g) \in 0 .. InodesPerGroup
         /\ Taken(w, g) = Taken(v, g) + IF g = bit[1] THEN 1 ELSE 0
<1> DEFINE row == {g} \X (0 .. (InodesPerGroup - 1))
<1>1. IsFiniteSet(row) /\ Cardinality(row) = InodesPerGroup
  BY RowSize
<1>2. ASSUME NEW S \in SUBSET BitsOfInodes(t)
      PROVE  /\ IsFiniteSet({x \in S : x[1] = g})
             /\ Cardinality({x \in S : x[1] = g}) \in 0 .. InodesPerGroup
  <2> DEFINE X == {x \in S : x[1] = g}
  <2>1. X \subseteq row
    BY DEF BitsOfInodes
  <2> HIDE DEF X, row
  <2>2. IsFiniteSet(X) /\ Cardinality(X) <= InodesPerGroup
    BY <1>1, <2>1, FS_Subset
  <2>3. Cardinality(X) \in Nat
    BY <2>2, FS_CardinalityType
  <2>4. Cardinality(X) \in 0 .. InodesPerGroup
    BY <2>2, <2>3, Params
  <2>5. QED
    BY <2>2, <2>4 DEF X
<1>3. /\ IsFiniteSet(BitsTaken(v, g)) /\ Taken(v, g) \in 0 .. InodesPerGroup
      /\ Taken(w, g) \in 0 .. InodesPerGroup
  BY <1>2 DEF BitsTaken, Taken
<1>4. CASE bit[1] = g
  <2>1. BitsTaken(w, g) = BitsTaken(v, g) \cup {bit} /\ bit \notin BitsTaken(v, g)
    BY <1>4 DEF BitsTaken
  <2>2. Cardinality(BitsTaken(v, g) \cup {bit}) = Cardinality(BitsTaken(v, g)) + 1
    BY <1>3, <2>1, FS_AddElement
  <2>3. QED
    BY <1>3, <1>4, <2>1, <2>2 DEF Taken
<1>5. CASE bit[1] # g
  <2>1. BitsTaken(w, g) = BitsTaken(v, g)
    BY <1>5 DEF BitsTaken
  <2>2. Taken(w, g) = Taken(v, g)
    BY <2>1 DEF Taken
  <2>3. QED
    BY <1>3, <1>5, <2>2, Params
<1>6. QED
  BY <1>4, <1>5

LEMMA InodesRecounted ==
  ASSUME NEW t \in Totals, NEW v \in Volumes(t), NEW w \in Volumes(t), InodesCounted(v),
         NEW g \in Groups(t), NEW d \in Int,
         w.groups[g].inodes = v.groups[g].inodes + d,
         \A h \in Groups(t) : h # g => w.groups[h].inodes = v.groups[h].inodes,
         w.sb.inodes = v.sb.inodes + d,
         Taken(w, g) = Taken(v, g) - d,
         \A h \in Groups(t) : Taken(v, h) \in Nat,
         \A h \in Groups(t) : h # g => Taken(w, h) = Taken(v, h)
  PROVE  InodesCounted(w)
<1> DEFINE vf == [h \in Groups(t) |-> v.groups[h].inodes]
           wf == [h \in Groups(t) |-> w.groups[h].inodes]
<1>1. v.total = t /\ w.total = t /\ vf \in [Groups(t) -> Nat] /\ wf \in [Groups(t) -> Nat]
  BY DEF Volumes
<1>2. /\ \A h \in Groups(t) : v.groups[h].inodes = InodesPerGroup - Taken(v, h)
      /\ v.sb.inodes = Sum(t, vf)
  BY <1>1 DEF InodesCounted
<1>3. Sum(t, wf) = Sum(t, vf) + d
  <2>1. wf[g] = vf[g] + d /\ \A h \in Groups(t) : h # g => wf[h] = vf[h]
    OBVIOUS
  <2> HIDE DEF vf, wf
  <2>2. QED
    BY <1>1, <2>1, SumMoves
<1>4. w.sb.inodes = Sum(t, wf)
  BY <1>2, <1>3
<1>5. ASSUME NEW h \in Groups(t)
      PROVE  w.groups[h].inodes = InodesPerGroup - Taken(w, h)
  <2>1. CASE h = g
    <3>1. v.groups[h].inodes = InodesPerGroup - Taken(v, h)
      BY <1>2
    <3>2. QED
      BY <2>1, <3>1, Params
  <2>2. CASE h # g
    BY <1>2, <2>2
  <2>3. QED
    BY <2>1, <2>2
<1>6. QED
  BY <1>1, <1>4, <1>5 DEF InodesCounted

(* A free inode that the counter of its group counts is one of the group.  *)
LEMMA FreeInodeFound ==
  ASSUME NEW t \in Totals, NEW v \in Volumes(t), Solid(v), ClearInodes(v) # {}
  PROVE  /\ First(ClearInodes(v)) \in BitsOfInodes(t)
         /\ First(ClearInodes(v)) \notin v.inodeBits
         /\ InodeAt(First(ClearInodes(v))) > ReservedInodes
<1> DEFINE C == ClearInodes(v)
           bit == First(C)
<1>1. v.total = t /\ v.inodeBits \subseteq BitsOfInodes(t) /\ Groups(t) \subseteq Nat
  <2>1. Groups(t) \subseteq Nat
    BY Layout DEF GroupsLaidOut, Groups
  <2>2. QED
    BY <2>1 DEF Volumes
<1>2. /\ C \subseteq Groups(t) \X (0 .. (BlocksPerGroup - 1)) /\ C \subseteq Nat \X Nat
      /\ C # {}
  BY <1>1, Params DEF ClearInodes
<1>3. bit \in C /\ \A q \in C : bit = q \/ IsLower(bit, q)
  <2> HIDE DEF C
  <2>1. QED
    BY <1>2, FirstPair
<1>4. PICK g \in Groups(t), k \in 0 .. (BlocksPerGroup - 1) : bit = <<g, k>>
  <2> HIDE DEF C
  <2>1. QED
    BY <1>2, <1>3
<1>5. bit \notin v.inodeBits /\ InodeAt(bit) > ReservedInodes /\ v.groups[g].inodes > 0
  <2> HIDE DEF bit
  <2>1. QED
    BY <1>1, <1>3, <1>4 DEF ClearInodes
<1> HIDE DEF bit, C
<1>6. PICK i \in 0 .. (InodesPerGroup - 1) : <<g, i>> \notin v.inodeBits
  <2>1. SUFFICES ASSUME \A i \in 0 .. (InodesPerGroup - 1) : <<g, i>> \in v.inodeBits
                 PROVE  FALSE
    OBVIOUS
  <2>2. BitsTaken(v, g) = {g} \X (0 .. (InodesPerGroup - 1))
    <3>1. BitsTaken(v, g) \subseteq {g} \X (0 .. (InodesPerGroup - 1))
      BY <1>1 DEF BitsTaken, BitsOfInodes
    <3>2. {g} \X (0 .. (InodesPerGroup - 1)) \subseteq BitsTaken(v, g)
      BY <2>1 DEF BitsTaken
    <3>3. QED
      BY <3>1, <3>2
  <2>3. Cardinality({g} \X (0 .. (InodesPerGroup - 1))) = InodesPerGroup
    BY RowSize
  <2>4. v.groups[g].inodes = InodesPerGroup - Taken(v, g)
    BY <1>1 DEF Solid, InodesCounted
  <2>5. QED
    BY <1>5, <2>2, <2>3, <2>4, Params DEF Taken
<1>7. <<g, i>> \in BitsOfInodes(t)
  BY DEF BitsOfInodes
<1>8. InodeAt(<<g, i>>) > ReservedInodes
  <2>1. /\ InodeAt(<<g, i>>) \in Inodes(t) /\ InodeBit(InodeAt(<<g, i>>)) = <<g, i>>
        /\ InodeAt(<<g, i>>) \in Nat
    BY <1>7, InodeNumbers
  <2>2. ~(InodeAt(<<g, i>>) <= ReservedInodes)
    <3>1. SUFFICES ASSUME InodeAt(<<g, i>>) <= ReservedInodes PROVE FALSE
      OBVIOUS
    <3>2. PICK j \in 0 .. (ReservedInodes - 1) : <<g, i>> = <<0, j>>
      BY <2>1, <3>1, ReservedBits
    <3>3. <<0, j>> \in v.inodeBits
      BY DEF Solid, Kept
    <3>4. QED
      BY <1>6, <3>2, <3>3
  <2>3. QED
    BY <2>1, <2>2, Params
<1>9. k < InodesPerGroup
  <2>1. CASE i < BlocksPerGroup
    <3>1. <<g, i>> \in C
      <4>1. i \in 0 .. (BlocksPerGroup - 1)
        BY <2>1, Params
      <4>2. QED
        BY <1>1, <1>5, <1>6, <1>8, <4>1 DEF ClearInodes, C
    <3>2. <<g, k>> = <<g, i>> \/ IsLower(<<g, k>>, <<g, i>>)
      BY <1>3, <1>4, <3>1
    <3>3. k <= i
      BY <1>1, <3>2, Params DEF IsLower
    <3>4. QED
      BY <3>3, Params
  <2>2. CASE ~(i < BlocksPerGroup)
    BY <2>2, Params
  <2>3. QED
    BY <2>1, <2>2
<1>10. bit \in BitsOfInodes(t)
  <2>1. k \in 0 .. (InodesPerGroup - 1)
    BY <1>9, Params
  <2>2. QED
    BY <1>4, <2>1 DEF BitsOfInodes
<1>11. QED
  BY <1>5, <1>10 DEF bit, C

(* alloc_inode: the bit and the counters change, and nothing else.         *)
InodeTaken(v, w, n) ==
  /\ InUse(w, n) /\ Unnamed(w, n)
  /\ w.data = v.data /\ w.inode = v.inode /\ w.blockBits = v.blockBits

LEMMA AllocInodeFacts ==
  ASSUME NEW t \in Totals, NEW v \in Volumes(t), Solid(v), NEW isDir \in BOOLEAN
  PROVE  LET a == AllocInode(v, isDir)
         IN  /\ a.volume \in Volumes(t) /\ Solid(a.volume)
             /\ a.inode = 0 => a.volume = v
             /\ a.inode # 0 => a.inode \in Inodes(t) /\ InodeTaken(v, a.volume, a.inode)
<1>1. CASE ClearInodes(v) = {}
  BY <1>1 DEF AllocInode
<1>2. CASE ClearInodes(v) # {}
  <2> DEFINE a == AllocInode(v, isDir)
             w == a.volume
             bit == First(ClearInodes(v))
             g == bit[1]
             n == InodeAt(bit)
             old == v.groups[g]
             inodes == OneLess(old.inodes)
             dirs == IF isDir THEN old.dirs + 1 ELSE old.dirs
             x == [old EXCEPT !.inodes = inodes, !.dirs = dirs]
             gr == [v.groups EXCEPT ![g] = x]
             sb == [v.sb EXCEPT !.inodes = OneLess(@)]
  <2>1. bit \in BitsOfInodes(t) /\ bit \notin v.inodeBits /\ n > ReservedInodes
    BY <1>2, FreeInodeFound
  <2>2. g \in Groups(t) /\ v.total = t
    BY <2>1 DEF BitsOfInodes, Volumes
  <2>3. a = [volume |-> w, inode |-> n]
        /\ w = [v EXCEPT !.inodeBits = v.inodeBits \cup {bit}, !.groups = gr, !.sb = sb]
    <3>1. a = [volume |-> [v EXCEPT !.inodeBits = v.inodeBits \cup {bit}, !.groups = gr,
                                    !.sb = sb],
               inode |-> n]
      BY <1>2 DEF AllocInode, OneInodeLess
    <3>2. QED
      BY <3>1
  <2> HIDE DEF a, w, n, g, bit
  <2>4. n \in Inodes(t) /\ InodeBit(n) = bit /\ n # 0
    BY <2>1, InodeNumbers DEF n
  <2>5. /\ v.groups \in [Groups(t) -> [blocks : Nat, inodes : Nat, dirs : Nat]]
        /\ v.sb \in [blocks : Nat, inodes : Nat] /\ v.inodeBits \subseteq BitsOfInodes(t)
    BY DEF Volumes
  <2>6. old \in [blocks : Nat, inodes : Nat, dirs : Nat]
    BY <2>2, <2>5
  <2>6b. inodes \in Nat /\ dirs \in Nat
    BY <2>6 DEF OneLess
  <2> HIDE DEF inodes, dirs
  <2>6a. /\ x \in [blocks : Nat, inodes : Nat, dirs : Nat]
         /\ x.inodes = inodes /\ x.blocks = v.groups[g].blocks
    BY <2>6, <2>6b
  <2> HIDE DEF x
  <2>7. /\ gr \in [Groups(t) -> [blocks : Nat, inodes : Nat, dirs : Nat]]
        /\ gr[g].inodes = inodes
        /\ \A h \in Groups(t) : h # g => gr[h] = v.groups[h]
        /\ \A h \in Groups(t) : gr[h].blocks = v.groups[h].blocks
    BY <2>2, <2>5, <2>6a
  <2>8. /\ sb \in [blocks : Nat, inodes : Nat]
        /\ sb.inodes = OneLess(v.sb.inodes) /\ sb.blocks = v.sb.blocks
    BY <2>5 DEF OneLess
  <2> HIDE DEF gr, sb
  <2>9. /\ w.inodeBits = v.inodeBits \cup {bit} /\ w.groups = gr /\ w.sb = sb /\ w.total = t
        /\ w.data = v.data /\ w.inode = v.inode /\ w.blockBits = v.blockBits
    BY <2>2, <2>3 DEF Volumes
  <2>10. w \in Volumes(t)
    BY <2>1, <2>3, <2>5, <2>7, <2>8 DEF Volumes
  <2>11. InodesCounted(v) /\ BlocksCounted(v) /\ NamedOnce(v) /\ Kept(v)
    BY DEF Solid
  <2>12. ASSUME NEW h \in Groups(t)
         PROVE  /\ Taken(v, h) \in 0 .. InodesPerGroup /\ Taken(w, h) \in 0 .. InodesPerGroup
                /\ Taken(w, h) = Taken(v, h) + IF h = g THEN 1 ELSE 0
    BY <2>1, <2>5, <2>9, OneMoreInode DEF g
  <2>13. v.groups[g].inodes \in Nat /\ v.groups[g].inodes > 0
    <3>1. v.groups[g].inodes = InodesPerGroup - Taken(v, g)
      BY <2>2, <2>11 DEF InodesCounted
    <3>2. Taken(v, g) + 1 <= InodesPerGroup
      BY <2>2, <2>12, Params
    <3>3. QED
      BY <2>2, <2>12, <3>1, <3>2, Params
  <2>14. v.sb.inodes \in Nat /\ v.sb.inodes > 0
    <3> DEFINE f == [h \in Groups(t) |-> v.groups[h].inodes]
    <3>1. f \in [Groups(t) -> Nat] /\ f[g] = v.groups[g].inodes
      BY <2>2, <2>5
    <3>2. v.sb.inodes = Sum(t, f)
      BY <2>2, <2>11 DEF InodesCounted
    <3> HIDE DEF f
    <3>3. f[g] <= Sum(t, f)
      BY <2>2, <3>1, SumBounds
    <3>4. QED
      BY <2>5, <2>13, <3>1, <3>2, <3>3
  <2>15. InodesCounted(w)
    <3>1. w.groups[g].inodes = v.groups[g].inodes + (-1)
      BY <2>7, <2>9, <2>13 DEF OneLess, inodes
    <3>2. \A h \in Groups(t) : h # g => w.groups[h].inodes = v.groups[h].inodes
      BY <2>7, <2>9
    <3>3. w.sb.inodes = v.sb.inodes + (-1)
      BY <2>8, <2>9, <2>14 DEF OneLess
    <3>4. Taken(w, g) = Taken(v, g) - (-1)
      BY <2>2, <2>12, Params
    <3>5. \A h \in Groups(t) : Taken(v, h) \in Nat /\ (h # g => Taken(w, h) = Taken(v, h))
      BY <2>12, Params
    <3>6. -1 \in Int
      OBVIOUS
    <3>7. QED
      BY <2>2, <2>10, <2>11, <3>1, <3>2, <3>3, <3>4, <3>5, <3>6, InodesRecounted
  <2>16. BlocksCounted(w)
    <3>1. \A h \in Groups(t) : w.groups[h].blocks = v.groups[h].blocks
      BY <2>7, <2>9
    <3>2. w.sb.blocks = v.sb.blocks
      BY <2>8, <2>9
    <3>3. SameBlockCounts(v, w, t)
      BY <2>2, <2>9, <3>1, <3>2 DEF SameBlockCounts
    <3>4. QED
      BY <2>2, <2>11, <3>3, BlocksSame
  <2>17. NamedOnce(w)
    <3>1. \A y : Records(w, y) = Records(v, y)
      BY <2>9, SameContents
    <3>2. QED
      BY <2>2, <2>9, <2>11, <3>1, SameNames
  <2>18. Kept(w)
    BY <2>2, <2>9, <2>11 DEF Kept
  <2>19. Unnamed(w, n)
    <3>1. \A y : Records(w, y) = Records(v, y)
      BY <2>9, SameContents
    <3>2. \A y \in Blocks(t) : n \notin Roster(Records(v, y))
      BY <2>1, <2>2, <2>4, <2>11 DEF NamedOnce, InUse
    <3>3. QED
      BY <2>9, <3>1, <3>2 DEF Unnamed
  <2>20. InUse(w, n)
    BY <2>1, <2>4, <2>9 DEF InUse, n
  <2>21. Solid(w)
    BY <2>15, <2>16, <2>17, <2>18 DEF Solid
  <2>22. a.inode = n /\ a.volume = w
    BY <2>3
  <2> HIDE DEF InodeTaken
  <2>23. InodeTaken(v, w, n)
    BY <2>9, <2>19, <2>20 DEF InodeTaken
  <2>24. QED
    BY <2>4, <2>10, <2>21, <2>22, <2>23 DEF a
<1>3. QED
  BY <1>1, <1>2

LEMMA RosterNumbers ==
  ASSUME NEW t, NEW rs \in Seq(RecordsOf(t))
  PROVE  Roster(rs) \subseteq Inodes(t)
<1>1. ASSUME NEW k \in DOMAIN rs, IsNamed(rs[k]) PROVE rs[k].inode \in Inodes(t)
  <2>1. rs[k] \in RecordsOf(t)
    BY ElementOfSeq, LenProperties
  <2>2. QED
    BY <1>1, <2>1 DEF RecordsOf, IsNamed
<1>2. QED
  BY <1>1 DEF Roster

LEMMA EmptyInode ==
  ASSUME NEW t, NEW type \in {"none", "file", "dir"}
  PROVE  /\ NewInode(type) \in InodesOf(t)
         /\ \A i \in 0 .. Double : NewInode(type).block[i] = 0
  BY DEF NewInode, InodesOf, Pointees

(* free_inode.                                                             *)
LEMMA FreeInodeFacts ==
  ASSUME NEW t \in Totals, NEW v \in Volumes(t), Solid(v), NEW n \in Inodes(t),
         InUse(v, n), Unnamed(v, n), NEW isDir \in BOOLEAN
  PROVE  LET w == FreeInode(v, n, isDir)
         IN  /\ w \in Volumes(t) /\ Solid(w)
             /\ w.inode = [v.inode EXCEPT ![n] = NewInode("none")]
             /\ w.data = v.data /\ w.blockBits = v.blockBits
<1> DEFINE w == FreeInode(v, n, isDir)
           bit == InodeBit(n)
           g == bit[1]
           old == v.groups[g]
           inodes == old.inodes + 1
           dirs == IF isDir THEN OneLess(old.dirs) ELSE old.dirs
           x == [old EXCEPT !.inodes = inodes, !.dirs = dirs]
           gr == [v.groups EXCEPT ![g] = x]
           sb == [v.sb EXCEPT !.inodes = @ + 1]
           ino == [v.inode EXCEPT ![n] = NewInode("none")]
<1>1. bit \in BitsOfInodes(t) /\ bit \in v.inodeBits /\ n \in Nat /\ n > ReservedInodes
  BY InodeNumbers DEF InUse
<1>2. g \in Groups(t) /\ v.total = t
  BY <1>1 DEF BitsOfInodes, Volumes
<1>3. w = [v EXCEPT !.inodeBits = v.inodeBits \ {bit}, !.inode = ino, !.groups = gr, !.sb = sb]
  <2>1. ~(n <= ReservedInodes)
    BY <1>1, Params
  <2>2. QED
    BY <1>2, <2>1 DEF FreeInode, OneInodeMore
<1> HIDE DEF w, g, bit
<1>4. /\ v.groups \in [Groups(t) -> [blocks : Nat, inodes : Nat, dirs : Nat]]
      /\ v.sb \in [blocks : Nat, inodes : Nat] /\ v.inodeBits \subseteq BitsOfInodes(t)
      /\ v.inode \in [Inodes(t) -> InodesOf(t)]
  BY DEF Volumes
<1>5. old \in [blocks : Nat, inodes : Nat, dirs : Nat]
  BY <1>2, <1>4
<1>6. inodes \in Nat /\ dirs \in Nat
  BY <1>5 DEF OneLess
<1> HIDE DEF dirs
<1>7. /\ x \in [blocks : Nat, inodes : Nat, dirs : Nat]
      /\ x.inodes = inodes /\ x.blocks = v.groups[g].blocks
  BY <1>5, <1>6
<1> HIDE DEF x
<1>8. /\ gr \in [Groups(t) -> [blocks : Nat, inodes : Nat, dirs : Nat]]
      /\ gr[g].inodes = v.groups[g].inodes + 1
      /\ \A h \in Groups(t) : h # g => gr[h] = v.groups[h]
      /\ \A h \in Groups(t) : gr[h].blocks = v.groups[h].blocks
  BY <1>2, <1>4, <1>7
<1>9. /\ sb \in [blocks : Nat, inodes : Nat]
      /\ sb.inodes = v.sb.inodes + 1 /\ sb.blocks = v.sb.blocks
  BY <1>4
<1>10. ino \in [Inodes(t) -> InodesOf(t)]
  BY <1>4, EmptyInode
<1> HIDE DEF gr, sb
<1>11. /\ w.inodeBits = v.inodeBits \ {bit} /\ w.groups = gr /\ w.sb = sb /\ w.total = t
       /\ w.inode = ino /\ w.data = v.data /\ w.blockBits = v.blockBits
  BY <1>2, <1>3 DEF Volumes
<1> HIDE DEF ino
<1>12. w \in Volumes(t)
  BY <1>3, <1>4, <1>8, <1>9, <1>10 DEF Volumes
<1>13. InodesCounted(v) /\ BlocksCounted(v) /\ NamedOnce(v) /\ Kept(v)
  BY DEF Solid
<1>14. ASSUME NEW h \in Groups(t)
       PROVE  /\ Taken(v, h) \in 0 .. InodesPerGroup /\ Taken(w, h) \in 0 .. InodesPerGroup
              /\ Taken(v, h) = Taken(w, h) + IF h = g THEN 1 ELSE 0
  <2>1. w.inodeBits \subseteq BitsOfInodes(t) /\ bit \notin w.inodeBits
        /\ v.inodeBits = w.inodeBits \cup {bit}
    BY <1>1, <1>4, <1>11
  <2>2. QED
    BY <1>1, <2>1, OneMoreInode DEF g
<1>15. InodesCounted(w)
  <2>1. w.groups[g].inodes = v.groups[g].inodes + 1
    BY <1>8, <1>11
  <2>2. \A h \in Groups(t) : h # g => w.groups[h].inodes = v.groups[h].inodes
    BY <1>8, <1>11
  <2>3. w.sb.inodes = v.sb.inodes + 1
    BY <1>9, <1>11
  <2>4. Taken(w, g) = Taken(v, g) - 1
    BY <1>2, <1>14, Params
  <2>5. \A h \in Groups(t) : Taken(v, h) \in Nat /\ (h # g => Taken(w, h) = Taken(v, h))
    BY <1>14, Params
  <2>6. QED
    BY <1>2, <1>12, <1>13, <2>1, <2>2, <2>3, <2>4, <2>5, InodesRecounted
<1>16. BlocksCounted(w)
  <2>1. SameBlockCounts(v, w, t)
    BY <1>2, <1>8, <1>9, <1>11 DEF SameBlockCounts
  <2>2. QED
    BY <1>13, <2>1, BlocksSame
<1>17. NamedOnce(w)
  <2>1. \A b : Records(w, b) = Records(v, b)
    BY <1>11, SameContents
  <2>2. ASSUME NEW b \in Blocks(t), NEW m \in Roster(Records(v, b)) PROVE InUse(w, m)
    <3>1. InUse(v, m) /\ m # n
      BY <1>2, <1>13 DEF NamedOnce, Unnamed
    <3>2. m \in Inodes(t)
      BY Held, RosterNumbers
    <3>3. InodeBit(m) # bit
      BY <3>1, <3>2, InodeNumbers DEF bit
    <3>4. QED
      BY <1>11, <3>1, <3>3 DEF InUse
  <2>3. QED
    BY <1>2, <1>11, <1>13, <2>1, <2>2 DEF NamedOnce
<1>18. Kept(w)
  <2>1. \A i \in 0 .. (ReservedInodes - 1) : <<0, i>> # bit
    BY <1>1, ReservedBits, Params DEF bit
  <2>2. QED
    BY <1>2, <1>11, <1>13, <2>1 DEF Kept
<1>19. QED
  BY <1>11, <1>12, <1>15, <1>16, <1>17, <1>18 DEF Solid, w, ino

-----------------------------------------------------------------------------
(***************************************************************************)
(* Blocks are written.                                                     *)
(***************************************************************************)
(* The inodes stay, and no block gets names it had not.                    *)
Frame(t, v, w) ==
  /\ w.inode = v.inode /\ w.inodeBits = v.inodeBits
  /\ \A x \in Blocks(t) : Records(w, x) \in {<<>>, Records(v, x)}

LEMMA NoRecords == Roster(<<>>) = {} /\ OnceEach(<<>>)
  BY DEF Roster, OnceEach

LEMMA FrameFacts ==
  ASSUME NEW t \in Totals, NEW v \in Volumes(t), NEW w \in Volumes(t), Frame(t, v, w)
  PROVE  /\ \A n : Unnamed(v, n) => Unnamed(w, n)
         /\ \A n : InUse(v, n) => InUse(w, n)
         /\ \A u : Frame(t, w, u) => Frame(t, v, u)
<1>1. v.total = t /\ w.total = t
  BY DEF Volumes
<1>2. ASSUME NEW n, Unnamed(v, n) PROVE Unnamed(w, n)
  BY <1>1, <1>2, NoRecords DEF Frame, Unnamed
<1>3. \A n : InUse(v, n) => InUse(w, n)
  BY DEF Frame, InUse
<1>4. ASSUME NEW u, Frame(t, w, u) PROVE Frame(t, v, u)
  BY <1>4 DEF Frame
<1>5. QED
  BY <1>2, <1>3, <1>4

LEMMA FrameSelf ==
  ASSUME NEW t, NEW v, NEW w, w.inode = v.inode, w.inodeBits = v.inodeBits, w.data = v.data
  PROVE  Frame(t, v, w)
  BY SameContents DEF Frame

(* What a block may be overwritten with: the names it had, and names for   *)
(* inodes that had none.                                                   *)
LEMMA PutSolid ==
  ASSUME NEW t \in Totals, NEW v \in Volumes(t), Solid(v), NEW b \in DataArea(t),
         b \in v.blockBits, NEW c \in Contents(t), OnceEach(RecordsIn(c)),
         \A n \in Roster(RecordsIn(c)) :
           n \in Roster(Records(v, b)) \/ (InUse(v, n) /\ Unnamed(v, n))
  PROVE  Solid(Put(v, b, c))
<1> DEFINE w == Put(v, b, c)
<1>1. /\ w \in Volumes(t) /\ SameBits(v, w)
      /\ w.inode = v.inode /\ w.data = [v.data EXCEPT ![b] = c]
  BY PutFacts
<1> HIDE DEF w
<1>2. v.total = t /\ w.total = t /\ b \in Blocks(t)
  BY <1>1, DataFacts DEF Volumes
<1>3. \A x \in Blocks(t) : Records(w, x) = IF x = b THEN RecordsIn(c) ELSE Records(v, x)
  BY <1>1, DataChanged
<1>4. BlocksCounted(w)
  <2>1. SameBlockCounts(v, w, t)
    BY <1>1, <1>2 DEF SameBlockCounts, SameBits
  <2>2. QED
    BY <2>1, BlocksSame DEF Solid
<1>5. InodesCounted(w)
  <2>1. SameInodeCounts(v, w, t)
    BY <1>1, <1>2 DEF SameInodeCounts, SameBits
  <2>2. QED
    BY <2>1, InodesSame DEF Solid
<1>6. Kept(w)
  <2>1. \A x \in Blocks(t) : x # b => w.data[x] = v.data[x]
    BY <1>1 DEF Volumes
  <2>2. QED
    BY <1>1, <1>2, <2>1 DEF Kept, Solid, SameBits
<1>7. NamedOnce(v)
  BY DEF Solid
<1>8. ASSUME NEW x \in Blocks(t)
      PROVE  OnceEach(Records(w, x)) /\ \A n \in Roster(Records(w, x)) : InUse(w, n)
  <2>1. \A n : InUse(v, n) => InUse(w, n)
    BY <1>1 DEF InUse, SameBits
  <2>2. OnceEach(Records(v, x)) /\ \A n \in Roster(Records(v, x)) : InUse(v, n)
    BY <1>2, <1>7 DEF NamedOnce
  <2>3. QED
    BY <1>3, <2>1, <2>2
<1>9. ASSUME NEW x \in Blocks(t), x # b
      PROVE  Roster(RecordsIn(c)) \cap Roster(Records(v, x)) = {}
  <2>1. Roster(Records(v, b)) \cap Roster(Records(v, x)) = {}
    BY <1>2, <1>7, <1>9 DEF NamedOnce
  <2>2. QED
    BY <1>2, <2>1 DEF Unnamed
<1>10. ASSUME NEW x \in Blocks(t), NEW y \in Blocks(t), x # y
       PROVE  Roster(Records(w, x)) \cap Roster(Records(w, y)) = {}
  <2>1. Roster(Records(v, x)) \cap Roster(Records(v, y)) = {}
    BY <1>2, <1>7, <1>10 DEF NamedOnce
  <2>2. CASE x = b
    BY <1>3, <1>9, <1>10, <2>2
  <2>3. CASE y = b
    BY <1>3, <1>9, <1>10, <2>3
  <2>4. CASE x # b /\ y # b
    BY <1>3, <2>1, <2>4
  <2>5. QED
    BY <2>2, <2>3, <2>4
<1>11. NamedOnce(w)
  BY <1>2, <1>8, <1>10 DEF NamedOnce
<1>12. QED
  BY <1>4, <1>5, <1>6, <1>11 DEF Solid, w

(* Contents without records: text and pointers.                            *)
LEMMA PutPlain ==
  ASSUME NEW t \in Totals, NEW v \in Volumes(t), Solid(v), NEW b \in DataArea(t),
         b \in v.blockBits, NEW c \in Contents(t), RecordsIn(c) = <<>>
  PROVE  Solid(Put(v, b, c)) /\ Frame(t, v, Put(v, b, c))
<1>1. Solid(Put(v, b, c))
  BY PutSolid, NoRecords
<1>2. Frame(t, v, Put(v, b, c))
  <2>1. PICK w : w = Put(v, b, c)
    OBVIOUS
  <2>2. SameBits(v, w) /\ w.inode = v.inode /\ w.data = [v.data EXCEPT ![b] = c]
    BY <2>1, PutFacts
  <2>3. \A x \in Blocks(t) : Records(w, x) = IF x = b THEN RecordsIn(c) ELSE Records(v, x)
    BY <2>2, DataChanged
  <2>4. Frame(t, v, w)
    BY <2>2, <2>3 DEF Frame, SameBits
  <2>5. QED
    BY <2>1, <2>4
<1>3. QED
  BY <1>1, <1>2

(* Where a block's pointers are overwritten the others stay.               *)
LEMMA PointersChanged ==
  ASSUME NEW t \in Totals, NEW v \in Volumes(t), NEW w, NEW b \in DataArea(t), NEW c,
         w.data = [v.data EXCEPT ![b] = c], NEW ino, NEW s \in Slots(t)
  PROVE  At(w, ino, s) = IF s[1] = 1 /\ s[2] = b THEN PtrsIn(c)[s[3]] ELSE At(v, ino, s)
<1>1. CASE \E n \in Inodes(t), i \in 0 .. Double : s = <<0, n, i>>
  <2>1. PICK n \in Inodes(t), i \in 0 .. Double : s = <<0, n, i>>
    BY <1>1
  <2>2. At(w, ino, s) = ino[n].block[i] /\ At(v, ino, s) = ino[n].block[i]
    BY <2>1, SlotsAt
  <2>3. s[1] = 0
    BY <2>1
  <2>4. QED
    BY <2>2, <2>3
<1>2. CASE \E x \in Blocks(t), i \in 0 .. (PtrsPerBlock - 1) : s = <<1, x, i>>
  <2>1. PICK x \in Blocks(t), i \in 0 .. (PtrsPerBlock - 1) : s = <<1, x, i>>
    BY <1>2
  <2>2. Pointers(w, x) = IF x = b THEN PtrsIn(c) ELSE Pointers(v, x)
    BY DataChanged
  <2>3. At(w, ino, s) = Pointers(w, x)[i] /\ At(v, ino, s) = Pointers(v, x)[i]
    BY <2>1, SlotsAt
  <2>4. s[1] = 1 /\ s[2] = x /\ s[3] = i
    BY <2>1
  <2>5. QED
    BY <2>2, <2>3, <2>4
<1>3. QED
  BY <1>1, <1>2, SlotKinds

LEMMA PutApart ==
  ASSUME NEW t \in Totals, NEW v \in Volumes(t), NEW w \in Volumes(t), NEW b \in DataArea(t),
         NEW c, w.data = [v.data EXCEPT ![b] = c], PtrsIn(c) = NoPtrs,
         v.blockBits \subseteq w.blockBits, NEW ino, Apart(v, ino)
  PROVE  Apart(w, ino) /\ \A x : Loose(v, ino, x) /\ x # 0 => Loose(w, ino, x)
<1>1. v.total = t /\ w.total = t
  BY DEF Volumes
<1>2. ASSUME NEW s \in Slots(t) PROVE At(w, ino, s) \in {0, At(v, ino, s)}
  <2>1. At(w, ino, s) = IF s[1] = 1 /\ s[2] = b THEN NoPtrs[s[3]] ELSE At(v, ino, s)
    BY PointersChanged
  <2>2. s[1] = 1 => s[3] \in 0 .. (PtrsPerBlock - 1)
    BY SlotKinds
  <2>3. s[1] = 1 => NoPtrs[s[3]] = 0
    BY <2>2 DEF NoPtrs
  <2>4. QED
    BY <2>1, <2>3
<1>3. Apart(w, ino)
  <2>1. ASSUME NEW s \in Slots(t), At(w, ino, s) # 0
        PROVE  At(w, ino, s) = At(v, ino, s) /\ At(v, ino, s) \in w.blockBits
    BY <1>1, <1>2, <2>1 DEF Apart
  <2>2. QED
    BY <1>1, <2>1, ApartFewer
<1>4. QED
  BY <1>1, <1>2, <1>3 DEF Loose

(* A volume in order, with the inodes a command works on.                  *)
Sound(t, v, ino) == v \in Volumes(t) /\ Solid(v) /\ ino \in Inos(t) /\ Apart(v, ino)

(* No names but those it had, and no block given back.                     *)
Grew(t, v, w) == Frame(t, v, w) /\ v.blockBits \subseteq w.blockBits

LEMMA GrewOn ==
  ASSUME NEW t, NEW u, NEW v, NEW w, Grew(t, u, v), Grew(t, v, w)
  PROVE  Grew(t, u, w)
  BY DEF Grew, Frame

(* One place points to b now, the others to what they did.                 *)
OneSlot(t, v, w, ino, jno, z, b) ==
  \A s \in Slots(t) : At(w, jno, s) = IF s = z THEN b ELSE At(v, ino, s)

LEMMA OneSlotApart ==
  ASSUME NEW t \in Totals, NEW v \in Volumes(t), NEW w \in Volumes(t), NEW ino, NEW jno,
         Apart(v, ino), NEW z \in Slots(t), NEW b, OneSlot(t, v, w, ino, jno, z, b),
         b # 0 => b \in w.blockBits /\ (Loose(v, ino, b) \/ At(v, ino, z) = b),
         v.blockBits \subseteq w.blockBits
  PROVE  Apart(w, jno) /\ \A y : Loose(v, ino, y) /\ y # b => Loose(w, jno, y)
<1>1. v.total = t /\ w.total = t
  BY DEF Volumes
<1>2. Apart(w, jno)
  <2>1. CASE b # 0 /\ Loose(v, ino, b)
    BY <1>1, <2>1, ApartMore DEF OneSlot
  <2>2. CASE b = 0 \/ At(v, ino, z) = b
    <3>1. ASSUME NEW s \in Slots(t), At(w, jno, s) # 0
          PROVE  At(w, jno, s) = At(v, ino, s) /\ At(v, ino, s) \in w.blockBits
      BY <1>1, <2>2, <3>1 DEF OneSlot, Apart
    <3>2. QED
      BY <1>1, <3>1, ApartFewer
  <2>3. QED
    BY <2>1, <2>2
<1>3. QED
  BY <1>1, <1>2 DEF Loose, OneSlot

LEMMA PointAt ==
  ASSUME NEW t \in Totals, NEW v \in Volumes(t), Solid(v), NEW b1 \in DataArea(t),
         b1 \in v.blockBits, NEW i \in 0 .. (PtrsPerBlock - 1), NEW b \in Pointees(t)
  PROVE  LET w == Point(v, b1, i, b)
         IN  /\ w \in Volumes(t) /\ Solid(w) /\ Grew(t, v, w) /\ w.blockBits = v.blockBits
             /\ <<1, b1, i>> \in Slots(t)
             /\ \A ino : OneSlot(t, v, w, ino, ino, <<1, b1, i>>, b)
<1> DEFINE f == [Pointers(v, b1) EXCEPT ![i] = b]
           c == Ptrs(f)
           w == Put(v, b1, c)
<1>1. b1 \in Blocks(t)
  BY DataFacts
<1>2. Pointers(v, b1) \in Maps(t)
  BY <1>1, Held
<1>3. f \in Maps(t) /\ \A k \in 0 .. (PtrsPerBlock - 1) :
        f[k] = IF k = i THEN b ELSE Pointers(v, b1)[k]
  BY <1>2 DEF Maps
<1>4. Point(v, b1, i, b) = w
  BY DEF Point
<1> HIDE DEF f
<1>5. c \in Contents(t) /\ RecordsIn(c) = <<>> /\ PtrsIn(c) = f
  BY <1>3, ContentMade DEF RecordsIn, PtrsIn
<1> HIDE DEF c
<1>6. /\ w \in Volumes(t) /\ SameBits(v, w) /\ Solid(w) /\ Frame(t, v, w)
      /\ w.data = [v.data EXCEPT ![b1] = c]
  BY <1>5, PutFacts, PutPlain
<1> HIDE DEF w
<1>7. <<1, b1, i>> \in Slots(t)
  BY <1>1, SlotsAt
<1>8. ASSUME NEW ino, NEW s \in Slots(t)
      PROVE  At(w, ino, s) = IF s = <<1, b1, i>> THEN b ELSE At(v, ino, s)
  <2>1. At(w, ino, s) = IF s[1] = 1 /\ s[2] = b1 THEN f[s[3]] ELSE At(v, ino, s)
    BY <1>5, <1>6, PointersChanged
  <2>2. CASE \E n \in Inodes(t), k \in 0 .. Double : s = <<0, n, k>>
    BY <2>1, <2>2
  <2>3. CASE \E x \in Blocks(t), k \in 0 .. (PtrsPerBlock - 1) : s = <<1, x, k>>
    <3>1. PICK x \in Blocks(t), k \in 0 .. (PtrsPerBlock - 1) : s = <<1, x, k>>
      BY <2>3
    <3>2. At(v, ino, s) = Pointers(v, x)[k]
      BY <3>1, SlotsAt
    <3>3. s[1] = 1 /\ s[2] = x /\ s[3] = k
      BY <3>1
    <3>4. QED
      BY <1>3, <2>1, <3>1, <3>2, <3>3
  <2>4. QED
    BY <2>2, <2>3, SlotKinds
<1>9. \A ino : OneSlot(t, v, w, ino, ino, <<1, b1, i>>, b)
  BY <1>8 DEF OneSlot
<1>10. QED
  BY <1>4, <1>6, <1>7, <1>9 DEF Grew, SameBits

(* The inode n has a new block list but for one entry.                     *)
LEMMA SlotSet ==
  ASSUME NEW t \in Totals, NEW v, NEW ino \in Inos(t), NEW n \in Inodes(t),
         NEW x \in InodesOf(t), NEW k \in 0 .. Double, NEW b,
         x.block = [ino[n].block EXCEPT ![k] = b]
  PROVE  /\ [ino EXCEPT ![n] = x] \in Inos(t) /\ <<0, n, k>> \in Slots(t)
         /\ OneSlot(t, v, v, ino, [ino EXCEPT ![n] = x], <<0, n, k>>, b)
         /\ At(v, ino, <<0, n, k>>) = ino[n].block[k]
<1> DEFINE jno == [ino EXCEPT ![n] = x]
<1>1. /\ jno \in Inos(t)
      /\ \A m \in Inodes(t) : jno[m] = IF m = n THEN x ELSE ino[m]
  BY DEF Inos
<1>2. ino[n].block \in [0 .. Double -> Pointees(t)]
  BY DEF Inos, InodesOf
<1>3. \A i \in 0 .. Double : x.block[i] = IF i = k THEN b ELSE ino[n].block[i]
  BY <1>2
<1> HIDE DEF jno
<1>4. ASSUME NEW s \in Slots(t)
      PROVE  At(v, jno, s) = IF s = <<0, n, k>> THEN b ELSE At(v, ino, s)
  <2>1. CASE \E m \in Inodes(t), i \in 0 .. Double : s = <<0, m, i>>
    <3>1. PICK m \in Inodes(t), i \in 0 .. Double : s = <<0, m, i>>
      BY <2>1
    <3>2. At(v, jno, s) = jno[m].block[i] /\ At(v, ino, s) = ino[m].block[i]
      BY <3>1, SlotsAt
    <3>3. QED
      BY <1>1, <1>3, <3>1, <3>2
  <2>2. CASE \E y \in Blocks(t), i \in 0 .. (PtrsPerBlock - 1) : s = <<1, y, i>>
    <3>1. PICK y \in Blocks(t), i \in 0 .. (PtrsPerBlock - 1) : s = <<1, y, i>>
      BY <2>2
    <3>2. At(v, jno, s) = Pointers(v, y)[i] /\ At(v, ino, s) = Pointers(v, y)[i]
      BY <3>1, SlotsAt
    <3>3. QED
      BY <3>1, <3>2
  <2>3. QED
    BY <2>1, <2>2, SlotKinds
<1>5. OneSlot(t, v, v, ino, jno, <<0, n, k>>, b)
  BY <1>4 DEF OneSlot
<1>6. <<0, n, k>> \in Slots(t) /\ At(v, ino, <<0, n, k>>) = ino[n].block[k]
  BY SlotsAt
<1>7. QED
  BY <1>1, <1>5, <1>6 DEF jno

(* A block of pointers is there, or it is taken and empty.                 *)
LEMMA EnsuredFacts ==
  ASSUME NEW t \in Totals, NEW v, NEW ino, Sound(t, v, ino), NEW x \in Pointees(t)
  PROVE  LET e == Ensured(v, x)
         IN  /\ Sound(t, e.volume, ino) /\ Grew(t, v, e.volume)
             /\ e.block \in Pointees(t)
             /\ x # 0 => e = [volume |-> v, block |-> x]
             /\ x = 0 /\ e.block # 0 =>
                  e.block \in e.volume.blockBits /\ Loose(e.volume, ino, e.block)
                    /\ e.block \notin v.blockBits
             /\ \A y \in v.blockBits : y # 0 /\ Loose(v, ino, y) => Loose(e.volume, ino, y)
<1> USE DEF Sound
<1>1. CASE x # 0
  BY <1>1 DEF Ensured, Grew, Frame
<1>2. CASE x = 0
  <2> DEFINE a == AllocBlock(v)
  <2>1. /\ a.volume \in Volumes(t) /\ Solid(a.volume)
        /\ a.block = 0 => a.volume = v
        /\ a.block # 0 => Took(v, a.volume, a.block) /\ a.block \in DataArea(t)
    BY AllocFacts
  <2>2. Ensured(v, x) = Cleared(a)
    BY <1>2 DEF Ensured
  <2>2a. a = [volume |-> a.volume, block |-> a.block]
    BY DEF AllocBlock
  <2>2b. PICK u, b : a = [volume |-> u, block |-> b] /\ u = a.volume /\ b = a.block
    BY <2>2a
  <2> HIDE DEF a
  <2>3. CASE b = 0
    BY <1>2, <2>1, <2>2, <2>2b, <2>3 DEF Cleared, Grew, Frame, Pointees
  <2>4. CASE b # 0
    <3> DEFINE w == Put(u, b, Ptrs(NoPtrs))
    <3>1. Ensured(v, x) = [volume |-> w, block |-> b]
      BY <2>2, <2>2b, <2>4 DEF Cleared
    <3>2. Took(v, u, b) /\ b \in DataArea(t) /\ u \in Volumes(t) /\ Solid(u)
      BY <2>1, <2>2b, <2>4
    <3>3. Apart(u, ino) /\ Loose(u, ino, b)
      BY <3>2, TookApart
    <3>4. Ptrs(NoPtrs) \in Contents(t) /\ RecordsIn(Ptrs(NoPtrs)) = <<>>
          /\ PtrsIn(Ptrs(NoPtrs)) = NoPtrs
      BY ContentMade DEF RecordsIn, PtrsIn
    <3>5. b \in u.blockBits
      BY <3>2 DEF Took
    <3>6. /\ w \in Volumes(t) /\ SameBits(u, w) /\ Solid(w) /\ Frame(t, u, w)
          /\ w.data = [u.data EXCEPT ![b] = Ptrs(NoPtrs)]
      BY <3>2, <3>4, <3>5, PutFacts, PutPlain
    <3> HIDE DEF w
    <3>7. Apart(w, ino) /\ \A y : Loose(u, ino, y) /\ y # 0 => Loose(w, ino, y)
      BY <3>2, <3>3, <3>4, <3>6, PutApart DEF SameBits
    <3>8. \A y : Loose(v, ino, y) <=> Loose(u, ino, y)
      <4>1. v.total = t /\ u.total = t
        BY <3>2 DEF Volumes
      <4>2. \A s : At(u, ino, s) = At(v, ino, s)
        BY <3>2, SameContents DEF Took
      <4>3. QED
        BY <4>1, <4>2 DEF Loose
    <3>9. Frame(t, v, u)
      BY <3>2, FrameSelf DEF Took
    <3>10. Grew(t, v, u) /\ Grew(t, u, w)
      BY <3>2, <3>6, <3>9 DEF Grew, Took, SameBits
    <3>11. Grew(t, v, w)
      BY <3>10, GrewOn
    <3>12. b \in w.blockBits /\ b \notin v.blockBits
      BY <3>2, <3>5, <3>6 DEF Took, SameBits
    <3>13. QED
      BY <1>2, <2>4, <3>1, <3>2, <3>3, <3>6, <3>7, <3>8, <3>11, <3>12 DEF Pointees
  <2>5. QED
    BY <2>3, <2>4
<1>3. QED
  BY <1>1, <1>2

LEMMA BlockSet ==
  ASSUME NEW t, NEW in \in InodesOf(t), NEW k \in 0 .. Double, NEW y \in Pointees(t)
  PROVE  LET x == [in EXCEPT !.block[k] = y]
         IN  /\ x \in InodesOf(t) /\ x.block = [in.block EXCEPT ![k] = y]
             /\ x.type = in.type /\ x.size = in.size
<1>1. [in.block EXCEPT ![k] = y] \in [0 .. Double -> Pointees(t)]
  BY DEF InodesOf
<1> DEFINE bs == [in.block EXCEPT ![k] = y]
<1> HIDE DEF bs
<1>2. [in EXCEPT !.block = bs] \in InodesOf(t) /\ [in EXCEPT !.block = bs].block = bs
  BY <1>1 DEF InodesOf, bs
<1>3. [in EXCEPT !.block[k] = y] = [in EXCEPT !.block = bs]
  BY DEF bs
<1>4. [in EXCEPT !.block = bs].type = in.type /\ [in EXCEPT !.block = bs].size = in.size
  BY DEF InodesOf
<1>5. QED
  BY <1>2, <1>3, <1>4 DEF bs

LEMMA BlockLimits ==
  /\ Single \in 0 .. Double /\ Double \in 0 .. Double /\ Double \in Nat /\ Single \in Nat
  /\ \A i \in 0 .. (DirectBlocks - 1) : i \in 0 .. Double /\ i # Single /\ i # Double
  /\ Single # Double
  BY Params DEF Single, Double

LEMMA Quotient ==
  ASSUME NEW a \in Nat, NEW n \in Nat \ {0}, a < n * n
  PROVE  a \div n \in 0 .. (n - 1) /\ a % n \in 0 .. (n - 1)
<1>1. PICK q \in Nat, r \in 0 .. (n - 1) : q = a \div n /\ r = a % n /\ a = q * n + r
  BY DivFacts
<1>2. q < n
  <2>1. SUFFICES ASSUME n <= q PROVE FALSE
    BY <1>1
  <2>2. n * n <= q * n /\ n * n \in Int /\ q * n \in Int
    BY <1>1, <2>1
  <2>3. QED
    BY <1>1, <2>2
<1>3. QED
  BY <1>1, <1>2

(* The block of pointers of an inode, with the inode that has it.          *)
LEMMA Hooked ==
  ASSUME NEW t \in Totals, NEW v, NEW ino, Sound(t, v, ino), NEW n \in Inodes(t),
         NEW k \in 0 .. Double, NEW b \in v.blockBits, b # 0, Loose(v, ino, b),
         Ensured(v, ino[n].block[k]).block # 0
  PROVE  LET e   == Ensured(v, ino[n].block[k])
             jno == [ino EXCEPT ![n] = [ino[n] EXCEPT !.block[k] = e.block]]
         IN  /\ Sound(t, e.volume, jno) /\ Grew(t, v, e.volume)
             /\ e.block \in DataArea(t) /\ e.block \in e.volume.blockBits
             /\ Loose(e.volume, jno, b)
<1> DEFINE old == ino[n].block[k]
           e   == Ensured(v, old)
           u   == e.volume
           y   == e.block
           x   == [ino[n] EXCEPT !.block[k] = y]
           jno == [ino EXCEPT ![n] = x]
           z   == <<0, n, k>>
<1>1. ino[n] \in InodesOf(t) /\ old \in Pointees(t)
  BY DEF Sound, Inos, InodesOf
<1> HIDE DEF old
<1>2. /\ Sound(t, u, ino) /\ Grew(t, v, u) /\ y \in Pointees(t)
      /\ old # 0 => e = [volume |-> v, block |-> old]
      /\ old = 0 /\ y # 0 => y \in u.blockBits /\ Loose(u, ino, y) /\ y \notin v.blockBits
      /\ \A c \in v.blockBits : c # 0 /\ Loose(v, ino, c) => Loose(u, ino, c)
  BY <1>1, EnsuredFacts
<1>3. y # 0
  BY DEF old
<1> HIDE DEF e
<1>4. x \in InodesOf(t) /\ x.block = [ino[n].block EXCEPT ![k] = y]
  BY <1>1, <1>2, BlockSet
<1> HIDE DEF x
<1>5. /\ jno \in Inos(t) /\ z \in Slots(t) /\ OneSlot(t, u, u, ino, jno, z, y)
      /\ At(u, ino, z) = old
  BY <1>2, <1>4, SlotSet DEF Sound, old
<1> HIDE DEF jno, z
<1>6. y \in u.blockBits /\ (Loose(u, ino, y) \/ At(u, ino, z) = y)
  <2>1. CASE old = 0
    BY <1>2, <1>3, <2>1
  <2>2. CASE old # 0
    <3>1. At(u, ino, z) = y /\ u = v
      BY <1>2, <1>5, <2>2 DEF u, y
    <3>2. Apart(u, ino) /\ u.total = t
      BY <1>2 DEF Sound, Volumes
    <3>3. QED
      BY <1>3, <1>5, <3>1, <3>2 DEF Apart
  <2>3. QED
    BY <2>1, <2>2
<1>7. Apart(u, jno) /\ \A c : Loose(u, ino, c) /\ c # y => Loose(u, jno, c)
  BY <1>2, <1>5, <1>6, OneSlotApart DEF Sound
<1>8. b # y
  <2>1. CASE old = 0
    BY <1>2, <1>3, <2>1
  <2>2. CASE old # 0
    <3>1. Loose(u, ino, b) /\ At(u, ino, z) = y /\ u.total = t
      BY <1>2, <1>5, <2>2 DEF u, y, Sound, Volumes
    <3>2. QED
      BY <1>5, <3>1 DEF Loose
  <2>3. QED
    BY <2>1, <2>2
<1>9. Sound(t, u, jno) /\ Loose(u, jno, b)
  BY <1>2, <1>5, <1>7, <1>8 DEF Sound
<1>10. y \in DataArea(t)
  BY <1>2, <1>3 DEF Pointees
<1>11. QED
  BY <1>2, <1>6, <1>9, <1>10 DEF e, u, y, x, jno, old

(* set_inode_block with a block that nothing points to yet.                *)
BlockIsSet(t, v, ino, n, i, b, set) ==
  /\ set.inode \in InodesOf(t) /\ set.inode.type = ino[n].type
  /\ set.inode.size = ino[n].size
  /\ Grew(t, v, set.volume) /\ set.ok \in BOOLEAN
  /\ set.ok => Sound(t, set.volume, [ino EXCEPT ![n] = set.inode])
  /\ ~set.ok => Sound(t, set.volume, ino) /\ Loose(set.volume, ino, b)
  /\ i < DirectBlocks => /\ set.ok
                         /\ set.inode.block[Single] = ino[n].block[Single]
                         /\ set.inode.block[Double] = ino[n].block[Double]

LEMMA SetDirect ==
  ASSUME NEW t \in Totals, NEW v, NEW ino, Sound(t, v, ino), NEW n \in Inodes(t),
         NEW i \in 0 .. (DirectBlocks - 1), NEW b \in DataArea(t), b \in v.blockBits,
         Loose(v, ino, b)
  PROVE  BlockIsSet(t, v, ino, n, i, b, SetBlock(v, ino[n], i, b))
<1> DEFINE x   == [ino[n] EXCEPT !.block[i] = b]
           jno == [ino EXCEPT ![n] = x]
<1>1. SetBlock(v, ino[n], i, b) = [ok |-> TRUE, volume |-> v, inode |-> x]
  BY Params DEF SetBlock
<1>2. ino[n] \in InodesOf(t) /\ b \in Pointees(t) /\ i \in 0 .. Double
  BY BlockLimits DEF Sound, Inos, Pointees
<1>3. /\ x \in InodesOf(t) /\ x.block = [ino[n].block EXCEPT ![i] = b]
      /\ x.type = ino[n].type /\ x.size = ino[n].size
  BY <1>2, BlockSet
<1>4. x.block[Single] = ino[n].block[Single] /\ x.block[Double] = ino[n].block[Double]
  <2>1. ino[n].block \in [0 .. Double -> Pointees(t)]
    BY <1>2 DEF InodesOf
  <2> HIDE DEF x
  <2>2. QED
    BY <1>3, <2>1, BlockLimits
<1> HIDE DEF x
<1>5. jno \in Inos(t) /\ <<0, n, i>> \in Slots(t) /\ OneSlot(t, v, v, ino, jno, <<0, n, i>>, b)
  BY <1>2, <1>3, SlotSet DEF Sound
<1> HIDE DEF jno
<1>6. Apart(v, jno)
  BY <1>5, OneSlotApart DEF Sound
<1>7. Grew(t, v, v)
  BY DEF Grew, Frame
<1>8. Sound(t, v, jno)
  BY <1>5, <1>6 DEF Sound
<1> DEFINE set == SetBlock(v, ino[n], i, b)
<1>9. set.volume = v /\ set.inode = x /\ set.ok = TRUE
  BY <1>1
<1> HIDE DEF set
<1>10. BlockIsSet(t, v, ino, n, i, b, set)
  BY <1>3, <1>4, <1>7, <1>8, <1>9 DEF BlockIsSet, jno
<1>11. QED
  BY <1>10 DEF set

LEMMA SetSingle ==
  ASSUME NEW t \in Totals, NEW v, NEW ino, Sound(t, v, ino), NEW n \in Inodes(t),
         NEW i \in Nat, ~(i < DirectBlocks), i - DirectBlocks < PtrsPerBlock,
         NEW b \in DataArea(t), b \in v.blockBits, Loose(v, ino, b)
  PROVE  BlockIsSet(t, v, ino, n, i, b, SetBlock(v, ino[n], i, b))
<1> DEFINE one == i - DirectBlocks
           e   == Ensured(v, ino[n].block[Single])
           u   == e.volume
           y   == e.block
           x   == [ino[n] EXCEPT !.block[Single] = y]
           jno == [ino EXCEPT ![n] = x]
           set == SetBlock(v, ino[n], i, b)
           w   == Point(u, y, one, b)
<1>1. one \in 0 .. (PtrsPerBlock - 1) /\ b # 0 /\ b \in Pointees(t)
  BY Params, DataFacts DEF Pointees
<1>2. /\ set.volume = (IF y = 0 THEN u ELSE w) /\ set.inode = x
      /\ y = 0 => set.ok = FALSE
      /\ y # 0 => set.ok = TRUE
  <2>1. set = BelowSingle(e, ino[n], one, b)
    BY <1>1, Params DEF SetBlock
  <2> HIDE DEF set, e
  <2>2. set.volume = (IF y = 0 THEN u ELSE w) /\ set.inode = x
    BY <2>1 DEF BelowSingle
  <2>3. set.ok = (y # 0)
    BY <2>1 DEF BelowSingle
  <2>4. QED
    BY <2>2, <2>3
<1>3. ino[n] \in InodesOf(t) /\ ino[n].block[Single] \in Pointees(t)
  BY BlockLimits DEF Sound, Inos, InodesOf
<1>4. /\ Sound(t, u, ino) /\ Grew(t, v, u) /\ y \in Pointees(t)
      /\ \A c \in v.blockBits : c # 0 /\ Loose(v, ino, c) => Loose(u, ino, c)
  BY <1>3, EnsuredFacts
<1>5. x \in InodesOf(t) /\ x.type = ino[n].type /\ x.size = ino[n].size
  BY <1>3, <1>4, BlockLimits, BlockSet
<1>6. CASE y = 0
  <2>1. set.ok = FALSE /\ set.volume = u /\ set.inode = x
    BY <1>2, <1>6
  <2> HIDE DEF set, u, x
  <2>2. BlockIsSet(t, v, ino, n, i, b, set)
    BY <1>1, <1>4, <1>5, <2>1 DEF BlockIsSet
  <2>3. QED
    BY <2>2 DEF set
<1>7. CASE y # 0
  <2>1. /\ Sound(t, u, jno) /\ y \in DataArea(t) /\ y \in u.blockBits /\ Loose(u, jno, b)
    BY <1>1, <1>7, BlockLimits, Hooked
  <2>2. set.ok = TRUE /\ set.volume = w /\ set.inode = x
    BY <1>2, <1>7
  <2> HIDE DEF set, x, e
  <2>3. /\ w \in Volumes(t) /\ Solid(w) /\ Grew(t, u, w) /\ w.blockBits = u.blockBits
        /\ <<1, y, one>> \in Slots(t)
        /\ OneSlot(t, u, w, jno, jno, <<1, y, one>>, b)
    BY <1>1, <2>1, PointAt DEF Sound
  <2>4. b \in u.blockBits
    BY <1>4 DEF Grew
  <2> HIDE DEF w, jno
  <2>5. Apart(w, jno)
    BY <1>1, <2>1, <2>3, <2>4, OneSlotApart DEF Sound
  <2>6. Sound(t, w, jno)
    BY <2>1, <2>3, <2>5 DEF Sound
  <2>7. Grew(t, v, w)
    BY <1>4, <2>3, GrewOn
  <2>8. BlockIsSet(t, v, ino, n, i, b, set)
    BY <1>5, <2>2, <2>6, <2>7 DEF BlockIsSet, jno
  <2>9. QED
    BY <2>8 DEF set
<1>8. QED
  BY <1>6, <1>7

(* Below the block of pointers top, which the inode has already.           *)
LEMMA SetBelow ==
  ASSUME NEW t \in Totals, NEW u, NEW ino, NEW jno, Sound(t, u, ino), Sound(t, u, jno),
         NEW top \in DataArea(t), top \in u.blockBits, NEW i \in Nat,
         i < PtrsPerBlock * PtrsPerBlock, NEW b \in DataArea(t), b \in u.blockBits,
         Loose(u, jno, b), Loose(u, ino, b)
  PROVE  LET m   == Ensured(u, PointerAt(u, top, i \div PtrsPerBlock))
             ptr == Point(m.volume, top, i \div PtrsPerBlock, m.block)
             w   == Point(ptr, m.block, i % PtrsPerBlock, b)
         IN  /\ m.block = 0 => /\ Sound(t, m.volume, ino) /\ Loose(m.volume, ino, b)
                               /\ Grew(t, u, m.volume)
             /\ m.block # 0 => Sound(t, w, jno) /\ Grew(t, u, w)
<1> DEFINE p == i \div PtrsPerBlock
           q == i % PtrsPerBlock
           old == PointerAt(u, top, p)
           m == Ensured(u, old)
           x == m.volume
           y == m.block
           ptr == Point(x, top, p, y)
           w == Point(ptr, y, q, b)
           z == <<1, top, p>>
<1>1. p \in 0 .. (PtrsPerBlock - 1) /\ q \in 0 .. (PtrsPerBlock - 1)
  BY Quotient, Params
<1> HIDE DEF p, q
<1>2. top \in Blocks(t) /\ top # 0 /\ b # 0 /\ b \in Pointees(t)
  BY DataFacts DEF Pointees
<1>3. old = Pointers(u, top)[p] /\ old \in Pointees(t) /\ z \in Slots(t)
      /\ At(u, jno, z) = old
  <2>1. Pointers(u, top) \in Maps(t)
    BY <1>2, Held DEF Sound
  <2>2. old = Pointers(u, top)[p]
    BY <1>2 DEF PointerAt
  <2>3. z \in Slots(t) /\ At(u, jno, z) = Pointers(u, top)[p]
    BY <1>1, <1>2, SlotsAt
  <2>4. QED
    BY <1>1, <2>1, <2>2, <2>3 DEF Maps
<1> HIDE DEF old
<1>4. /\ Sound(t, x, ino) /\ Sound(t, x, jno) /\ Grew(t, u, x) /\ y \in Pointees(t)
      /\ old # 0 => m = [volume |-> u, block |-> old]
      /\ old = 0 /\ y # 0 => y \in x.blockBits /\ Loose(x, jno, y) /\ y \notin u.blockBits
      /\ Loose(x, jno, b) /\ Loose(x, ino, b)
  BY <1>2, <1>3, EnsuredFacts
<1> HIDE DEF m
<1>5. CASE y = 0
  <2>1. Sound(t, x, ino) /\ Loose(x, ino, b) /\ Grew(t, u, x)
    BY <1>4
  <2>2. QED
    BY <1>5, <2>1 DEF m, old, p
<1>6. CASE y # 0
  <2>1. y \in DataArea(t) /\ y \in x.blockBits /\ (Loose(x, jno, y) \/ At(x, jno, z) = y)
        /\ b # y
    <3>1. CASE old = 0
      BY <1>4, <1>6, <3>1 DEF Pointees
    <3>2. CASE old # 0
      <4>1. x = u /\ y = old
        BY <1>4, <3>2
      <4>2. Apart(u, jno) /\ u.total = t /\ Loose(u, jno, b)
        BY DEF Sound, Volumes
      <4>3. y \in u.blockBits /\ b # y
        BY <1>3, <3>2, <4>1, <4>2 DEF Apart, Loose
      <4>4. QED
        BY <1>3, <1>4, <1>6, <4>1, <4>3 DEF Pointees
    <3>3. QED
      BY <3>1, <3>2
  <2>2. top \in x.blockBits /\ b \in x.blockBits /\ x \in Volumes(t) /\ Solid(x)
        /\ Apart(x, jno) /\ jno \in Inos(t)
    BY <1>4 DEF Grew, Sound
  <2>3. /\ ptr \in Volumes(t) /\ Solid(ptr) /\ Grew(t, x, ptr)
        /\ ptr.blockBits = x.blockBits /\ OneSlot(t, x, ptr, jno, jno, z, y)
    BY <1>1, <1>4, <2>2, PointAt
  <2> HIDE DEF ptr, x, y, z
  <2>4. Apart(ptr, jno) /\ Loose(ptr, jno, b)
    BY <1>3, <1>4, <2>1, <2>2, <2>3, OneSlotApart
  <2>5. /\ w \in Volumes(t) /\ Solid(w) /\ Grew(t, ptr, w)
        /\ w.blockBits = ptr.blockBits
        /\ <<1, y, q>> \in Slots(t) /\ OneSlot(t, ptr, w, jno, jno, <<1, y, q>>, b)
    BY <1>1, <1>2, <2>1, <2>3, PointAt
  <2> HIDE DEF w
  <2>6. Apart(w, jno)
    BY <2>2, <2>3, <2>4, <2>5, OneSlotApart
  <2>7. Sound(t, w, jno)
    BY <2>2, <2>5, <2>6 DEF Sound
  <2>8. Grew(t, u, w)
    BY <1>4, <2>3, <2>5, GrewOn
  <2>9. QED
    BY <1>6, <2>7, <2>8 DEF w, ptr, x, y, m, old, p, q
<1>7. QED
  BY <1>5, <1>6

LEMMA SetDouble ==
  ASSUME NEW t \in Totals, NEW v, NEW ino, Sound(t, v, ino), NEW n \in Inodes(t),
         NEW i \in Nat, ~(i < DirectBlocks), ~(i - DirectBlocks < PtrsPerBlock),
         NEW b \in DataArea(t), b \in v.blockBits, Loose(v, ino, b)
  PROVE  BlockIsSet(t, v, ino, n, i, b, SetBlock(v, ino[n], i, b))
<1> DEFINE two == i - DirectBlocks - PtrsPerBlock
           e   == Ensured(v, ino[n].block[Double])
           u   == e.volume
           y   == e.block
           x   == [ino[n] EXCEPT !.block[Double] = y]
           jno == [ino EXCEPT ![n] = x]
           set == SetBlock(v, ino[n], i, b)
           m   == Ensured(u, PointerAt(u, y, two \div PtrsPerBlock))
           ptr == Point(m.volume, y, two \div PtrsPerBlock, m.block)
           w   == Point(ptr, m.block, two % PtrsPerBlock, b)
<1>1. two \in Nat /\ b # 0 /\ b \in Pointees(t)
  BY Params, DataFacts DEF Pointees
<1>2. ino[n] \in InodesOf(t) /\ ino[n].block[Double] \in Pointees(t)
  BY BlockLimits DEF Sound, Inos, InodesOf
<1>3. CASE two >= PtrsPerBlock * PtrsPerBlock
  <2>1. set = [ok |-> FALSE, volume |-> v, inode |-> ino[n]]
    BY <1>1, <1>3, Params DEF SetBlock
  <2>2. set.ok = FALSE /\ set.volume = v /\ set.inode = ino[n]
    BY <2>1
  <2>3. Grew(t, v, v)
    BY DEF Grew, Frame
  <2> HIDE DEF set
  <2>4. BlockIsSet(t, v, ino, n, i, b, set)
    BY <1>2, <2>2, <2>3 DEF BlockIsSet
  <2>5. QED
    BY <2>4 DEF set
<1>4. CASE ~(two >= PtrsPerBlock * PtrsPerBlock)
  <2>1. set = BelowDouble(e, ino[n], two, b)
    BY <1>1, <1>4, Params DEF SetBlock
  <2>2. /\ Sound(t, u, ino) /\ Grew(t, v, u) /\ y \in Pointees(t)
        /\ \A c \in v.blockBits : c # 0 /\ Loose(v, ino, c) => Loose(u, ino, c)
    BY <1>2, EnsuredFacts
  <2>3. x \in InodesOf(t) /\ x.type = ino[n].type /\ x.size = ino[n].size
    BY <1>2, <2>2, BlockLimits, BlockSet
  <2>4. CASE y = 0
    <3> HIDE DEF set, e
    <3>1. set = [ok |-> FALSE, volume |-> u, inode |-> ino[n]]
      BY <2>1, <2>4 DEF BelowDouble
    <3>2. set.ok = FALSE /\ set.volume = u /\ set.inode = ino[n]
      BY <3>1
    <3> HIDE DEF u
    <3>3. BlockIsSet(t, v, ino, n, i, b, set)
      BY <1>1, <1>2, <2>2, <3>2 DEF BlockIsSet
    <3>4. QED
      BY <3>3 DEF set
  <2>5. CASE y # 0
    <3>1. /\ Sound(t, u, jno) /\ y \in DataArea(t) /\ y \in u.blockBits /\ Loose(u, jno, b)
      BY <1>1, <2>5, BlockLimits, Hooked
    <3>2. b \in u.blockBits /\ Loose(u, ino, b)
      BY <1>1, <2>2 DEF Grew
    <3>3. two < PtrsPerBlock * PtrsPerBlock
      BY <1>1, <1>4, Params
    <3> HIDE DEF set, e, two
    <3>4. /\ m.block = 0 => /\ Sound(t, m.volume, ino) /\ Loose(m.volume, ino, b)
                            /\ Grew(t, u, m.volume)
          /\ m.block # 0 => Sound(t, w, jno) /\ Grew(t, u, w)
      BY <1>1, <2>2, <3>1, <3>2, <3>3, SetBelow
    <3>5. set = BelowMiddle(e, m, ino[n], two, b)
      BY <2>1, <2>5 DEF BelowDouble
    <3> HIDE DEF m, u
    <3>6. /\ set.ok = (m.block # 0) /\ set.inode = x
          /\ set.volume = IF m.block = 0 THEN m.volume ELSE w
      BY <3>5 DEF BelowMiddle
    <3> HIDE DEF w, x
    <3>7. CASE m.block = 0
      <4>1. set.ok = FALSE /\ set.volume = m.volume /\ set.inode = x
        BY <3>6, <3>7
      <4>2. Grew(t, v, m.volume)
        BY <2>2, <3>4, <3>7, GrewOn
      <4>3. BlockIsSet(t, v, ino, n, i, b, set)
        BY <2>3, <3>4, <3>7, <4>1, <4>2 DEF BlockIsSet
      <4>4. QED
        BY <4>3 DEF set
    <3>8. CASE m.block # 0
      <4>1. set.ok = TRUE /\ set.volume = w /\ set.inode = x
        BY <3>6, <3>8
      <4>2. Grew(t, v, w)
        BY <2>2, <3>4, <3>8, GrewOn
      <4>3. BlockIsSet(t, v, ino, n, i, b, set)
        BY <2>3, <3>4, <3>8, <4>1, <4>2 DEF BlockIsSet, jno
      <4>4. QED
        BY <4>3 DEF set
    <3>9. QED
      BY <3>7, <3>8
  <2>6. QED
    BY <2>4, <2>5
<1>5. QED
  BY <1>3, <1>4

LEMMA SetBlockFacts ==
  ASSUME NEW t \in Totals, NEW v, NEW ino, Sound(t, v, ino), NEW n \in Inodes(t),
         NEW i \in Nat, NEW b \in DataArea(t), b \in v.blockBits, Loose(v, ino, b)
  PROVE  BlockIsSet(t, v, ino, n, i, b, SetBlock(v, ino[n], i, b))
<1>1. CASE i < DirectBlocks
  <2>1. i \in 0 .. (DirectBlocks - 1)
    BY <1>1, Params
  <2>2. QED
    BY <2>1, SetDirect
<1>2. CASE ~(i < DirectBlocks)
  BY <1>2, SetSingle, SetDouble
<1>3. QED
  BY <1>1, <1>2

-----------------------------------------------------------------------------
(***************************************************************************)
(* free_inode_blocks, of an inode without blocks of pointers.              *)
(***************************************************************************)
LEMMA FreeTyped ==
  ASSUME NEW t \in Totals, NEW v \in Volumes(t), NEW b \in Pointees(t)
  PROVE  FreeBlock(v, b) \in Volumes(t) /\ (b = 0 => FreeBlock(v, b) = v)
<1> DEFINE g == GroupOf(b)
           gr == [v.groups EXCEPT ![g].blocks = (@ + 1) % Word16]
           sb == [v.sb EXCEPT !.blocks = @ + 1]
           data == [v.data EXCEPT ![b] = Nothing]
<1>1. CASE ~Freeable(v, b)
  BY <1>1 DEF FreeBlock
<1>2. CASE Freeable(v, b)
  <2>1. b # 0 /\ g \in Groups(t)
    BY <1>2 DEF Freeable, Volumes
  <2>2. FreeBlock(v, b) = [v EXCEPT !.blockBits = v.blockBits \ {b}, !.data = data,
                                    !.groups = gr, !.sb = sb]
    BY <1>2 DEF FreeBlock
  <2> HIDE DEF g
  <2>3. /\ v.groups \in [Groups(t) -> [blocks : Nat, inodes : Nat, dirs : Nat]]
        /\ v.sb \in [blocks : Nat, inodes : Nat] /\ v.blockBits \subseteq Bits(t)
        /\ v.data \in [Blocks(t) -> Contents(t)]
    BY DEF Volumes
  <2>4. (\A k \in Nat : (k + 1) % Word16 \in Nat)
    BY DEF Word16
  <2>5. gr \in [Groups(t) -> [blocks : Nat, inodes : Nat, dirs : Nat]]
    BY <2>1, <2>3, <2>4
  <2>6. sb \in [blocks : Nat, inodes : Nat]
    BY <2>3
  <2>7. data \in [Blocks(t) -> Contents(t)]
    BY <2>3, ContentMade
  <2> HIDE DEF gr, sb, data
  <2>8. FreeBlock(v, b) \in Volumes(t)
    BY <2>2, <2>3, <2>5, <2>6, <2>7 DEF Volumes
  <2>9. QED
    BY <2>1, <2>8
<1>3. QED
  BY <1>1, <1>2 DEF Freeable

(* A block is given back and the inode no longer points to it.             *)
LEMMA LetGo ==
  ASSUME NEW t \in Totals, NEW v, NEW ino, Sound(t, v, ino), NEW n \in Inodes(t),
         NEW k \in 0 .. Double, NEW x \in InodesOf(t),
         x.block = [ino[n].block EXCEPT ![k] = 0]
  PROVE  LET w == FreeBlock(v, ino[n].block[k])
         IN  Sound(t, w, [ino EXCEPT ![n] = x]) /\ Frame(t, v, w)
<1> DEFINE b == ino[n].block[k]
           w == FreeBlock(v, b)
           jno == [ino EXCEPT ![n] = x]
           z == <<0, n, k>>
<1>1. v \in Volumes(t) /\ Solid(v) /\ Apart(v, ino) /\ ino \in Inos(t) /\ v.total = t
  BY DEF Sound, Volumes
<1>2. b \in Pointees(t)
  <2>1. ino[n] \in InodesOf(t)
    BY <1>1 DEF Inos
  <2>2. QED
    BY <2>1 DEF InodesOf
<1>3. jno \in Inos(t) /\ z \in Slots(t) /\ OneSlot(t, v, v, ino, jno, z, 0) /\ At(v, ino, z) = b
  BY <1>1, SlotSet
<1> HIDE DEF b, jno, z
<1>4. Apart(v, jno)
  BY <1>1, <1>3, OneSlotApart
<1>5. CASE b = 0
  <2>1. w = v
    BY <1>1, <1>2, <1>5, FreeTyped
  <2>2. Frame(t, v, v)
    BY DEF Frame
  <2>3. Sound(t, v, jno)
    BY <1>1, <1>3, <1>4 DEF Sound
  <2> HIDE DEF w
  <2>4. QED
    BY <2>1, <2>2, <2>3 DEF w, jno, b
<1>6. CASE b # 0
  <2>1. b \in DataArea(t) /\ b \in v.blockBits
    BY <1>1, <1>2, <1>3, <1>6 DEF Pointees, Apart
  <2>2. Loose(v, jno, b)
    BY <1>1, <1>3, <1>6 DEF Loose, Apart, OneSlot
  <2>3. w \in Volumes(t) /\ Solid(w) /\ Gave(v, w, b)
    BY <1>1, <2>1, FreeFacts
  <2> HIDE DEF w
  <2>4. Apart(w, jno)
    BY <1>1, <1>3, <1>4, <2>1, <2>2, <2>3, GaveApart
  <2>5. Frame(t, v, w)
    <3>1. \A y \in Blocks(t) : Records(w, y) = IF y = b THEN <<>> ELSE Records(v, y)
      BY <1>1, <2>1, <2>3, DataChanged, NothingHeld DEF Gave
    <3>2. QED
      BY <2>3, <3>1 DEF Frame, Gave
  <2>6. Sound(t, w, jno)
    BY <1>3, <2>3, <2>4 DEF Sound
  <2>7. QED
    BY <2>5, <2>6 DEF w, jno, b
<1>7. QED
  BY <1>5, <1>6

(* An inode without its first i blocks.                                    *)
Shorter(in, i) == [in EXCEPT !.block = [k \in 0 .. Double |-> IF k < i THEN 0 ELSE in.block[k]]]

LEMMA ShorterFacts ==
  ASSUME NEW t, NEW in \in InodesOf(t), NEW i \in Nat
  PROVE  /\ Shorter(in, i) \in InodesOf(t)
         /\ \A k \in 0 .. Double : Shorter(in, i).block[k] = IF k < i THEN 0 ELSE in.block[k]
         /\ Shorter(in, 0) = in
         /\ i \in 0 .. Double =>
              Shorter(in, i + 1).block = [Shorter(in, i).block EXCEPT ![i] = 0]
<1> DEFINE bs(j) == [k \in 0 .. Double |-> IF k < j THEN 0 ELSE in.block[k]]
<1>1. in.block \in [0 .. Double -> Pointees(t)]
      /\ in \in [type : {"none", "file", "dir"}, size : Nat, block : [0 .. Double -> Pointees(t)]]
  BY DEF InodesOf
<1>2. \A j \in Nat : bs(j) \in [0 .. Double -> Pointees(t)]
  BY <1>1 DEF Pointees
<1>3. \A j : Shorter(in, j) = [in EXCEPT !.block = bs(j)]
  BY DEF Shorter
<1>4. bs(0) = in.block
  <2>1. \A k \in 0 .. Double : ~(k < 0)
    BY BlockLimits
  <2>2. QED
    BY <1>1, <2>1
<1>5. i \in 0 .. Double => bs(i + 1) = [bs(i) EXCEPT ![i] = 0]
  <2>1. \A k \in 0 .. Double : k < i + 1 <=> (k < i \/ k = i)
    BY BlockLimits
  <2>2. QED
    BY <2>1
<1>6. \A k \in 0 .. Double : bs(i)[k] = IF k < i THEN 0 ELSE in.block[k]
  OBVIOUS
<1> HIDE DEF bs
<1>7. \A j \in Nat : Shorter(in, j) \in InodesOf(t) /\ Shorter(in, j).block = bs(j)
  BY <1>1, <1>2, <1>3 DEF InodesOf
<1>8. Shorter(in, 0) = in
  BY <1>1, <1>3, <1>4
<1>9. i + 1 \in Nat
  OBVIOUS
<1>10. QED
  BY <1>5, <1>6, <1>7, <1>8, <1>9

(* The same blocks, whatever else an inode says.                           *)
LEMMA SameSlots ==
  ASSUME NEW t \in Totals, NEW v, NEW ino, Sound(t, v, ino), NEW n \in Inodes(t),
         NEW x \in InodesOf(t),
         \A k \in 0 .. Double : x.block[k] \in {0, ino[n].block[k]}
  PROVE  Sound(t, v, [ino EXCEPT ![n] = x])
         /\ \A y : Loose(v, ino, y) /\ y # 0 => Loose(v, [ino EXCEPT ![n] = x], y)
<1> DEFINE jno == [ino EXCEPT ![n] = x]
<1>1. v.total = t
  BY DEF Sound, Volumes
<1>2. jno \in Inos(t) /\ \A m \in Inodes(t) : jno[m] = IF m = n THEN x ELSE ino[m]
  BY DEF Sound, Inos
<1> HIDE DEF jno
<1>3. ASSUME NEW s \in Slots(t) PROVE At(v, jno, s) \in {0, At(v, ino, s)}
  <2>1. CASE \E m \in Inodes(t), i \in 0 .. Double : s = <<0, m, i>>
    <3>1. PICK m \in Inodes(t), i \in 0 .. Double : s = <<0, m, i>>
      BY <2>1
    <3>2. At(v, jno, s) = jno[m].block[i] /\ At(v, ino, s) = ino[m].block[i]
      BY <3>1, SlotsAt
    <3>3. QED
      BY <1>2, <3>2
  <2>2. CASE \E y \in Blocks(t), i \in 0 .. (PtrsPerBlock - 1) : s = <<1, y, i>>
    <3>1. PICK y \in Blocks(t), i \in 0 .. (PtrsPerBlock - 1) : s = <<1, y, i>>
      BY <2>2
    <3>2. At(v, jno, s) = Pointers(v, y)[i] /\ At(v, ino, s) = Pointers(v, y)[i]
      BY <3>1, SlotsAt
    <3>3. QED
      BY <3>2
  <2>3. QED
    BY <2>1, <2>2, SlotKinds
<1>4. Apart(v, jno)
  <2>1. ASSUME NEW s \in Slots(t), At(v, jno, s) # 0
        PROVE  At(v, jno, s) = At(v, ino, s) /\ At(v, ino, s) \in v.blockBits
    BY <1>1, <1>3, <2>1 DEF Apart, Sound
  <2>2. QED
    BY <1>1, <2>1, ApartFewer DEF Sound
<1>5. QED
  BY <1>1, <1>2, <1>3, <1>4 DEF Sound, Loose, jno

LEMMA FreeDirectSteps ==
  ASSUME NEW t \in Totals, NEW v \in Volumes(t), NEW in \in InodesOf(t)
  PROVE  \E freed \in [0 .. DirectBlocks -> Volumes(t)] :
           /\ freed[0] = v
           /\ \A i \in 1 .. DirectBlocks : freed[i] = FreeBlock(freed[i - 1], in.block[i - 1])
           /\ FreeDirect(v, in) = freed[DirectBlocks]
<1> DEFINE n == DirectBlocks
           T == Volumes(t)
           next == [x \in (1 .. n) \X T |-> FreeBlock(x[2], in.block[x[1] - 1])]
<1>1. n \in Nat
  BY Params
<1>2. \A i \in 1 .. n : in.block[i - 1] \in Pointees(t)
  <2>1. \A i \in 1 .. n : i - 1 \in 0 .. Double
    BY Params DEF Double
  <2>2. QED
    BY <2>1 DEF InodesOf
<1>3. next \in [(1 .. n) \X T -> T]
  <2>1. ASSUME NEW x \in (1 .. n) \X T PROVE FreeBlock(x[2], in.block[x[1] - 1]) \in T
    <3>1. x[1] \in 1 .. n /\ x[2] \in T
      OBVIOUS
    <3>2. QED
      BY <1>2, <3>1, FreeTyped
  <2>2. QED
    BY <2>1
<1>4. PICK at \in [0 .. n -> T] :
        at = [i \in 0 .. n |-> IF i = 0 THEN v ELSE next[<<i, at[i - 1]>>]]
  <2> HIDE DEF next, n
  <2>1. Iterated(n, T, v, next)
    BY ONLY <1>1, <1>3, v \in Volumes(t), Iteration
  <2>2. QED
    BY ONLY <2>1 DEF Iterated
<1>5. at = [i \in 0 .. n |-> IF i = 0 THEN v ELSE FreeBlock(at[i - 1], in.block[i - 1])]
  <2>1. ASSUME NEW i \in 0 .. n, i # 0
        PROVE  next[<<i, at[i - 1]>>] = FreeBlock(at[i - 1], in.block[i - 1])
    <3>1. <<i, at[i - 1]>> \in (1 .. n) \X T
      BY <1>1, <2>1
    <3>2. QED
      BY <3>1
  <2> HIDE DEF next, n
  <2>2. QED
    BY <1>4, <2>1
<1> DEFINE freed == CHOOSE f :
             f = [i \in 0 .. n |-> IF i = 0 THEN v ELSE FreeBlock(f[i - 1], in.block[i - 1])]
<1>6. freed = [i \in 0 .. n |-> IF i = 0 THEN v ELSE FreeBlock(freed[i - 1], in.block[i - 1])]
  BY <1>5
<1>7. FreeDirect(v, in) = freed[n]
  BY DEF FreeDirect
<1> HIDE DEF freed, n
<1>8. freed[0] = v /\ \A i \in 1 .. n : freed[i] = FreeBlock(freed[i - 1], in.block[i - 1])
  <2>1. 0 \in 0 .. n /\ \A i \in 1 .. n : i \in 0 .. n /\ i # 0
    BY <1>1
  <2>2. QED
    BY <1>6, <2>1
<1> DEFINE Fine == {i \in Nat : i <= n => freed[i] \in T}
<1>9. 0 \in Fine
  BY <1>8
<1>10. ASSUME NEW i \in Nat, i \in Fine PROVE i + 1 \in Fine
  <2>1. SUFFICES ASSUME i + 1 <= n PROVE freed[i + 1] \in T
    OBVIOUS
  <2>2. freed[i] \in T /\ i + 1 \in 1 .. n /\ (i + 1) - 1 = i
    BY <1>1, <1>10, <2>1
  <2>3. QED
    BY <1>2, <1>8, <2>2, FreeTyped
<1>11. Nat \subseteq Fine
  <2> HIDE DEF Fine
  <2>1. QED
    BY <1>9, <1>10, Induction
<1>12. freed \in [0 .. n -> T]
  <2>1. \A i \in 0 .. n : freed[i] \in T
    BY <1>1, <1>11
  <2> HIDE DEF Fine, T
  <2>2. freed = [i \in 0 .. n |-> freed[i]]
    BY <1>6
  <2>3. QED
    BY <2>1, <2>2, Zenon
<1>13. QED
  BY <1>7, <1>8, <1>12 DEF n

LEMMA FreeDirectFacts ==
  ASSUME NEW t \in Totals, NEW v, NEW ino, Sound(t, v, ino), NEW n \in Inodes(t)
  PROVE  LET w == FreeDirect(v, ino[n])
         IN  /\ Sound(t, w, [ino EXCEPT ![n] = Shorter(ino[n], DirectBlocks)])
             /\ Frame(t, v, w)
<1> DEFINE in == ino[n]
           w == FreeDirect(v, in)
           Jno(i) == [ino EXCEPT ![n] = Shorter(in, i)]
<1>1. v \in Volumes(t) /\ ino \in Inos(t)
  BY DEF Sound
<1>1a. in \in InodesOf(t)
  BY <1>1 DEF Inos
<1> HIDE DEF w
<1>2. PICK freed \in [0 .. DirectBlocks -> Volumes(t)] :
           /\ freed[0] = v
           /\ \A i \in 1 .. DirectBlocks : freed[i] = FreeBlock(freed[i - 1], in.block[i - 1])
           /\ w = freed[DirectBlocks]
  BY <1>1, <1>1a, FreeDirectSteps DEF w
<1> DEFINE Fine == {i \in Nat : i <= DirectBlocks =>
                      Sound(t, freed[i], Jno(i)) /\ Frame(t, v, freed[i])}
<1>3. 0 \in Fine
  <2>1. Shorter(in, 0) = in
    BY <1>1a, ShorterFacts
  <2>2. Jno(0) = ino
    BY <1>1, <2>1 DEF Inos
  <2>3. Frame(t, v, v)
    BY DEF Frame
  <2>4. QED
    BY <1>2, <2>2, <2>3
<1>4. ASSUME NEW i \in Nat, i \in Fine PROVE i + 1 \in Fine
  <2>1. SUFFICES ASSUME i + 1 <= DirectBlocks
                 PROVE  Sound(t, freed[i + 1], Jno(i + 1)) /\ Frame(t, v, freed[i + 1])
    OBVIOUS
  <2>2. /\ Sound(t, freed[i], Jno(i)) /\ Frame(t, v, freed[i])
        /\ i + 1 \in 1 .. DirectBlocks /\ (i + 1) - 1 = i /\ i \in 0 .. DirectBlocks - 1
        /\ i \in 0 .. Double
    BY SMTT(60), <1>4, <2>1, Params, BlockLimits
  <2> DEFINE u == freed[i]
             jno == Jno(i)
             x == Shorter(in, i + 1)
  <2>3. jno[n] = Shorter(in, i) /\ \A y : [jno EXCEPT ![n] = y] = [ino EXCEPT ![n] = y]
    BY <1>1 DEF Inos
  <2>4. /\ x \in InodesOf(t) /\ x.block = [jno[n].block EXCEPT ![i] = 0]
        /\ jno[n].block[i] = in.block[i]
    <3>1. /\ Shorter(in, i).block[i] = in.block[i]
          /\ x.block = [Shorter(in, i).block EXCEPT ![i] = 0]
      <4>1. PICK c \in InodesOf(t) : c = in
        BY <1>1a
      <4>2. /\ \A k \in 0 .. Double : Shorter(c, i).block[k] = IF k < i THEN 0 ELSE c.block[k]
            /\ Shorter(c, i + 1).block = [Shorter(c, i).block EXCEPT ![i] = 0]
        <5>1. i \in 0 .. Double /\ i \in Nat
          BY <2>2
        <5>2. /\ \A k \in 0 .. Double : Shorter(c, i).block[k] = IF k < i THEN 0 ELSE c.block[k]
              /\ i \in 0 .. Double =>
                   Shorter(c, i + 1).block = [Shorter(c, i).block EXCEPT ![i] = 0]
          BY ShorterFacts
        <5>3. QED
          BY <5>1, <5>2
      <4>3. ~(i < i)
        OBVIOUS
      <4>4. QED
        BY <2>2, <4>1, <4>2, <4>3
    <3>2. i + 1 \in Nat
      OBVIOUS
    <3>3. x \in InodesOf(t)
      BY <1>1a, <3>2, ShorterFacts
    <3> HIDE DEF jno, x
    <3>4. QED
      BY <2>3, <3>1, <3>3
  <2>5. freed[i + 1] = FreeBlock(u, jno[n].block[i])
    BY <1>2, <2>2, <2>4
  <2>6. [jno EXCEPT ![n] = x] = Jno(i + 1)
    BY <2>3
  <2> HIDE DEF jno, x
  <2>7. Sound(t, FreeBlock(u, jno[n].block[i]), [jno EXCEPT ![n] = x])
        /\ Frame(t, u, FreeBlock(u, jno[n].block[i]))
    BY <2>2, <2>4, LetGo DEF jno
  <2>8. Sound(t, freed[i + 1], Jno(i + 1)) /\ Frame(t, u, freed[i + 1])
    BY <2>5, <2>6, <2>7
  <2>9. Frame(t, v, freed[i + 1])
    BY <2>2, <2>8 DEF Frame
  <2>10. QED
    BY <2>8, <2>9
<1>5. Nat \subseteq Fine
  <2> HIDE DEF Fine
  <2>1. QED
    BY <1>3, <1>4, Induction
<1>6. Sound(t, freed[DirectBlocks], Jno(DirectBlocks)) /\ Frame(t, v, freed[DirectBlocks])
  BY <1>5, Params
<1>7. QED
  BY <1>2, <1>6 DEF w

LEMMA FreeInodeBlocksFacts ==
  ASSUME NEW t \in Totals, NEW v, NEW ino, Sound(t, v, ino), NEW n \in Inodes(t),
         ino[n].block[Single] = 0, ino[n].block[Double] = 0,
         NEW x \in InodesOf(t), \A k \in 0 .. Double : x.block[k] = 0
  PROVE  LET w == FreeInodeBlocks(v, ino[n])
         IN  Sound(t, w, [ino EXCEPT ![n] = x]) /\ Frame(t, v, w)
<1> DEFINE w == FreeDirect(v, ino[n])
           y == Shorter(ino[n], DirectBlocks)
           jno == [ino EXCEPT ![n] = y]
<1>1. FreeInodeBlocks(v, ino[n]) = w
  BY DEF FreeInodeBlocks, FreeSingle, FreeDouble
<1>2. Sound(t, w, jno) /\ Frame(t, v, w)
  BY FreeDirectFacts
<1> HIDE DEF w, y
<1>3. jno[n] = y /\ [jno EXCEPT ![n] = x] = [ino EXCEPT ![n] = x]
  BY DEF Sound, Inos
<1> HIDE DEF jno
<1>4. Sound(t, w, [jno EXCEPT ![n] = x])
  BY <1>2, SameSlots
<1>5. QED
  BY <1>1, <1>2, <1>3, <1>4

-----------------------------------------------------------------------------
(* An element put into a sequence, or taken out of it, moves those behind. *)
LEMMA InsertAtFacts ==
  ASSUME NEW S, NEW s \in Seq(S), NEW e \in S, NEW k \in 1 .. Len(s) + 1
  PROVE  /\ InsertAt(s, k, e) \in Seq(S)
         /\ Len(InsertAt(s, k, e)) = Len(s) + 1
         /\ \A j \in 1 .. Len(s) + 1 :
              InsertAt(s, k, e)[j] = IF j < k THEN s[j] ELSE IF j = k THEN e ELSE s[j - 1]
<1> DEFINE a == SubSeq(s, 1, k - 1)
           b == SubSeq(s, k, Len(s))
<1>1. Len(s) \in Nat /\ k \in Int /\ \A i \in 1 .. Len(s) : s[i] \in S
  BY LenProperties, ElementOfSeq
<1>2. /\ a \in Seq(S) /\ Len(a) = k - 1
      /\ \A i \in 1 .. k - 1 : a[i] = s[i]
  <2>1. \A i \in 1 .. k - 1 : s[i] \in S
    BY <1>1
  <2>2. /\ a \in Seq(S)
        /\ Len(a) = IF 1 <= k - 1 THEN k - 1 - 1 + 1 ELSE 0
        /\ \A i \in 1 .. k - 1 - 1 + 1 : a[i] = s[1 + i - 1]
    BY <1>1, <2>1, SubSeqProperties
  <2>3. QED
    BY <1>1, <2>2
<1>3. /\ b \in Seq(S) /\ Len(b) = Len(s) - k + 1
      /\ \A i \in 1 .. Len(s) - k + 1 : b[i] = s[k + i - 1]
  <2>1. \A i \in k .. Len(s) : s[i] \in S
    BY <1>1
  <2>2. QED
    BY <1>1, <2>1, SubSeqProperties
<1>4. <<e>> \in Seq(S) /\ Len(<<e>>) = 1 /\ <<e>>[1] = e
  OBVIOUS
<1> HIDE DEF a, b
<1>5. /\ a \o <<e>> \in Seq(S) /\ Len(a \o <<e>>) = k
      /\ \A i \in 1 .. k : (a \o <<e>>)[i] = IF i < k THEN a[i] ELSE e
  BY <1>1, <1>2, <1>4, ConcatProperties
<1>6. /\ a \o <<e>> \o b \in Seq(S) /\ Len(a \o <<e>> \o b) = Len(s) + 1
      /\ \A i \in 1 .. Len(s) + 1 :
           (a \o <<e>> \o b)[i] = IF i <= k THEN (a \o <<e>>)[i] ELSE b[i - k]
  BY <1>1, <1>3, <1>5, ConcatProperties
<1>7. InsertAt(s, k, e) = a \o <<e>> \o b
  BY DEF InsertAt, a, b
<1>8. QED
  BY <1>1, <1>2, <1>3, <1>5, <1>6, <1>7

LEMMA RemoveAtFacts ==
  ASSUME NEW S, NEW s \in Seq(S), NEW k \in 1 .. Len(s)
  PROVE  /\ RemoveAt(s, k) \in Seq(S)
         /\ Len(RemoveAt(s, k)) = Len(s) - 1
         /\ \A j \in 1 .. Len(s) - 1 :
              RemoveAt(s, k)[j] = IF j < k THEN s[j] ELSE s[j + 1]
<1> DEFINE a == SubSeq(s, 1, k - 1)
           b == SubSeq(s, k + 1, Len(s))
<1>1. Len(s) \in Nat /\ k \in Int /\ \A i \in 1 .. Len(s) : s[i] \in S
  BY LenProperties, ElementOfSeq
<1>2. /\ a \in Seq(S) /\ Len(a) = k - 1
      /\ \A i \in 1 .. k - 1 : a[i] = s[i]
  <2>1. \A i \in 1 .. k - 1 : s[i] \in S
    BY <1>1
  <2>2. /\ a \in Seq(S)
        /\ Len(a) = IF 1 <= k - 1 THEN k - 1 - 1 + 1 ELSE 0
        /\ \A i \in 1 .. k - 1 - 1 + 1 : a[i] = s[1 + i - 1]
    BY <1>1, <2>1, SubSeqProperties
  <2>3. QED
    BY <1>1, <2>2
<1>3. /\ b \in Seq(S) /\ Len(b) = Len(s) - k
      /\ \A i \in 1 .. Len(s) - k : b[i] = s[k + i]
  <2>1. \A i \in k + 1 .. Len(s) : s[i] \in S
    BY <1>1
  <2>2. /\ b \in Seq(S)
        /\ Len(b) = IF k + 1 <= Len(s) THEN Len(s) - (k + 1) + 1 ELSE 0
        /\ \A i \in 1 .. Len(s) - (k + 1) + 1 : b[i] = s[(k + 1) + i - 1]
    BY <1>1, <2>1, SubSeqProperties
  <2>3. QED
    BY <1>1, <2>2
<1> HIDE DEF a, b
<1>4. /\ a \o b \in Seq(S) /\ Len(a \o b) = Len(s) - 1
      /\ \A i \in 1 .. Len(s) - 1 : (a \o b)[i] = IF i <= k - 1 THEN a[i] ELSE b[i - (k - 1)]
  BY <1>1, <1>2, <1>3, ConcatProperties
<1>5. RemoveAt(s, k) = a \o b
  BY DEF RemoveAt, a, b
<1>6. ASSUME NEW j \in k .. Len(s) - 1
      PROVE  b[j - (k - 1)] = s[j + 1]
  <2>1. j - (k - 1) \in 1 .. Len(s) - k /\ k + (j - (k - 1)) = j + 1
    BY <1>1
  <2>2. QED
    BY <1>3, <2>1
<1>7. QED
  BY <1>1, <1>2, <1>4, <1>5, <1>6

(***************************************************************************)
(* The records of a block, one of them added or taken away: where each of  *)
(* the new records was before, 0 for one that was not there.               *)
(***************************************************************************)
Moved(rs, qs, was, inode) ==
  /\ inode \notin Roster(rs) /\ OnceEach(rs)
  /\ \A i, j \in DOMAIN qs : was[i] = was[j] => i = j
  /\ \A j \in DOMAIN qs : IsNamed(qs[j]) =>
       IF was[j] = 0 THEN qs[j].inode = inode
       ELSE /\ was[j] \in DOMAIN rs /\ IsNamed(rs[was[j]])
            /\ rs[was[j]].inode = qs[j].inode

LEMMA RosterMoved ==
  ASSUME NEW rs, NEW qs, NEW was, NEW inode, Moved(rs, qs, was, inode)
  PROVE  OnceEach(qs) /\ Roster(qs) \subseteq Roster(rs) \cup {inode}
<1>1. ASSUME NEW i \in DOMAIN qs, NEW j \in DOMAIN qs, IsNamed(qs[i]), IsNamed(qs[j]),
             qs[i].inode = qs[j].inode
      PROVE  i = j
  <2>1. CASE was[i] = 0 /\ was[j] = 0
    BY <2>1 DEF Moved
  <2>2. CASE was[i] # 0 /\ was[j] # 0
    BY <1>1, <2>2 DEF OnceEach, Moved
  <2>3. ASSUME NEW k \in DOMAIN qs, NEW l \in DOMAIN qs, was[k] = 0, was[l] # 0,
               IsNamed(qs[k]), IsNamed(qs[l]), qs[k].inode = qs[l].inode
        PROVE  FALSE
    BY <2>3 DEF Roster, Moved
  <2>4. QED
    BY <1>1, <2>1, <2>2, <2>3
<1>2. ASSUME NEW x \in Roster(qs) PROVE x \in Roster(rs) \cup {inode}
  <2>1. PICK j \in DOMAIN qs : IsNamed(qs[j]) /\ x = qs[j].inode
    BY DEF Roster
  <2>2. QED
    BY <2>1 DEF Moved, Roster
<1>3. QED
  BY <1>1, <1>2 DEF OnceEach

LEMMA WithRecordFacts ==
  ASSUME NEW t \in Totals, NEW rs \in Seq(RecordsOf(t)), NEW k \in 1 .. Len(rs),
         HasRoom(rs[k]), NEW inode \in Inodes(t), NEW name \in Names,
         inode \notin Roster(rs), OnceEach(rs)
  PROVE  LET qs == WithRecord(rs, k, inode, name)
         IN  /\ qs \in Seq(RecordsOf(t)) /\ OnceEach(qs)
             /\ Roster(qs) \subseteq Roster(rs) \cup {inode}
<1> DEFINE R == RecordsOf(t)
           qs == WithRecord(rs, k, inode, name)
<1>0. inode \notin Roster(rs) /\ OnceEach(rs)
  OBVIOUS
<1>1. /\ Len(rs) \in Nat /\ DOMAIN rs = 1 .. Len(rs) /\ \A j \in 1 .. Len(rs) : rs[j] \in R
      /\ k \in Nat
  BY LenProperties, ElementOfSeq
<1>2. rs[k] \in R /\ rs[k].units \in Nat
  BY <1>1 DEF RecordsOf
<1>3. name \notin {".", ".."}
  BY Params
<1>4. \A u \in Nat : Record(inode, name, u) \in R
  BY <1>3 DEF Record, RecordsOf
<1>5. \A u : Record(inode, name, u).inode = inode
  BY DEF Record
<1>6. CASE rs[k].inode = 0
  <2> DEFINE new == Record(inode, name, rs[k].units)
             was == [j \in 1 .. Len(rs) |-> IF j = k THEN 0 ELSE j]
  <2>1. qs = [rs EXCEPT ![k] = new]
    BY <1>6 DEF WithRecord
  <2>2. new \in R /\ new.inode = inode
    BY <1>2, <1>4, <1>5
  <2> HIDE DEF new, R, qs
  <2>3. qs \in Seq(R) /\ Len(qs) = Len(rs)
        /\ \A j \in 1 .. Len(rs) : qs[j] = IF j = k THEN new ELSE rs[j]
    BY <1>1, <2>1, <2>2, ExceptSeq
  <2>4. DOMAIN qs = 1 .. Len(rs)
    BY <2>3, LenProperties
  <2>5. \A i, j \in DOMAIN qs : was[i] = was[j] => i = j
    BY <1>1, <2>4
  <2>6. \A j \in DOMAIN qs : IsNamed(qs[j]) =>
           IF was[j] = 0 THEN qs[j].inode = inode
           ELSE /\ was[j] \in DOMAIN rs /\ IsNamed(rs[was[j]])
                /\ rs[was[j]].inode = qs[j].inode
    BY <1>1, <2>2, <2>3, <2>4
  <2> HIDE DEF was
  <2>7. Moved(rs, qs, was, inode)
    BY <1>0, <2>5, <2>6 DEF Moved
  <2>8. OnceEach(qs) /\ Roster(qs) \subseteq Roster(rs) \cup {inode}
    BY <2>7, RosterMoved
  <2>9. QED
    BY <2>3, <2>8 DEF qs, R
<1>7. CASE rs[k].inode # 0
  <2> DEFINE one == [rs[k] EXCEPT !.units = 1]
             new == Record(inode, name, rs[k].units - 1)
             ps == [rs EXCEPT ![k] = one]
             was == [j \in 1 .. Len(rs) + 1 |->
                       IF j < k + 1 THEN j ELSE IF j = k + 1 THEN 0 ELSE j - 1]
  <2>1. qs = InsertAt(ps, k + 1, new)
    BY <1>7 DEF WithRecord
  <2>2. new \in R /\ new.inode = inode
    <3>1. rs[k].units - 1 \in Nat
      BY <1>2, <1>7 DEF HasRoom
    <3>2. QED
      BY <1>4, <1>5, <3>1
  <2>3. one \in R /\ one.inode = rs[k].inode /\ one.name = rs[k].name
    BY <1>2 DEF RecordsOf
  <2> HIDE DEF new, one, R, qs
  <2>4. ps \in Seq(R) /\ Len(ps) = Len(rs)
        /\ \A j \in 1 .. Len(rs) : ps[j] = IF j = k THEN one ELSE rs[j]
    BY <1>1, <2>3, ExceptSeq
  <2> HIDE DEF ps
  <2>5. k + 1 \in 1 .. Len(ps) + 1
    BY <1>1, <2>4
  <2>6. /\ qs \in Seq(R) /\ Len(qs) = Len(rs) + 1
        /\ \A j \in 1 .. Len(rs) + 1 :
             qs[j] = IF j < k + 1 THEN ps[j] ELSE IF j = k + 1 THEN new ELSE ps[j - 1]
    <3>1. /\ qs \in Seq(R) /\ Len(qs) = Len(ps) + 1
          /\ \A j \in 1 .. Len(ps) + 1 :
               qs[j] = IF j < k + 1 THEN ps[j] ELSE IF j = k + 1 THEN new ELSE ps[j - 1]
      <4>1. PICK m, S, p, e : m = k + 1 /\ S = R /\ p = ps /\ e = new
        OBVIOUS
      <4>2. p \in Seq(S) /\ e \in S /\ m \in 1 .. Len(p) + 1
        BY <2>2, <2>4, <2>5, <4>1
      <4>3. /\ InsertAt(p, m, e) \in Seq(S) /\ Len(InsertAt(p, m, e)) = Len(p) + 1
            /\ \A j \in 1 .. Len(p) + 1 :
                 InsertAt(p, m, e)[j] = IF j < m THEN p[j] ELSE IF j = m THEN e ELSE p[j - 1]
        <5>1. InsertAt(p, m, e) \in Seq(S)
          BY ONLY <4>2, InsertAtFacts
        <5>2. Len(InsertAt(p, m, e)) = Len(p) + 1
          BY ONLY <4>2, InsertAtFacts
        <5>3. \A j \in 1 .. Len(p) + 1 :
                InsertAt(p, m, e)[j] = IF j < m THEN p[j] ELSE IF j = m THEN e ELSE p[j - 1]
          BY ONLY <4>2, InsertAtFacts
        <5>4. QED
          BY <5>1, <5>2, <5>3
      <4>4. QED
        BY <2>1, <4>1, <4>3
    <3>2. QED
      BY <2>4, <3>1
  <2>7. DOMAIN qs = 1 .. Len(rs) + 1
    BY <2>6, LenProperties
  <2>8. \A i, j \in DOMAIN qs : was[i] = was[j] => i = j
    BY <1>1, <2>7
  <2>9. \A j \in 1 .. Len(rs) : ps[j].inode = rs[j].inode /\ ps[j].name = rs[j].name
    BY <2>3, <2>4
  <2>10. ASSUME NEW j \in DOMAIN qs, IsNamed(qs[j])
         PROVE  IF was[j] = 0 THEN qs[j].inode = inode
                ELSE /\ was[j] \in DOMAIN rs /\ IsNamed(rs[was[j]])
                     /\ rs[was[j]].inode = qs[j].inode
    <3>1. CASE j < k + 1
      <4>1. j \in 1 .. Len(rs) /\ was[j] = j /\ j # 0
        BY <1>1, <2>7, <3>1
      <4> HIDE DEF was
      <4>2. qs[j] = ps[j]
        BY <2>6, <2>7, <3>1
      <4>3. QED
        BY <1>1, <2>9, <2>10, <4>1, <4>2 DEF IsNamed
    <3>2. CASE j = k + 1
      <4>1. was[j] = 0 /\ ~(j < k + 1)
        BY <1>1, <2>7, <3>2
      <4> HIDE DEF was
      <4>2. QED
        BY <2>2, <2>6, <2>7, <3>2, <4>1
    <3>3. CASE ~(j < k + 1) /\ j # k + 1
      <4>1. j - 1 \in 1 .. Len(rs) /\ was[j] = j - 1 /\ j - 1 # 0
        BY <1>1, <2>7, <3>3
      <4> HIDE DEF was
      <4>2. qs[j] = ps[j - 1]
        BY <2>6, <2>7, <3>3
      <4>3. QED
        BY <1>1, <2>9, <2>10, <4>1, <4>2 DEF IsNamed
    <3>4. QED
      BY <3>1, <3>2, <3>3
  <2> HIDE DEF was
  <2>11. Moved(rs, qs, was, inode)
    BY <1>0, <2>8, <2>10 DEF Moved
  <2>12. OnceEach(qs) /\ Roster(qs) \subseteq Roster(rs) \cup {inode}
    BY <2>11, RosterMoved
  <2>13. QED
    BY <2>6, <2>12 DEF qs, R
<1>8. QED
  BY <1>6, <1>7

LEMMA WithoutRecordFacts ==
  ASSUME NEW t \in Totals, NEW rs \in Seq(RecordsOf(t)), NEW k \in 1 .. Len(rs),
         IsNamed(rs[k]), OnceEach(rs)
  PROVE  LET qs == WithoutRecord(rs, k)
         IN  /\ qs \in Seq(RecordsOf(t)) /\ OnceEach(qs)
             /\ Roster(qs) \subseteq Roster(rs) \ {rs[k].inode}
<1> DEFINE R == RecordsOf(t)
           qs == WithoutRecord(rs, k)
<1>1. /\ Len(rs) \in Nat /\ DOMAIN rs = 1 .. Len(rs) /\ \A j \in 1 .. Len(rs) : rs[j] \in R
      /\ k \in Nat
  BY LenProperties, ElementOfSeq
<1>2. rs[k] \in R /\ rs[k].units \in Nat /\ rs[k].name \notin {".", ".."}
  BY <1>1 DEF RecordsOf, IsNamed
<1>3. PICK none : none \notin Roster(rs)
  <2>1. Roster(rs) \subseteq Inodes(t) /\ 0 \notin Inodes(t)
    BY RosterNumbers, InodeNumbers
  <2>2. QED
    BY <2>1
<1>4. CASE k = 1
  <2> DEFINE gap == [rs[1] EXCEPT !.inode = 0]
             was == [j \in 1 .. Len(rs) |-> j]
  <2>1. qs = [rs EXCEPT ![1] = gap]
    BY <1>4 DEF WithoutRecord
  <2>2. gap \in R /\ gap.inode = 0
    BY <1>2, <1>4 DEF RecordsOf
  <2> HIDE DEF gap, R, qs
  <2>3. qs \in Seq(R) /\ Len(qs) = Len(rs)
        /\ \A j \in 1 .. Len(rs) : qs[j] = IF j = 1 THEN gap ELSE rs[j]
    BY <1>1, <1>4, <2>1, <2>2, ExceptSeq
  <2>4. DOMAIN qs = 1 .. Len(rs)
    BY <2>3, LenProperties
  <2>5. \A i, j \in DOMAIN qs : was[i] = was[j] => i = j
    BY <2>4
  <2>6. \A j \in DOMAIN qs : IsNamed(qs[j]) => qs[j] = rs[j] /\ j # 1
    BY <2>2, <2>3, <2>4 DEF IsNamed
  <2>7. \A j \in DOMAIN qs : IsNamed(qs[j]) =>
           IF was[j] = 0 THEN qs[j].inode = none
           ELSE /\ was[j] \in DOMAIN rs /\ IsNamed(rs[was[j]])
                /\ rs[was[j]].inode = qs[j].inode
    BY <1>1, <2>4, <2>6
  <2> HIDE DEF was
  <2>8. OnceEach(qs)
    <3>1. Moved(rs, qs, was, none)
      BY <1>3, <2>5, <2>7 DEF Moved
    <3>2. QED
      BY <3>1, RosterMoved
  <2>9. Roster(qs) \subseteq Roster(rs) \ {rs[k].inode}
    BY <1>1, <1>4, <2>4, <2>6 DEF Roster, OnceEach
  <2>10. QED
    BY <2>3, <2>8, <2>9 DEF qs, R
<1>5. CASE k # 1
  <2> DEFINE wider == [rs[k - 1] EXCEPT !.units = @ + rs[k].units]
             ps == [rs EXCEPT ![k - 1] = wider]
             was == [j \in 1 .. Len(rs) - 1 |-> IF j < k THEN j ELSE j + 1]
  <2>1. qs = RemoveAt(ps, k)
    BY <1>5 DEF WithoutRecord
  <2>2. k - 1 \in 1 .. Len(rs) /\ k - 1 # k
    BY <1>1, <1>5
  <2>3. rs[k - 1] \in R
    BY <1>1, <2>2
  <2>4. wider \in R /\ wider.inode = rs[k - 1].inode /\ wider.name = rs[k - 1].name
    BY SMTT(60), <1>2, <2>3 DEF RecordsOf
  <2> HIDE DEF wider, R, qs
  <2>5. ps \in Seq(R) /\ Len(ps) = Len(rs)
        /\ \A j \in 1 .. Len(rs) : ps[j] = IF j = k - 1 THEN wider ELSE rs[j]
    BY <1>1, <2>2, <2>4, ExceptSeq
  <2> HIDE DEF ps
  <2>6. /\ qs \in Seq(R) /\ Len(qs) = Len(rs) - 1
        /\ \A j \in 1 .. Len(rs) - 1 : qs[j] = IF j < k THEN ps[j] ELSE ps[j + 1]
    BY ZenonT(60), <2>1, <2>5, RemoveAtFacts
  <2>7. DOMAIN qs = 1 .. Len(rs) - 1
    BY <2>6, LenProperties
  <2>8. \A i, j \in DOMAIN qs : was[i] = was[j] => i = j
    BY <1>1, <2>7
  <2>9. \A j \in 1 .. Len(rs) : ps[j].inode = rs[j].inode /\ ps[j].name = rs[j].name
    BY <2>4, <2>5
  <2>10. ASSUME NEW j \in DOMAIN qs
         PROVE  /\ was[j] \in DOMAIN rs /\ was[j] # 0 /\ was[j] # k
                /\ rs[was[j]].inode = qs[j].inode /\ rs[was[j]].name = qs[j].name
    <3>1. was[j] \in 1 .. Len(rs) /\ was[j] # 0 /\ was[j] # k /\ qs[j] = ps[was[j]]
      BY <1>1, <2>6, <2>7
    <3> HIDE DEF was
    <3>2. QED
      BY <1>1, <2>9, <3>1
  <2> HIDE DEF was
  <2>11. \A j \in DOMAIN qs : IsNamed(qs[j]) =>
           IF was[j] = 0 THEN qs[j].inode = none
           ELSE /\ was[j] \in DOMAIN rs /\ IsNamed(rs[was[j]])
                /\ rs[was[j]].inode = qs[j].inode
    BY <2>10 DEF IsNamed
  <2>12. OnceEach(qs)
    <3>1. Moved(rs, qs, was, none)
      BY <1>3, <2>8, <2>11 DEF Moved
    <3>2. QED
      BY <3>1, RosterMoved
  <2>13. ASSUME NEW x \in Roster(qs) PROVE x \in Roster(rs) /\ x # rs[k].inode
    <3>1. PICK j \in DOMAIN qs : IsNamed(qs[j]) /\ x = qs[j].inode
      BY DEF Roster
    <3>2. was[j] \in DOMAIN rs /\ was[j] # k /\ IsNamed(rs[was[j]]) /\ x = rs[was[j]].inode
      BY <2>10, <2>11, <3>1
    <3>3. k \in DOMAIN rs
      BY <1>1
    <3>4. QED
      BY <3>2, <3>3 DEF Roster, OnceEach
  <2>14. QED
    BY <2>6, <2>12, <2>13 DEF qs, R
<1>6. QED
  BY <1>4, <1>5

-----------------------------------------------------------------------------
(***************************************************************************)
(* Directories.                                                            *)
(***************************************************************************)
LEMMA BlockOfSlot ==
  ASSUME NEW t \in Totals, NEW v \in Volumes(t), NEW ino \in Inos(t), NEW n \in Inodes(t),
         NEW i \in Nat
  PROVE  BlockOf(v, ino[n], i) = 0 \/ \E s \in Slots(t) : At(v, ino, s) = BlockOf(v, ino[n], i)
<1> DEFINE P == PtrsPerBlock
           one == i - DirectBlocks
           two == one - P
           in == ino[n]
           b == BlockOf(v, in, i)
<1>1. one \in Int /\ two \in Int /\ P \in Nat \ {0} /\ DirectBlocks \in Nat
  BY Params
<1>2. in \in InodesOf(t)
  BY DEF Inos
<1>3. ASSUME NEW x \in Pointees(t), NEW k \in 0 .. (P - 1)
      PROVE  /\ PointerAt(v, x, k) = 0 \/ \E s \in Slots(t) : At(v, ino, s) = PointerAt(v, x, k)
             /\ PointerAt(v, x, k) \in Pointees(t)
  <2>1. CASE x = 0
    BY <2>1 DEF PointerAt, Pointees
  <2>2. CASE x # 0
    <3>1. x \in Blocks(t)
      BY <2>2, DataFacts DEF Pointees
    <3>2. PointerAt(v, x, k) = Pointers(v, x)[k] /\ <<1, x, k>> \in Slots(t)
          /\ At(v, ino, <<1, x, k>>) = Pointers(v, x)[k]
      BY <2>2, <3>1, SlotsAt DEF PointerAt
    <3>3. QED
      BY <3>2, PointsToData
  <2>3. QED
    BY <2>1, <2>2
<1>4. CASE one < 0
  <2>1. b = in.block[i] /\ i \in 0 .. Double
    BY <1>1, <1>4, BlockLimits DEF BlockOf
  <2>2. <<0, n, i>> \in Slots(t) /\ At(v, ino, <<0, n, i>>) = in.block[i]
    BY <2>1, SlotsAt
  <2>3. QED
    BY <2>1, <2>2
<1>5. CASE ~(one < 0) /\ two < 0
  <2>1. one \in 0 .. (P - 1) /\ b = PointerAt(v, in.block[Single], one)
    BY <1>1, <1>5 DEF BlockOf
  <2>2. in.block[Single] \in Pointees(t)
    BY <1>2, BlockLimits DEF InodesOf
  <2> HIDE DEF b, one
  <2>3. QED
    BY <1>3, <2>1, <2>2 DEF b
<1>6. CASE ~(one < 0) /\ ~(two < 0) /\ two >= P * P
  <2>1. b = 0
    BY <1>6 DEF BlockOf
  <2>2. QED
    BY <2>1
<1>7. CASE ~(one < 0) /\ ~(two < 0) /\ ~(two >= P * P)
  <2>1. two \in Nat /\ two < P * P
    BY <1>1, <1>7
  <2>2. b = PointerAt(v, PointerAt(v, in.block[Double], two \div P), two % P)
    BY <1>7 DEF BlockOf
  <2> HIDE DEF b, two
  <2>3. two \div P \in 0 .. (P - 1) /\ two % P \in 0 .. (P - 1)
    BY <1>1, <2>1, Quotient
  <2>4. in.block[Double] \in Pointees(t)
    BY <1>2, BlockLimits DEF InodesOf
  <2>5. PointerAt(v, in.block[Double], two \div P) \in Pointees(t)
    BY <1>3, <2>3, <2>4
  <2>6. b = 0 \/ \E s \in Slots(t) : At(v, ino, s) = b
    BY <1>3, <2>2, <2>3, <2>5
  <2>7. QED
    BY <2>6 DEF b
<1>8. QED
  BY <1>4, <1>5, <1>6, <1>7

(* A place of a directory is that of a record in a block in use.           *)
IsPlace(t, v, d, p) ==
  /\ p \in Nat \X Nat
  /\ DirBlock(v, d, p) \in DataArea(t) /\ DirBlock(v, d, p) \in v.blockBits
  /\ p[2] \in 1 .. Len(Records(v, DirBlock(v, d, p)))
  /\ RecordAt(v, d, p) \in RecordsOf(t)

LEMMA PlacesFacts ==
  ASSUME NEW t \in Totals, NEW v, Sound(t, v, v.inode), NEW d \in Inodes(t),
         NEW p \in Places(v, d)
  PROVE  IsPlace(t, v, d, p)
<1>1. v \in Volumes(t) /\ v.inode \in Inos(t) /\ Apart(v, v.inode) /\ v.total = t
  BY DEF Sound, Volumes
<1>2. v.inode[d].size \in Nat
  BY <1>1 DEF Inos, InodesOf
<1>3. PICK i \in 0 .. (v.inode[d].size - 1) :
        p \in {i} \X DOMAIN Records(v, BlockOf(v, v.inode[d], i))
  BY DEF Places
<1> DEFINE b == BlockOf(v, v.inode[d], i)
           rs == Records(v, b)
<1>4. i \in Nat
  BY <1>2
<1>5. b \in Pointees(t) /\ (b # 0 => b \in v.blockBits)
  <2>1. b = 0 \/ \E s \in Slots(t) : At(v, v.inode, s) = b
    BY <1>1, <1>4, BlockOfSlot
  <2> HIDE DEF b
  <2>2. CASE b = 0
    BY <2>2 DEF Pointees
  <2>3. CASE b # 0
    <3>1. PICK s \in Slots(t) : At(v, v.inode, s) = b
      BY <2>1, <2>3
    <3>2. b \in Pointees(t)
      BY <1>1, <3>1, PointsToData
    <3>3. QED
      BY <1>1, <2>3, <3>1, <3>2 DEF Apart
  <2>4. QED
    BY <2>2, <2>3
<1> HIDE DEF b
<1>6. PICK k \in DOMAIN rs : p = <<i, k>>
  BY <1>3 DEF b
<1>7. b # 0
  BY <1>6 DEF Records
<1>8. b \in DataArea(t) /\ b \in v.blockBits
  BY <1>5, <1>7 DEF Pointees
<1>9. rs \in Seq(RecordsOf(t))
  BY <1>1, <1>8, DataFacts, Held
<1>10. DirBlock(v, d, p) = b /\ RecordAt(v, d, p) = rs[k] /\ p[2] = k
  BY <1>6 DEF DirBlock, RecordAt, b
<1> HIDE DEF rs
<1>11. k \in 1 .. Len(rs) /\ k \in Nat /\ rs[k] \in RecordsOf(t)
  BY <1>6, <1>9, LenProperties, ElementOfSeq
<1>12. QED
  BY <1>4, <1>6, <1>8, <1>10, <1>11 DEF IsPlace, rs

LEMMA FirstPlaceFacts ==
  ASSUME NEW t \in Totals, NEW v, Sound(t, v, v.inode), NEW d \in Inodes(t),
         NEW S \in SUBSET Places(v, d)
  PROVE  FirstPlace(S) # <<>> => FirstPlace(S) \in S /\ IsPlace(t, v, d, FirstPlace(S))
<1>1. CASE S = {}
  BY <1>1 DEF FirstPlace
<1>2. CASE S # {}
  <2>1. S \subseteq Nat \X Nat
    BY PlacesFacts DEF IsPlace
  <2>2. First(S) \in S
    BY <1>2, <2>1, FirstPair
  <2>3. QED
    BY <1>2, <2>2, PlacesFacts DEF FirstPlace
<1>3. QED
  BY <1>1, <1>2

(* An inode is written.                                                    *)
LEMMA InodeWritten ==
  ASSUME NEW t \in Totals, NEW v \in Volumes(t), Solid(v), NEW n \in Inodes(t),
         NEW y \in InodesOf(t), Apart(v, [v.inode EXCEPT ![n] = y])
  PROVE  LET w == [v EXCEPT !.inode[n] = y]
         IN  /\ Sound(t, w, w.inode) /\ w.inode = [v.inode EXCEPT ![n] = y]
             /\ SameBits(v, w) /\ w.data = v.data
<1> DEFINE ino == [v.inode EXCEPT ![n] = y]
           w == [v EXCEPT !.inode[n] = y]
<1>1. v.inode \in [Inodes(t) -> InodesOf(t)] /\ v.total = t
  BY DEF Volumes
<1>2. ino \in [Inodes(t) -> InodesOf(t)]
  BY <1>1
<1>3. w = [v EXCEPT !.inode = ino]
  OBVIOUS
<1> HIDE DEF ino, w
<1>4. w \in Volumes(t) /\ w.inode = ino /\ SameBits(v, w) /\ w.data = v.data /\ w.total = t
  BY <1>2, <1>3 DEF Volumes, SameBits
<1>5. BlocksCounted(w)
  <2>1. SameBlockCounts(v, w, t)
    BY <1>1, <1>4 DEF SameBlockCounts, SameBits
  <2>2. QED
    BY <2>1, BlocksSame DEF Solid
<1>6. InodesCounted(w)
  <2>1. SameInodeCounts(v, w, t)
    BY <1>1, <1>4 DEF SameInodeCounts, SameBits
  <2>2. QED
    BY <2>1, InodesSame DEF Solid
<1>7. NamedOnce(w)
  <2>1. \A x : Records(w, x) = Records(v, x)
    BY <1>4, SameContents
  <2>2. NamedOnce(v)
    BY DEF Solid
  <2>3. QED
    BY <1>1, <1>4, <2>1, <2>2, SameNames DEF SameBits
<1>8. Kept(w)
  BY <1>1, <1>4 DEF Kept, Solid, SameBits
<1>9. Apart(w, ino)
  <2>1. \A s : At(w, ino, s) = At(v, ino, s)
    BY <1>4, SameContents
  <2>2. Apart(v, ino)
    BY DEF ino
  <2>3. QED
    BY <1>1, <1>4, <2>1, <2>2 DEF Apart, SameBits
<1>10. ino \in Inos(t)
  BY <1>2 DEF Inos
<1>11. QED
  BY <1>4, <1>5, <1>6, <1>7, <1>8, <1>9, <1>10 DEF Sound, Solid, w, ino

(* add_dir_entry, for an inode that has no name yet.                       *)
EntryAdded(t, v, n, added) ==
  /\ added.ok \in BOOLEAN
  /\ Sound(t, added.volume, added.volume.inode)
  /\ ~added.ok => /\ added.volume.inode = v.inode
                  /\ InUse(added.volume, n) /\ Unnamed(added.volume, n)

LEMMA OneRecord ==
  ASSUME NEW t \in Totals, NEW n \in Inodes(t), NEW name \in Names
  PROVE  LET c == Dir(<<Record(n, name, DirUnits)>>)
         IN  /\ c \in Contents(t) /\ PtrsIn(c) = NoPtrs
             /\ OnceEach(RecordsIn(c)) /\ Roster(RecordsIn(c)) \subseteq {n}
<1> DEFINE r == Record(n, name, DirUnits)
           rs == <<r>>
           c == Dir(rs)
<1>1. r \in RecordsOf(t) /\ r.inode = n
  BY Params DEF Record, RecordsOf
<1> HIDE DEF r
<1>2. rs \in Seq(RecordsOf(t)) /\ DOMAIN rs = {1} /\ rs[1] = r
  BY <1>1
<1> HIDE DEF rs
<1>3. c \in Contents(t) /\ c.kind = "dir" /\ c.records = rs
  BY <1>2, ContentMade
<1> HIDE DEF c
<1>4. PtrsIn(c) = NoPtrs /\ RecordsIn(c) = rs
  BY <1>3 DEF PtrsIn, RecordsIn
<1>5. OnceEach(rs) /\ Roster(rs) \subseteq {n}
  BY <1>1, <1>2 DEF OnceEach, Roster
<1>6. QED
  BY <1>3, <1>4, <1>5 DEF c, rs, r

LEMMA GrowDirFacts ==
  ASSUME NEW t \in Totals, NEW v, Sound(t, v, v.inode), NEW d \in Inodes(t),
         NEW n \in Inodes(t), InUse(v, n), Unnamed(v, n), NEW name \in Names
  PROVE  EntryAdded(t, v, n, GrowDir(v, d, n, name))
<1> DEFINE a == AllocBlock(v)
           b == a.block
           u == a.volume
           c == Dir(<<Record(n, name, DirUnits)>>)
           w == Put(u, b, c)
           ino == v.inode
           size == ino[d].size
           set == SetBlock(w, ino[d], size, b)
           g == GrowDir(v, d, n, name)
<1>1. v \in Volumes(t) /\ Solid(v) /\ ino \in Inos(t) /\ Apart(v, ino) /\ v.total = t
  BY DEF Sound, Volumes
<1>2. /\ u \in Volumes(t) /\ Solid(u)
      /\ b = 0 => u = v
      /\ b # 0 => Took(v, u, b) /\ b \in DataArea(t)
  BY <1>1, AllocFacts
<1>3. size \in Nat
  BY <1>1 DEF Inos, InodesOf
<1>4. /\ b = 0 => g = [ok |-> FALSE, volume |-> v]
      /\ b # 0 => g = Grown(set, d, b)
  BY DEF GrowDir
<1> HIDE DEF g, a
<1>5. CASE b = 0
  <2>1. g.ok = FALSE /\ g.volume = v
    BY <1>4, <1>5
  <2>2. EntryAdded(t, v, n, g)
    BY <2>1 DEF EntryAdded
  <2>3. QED
    BY <2>2 DEF g
<1>6. CASE b # 0
  <2> HIDE DEF b, u, c
  <2>1. /\ c \in Contents(t) /\ PtrsIn(c) = NoPtrs
        /\ OnceEach(RecordsIn(c)) /\ Roster(RecordsIn(c)) \subseteq {n}
    BY OneRecord DEF c
  <2>2. Took(v, u, b) /\ b \in DataArea(t) /\ b \in u.blockBits /\ u.total = t
    BY <1>2, <1>6 DEF Took, Volumes
  <2>3. Apart(u, ino) /\ Loose(u, ino, b) /\ u.inode = ino
    BY <1>1, <1>2, <2>2, TookApart DEF Took
  <2>4. InUse(u, n) /\ Unnamed(u, n)
    <3>1. \A x : Records(u, x) = Records(v, x)
      BY <2>2, SameContents DEF Took
    <3>2. QED
      BY <1>1, <2>2, <3>1 DEF InUse, Unnamed, Took
  <2>5. /\ w \in Volumes(t) /\ SameBits(u, w) /\ w.inode = ino
        /\ w.data = [u.data EXCEPT ![b] = c]
    BY <1>2, <2>1, <2>2, <2>3, PutFacts
  <2>6. Solid(w)
    BY <1>2, <2>1, <2>2, <2>4, PutSolid
  <2>7. \A x \in Blocks(t) : Records(w, x) = IF x = b THEN RecordsIn(c) ELSE Records(u, x)
    BY <1>2, <2>2, <2>5, DataChanged
  <2> HIDE DEF w
  <2>8. Apart(w, ino) /\ Loose(w, ino, b) /\ b \in w.blockBits
    <3>1. b # 0
      BY <1>6
    <3>2. u.blockBits \subseteq w.blockBits
      BY <2>5 DEF SameBits
    <3>3. Apart(w, ino) /\ \A x : Loose(u, ino, x) /\ x # 0 => Loose(w, ino, x)
      BY <1>2, <2>1, <2>2, <2>3, <2>5, <3>2, PutApart
    <3>4. QED
      BY <2>2, <2>3, <3>1, <3>2, <3>3
  <2>9. Sound(t, w, ino)
    BY <1>1, <2>5, <2>6, <2>8 DEF Sound
  <2>10. BlockIsSet(t, w, ino, d, size, b, set)
    BY <1>3, <2>2, <2>8, <2>9, SetBlockFacts
  <2> HIDE DEF set
  <2>11. /\ set.inode \in InodesOf(t) /\ Frame(t, w, set.volume)
         /\ w.blockBits \subseteq set.volume.blockBits
         /\ set.ok => Sound(t, set.volume, [ino EXCEPT ![d] = set.inode])
         /\ ~set.ok => Sound(t, set.volume, ino) /\ Loose(set.volume, ino, b)
    BY <2>10 DEF BlockIsSet, Grew
  <2> DEFINE s == set.volume
  <2> HIDE DEF s
  <2>12. s.inode = ino /\ s.inodeBits = u.inodeBits
         /\ \A x \in Blocks(t) : Records(s, x) \in {<<>>, Records(w, x)}
    BY <2>5, <2>11 DEF Frame, SameBits, s
  <2>13. CASE set.ok
    <3> DEFINE y == [set.inode EXCEPT !.size = @ + 1]
               z == [s EXCEPT !.inode[d] = y]
    <3>1. g.ok = TRUE /\ g.volume = z
      <4>1. g = [ok |-> TRUE, volume |-> z]
        BY <1>4, <1>6, <2>13 DEF Grown, s
      <4>2. QED
        BY <4>1
    <3>2. y \in InodesOf(t) /\ y.block = set.inode.block
      BY <2>11 DEF InodesOf
    <3> HIDE DEF y
    <3>3. Sound(t, s, [ino EXCEPT ![d] = set.inode])
      BY <2>11, <2>13 DEF s
    <3> DEFINE jno == [ino EXCEPT ![d] = set.inode]
    <3>4. jno[d] = set.inode /\ [jno EXCEPT ![d] = y] = [ino EXCEPT ![d] = y]
      BY <1>1 DEF Inos
    <3> HIDE DEF jno
    <3>5. Sound(t, s, [jno EXCEPT ![d] = y])
      BY <3>2, <3>3, <3>4, SameSlots DEF jno
    <3>6. Apart(s, [s.inode EXCEPT ![d] = y]) /\ s \in Volumes(t) /\ Solid(s)
      BY <2>12, <3>4, <3>5 DEF Sound
    <3>7. Sound(t, z, z.inode)
      BY <3>2, <3>6, InodeWritten
    <3> HIDE DEF z
    <3>8. EntryAdded(t, v, n, g)
      BY <3>1, <3>7 DEF EntryAdded
    <3>9. QED
      BY <3>8 DEF g
  <2>14. CASE ~set.ok
    <3> DEFINE z == FreeBlock(s, b)
    <3>1. g.ok = FALSE /\ g.volume = z
      <4>1. g = [ok |-> FALSE, volume |-> z]
        BY <1>4, <1>6, <2>14 DEF Grown, s
      <4>2. QED
        BY <4>1
    <3>2. Sound(t, s, ino) /\ Loose(s, ino, b) /\ b \in s.blockBits
          /\ s \in Volumes(t) /\ Solid(s) /\ Apart(s, ino)
      BY <2>8, <2>11, <2>14 DEF s, Sound
    <3>3. z \in Volumes(t) /\ Solid(z) /\ Gave(s, z, b)
      BY <2>2, <3>2, FreeFacts
    <3> HIDE DEF z
    <3>4. Apart(z, ino)
      BY <1>1, <2>2, <3>2, <3>3, GaveApart
    <3>5. z.inode = ino /\ z.inodeBits = u.inodeBits /\ z.total = t
      BY <2>12, <3>3 DEF Gave, Volumes
    <3>6. Sound(t, z, z.inode)
      BY <1>1, <3>3, <3>4, <3>5 DEF Sound
    <3>7. InUse(z, n)
      BY <2>4, <3>5 DEF InUse
    <3>8. Unnamed(z, n)
      <4>1. ASSUME NEW x \in Blocks(t) PROVE n \notin Roster(Records(z, x))
        <5>1. Records(z, x) = IF x = b THEN <<>> ELSE Records(s, x)
          BY <2>2, <3>2, <3>3, DataChanged, NothingHeld DEF Gave
        <5>2. CASE x = b
          BY <5>1, <5>2, NoRecords
        <5>3. CASE x # b
          <6>1. Records(z, x) \in {<<>>, Records(u, x)}
            BY <2>7, <2>12, <5>1, <5>3
          <6>2. n \notin Roster(Records(u, x))
            BY <2>2, <2>4 DEF Unnamed
          <6>3. QED
            BY <6>1, <6>2, NoRecords
        <5>4. QED
          BY <5>2, <5>3
      <4>2. QED
        BY <3>5, <4>1 DEF Unnamed
    <3>9. EntryAdded(t, v, n, g)
      BY <3>1, <3>5, <3>6, <3>7, <3>8 DEF EntryAdded
    <3>10. QED
      BY <3>9 DEF g
  <2>15. QED
    BY <2>13, <2>14
<1>7. QED
  BY <1>5, <1>6

LEMMA AddEntryFacts ==
  ASSUME NEW t \in Totals, NEW v, Sound(t, v, v.inode), NEW d \in Inodes(t),
         NEW n \in Inodes(t), InUse(v, n), Unnamed(v, n), NEW name \in Names
  PROVE  EntryAdded(t, v, n, AddEntry(v, d, n, name))
<1> DEFINE S == {p \in Places(v, d) : HasRoom(RecordAt(v, d, p))}
           place == FirstPlace(S)
           b == DirBlock(v, d, place)
           rs == Records(v, b)
           k == place[2]
           qs == WithRecord(rs, k, n, name)
           w == SetRecords(v, b, qs)
           a == AddEntry(v, d, n, name)
<1>1. v \in Volumes(t) /\ Solid(v) /\ v.inode \in Inos(t) /\ Apart(v, v.inode) /\ v.total = t
  BY DEF Sound, Volumes
<1>2. CASE place = <<>>
  BY <1>2, GrowDirFacts DEF AddEntry
<1>3. CASE place # <<>>
  <2>1. a.ok = TRUE /\ a.volume = w
    <3>1. a = [ok |-> TRUE, volume |-> w]
      BY <1>3 DEF AddEntry
    <3>2. QED
      BY <3>1
  <2> HIDE DEF a, w
  <2>2. place \in S /\ IsPlace(t, v, d, place)
    <3>1. S \in SUBSET Places(v, d)
      OBVIOUS
    <3> HIDE DEF S
    <3>2. QED
      BY <1>3, <3>1, FirstPlaceFacts
  <2>3. b \in DataArea(t) /\ b \in v.blockBits /\ k \in 1 .. Len(rs) /\ HasRoom(rs[k])
    <3>1. RecordAt(v, d, place) = rs[k]
      BY DEF RecordAt
    <3>2. QED
      BY <2>2, <3>1 DEF IsPlace
  <2> HIDE DEF b, k, place, S
  <2>4. b \in Blocks(t)
    BY <2>3, DataFacts
  <2>5. rs \in Seq(RecordsOf(t))
    BY <1>1, <2>4, Held
  <2>6. n \notin Roster(rs) /\ OnceEach(rs)
    BY <1>1, <2>4 DEF Unnamed, Solid, NamedOnce
  <2>7. /\ qs \in Seq(RecordsOf(t)) /\ OnceEach(qs)
        /\ Roster(qs) \subseteq Roster(rs) \cup {n}
    <3> HIDE DEF rs
    <3>1. QED
      BY <2>3, <2>5, <2>6, WithRecordFacts
  <2> HIDE DEF qs
  <2>8. Dir(qs) \in Contents(t) /\ PtrsIn(Dir(qs)) = NoPtrs /\ RecordsIn(Dir(qs)) = qs
    BY <2>7, ContentMade DEF PtrsIn, RecordsIn
  <2>9. w = Put(v, b, Dir(qs))
    BY DEF w, SetRecords
  <2>10. /\ w \in Volumes(t) /\ SameBits(v, w) /\ w.inode = v.inode
         /\ w.data = [v.data EXCEPT ![b] = Dir(qs)]
    BY <1>1, <2>3, <2>8, <2>9, PutFacts
  <2>11. Solid(w)
    BY <1>1, <2>3, <2>7, <2>8, <2>9, PutSolid
  <2>12. Apart(w, v.inode)
    BY <1>1, <2>3, <2>8, <2>10, PutApart DEF SameBits
  <2>13. Sound(t, w, w.inode)
    BY <1>1, <2>10, <2>11, <2>12 DEF Sound
  <2>14. EntryAdded(t, v, n, a)
    BY <2>1, <2>13 DEF EntryAdded
  <2>15. QED
    BY <2>14 DEF a
<1>4. QED
  BY <1>2, <1>3

(* remove_dir_entry: the inode has no name any more.                       *)
LEMMA RemoveEntryFacts ==
  ASSUME NEW t \in Totals, NEW v, Sound(t, v, v.inode), NEW d \in Inodes(t),
         NEW place \in Places(v, d), IsNamed(RecordAt(v, d, place))
  PROVE  LET w == RemoveEntry(v, d, place)
             n == RecordAt(v, d, place).inode
         IN  /\ Sound(t, w, w.inode) /\ w.inode = v.inode
             /\ n \in Inodes(t) /\ InUse(w, n) /\ Unnamed(w, n)
<1> DEFINE b == DirBlock(v, d, place)
           rs == Records(v, b)
           k == place[2]
           n == rs[k].inode
           qs == WithoutRecord(rs, k)
           w == RemoveEntry(v, d, place)
<1>1. v \in Volumes(t) /\ Solid(v) /\ v.inode \in Inos(t) /\ Apart(v, v.inode) /\ v.total = t
  BY DEF Sound, Volumes
<1>2. /\ b \in DataArea(t) /\ b \in v.blockBits /\ k \in 1 .. Len(rs) /\ IsNamed(rs[k])
      /\ RecordAt(v, d, place) = rs[k] /\ rs[k] \in RecordsOf(t)
  BY PlacesFacts DEF IsPlace, RecordAt
<1>3. w = Put(v, b, Dir(qs))
  BY DEF RemoveEntry, SetRecords
<1> HIDE DEF w, b, k
<1>4. b \in Blocks(t)
  BY <1>2, DataFacts
<1>5. rs \in Seq(RecordsOf(t))
  BY <1>1, <1>4, Held
<1>6. NamedOnce(v)
  BY <1>1 DEF Solid
<1>7. OnceEach(rs)
  BY <1>1, <1>4, <1>6 DEF NamedOnce
<1>8. /\ qs \in Seq(RecordsOf(t)) /\ OnceEach(qs)
      /\ Roster(qs) \subseteq Roster(rs) \ {n}
  <2> HIDE DEF rs
  <2>1. QED
    BY <1>2, <1>5, <1>7, WithoutRecordFacts
<1> HIDE DEF qs
<1>9. Dir(qs) \in Contents(t) /\ PtrsIn(Dir(qs)) = NoPtrs /\ RecordsIn(Dir(qs)) = qs
  BY <1>8, ContentMade DEF PtrsIn, RecordsIn
<1>10. /\ w \in Volumes(t) /\ SameBits(v, w) /\ w.inode = v.inode
       /\ w.data = [v.data EXCEPT ![b] = Dir(qs)]
  BY <1>1, <1>2, <1>3, <1>9, PutFacts
<1>11. Solid(w)
  BY <1>1, <1>2, <1>3, <1>8, <1>9, PutSolid
<1>12. Apart(w, v.inode)
  BY <1>1, <1>2, <1>9, <1>10, PutApart DEF SameBits
<1>13. Sound(t, w, w.inode)
  BY <1>1, <1>10, <1>11, <1>12 DEF Sound
<1>14. n \in Roster(rs)
  <2>1. k \in DOMAIN rs
    BY <1>2, <1>5, LenProperties
  <2>2. QED
    BY <1>2, <2>1 DEF Roster
<1>15. n \in Inodes(t)
  BY <1>5, <1>14, RosterNumbers
<1>16. InUse(w, n)
  BY <1>1, <1>4, <1>6, <1>10, <1>14 DEF NamedOnce, InUse, SameBits
<1>17. Unnamed(w, n)
  <2>1. ASSUME NEW x \in Blocks(t) PROVE n \notin Roster(Records(w, x))
    <3>1. Records(w, x) = IF x = b THEN qs ELSE Records(v, x)
      BY <1>1, <1>2, <1>9, <1>10, DataChanged
    <3>2. x # b => Roster(Records(v, x)) \cap Roster(rs) = {}
      BY <1>1, <1>4, <1>6 DEF NamedOnce
    <3>3. QED
      BY <1>8, <1>14, <3>1, <3>2
  <2>2. QED
    BY <1>10, <2>1 DEF Unnamed, Volumes
<1>18. QED
  BY <1>2, <1>10, <1>13, <1>15, <1>16, <1>17 DEF w

-----------------------------------------------------------------------------
(***************************************************************************)
(* write_file's loop: the volume and the copy of the inode it works on.  A *)
(* file that is small gets no blocks of pointers, and nothing is undone.   *)
(***************************************************************************)
Storing(t, v, n, small) ==
  {st \in [state : {"going", "full", "stuck"}, volume : Volumes(t), inode : InodesOf(t)] :
     /\ small => /\ st.state # "stuck"
                 /\ st.inode.block[Single] = 0 /\ st.inode.block[Double] = 0
     /\ st.state # "stuck" => /\ Sound(t, st.volume, [v.inode EXCEPT ![n] = st.inode])
                              /\ Frame(t, v, st.volume)}

LEMMA AttachedFacts ==
  ASSUME NEW t \in Totals, NEW v \in Volumes(t), NEW n \in Inodes(t), NEW small \in BOOLEAN,
         NEW st \in Storing(t, v, n, small), st.state = "going",
         NEW u, Sound(t, u, [v.inode EXCEPT ![n] = st.inode]), Frame(t, v, u),
         NEW i \in Nat, small => i < DirectBlocks,
         NEW b \in DataArea(t), b \in u.blockBits,
         Loose(u, [v.inode EXCEPT ![n] = st.inode], b)
  PROVE  Attached(SetBlock(u, st.inode, i, b), b) \in Storing(t, v, n, small)
<1> DEFINE ino == [v.inode EXCEPT ![n] = st.inode]
           set == SetBlock(u, st.inode, i, b)
           r   == Attached(set, b)
<1>1. st.inode \in InodesOf(t) /\ v.inode \in Inos(t) /\ st.volume \in Volumes(t)
  BY DEF Storing, Volumes, Inos
<1>2. ino[n] = st.inode
  BY <1>1 DEF Inos
<1>3. BlockIsSet(t, u, ino, n, i, b, set)
  <2>1. BlockIsSet(t, u, ino, n, i, b, SetBlock(u, ino[n], i, b))
    <3> HIDE DEF ino
    <3>1. QED
      BY SetBlockFacts DEF ino
  <2>2. QED
    BY <1>2, <2>1
<1>4. small => st.inode.block[Single] = 0 /\ st.inode.block[Double] = 0
  BY DEF Storing
<1>5. /\ set.ok => r = [state |-> "going", volume |-> set.volume, inode |-> set.inode]
      /\ ~set.ok => r = [state |-> "stuck", volume |-> FreeBlock(set.volume, b),
                         inode |-> set.inode]
  BY DEF Attached
<1> HIDE DEF set, r
<1>6. set.inode \in InodesOf(t) /\ Grew(t, u, set.volume) /\ set.ok \in BOOLEAN
      /\ set.volume \in Volumes(t)
  BY <1>3 DEF BlockIsSet, Sound
<1>7. small => set.ok /\ set.inode.block[Single] = 0 /\ set.inode.block[Double] = 0
  BY <1>2, <1>3, <1>4 DEF BlockIsSet
<1>8. CASE set.ok
  <2>1. Sound(t, set.volume, [ino EXCEPT ![n] = set.inode])
    BY <1>3, <1>8 DEF BlockIsSet
  <2>2. [ino EXCEPT ![n] = set.inode] = [v.inode EXCEPT ![n] = set.inode]
    BY <1>1 DEF Inos
  <2>3. Frame(t, v, set.volume)
    BY <1>6, FrameFacts DEF Sound, Grew
  <2>4. r.state = "going" /\ r.volume = set.volume /\ r.inode = set.inode
        /\ r \in [state : {"going", "full", "stuck"}, volume : Volumes(t), inode : InodesOf(t)]
    BY <1>5, <1>6, <1>8
  <2>5. r \in Storing(t, v, n, small)
    BY <1>7, <2>1, <2>2, <2>3, <2>4 DEF Storing
  <2>6. QED
    BY <2>5 DEF r, set
<1>9. CASE ~set.ok
  <2>1. b \in Pointees(t)
    BY DEF Pointees
  <2>2. FreeBlock(set.volume, b) \in Volumes(t)
    BY <1>6, <2>1, FreeTyped
  <2>3. r.state = "stuck"
        /\ r \in [state : {"going", "full", "stuck"}, volume : Volumes(t), inode : InodesOf(t)]
    BY <1>5, <1>6, <1>9, <2>2
  <2>4. r \in Storing(t, v, n, small)
    BY <1>7, <1>9, <2>3 DEF Storing
  <2>5. QED
    BY <2>4 DEF r, set
<1>10. QED
  BY <1>6, <1>8, <1>9

LEMMA StoreStepFacts ==
  ASSUME NEW t \in Totals, NEW v \in Volumes(t), NEW n \in Inodes(t), NEW small \in BOOLEAN,
         NEW st \in Storing(t, v, n, small), NEW text \in Texts,
         NEW i \in Nat, small => i < DirectBlocks
  PROVE  StoreStep(text, st, i) \in Storing(t, v, n, small)
<1> DEFINE ino == [v.inode EXCEPT ![n] = st.inode]
           a == AllocBlock(st.volume)
           b == a.block
           u == Put(a.volume, b, Text(text))
<1>1. CASE st.state # "going"
  BY <1>1 DEF StoreStep
<1>2. CASE st.state = "going"
  <2>1. Sound(t, st.volume, ino) /\ Frame(t, v, st.volume) /\ st.volume \in Volumes(t)
    BY <1>2 DEF Storing
  <2>2. /\ a.volume \in Volumes(t) /\ Solid(a.volume)
        /\ b = 0 => a.volume = st.volume
        /\ b # 0 => Took(st.volume, a.volume, b) /\ b \in DataArea(t)
    BY <2>1, AllocFacts DEF Sound
  <2>3. StoreStep(text, st, i) = StoredAt(a, text, st, i)
    BY <1>2 DEF StoreStep
  <2> HIDE DEF a
  <2>4. CASE b = 0
    <3> DEFINE r == [st EXCEPT !.state = "full"]
    <3>1. StoredAt(a, text, st, i) = r
      BY <2>4 DEF StoredAt
    <3>2. /\ st \in [state : {"going", "full", "stuck"}, volume : Volumes(t),
                     inode : InodesOf(t)]
          /\ small => st.inode.block[Single] = 0 /\ st.inode.block[Double] = 0
      BY DEF Storing
    <3>3. r \in [state : {"going", "full", "stuck"}, volume : Volumes(t), inode : InodesOf(t)]
          /\ r.state = "full" /\ r.volume = st.volume /\ r.inode = st.inode
      BY <3>2
    <3> HIDE DEF r
    <3>4. r \in Storing(t, v, n, small)
      BY <2>1, <3>2, <3>3 DEF Storing
    <3>5. QED
      BY <2>3, <3>1, <3>4
  <2>5. CASE b # 0
    <3> HIDE DEF b
    <3>1. Took(st.volume, a.volume, b) /\ b \in DataArea(t) /\ b \in a.volume.blockBits
      BY <2>2, <2>5 DEF Took
    <3>2. Text(text) \in Contents(t) /\ PtrsIn(Text(text)) = NoPtrs
          /\ RecordsIn(Text(text)) = <<>>
      BY ContentMade DEF PtrsIn, RecordsIn
    <3>3. ino \in Inos(t) /\ Apart(st.volume, ino)
      BY <2>1 DEF Sound
    <3>4. Apart(a.volume, ino) /\ Loose(a.volume, ino, b)
      BY <2>1, <2>2, <3>1, <3>3, TookApart
    <3>5. Solid(u) /\ Frame(t, a.volume, u)
      BY <2>2, <3>1, <3>2, PutPlain
    <3>6. u \in Volumes(t) /\ SameBits(a.volume, u)
          /\ u.data = [a.volume.data EXCEPT ![b] = Text(text)]
      BY <2>2, <3>1, <3>2, PutFacts
    <3>7. b # 0
      BY <3>1, DataFacts
    <3>8. a.volume.blockBits \subseteq u.blockBits /\ b \in u.blockBits
      BY <3>1, <3>6 DEF SameBits
    <3>9. Apart(u, ino) /\ Loose(u, ino, b)
      <4> HIDE DEF u, ino
      <4>1. QED
        BY <2>2, <3>1, <3>2, <3>4, <3>6, <3>7, <3>8, PutApart
    <3>10. Frame(t, v, u)
      <4>1. Frame(t, st.volume, a.volume)
        BY <3>1, FrameSelf DEF Took
      <4>2. Frame(t, st.volume, u)
        BY <2>1, <2>2, <3>5, <4>1, FrameFacts
      <4>3. QED
        BY <2>1, <4>2, FrameFacts
    <3>11. Sound(t, u, ino)
      BY <3>3, <3>5, <3>6, <3>9 DEF Sound
    <3>12. StoredAt(a, text, st, i) = Attached(SetBlock(u, st.inode, i, b), b)
      BY <3>7 DEF StoredAt, b
    <3>13. Attached(SetBlock(u, st.inode, i, b), b) \in Storing(t, v, n, small)
      <4> HIDE DEF u
      <4>1. QED
        BY <1>2, <3>1, <3>8, <3>9, <3>10, <3>11, AttachedFacts
    <3>14. QED
      BY <2>3, <3>12, <3>13
  <2>6. QED
    BY <2>4, <2>5
<1>3. QED
  BY <1>1, <1>2

LEMMA StoredFacts ==
  ASSUME NEW t \in Totals, NEW v \in Volumes(t), NEW n \in Inodes(t), NEW in \in InodesOf(t),
         Sound(t, v, [v.inode EXCEPT ![n] = in]), in.block[Single] = 0, in.block[Double] = 0,
         NEW text \in Texts, NEW size \in Nat
  PROVE  Stored(v, in, text, size) \in Storing(t, v, n, size <= DirectBlocks)
<1> DEFINE start == [state |-> "going", volume |-> v, inode |-> in]
           small == size <= DirectBlocks
           T == Storing(t, v, n, small)
           next == [x \in (1 .. size) \X T |-> StoreStep(text, x[2], x[1] - 1)]
<1>1. small \in BOOLEAN
  OBVIOUS
<1>2. start \in T
  <2>1. Frame(t, v, v)
    BY FrameSelf
  <2>2. QED
    BY <2>1 DEF Storing
<1>3. ASSUME NEW st \in T, NEW i \in 1 .. size PROVE StoreStep(text, st, i - 1) \in T
  <2>1. i - 1 \in Nat
    OBVIOUS
  <2>2. small => i - 1 < DirectBlocks
    BY Params
  <2> HIDE DEF small
  <2>3. QED
    BY <1>1, <1>3, <2>1, <2>2, StoreStepFacts
<1>4. next \in [(1 .. size) \X T -> T]
  <2> HIDE DEF T
  <2>1. ASSUME NEW x \in (1 .. size) \X T PROVE StoreStep(text, x[2], x[1] - 1) \in T
    <3>1. x[1] \in 1 .. size /\ x[2] \in T
      OBVIOUS
    <3>2. QED
      BY <1>3, <3>1
  <2>2. QED
    BY <2>1
<1>5. PICK at \in [0 .. size -> T] :
        at = [i \in 0 .. size |-> IF i = 0 THEN start ELSE next[<<i, at[i - 1]>>]]
  <2> HIDE DEF next, T, start
  <2>1. Iterated(size, T, start, next)
    BY ONLY <1>2, <1>4, size \in Nat, Iteration
  <2>2. QED
    BY ONLY <2>1 DEF Iterated
<1>6. at = [i \in 0 .. size |-> IF i = 0 THEN start ELSE StoreStep(text, at[i - 1], i - 1)]
  <2> HIDE DEF T
  <2>1. ASSUME NEW i \in 0 .. size, i # 0
        PROVE  next[<<i, at[i - 1]>>] = StoreStep(text, at[i - 1], i - 1)
    <3>1. <<i, at[i - 1]>> \in (1 .. size) \X T
      BY <2>1
    <3>2. QED
      BY <3>1
  <2> HIDE DEF next, start
  <2>2. QED
    BY <1>5, <2>1
<1> DEFINE st == CHOOSE f :
             f = [i \in 0 .. size |-> IF i = 0 THEN start ELSE StoreStep(text, f[i - 1], i - 1)]
<1>7. st = [i \in 0 .. size |-> IF i = 0 THEN start ELSE StoreStep(text, st[i - 1], i - 1)]
  <2> HIDE DEF start
  <2>1. QED
    BY <1>6
<1>8. Stored(v, in, text, size) = st[size]
  BY DEF Stored
<1> HIDE DEF st, T, start, next
<1> DEFINE Fine == {i \in Nat : i <= size => st[i] \in T}
<1>9. st[0] = start /\ \A i \in 1 .. size : st[i] = StoreStep(text, st[i - 1], i - 1)
  <2>1. 0 \in 0 .. size /\ \A i \in 1 .. size : i \in 0 .. size /\ i # 0
    OBVIOUS
  <2>2. QED
    BY <1>7, <2>1
<1>10. 0 \in Fine
  BY <1>2, <1>9
<1>11. ASSUME NEW i \in Nat, i \in Fine PROVE i + 1 \in Fine
  <2>1. SUFFICES ASSUME i + 1 <= size PROVE st[i + 1] \in T
    OBVIOUS
  <2>2. st[i] \in T /\ i + 1 \in 1 .. size /\ (i + 1) - 1 = i
    BY <1>11, <2>1
  <2>3. QED
    BY <1>3, <1>9, <2>2
<1>12. Nat \subseteq Fine
  <2> HIDE DEF Fine
  <2>1. QED
    BY <1>10, <1>11, Induction
<1>13. st[size] \in T
  BY <1>12
<1>14. QED
  BY <1>8, <1>13 DEF T

(* A volume that points as another did, from the same inodes.              *)
LEMMA SameApart ==
  ASSUME NEW v, NEW w, NEW ino, Apart(v, ino), w.total = v.total, w.data = v.data,
         w.blockBits = v.blockBits
  PROVE  Apart(w, ino)
<1>1. \A s : At(w, ino, s) = At(v, ino, s)
  BY SameContents
<1>2. QED
  BY <1>1 DEF Apart

(* An inode without blocks goes.                                           *)
LEMMA InodeGone ==
  ASSUME NEW t \in Totals, NEW u, NEW n \in Inodes(t), NEW isDir \in BOOLEAN,
         Sound(t, u, [u.inode EXCEPT ![n] = NewInode("none")]), InUse(u, n), Unnamed(u, n)
  PROVE  Sound(t, FreeInode(u, n, isDir), FreeInode(u, n, isDir).inode)
<1> DEFINE w == FreeInode(u, n, isDir)
           ino == [u.inode EXCEPT ![n] = NewInode("none")]
<1>1. u \in Volumes(t) /\ Solid(u) /\ Apart(u, ino) /\ ino \in Inos(t)
  BY DEF Sound
<1>2. w \in Volumes(t) /\ Solid(w) /\ w.inode = ino /\ w.data = u.data
      /\ w.blockBits = u.blockBits
  BY <1>1, FreeInodeFacts
<1> HIDE DEF w, ino
<1>3. w.total = u.total
  BY <1>1, <1>2 DEF Volumes
<1>4. Apart(w, ino)
  BY <1>1, <1>2, <1>3, SameApart
<1>5. Sound(t, w, w.inode)
  BY <1>1, <1>2, <1>4 DEF Sound
<1>6. QED
  BY <1>5 DEF w

(* What a command that failed took for a file without blocks of pointers   *)
(* it gives back.                                                          *)
LEMMA AbandonedFacts ==
  ASSUME NEW t \in Totals, NEW v \in Volumes(t), NEW n \in Inodes(t), NEW in \in InodesOf(t),
         Sound(t, v, [v.inode EXCEPT ![n] = in]), in.block[Single] = 0, in.block[Double] = 0,
         InUse(v, n), Unnamed(v, n)
  PROVE  Sound(t, Abandoned(v, n, in), Abandoned(v, n, in).inode)
<1> DEFINE ino == [v.inode EXCEPT ![n] = in]
           u == FreeInodeBlocks(v, in)
           w == FreeInode(u, n, FALSE)
           x == NewInode("none")
<1>1. ino[n] = in /\ v.inode \in Inos(t)
  BY DEF Volumes, Inos
<1>2. x \in InodesOf(t) /\ \A k \in 0 .. Double : x.block[k] = 0
  BY EmptyInode
<1>3. Sound(t, u, [ino EXCEPT ![n] = x]) /\ Frame(t, v, u)
  <2>1. /\ Sound(t, FreeInodeBlocks(v, ino[n]), [ino EXCEPT ![n] = x])
        /\ Frame(t, v, FreeInodeBlocks(v, ino[n]))
    <3>1. ino[n].block[Single] = 0 /\ ino[n].block[Double] = 0
      BY <1>1
    <3>2. Sound(t, v, ino)
      OBVIOUS
    <3> HIDE DEF ino, x
    <3>3. QED
      BY <1>2, <3>1, <3>2, FreeInodeBlocksFacts
  <2>2. QED
    BY <1>1, <2>1
<1>4. [ino EXCEPT ![n] = x] = [u.inode EXCEPT ![n] = x]
  BY <1>1, <1>3 DEF Frame, Inos
<1> HIDE DEF u, x
<1>5. u \in Volumes(t) /\ Solid(u) /\ InUse(u, n) /\ Unnamed(u, n)
  BY <1>3, FrameFacts DEF Sound
<1>6. Sound(t, u, [u.inode EXCEPT ![n] = NewInode("none")])
  BY <1>3, <1>4 DEF x
<1>7. Sound(t, w, w.inode)
  BY <1>5, <1>6, InodeGone
<1>8. Abandoned(v, n, in) = w
  BY DEF Abandoned, u
<1>9. QED
  BY <1>7, <1>8

(* The end of a file that is new: it is undone if it is small.             *)
LEMMA EnteredFacts ==
  ASSUME NEW t \in Totals, NEW v \in Volumes(t), NEW n \in Inodes(t), InUse(v, n),
         Unnamed(v, n), NEW small \in BOOLEAN, NEW st \in Storing(t, v, n, small),
         NEW parent \in Inodes(t), NEW name \in Names, NEW size \in Nat
  PROVE  LET e == Entered(st, parent, n, name, size)
         IN  small \/ e.ok => Sound(t, e.volume, e.volume.inode)
<1> DEFINE e == Entered(st, parent, n, name, size)
<1>1. /\ st.state \in {"going", "full", "stuck"} /\ st.volume \in Volumes(t)
      /\ st.inode \in InodesOf(t)
      /\ small => /\ st.state # "stuck"
                  /\ st.inode.block[Single] = 0 /\ st.inode.block[Double] = 0
  BY DEF Storing
<1>2. ASSUME st.state # "stuck"
      PROVE  /\ Sound(t, st.volume, [v.inode EXCEPT ![n] = st.inode])
             /\ st.volume.inode = v.inode
             /\ InUse(st.volume, n) /\ Unnamed(st.volume, n)
  <2>1. Sound(t, st.volume, [v.inode EXCEPT ![n] = st.inode]) /\ Frame(t, v, st.volume)
    BY <1>2 DEF Storing
  <2>2. QED
    BY <1>1, <2>1, FrameFacts DEF Frame
<1>3. CASE st.state = "full"
  <2> DEFINE w == Abandoned(st.volume, n, st.inode)
  <2>1. e = [ok |-> FALSE, volume |-> w]
    BY <1>3 DEF Entered
  <2>2. ASSUME small PROVE Sound(t, w, w.inode)
    BY <1>1, <1>2, <1>3, <2>2, AbandonedFacts
  <2> HIDE DEF e, w
  <2>3. e.ok = FALSE /\ e.volume = w
    BY <2>1
  <2>4. small \/ e.ok => Sound(t, e.volume, e.volume.inode)
    BY <2>2, <2>3
  <2>5. QED
    BY <2>4 DEF e
<1>4. CASE st.state = "stuck"
  <2>1. e = [ok |-> FALSE, volume |-> st.volume]
    BY <1>4 DEF Entered
  <2> HIDE DEF e
  <2>2. e.ok = FALSE /\ ~small
    BY <1>1, <1>4, <2>1
  <2>3. small \/ e.ok => Sound(t, e.volume, e.volume.inode)
    BY <2>2
  <2>4. QED
    BY <2>3 DEF e
<1>5. CASE st.state = "going"
  <2> DEFINE in == [st.inode EXCEPT !.size = size]
             u  == [st.volume EXCEPT !.inode[n] = in]
             added == AddEntry(u, parent, n, name)
             w  == Abandoned(added.volume, n, in)
  <2>1. in \in InodesOf(t) /\ in.block = st.inode.block
    BY <1>1 DEF InodesOf
  <2> HIDE DEF in
  <2>2. v.inode \in Inos(t) /\ [v.inode EXCEPT ![n] = st.inode][n] = st.inode
    BY <1>1 DEF Volumes, Inos
  <2>3. Sound(t, st.volume, [st.volume.inode EXCEPT ![n] = in])
    <3> DEFINE ino == [v.inode EXCEPT ![n] = st.inode]
    <3>1. \A k \in 0 .. Double : in.block[k] \in {0, ino[n].block[k]}
      BY <2>1, <2>2
    <3>2. Sound(t, st.volume, ino)
      BY <1>2, <1>5
    <3>3. [ino EXCEPT ![n] = in] = [st.volume.inode EXCEPT ![n] = in]
      BY <1>2, <1>5, <2>2 DEF Inos
    <3> HIDE DEF ino
    <3>4. Sound(t, st.volume, [ino EXCEPT ![n] = in])
      BY <2>1, <3>1, <3>2, SameSlots
    <3>5. QED
      BY <3>3, <3>4
  <2>4. /\ Sound(t, u, u.inode) /\ u.inode = [st.volume.inode EXCEPT ![n] = in]
        /\ SameBits(st.volume, u) /\ u.data = st.volume.data
    BY <1>1, <2>1, <2>3, InodeWritten DEF Sound
  <2>5. e = EnteredOr(added, n, in)
    BY <1>5 DEF Entered, in
  <2> HIDE DEF u
  <2>6. InUse(u, n) /\ Unnamed(u, n)
    <3>1. u.total = st.volume.total /\ \A x : Records(u, x) = Records(st.volume, x)
      BY <1>1, <2>4, SameContents DEF Sound, Volumes
    <3>2. QED
      BY <1>2, <1>5, <2>4, <3>1 DEF InUse, Unnamed, SameBits
  <2>7. EntryAdded(t, u, n, added)
    BY <2>4, <2>6, AddEntryFacts
  <2> HIDE DEF added
  <2>8. CASE added.ok
    <3>1. e = added
      BY <2>5, <2>8 DEF EnteredOr
    <3>2. Sound(t, added.volume, added.volume.inode)
      BY <2>7 DEF EntryAdded
    <3> HIDE DEF e
    <3>3. small \/ e.ok => Sound(t, e.volume, e.volume.inode)
      BY <3>1, <3>2
    <3>4. QED
      BY <3>3 DEF e
  <2>9. CASE ~added.ok
    <3>1. e = [ok |-> FALSE, volume |-> w]
      BY <2>5, <2>9 DEF EnteredOr
    <3>2. ASSUME small PROVE Sound(t, w, w.inode)
      <4>1. /\ Sound(t, added.volume, added.volume.inode) /\ added.volume.inode = u.inode
            /\ InUse(added.volume, n) /\ Unnamed(added.volume, n)
            /\ added.volume \in Volumes(t)
        BY <2>7, <2>9 DEF EntryAdded, Sound
      <4>2. [added.volume.inode EXCEPT ![n] = in] = added.volume.inode
        <5>1. st.volume.inode \in Inos(t)
          BY <1>2, <1>5, <2>2
        <5>2. QED
          BY <2>4, <4>1, <5>1 DEF Inos
      <4>3. in.block[Single] = 0 /\ in.block[Double] = 0
        BY <1>1, <2>1, <3>2
      <4>4. Sound(t, added.volume, [added.volume.inode EXCEPT ![n] = in])
        BY <4>1, <4>2
      <4>5. QED
        BY <2>1, <4>1, <4>3, <4>4, AbandonedFacts
    <3> HIDE DEF e, w
    <3>3. e.ok = FALSE /\ e.volume = w
      BY <3>1
    <3>4. small \/ e.ok => Sound(t, e.volume, e.volume.inode)
      BY <3>2, <3>3
    <3>5. QED
      BY <3>4 DEF e
  <2>10. QED
    BY <2>8, <2>9
<1>6. QED
  BY <1>1, <1>3, <1>4, <1>5

LEMMA WrittenNewFacts ==
  ASSUME NEW t \in Totals, NEW v, Sound(t, v, v.inode), NEW parent \in Inodes(t),
         NEW name \in Names, NEW text \in Texts, NEW size \in Nat
  PROVE  LET w == WrittenNew(v, parent, name, text, size)
         IN  size <= DirectBlocks \/ w.ok => Sound(t, w.volume, w.volume.inode)
<1> DEFINE a == AllocInode(v, FALSE)
           u == a.volume
           n == a.inode
           in == NewInode("file")
           st == Stored(u, in, text, size)
           small == size <= DirectBlocks
           w == WrittenNew(v, parent, name, text, size)
<1>1. /\ u \in Volumes(t) /\ Solid(u)
      /\ n # 0 => n \in Inodes(t) /\ InodeTaken(v, u, n)
  BY AllocInodeFacts DEF Sound
<1>2. /\ n = 0 => w = [ok |-> FALSE, volume |-> v]
      /\ n # 0 => w = Entered(st, parent, n, name, size)
  BY DEF WrittenNew
<1> HIDE DEF a, w
<1>3. CASE n = 0
  <2>1. w.volume = v
    BY <1>2, <1>3
  <2>2. Sound(t, w.volume, w.volume.inode)
    BY <2>1
  <2>3. QED
    BY <2>2 DEF w
<1>4. CASE n # 0
  <2> HIDE DEF u, n
  <2>1. n \in Inodes(t) /\ InodeTaken(v, u, n)
    BY <1>1, <1>4
  <2>2. u.inode \in Inos(t) /\ Apart(u, u.inode)
    <3>1. /\ Apart(v, v.inode) /\ v.inode \in Inos(t) /\ u.total = v.total
      BY <1>1 DEF Sound, Volumes
    <3>2. u.inode = v.inode /\ Apart(u, v.inode)
      BY <2>1, <3>1, SameApart DEF InodeTaken
    <3>3. QED
      BY <3>1, <3>2
  <2>3. in \in InodesOf(t) /\ in.block[Single] = 0 /\ in.block[Double] = 0
        /\ \A k \in 0 .. Double : in.block[k] \in {0, u.inode[n].block[k]}
    BY EmptyInode, BlockLimits
  <2>4. Sound(t, u, u.inode)
    BY <1>1, <2>2 DEF Sound
  <2> HIDE DEF in
  <2>5. Sound(t, u, [u.inode EXCEPT ![n] = in])
    BY <2>1, <2>3, <2>4, SameSlots
  <2>6. st \in Storing(t, u, n, small)
    BY <1>1, <2>1, <2>3, <2>5, StoredFacts
  <2> HIDE DEF st
  <2>7. small \in BOOLEAN
    OBVIOUS
  <2>8. InUse(u, n) /\ Unnamed(u, n)
    BY <2>1 DEF InodeTaken
  <2> HIDE DEF small
  <2>9. small \/ w.ok => Sound(t, w.volume, w.volume.inode)
    BY <1>1, <1>2, <1>4, <2>1, <2>6, <2>7, <2>8, EnteredFacts
  <2>10. QED
    BY <2>9 DEF w, small
<1>5. QED
  BY <1>3, <1>4

LEMMA WrittenOverFacts ==
  ASSUME NEW t \in Totals, NEW v, Sound(t, v, v.inode), NEW n \in Inodes(t),
         v.inode[n].block[Single] = 0, v.inode[n].block[Double] = 0,
         NEW text \in Texts, NEW size \in Nat
  PROVE  LET w == WrittenOver(v, n, text, size)
         IN  w.ok => Sound(t, w.volume, w.volume.inode)
<1> DEFINE u == FreeInodeBlocks(v, v.inode[n])
           in == NewInode(v.inode[n].type)
           st == Stored(u, in, text, size)
           small == size <= DirectBlocks
           w == WrittenOver(v, n, text, size)
<1>1. v.inode[n] \in InodesOf(t)
  BY DEF Sound, Inos
<1>2. v.inode[n].type \in {"none", "file", "dir"}
  BY <1>1 DEF InodesOf
<1>3. in \in InodesOf(t) /\ \A k \in 0 .. Double : in.block[k] = 0
  BY <1>2, EmptyInode
<1> HIDE DEF in
<1>4. Sound(t, u, [v.inode EXCEPT ![n] = in]) /\ Frame(t, v, u)
  BY <1>3, FreeInodeBlocksFacts
<1> HIDE DEF u
<1>5. u.inode = v.inode /\ u \in Volumes(t)
  BY <1>4 DEF Frame, Sound
<1>6. st \in Storing(t, u, n, small)
  BY <1>3, <1>4, <1>5, BlockLimits, StoredFacts
<1>7. w = Rewritten(st, n, size)
  BY DEF WrittenOver, u, in
<1> HIDE DEF st, small, w
<1>8. SUFFICES ASSUME w.ok PROVE Sound(t, w.volume, w.volume.inode)
  BY DEF w
<1> DEFINE y == [st.inode EXCEPT !.size = size]
           z == [st.volume EXCEPT !.inode[n] = y]
<1>9. st.state = "going"
  BY <1>7, <1>8 DEF Rewritten
<1>10. /\ st.inode \in InodesOf(t) /\ st.volume \in Volumes(t)
       /\ Sound(t, st.volume, [u.inode EXCEPT ![n] = st.inode]) /\ st.volume.inode = u.inode
  BY <1>6, <1>9 DEF Storing, Frame
<1>11. y \in InodesOf(t) /\ y.block = st.inode.block
  BY <1>10 DEF InodesOf
<1>12. w = [ok |-> TRUE, volume |-> z]
  BY <1>7, <1>9 DEF Rewritten
<1> HIDE DEF y
<1>13. u.inode \in Inos(t)
  BY <1>5 DEF Volumes, Inos
<1>14. Sound(t, st.volume, [st.volume.inode EXCEPT ![n] = y])
  <2> DEFINE ino == [u.inode EXCEPT ![n] = st.inode]
  <2>1. ino[n] = st.inode /\ [ino EXCEPT ![n] = y] = [st.volume.inode EXCEPT ![n] = y]
    BY <1>10, <1>13 DEF Inos
  <2>2. \A k \in 0 .. Double : y.block[k] \in {0, ino[n].block[k]}
    BY <1>11, <2>1
  <2>3. Sound(t, st.volume, ino)
    BY <1>10
  <2> HIDE DEF ino
  <2>4. Sound(t, st.volume, [ino EXCEPT ![n] = y])
    BY <1>11, <2>2, <2>3, SameSlots
  <2>5. QED
    BY <2>1, <2>4
<1>15. Sound(t, z, z.inode)
  BY <1>10, <1>11, <1>14, InodeWritten DEF Sound
<1> HIDE DEF z
<1>16. w.volume = z
  BY <1>12
<1>17. QED
  BY <1>15, <1>16

-----------------------------------------------------------------------------
(***************************************************************************)
(* create_dir and delete_file.                                             *)
(***************************************************************************)
LEMMA DotFacts ==
  ASSUME NEW t \in Totals, NEW n \in Inodes(t), NEW parent \in Inodes(t)
  PROVE  LET c == Dir(DotRecords(n, parent))
         IN  /\ c \in Contents(t) /\ PtrsIn(c) = NoPtrs
             /\ RecordsIn(c) = DotRecords(n, parent)
             /\ OnceEach(RecordsIn(c)) /\ Roster(RecordsIn(c)) = {}
<1> DEFINE rs == DotRecords(n, parent)
           one == Record(n, ".", 1)
           two == Record(parent, "..", DirUnits - 1)
<1>1. n # 0 /\ parent # 0 /\ DirUnits - 1 \in Nat
  BY Params, InodeNumbers
<1>2. one \in RecordsOf(t) /\ two \in RecordsOf(t) /\ ~IsNamed(one) /\ ~IsNamed(two)
  BY <1>1 DEF RecordsOf, Record, IsNamed
<1> HIDE DEF one, two
<1>3. rs = <<one, two>>
  BY DEF DotRecords, one, two
<1> HIDE DEF rs
<1>4. rs \in Seq(RecordsOf(t)) /\ \A k \in DOMAIN rs : ~IsNamed(rs[k])
  BY <1>2, <1>3
<1>5. OnceEach(rs) /\ Roster(rs) = {}
  BY <1>4 DEF OnceEach, Roster
<1>6. Dir(rs) \in Contents(t) /\ Dir(rs).kind = "dir" /\ Dir(rs).records = rs
  BY <1>4, ContentMade
<1>7. PtrsIn(Dir(rs)) = NoPtrs /\ RecordsIn(Dir(rs)) = rs
  BY <1>6 DEF PtrsIn, RecordsIn
<1>8. QED
  BY <1>5, <1>6, <1>7 DEF rs

(* A directory's inode and its block are there, without a name yet.        *)
LEMMA ReadyFacts ==
  ASSUME NEW t \in Totals, NEW u \in Volumes(t), Solid(u), Apart(u, u.inode),
         NEW n \in Inodes(t), InUse(u, n), Unnamed(u, n), NEW parent \in Inodes(t),
         NEW b \in DataArea(t), b \in u.blockBits, Loose(u, u.inode, b)
  PROVE  LET p == Put(u, b, Dir(DotRecords(n, parent)))
             w == [p EXCEPT !.inode[n] = DirInode(b)]
         IN  /\ Sound(t, w, w.inode) /\ InUse(w, n) /\ Unnamed(w, n)
             /\ w.inode[n] = DirInode(b)
<1> DEFINE c   == Dir(DotRecords(n, parent))
           p   == Put(u, b, c)
           x   == DirInode(b)
           w   == [p EXCEPT !.inode[n] = x]
           e   == NewInode("dir")
           ino == [u.inode EXCEPT ![n] = e]
           jno == [ino EXCEPT ![n] = x]
<1>1. /\ c \in Contents(t) /\ PtrsIn(c) = NoPtrs
      /\ OnceEach(RecordsIn(c)) /\ Roster(RecordsIn(c)) = {}
  BY DotFacts
<1> HIDE DEF c
<1>2. p \in Volumes(t) /\ SameBits(u, p) /\ p.inode = u.inode /\ p.data = [u.data EXCEPT ![b] = c]
  BY <1>1, PutFacts
<1>3. Solid(p)
  BY <1>1, PutSolid
<1>4. b # 0 /\ u.inode \in Inos(t) /\ p.total = t /\ u.total = t
  BY <1>2, DataFacts DEF Volumes, Inos
<1> HIDE DEF p
<1>5. Apart(p, u.inode) /\ Loose(p, u.inode, b) /\ b \in p.blockBits
  <2>1. u.blockBits \subseteq p.blockBits /\ b \in p.blockBits
    BY <1>2 DEF SameBits
  <2>2. QED
    BY <1>1, <1>2, <1>4, <2>1, PutApart
<1>6. Sound(t, p, u.inode)
  BY <1>2, <1>3, <1>4, <1>5 DEF Sound
<1>7. e \in InodesOf(t) /\ \A k \in 0 .. Double : e.block[k] = 0
  BY EmptyInode
<1>8. x \in InodesOf(t) /\ x.block = [e.block EXCEPT ![0] = b] /\ 0 \in 0 .. Double
  <2> DEFINE long == [e EXCEPT !.size = 1]
  <2>1. 0 \in 0 .. Double
    BY BlockLimits
  <2>2. x = [long EXCEPT !.block[0] = b]
    BY DEF DirInode, NewInode
  <2>3. b \in Pointees(t) /\ long \in InodesOf(t) /\ long.block = e.block
    BY <1>7 DEF Pointees, InodesOf
  <2> HIDE DEF x, e, long
  <2>4. /\ [long EXCEPT !.block[0] = b] \in InodesOf(t)
        /\ [long EXCEPT !.block[0] = b].block = [long.block EXCEPT ![0] = b]
    BY <2>1, <2>3, BlockSet
  <2>5. QED
    BY <2>1, <2>2, <2>3, <2>4
<1> HIDE DEF e, x
<1>9. Sound(t, p, ino) /\ Loose(p, ino, b)
  BY <1>4, <1>5, <1>6, <1>7, SameSlots
<1>10. ino[n] = e /\ ino \in Inos(t) /\ jno = [p.inode EXCEPT ![n] = x]
  BY <1>2, <1>4, <1>7, <1>9 DEF Sound, Inos
<1>11. Apart(p, jno)
  <2>1. /\ jno \in Inos(t) /\ <<0, n, 0>> \in Slots(t)
        /\ OneSlot(t, p, p, ino, jno, <<0, n, 0>>, b)
    <3>1. x.block = [ino[n].block EXCEPT ![0] = b]
      BY <1>8, <1>10
    <3> HIDE DEF ino
    <3>2. QED
      BY <1>8, <1>10, <3>1, SlotSet
  <2> HIDE DEF ino, jno
  <2>2. QED
    BY <1>2, <1>5, <1>9, <2>1, OneSlotApart DEF Sound
<1>12. /\ Sound(t, w, w.inode) /\ w.inode = [p.inode EXCEPT ![n] = x]
       /\ SameBits(p, w) /\ w.data = p.data
  BY <1>2, <1>3, <1>8, <1>10, <1>11, InodeWritten
<1>13. w.inode[n] = x
  BY <1>2, <1>4, <1>12 DEF Inos
<1> HIDE DEF w
<1>14. InUse(w, n) /\ Unnamed(w, n)
  <2>1. w.total = t /\ w.inodeBits = u.inodeBits
    BY <1>2, <1>12 DEF Sound, Volumes, SameBits
  <2>2. ASSUME NEW y \in Blocks(t) PROVE n \notin Roster(Records(w, y))
    <3>1. Records(w, y) = Records(p, y)
      BY <1>12, SameContents
    <3>2. Records(p, y) = IF y = b THEN RecordsIn(c) ELSE Records(u, y)
      BY <1>2, DataChanged
    <3>3. QED
      BY <1>1, <1>4, <3>1, <3>2 DEF Unnamed
  <2>3. QED
    BY <2>1, <2>2 DEF InUse, Unnamed
<1>15. QED
  BY <1>12, <1>13, <1>14 DEF w, p, c, x

LEMMA DirMadeFacts ==
  ASSUME NEW t \in Totals, NEW v, Sound(t, v, v.inode), NEW parent \in Inodes(t),
         NEW name \in Names
  PROVE  Sound(t, DirMade(v, parent, name), DirMade(v, parent, name).inode)
<1> DEFINE i == AllocInode(v, TRUE)
           u == i.volume
           n == i.inode
           a == AllocBlock(u)
           b == a.block
           ready == [Put(a.volume, b, Dir(DotRecords(n, parent))) EXCEPT !.inode[n] = DirInode(b)]
           added == AddEntry(ready, parent, n, name)
           w == DirMade(v, parent, name)
<1>1. /\ u \in Volumes(t) /\ Solid(u)
      /\ n # 0 => n \in Inodes(t) /\ InodeTaken(v, u, n)
  BY AllocInodeFacts DEF Sound
<1>2. w = IF n = 0 THEN v
          ELSE IF b = 0 THEN FreeInode(u, n, TRUE) ELSE DirEntered(added, n, b)
  BY DEF DirMade
<1> HIDE DEF i, w
<1>3. CASE n = 0
  <2>1. w = v
    BY <1>2, <1>3
  <2>2. QED
    BY <2>1 DEF w
<1>4. CASE n # 0
  <2>1. n \in Inodes(t) /\ InUse(u, n) /\ Unnamed(u, n) /\ u.inode = v.inode
    BY <1>1, <1>4 DEF InodeTaken
  <2>2. Apart(u, u.inode) /\ u.inode \in Inos(t)
    <3>1. Apart(v, v.inode) /\ v.inode \in Inos(t) /\ u.total = v.total
      BY <1>1 DEF Sound, Volumes
    <3>2. Apart(u, v.inode)
      BY <1>1, <1>4, <3>1, SameApart DEF InodeTaken
    <3>3. QED
      BY <2>1, <3>1, <3>2
  <2>3. /\ a.volume \in Volumes(t) /\ Solid(a.volume)
        /\ b # 0 => Took(u, a.volume, b) /\ b \in DataArea(t)
    BY <1>1, AllocFacts
  <2> HIDE DEF n, u, a
  <2>4. CASE b = 0
    <3>1. w = FreeInode(u, n, TRUE)
      BY <1>2, <1>4, <2>4
    <3>2. Sound(t, u, u.inode)
      BY <1>1, <2>2 DEF Sound
    <3>3. Sound(t, u, [u.inode EXCEPT ![n] = NewInode("none")])
      <4>1. NewInode("none") \in InodesOf(t)
            /\ \A k \in 0 .. Double : NewInode("none").block[k] \in {0, u.inode[n].block[k]}
        BY EmptyInode
      <4>2. QED
        BY <2>1, <3>2, <4>1, SameSlots
    <3>4. Sound(t, w, w.inode)
      BY <2>1, <3>1, <3>3, InodeGone
    <3>5. QED
      BY <3>4 DEF w
  <2>5. CASE b # 0
    <3> HIDE DEF b
    <3>1. Took(u, a.volume, b) /\ b \in DataArea(t) /\ b \in a.volume.blockBits
          /\ a.volume.inode = u.inode
      BY <2>3, <2>5 DEF Took
    <3>2. Apart(a.volume, u.inode) /\ Loose(a.volume, u.inode, b)
      BY <1>1, <2>2, <2>3, <3>1, TookApart
    <3>3. InUse(a.volume, n) /\ Unnamed(a.volume, n)
      <4>1. a.volume.total = u.total /\ \A x : Records(a.volume, x) = Records(u, x)
        BY <1>1, <2>3, <3>1, SameContents DEF Took, Volumes
      <4>2. QED
        BY <2>1, <3>1, <4>1 DEF InUse, Unnamed, Took
    <3>4. /\ Sound(t, ready, ready.inode) /\ InUse(ready, n) /\ Unnamed(ready, n)
          /\ ready.inode[n] = DirInode(b)
      BY <2>1, <2>3, <3>1, <3>2, <3>3, ReadyFacts
    <3> HIDE DEF ready
    <3>5. EntryAdded(t, ready, n, added)
      BY <2>1, <3>4, AddEntryFacts
    <3> HIDE DEF added
    <3>6. w = IF added.ok THEN added.volume ELSE FreeInode(FreeBlock(added.volume, b), n, TRUE)
      BY <1>2, <1>4, <2>5 DEF DirEntered
    <3>7. CASE added.ok
      <4>1. w = added.volume
        BY <3>6, <3>7
      <4>2. Sound(t, w, w.inode)
        BY <3>5, <4>1 DEF EntryAdded
      <4>3. QED
        BY <4>2 DEF w
    <3>8. CASE ~added.ok
      <4> DEFINE y == FreeBlock(added.volume, b)
                 x == NewInode("none")
                 ino == added.volume.inode
      <4>1. /\ Sound(t, added.volume, ino) /\ ino = ready.inode
            /\ InUse(added.volume, n) /\ Unnamed(added.volume, n)
        BY <3>5, <3>8 DEF EntryAdded
      <4>2. x \in InodesOf(t) /\ 0 \in 0 .. Double
        BY EmptyInode, BlockLimits
      <4>3. ino[n].block[0] = b /\ x.block = [ino[n].block EXCEPT ![0] = 0]
        <5> DEFINE none == [k \in 0 .. Double |-> 0]
        <5>1. DirInode(b).block = [none EXCEPT ![0] = b] /\ x.block = none
          BY DEF DirInode, NewInode
        <5>2. ino[n].block = [none EXCEPT ![0] = b]
          BY <3>4, <4>1, <5>1
        <5>3. [none EXCEPT ![0] = b][0] = b /\ none = [[none EXCEPT ![0] = b] EXCEPT ![0] = 0]
          BY <4>2
        <5> HIDE DEF none
        <5>4. QED
          BY <5>1, <5>2, <5>3
      <4>4. Sound(t, y, [ino EXCEPT ![n] = x]) /\ Frame(t, added.volume, y)
        <5> HIDE DEF x
        <5>1. /\ Sound(t, FreeBlock(added.volume, ino[n].block[0]), [ino EXCEPT ![n] = x])
              /\ Frame(t, added.volume, FreeBlock(added.volume, ino[n].block[0]))
          BY <2>1, <4>1, <4>2, <4>3, LetGo
        <5>2. QED
          BY <4>3, <5>1
      <4> HIDE DEF y
      <4>5. y.inode = ino /\ InUse(y, n) /\ Unnamed(y, n)
        <5>1. added.volume \in Volumes(t) /\ y \in Volumes(t)
          BY <4>1, <4>4 DEF Sound
        <5>2. QED
          BY <4>1, <4>4, <5>1, FrameFacts DEF Frame
      <4>6. w = FreeInode(y, n, TRUE)
        BY <3>6, <3>8 DEF y
      <4>7. Sound(t, w, w.inode)
        BY <2>1, <4>4, <4>5, <4>6, InodeGone
      <4>8. QED
        BY <4>7 DEF w
    <3>9. QED
      BY <3>5, <3>7, <3>8 DEF EntryAdded
  <2>6. QED
    BY <2>4, <2>5
<1>5. QED
  BY <1>3, <1>4

LEMMA DeletedFacts ==
  ASSUME NEW t \in Totals, NEW v, Sound(t, v, v.inode), NEW d \in Inodes(t),
         NEW place \in Places(v, d), IsNamed(RecordAt(v, d, place)),
         v.inode[RecordAt(v, d, place).inode].block[Single] = 0,
         v.inode[RecordAt(v, d, place).inode].block[Double] = 0
  PROVE  Sound(t, Deleted(v, d, place), Deleted(v, d, place).inode)
<1> DEFINE n == RecordAt(v, d, place).inode
           u == RemoveEntry(v, d, place)
           y == FreeInodeBlocks(u, u.inode[n])
           w == Deleted(v, d, place)
           x == NewInode("none")
<1>1. Sound(t, u, u.inode) /\ u.inode = v.inode /\ n \in Inodes(t) /\ InUse(u, n) /\ Unnamed(u, n)
  BY RemoveEntryFacts
<1>2. w = FreeInode(y, n, IsDir(v, n))
  BY <1>1 DEF Deleted
<1>3. u.inode[n].block[Single] = 0 /\ u.inode[n].block[Double] = 0
  BY <1>1
<1>4. x \in InodesOf(t) /\ \A k \in 0 .. Double : x.block[k] = 0
  BY EmptyInode
<1> HIDE DEF n, u, x
<1>5. Sound(t, y, [u.inode EXCEPT ![n] = x]) /\ Frame(t, u, y)
  BY <1>1, <1>3, <1>4, FreeInodeBlocksFacts
<1> HIDE DEF y
<1>6. y.inode = u.inode /\ InUse(y, n) /\ Unnamed(y, n)
  <2>1. u \in Volumes(t) /\ y \in Volumes(t)
    BY <1>1, <1>5 DEF Sound
  <2>2. QED
    BY <1>1, <1>5, <2>1, FrameFacts DEF Frame
<1>7. IsDir(v, n) \in BOOLEAN
  BY DEF IsDir
<1> HIDE DEF w
<1>8. Sound(t, w, w.inode)
  BY <1>1, <1>2, <1>5, <1>6, <1>7, InodeGone DEF x
<1>9. QED
  BY <1>8 DEF w

-----------------------------------------------------------------------------
(***************************************************************************)
(* Names are looked up.                                                    *)
(***************************************************************************)
LEMMA PlaceOfFacts ==
  ASSUME NEW t \in Totals, NEW v, Sound(t, v, v.inode), NEW d \in Inodes(t),
         NEW name \in Names, PlaceOf(v, d, name) # <<>>
  PROVE  LET p == PlaceOf(v, d, name)
         IN  /\ p \in Places(v, d) /\ IsNamed(RecordAt(v, d, p))
             /\ RecordAt(v, d, p).inode \in Inodes(t)
<1> DEFINE p == PlaceOf(v, d, name)
<1>1. Called(v, d, name) \in SUBSET Places(v, d)
  BY DEF Called
<1>2. p \in Called(v, d, name) /\ IsPlace(t, v, d, p)
  BY <1>1, FirstPlaceFacts DEF PlaceOf
<1> HIDE DEF p
<1>3. p \in Places(v, d) /\ RecordAt(v, d, p).inode # 0 /\ RecordAt(v, d, p).name = name
  BY <1>2 DEF Called
<1>4. name \notin {".", ".."}
  BY Params
<1>5. RecordAt(v, d, p).inode \in Inodes(t)
  BY <1>2, <1>3 DEF IsPlace, RecordsOf
<1>6. IsNamed(RecordAt(v, d, p))
  BY <1>3, <1>4 DEF IsNamed
<1>7. QED
  BY <1>3, <1>5, <1>6 DEF p

LEMMA FindFacts ==
  ASSUME NEW t \in Totals, NEW v, Sound(t, v, v.inode), NEW d \in Inodes(t),
         NEW name \in Names
  PROVE  /\ Find(v, d, name) \in {0} \cup Inodes(t)
         /\ PlaceOf(v, d, name) # <<>> /\ IsDir(v, d) =>
              RecordAt(v, d, PlaceOf(v, d, name)).inode = Find(v, d, name)
  BY PlaceOfFacts DEF Find

(* The record ".." of a directory has an inode.                            *)
LEMMA DotDotFacts ==
  ASSUME NEW t \in Totals, NEW v, Sound(t, v, v.inode), NEW d \in Inodes(t),
         DotDot(v, d) # <<>>
  PROVE  RecordAt(v, d, DotDot(v, d)).inode \in Inodes(t)
<1> DEFINE S == {p \in Places(v, d) : RecordAt(v, d, p).name = ".."}
           p == DotDot(v, d)
<1>1. S \in SUBSET Places(v, d) /\ p = FirstPlace(S)
  BY DEF DotDot
<1>2. p \in S /\ IsPlace(t, v, d, p)
  BY <1>1, FirstPlaceFacts
<1>3. RecordAt(v, d, p).name = ".." /\ RecordAt(v, d, p) \in RecordsOf(t)
  BY <1>2 DEF IsPlace
<1>4. QED
  BY <1>3 DEF RecordsOf

LEMMA RootFacts ==
  ASSUME NEW t \in Totals
  PROVE  RootInode \in Inodes(t) /\ 0 \notin Inodes(t)
  BY Params, InodeNumbers DEF RootInode

LEMMA ResolveFacts ==
  ASSUME NEW t \in Totals, NEW v, Sound(t, v, v.inode), NEW start \in Inodes(t),
         NEW names \in Seq(Names)
  PROVE  Resolve(v, start, names) \in {0} \cup Inodes(t)
<1> DEFINE n == Len(names)
           T == {0} \cup Inodes(t)
           next == [x \in (1 .. n) \X T |-> ResolveStep(v, x[2], names[x[1]])]
<1>1. n \in Nat /\ start \in T
  OBVIOUS
<1>2. ASSUME NEW d \in T, NEW i \in 1 .. n PROVE ResolveStep(v, d, names[i]) \in T
  <2>1. names[i] \in Names /\ names[i] # ".."
    BY <1>2, Params
  <2>2. CASE d = 0
    BY <2>2 DEF ResolveStep
  <2>3. CASE d # 0
    <3>1. d \in Inodes(t)
      BY <2>3
    <3>2. ResolveStep(v, d, names[i]) = Find(v, d, names[i])
      BY <2>1, <2>3 DEF ResolveStep
    <3>3. QED
      BY <2>1, <3>1, <3>2, FindFacts
  <2>4. QED
    BY <2>2, <2>3
<1>3. next \in [(1 .. n) \X T -> T]
  <2> HIDE DEF T, n
  <2>1. ASSUME NEW x \in (1 .. n) \X T PROVE ResolveStep(v, x[2], names[x[1]]) \in T
    <3>1. x[1] \in 1 .. n /\ x[2] \in T
      OBVIOUS
    <3>2. QED
      BY <1>2, <3>1
  <2>2. QED
    BY <2>1
<1>4. PICK at \in [0 .. n -> T] :
        at = [i \in 0 .. n |-> IF i = 0 THEN start ELSE next[<<i, at[i - 1]>>]]
  <2> HIDE DEF next, T, n
  <2>1. Iterated(n, T, start, next)
    BY ONLY <1>1, <1>3, Iteration
  <2>2. QED
    BY ONLY <2>1 DEF Iterated
<1>5. at = [i \in 0 .. n |-> IF i = 0 THEN start ELSE ResolveStep(v, at[i - 1], names[i])]
  <2> HIDE DEF T
  <2>1. ASSUME NEW i \in 0 .. n, i # 0
        PROVE  next[<<i, at[i - 1]>>] = ResolveStep(v, at[i - 1], names[i])
    <3>1. <<i, at[i - 1]>> \in (1 .. n) \X T
      BY <1>1, <2>1
    <3>2. QED
      BY <3>1
  <2> HIDE DEF next, n
  <2>2. QED
    BY <1>4, <2>1
<1> DEFINE f == CHOOSE g :
             g = [i \in 0 .. n |-> IF i = 0 THEN start ELSE ResolveStep(v, g[i - 1], names[i])]
<1>6. f = [i \in 0 .. n |-> IF i = 0 THEN start ELSE ResolveStep(v, f[i - 1], names[i])]
  <2> HIDE DEF n
  <2>1. QED
    BY <1>5
<1>7. Resolve(v, start, names) = f[n]
  BY DEF Resolve
<1> HIDE DEF f, T, n, next
<1> DEFINE Fine == {i \in Nat : i <= n => f[i] \in T}
<1>8. f[0] = start /\ \A i \in 1 .. n : f[i] = ResolveStep(v, f[i - 1], names[i])
  <2>1. 0 \in 0 .. n /\ \A i \in 1 .. n : i \in 0 .. n /\ i # 0
    BY <1>1
  <2>2. QED
    BY <1>6, <2>1
<1>9. 0 \in Fine
  BY <1>1, <1>8
<1>10. ASSUME NEW i \in Nat, i \in Fine PROVE i + 1 \in Fine
  <2>1. SUFFICES ASSUME i + 1 <= n PROVE f[i + 1] \in T
    OBVIOUS
  <2>2. f[i] \in T /\ i + 1 \in 1 .. n /\ (i + 1) - 1 = i
    BY <1>1, <1>10, <2>1
  <2>3. QED
    BY <1>2, <1>8, <2>2
<1>11. Nat \subseteq Fine
  <2> HIDE DEF Fine
  <2>1. QED
    BY <1>9, <1>10, Induction
<1>12. f[n] \in T
  BY <1>1, <1>11
<1>13. QED
  BY <1>7, <1>12 DEF T

(***************************************************************************)
(* cd: where the shell is, and the path in its prompt.                     *)
(***************************************************************************)
Paths == {p \in Seq(Names) : Len(p) <= MaxDepth}

Walks(t) == [ok : BOOLEAN, cwd : Inodes(t), path : Paths]

LEMMA FrontFacts ==
  ASSUME NEW S, NEW s \in Seq(S), s # <<>>
  PROVE  Front(s) \in Seq(S) /\ Len(Front(s)) = Len(s) - 1 /\ Len(s) \in Nat \ {0}
<1>1. Len(s) \in Nat /\ Len(s) # 0 /\ \A i \in 1 .. Len(s) : s[i] \in S
  BY LenProperties, ElementOfSeq, EmptySeq
<1>2. Len(s) - 1 \in Int /\ \A i \in 1 .. Len(s) - 1 : s[i] \in S
  BY <1>1
<1>3. /\ SubSeq(s, 1, Len(s) - 1) \in Seq(S)
      /\ Len(SubSeq(s, 1, Len(s) - 1)) = IF 1 <= Len(s) - 1 THEN Len(s) - 1 - 1 + 1 ELSE 0
  <2>1. 1 \in Int
    OBVIOUS
  <2>2. QED
    BY <1>2, <2>1, SubSeqProperties
<1>4. Front(s) = SubSeq(s, 1, Len(s) - 1)
  BY DEF Front
<1> DEFINE n == Len(s)
<1>5. /\ n \in Nat /\ n # 0 /\ Front(s) \in Seq(S)
      /\ Len(Front(s)) = IF 1 <= n - 1 THEN n - 1 - 1 + 1 ELSE 0
  BY <1>1, <1>3, <1>4
<1> HIDE DEF n
<1>6. n \in Nat \ {0} /\ Len(Front(s)) = n - 1
  BY <1>5
<1>7. QED
  BY <1>5, <1>6 DEF n

LEMMA PathFacts ==
  /\ <<>> \in Paths
  /\ \A p \in Paths : p # <<>> => Front(p) \in Paths
  /\ \A p \in Paths, name \in Names : Len(p) < MaxDepth => Append(p, name) \in Paths
<1>1. <<>> \in Paths
  BY DEF Paths, MaxDepth
<1>2. ASSUME NEW p \in Paths, p # <<>> PROVE Front(p) \in Paths
  <2>1. Front(p) \in Seq(Names) /\ Len(Front(p)) = Len(p) - 1 /\ Len(p) \in Nat \ {0}
    BY <1>2, FrontFacts DEF Paths
  <2>2. QED
    BY <2>1 DEF Paths, MaxDepth
<1>3. ASSUME NEW p \in Paths, NEW name \in Names, Len(p) < MaxDepth
      PROVE  Append(p, name) \in Paths
  <2>1. p \in Seq(Names) /\ Len(p) \in Nat
    BY DEF Paths
  <2>2. Append(p, name) \in Seq(Names) /\ Len(Append(p, name)) = Len(p) + 1
    BY <2>1
  <2>3. QED
    BY <1>3, <2>1, <2>2 DEF Paths, MaxDepth
<1>4. QED
  BY <1>1, <1>2, <1>3

LEMMA CdStepFacts ==
  ASSUME NEW t \in Totals, Sound(t, volume, volume.inode), NEW at \in Walks(t),
         NEW name \in Names \cup {".."}
  PROVE  CdStep(at, name) \in Walks(t)
<1> USE DEF Walks
<1>1. at.cwd \in Inodes(t) /\ at.path \in Paths
  OBVIOUS
<1>2. CASE ~at.ok
  BY <1>2 DEF CdStep
<1>3. CASE at.ok /\ name = ".."
  <2> DEFINE place == DotDot(volume, at.cwd)
  <2>1. CdStep(at, name) = Up(at)
    BY <1>3 DEF CdStep
  <2>2. CASE at.cwd = RootInode
    BY <2>1, <2>2 DEF Up
  <2>3. CASE at.cwd # RootInode
    <3> DEFINE up == IF place = <<>> THEN RootInode ELSE RecordAt(volume, at.cwd, place).inode
               p  == IF at.path = <<>> THEN at.path ELSE Front(at.path)
    <3>1. up \in Inodes(t)
      BY <1>1, RootFacts, DotDotFacts
    <3>2. p \in Paths
      BY <1>1, PathFacts
    <3>3. CdStep(at, name) = [at EXCEPT !.cwd = up, !.path = p]
      BY <2>1, <2>3 DEF Up
    <3> HIDE DEF up, p
    <3>4. QED
      BY <3>1, <3>2, <3>3
  <2>4. QED
    BY <2>2, <2>3
<1>4. CASE at.ok /\ name # ".."
  <2> DEFINE next == Find(volume, at.cwd, name)
             p    == IF Len(at.path) < MaxDepth THEN Append(at.path, name) ELSE at.path
  <2>1. name \in Names /\ CdStep(at, name) = Into(at, name)
    BY <1>4 DEF CdStep
  <2>2. next \in {0} \cup Inodes(t)
    BY <1>1, <2>1, FindFacts
  <2>3. p \in Paths
    BY <1>1, <2>1, PathFacts
  <2>4. Into(at, name) = IF next = 0 \/ ~IsDir(volume, next) THEN [at EXCEPT !.ok = FALSE]
                         ELSE [at EXCEPT !.cwd = next, !.path = p]
    BY DEF Into
  <2> HIDE DEF next, p
  <2>5. QED
    BY <2>1, <2>2, <2>3, <2>4
<1>5. QED
  BY <1>2, <1>3, <1>4

LEMMA WalkedFacts ==
  ASSUME NEW t \in Totals, Sound(t, volume, volume.inode), NEW start \in Walks(t),
         NEW names \in Seq(Names \cup {".."})
  PROVE  Walked(start, names) \in Walks(t)
<1> DEFINE n == Len(names)
           T == Walks(t)
           next == [x \in (1 .. n) \X T |-> CdStep(x[2], names[x[1]])]
<1>1. n \in Nat /\ start \in T
  OBVIOUS
<1>2. ASSUME NEW at \in T, NEW i \in 1 .. n PROVE CdStep(at, names[i]) \in T
  <2>1. names[i] \in Names \cup {".."}
    BY <1>2
  <2>2. QED
    BY <1>2, <2>1, CdStepFacts
<1>3. next \in [(1 .. n) \X T -> T]
  <2> HIDE DEF T, n
  <2>1. ASSUME NEW x \in (1 .. n) \X T PROVE CdStep(x[2], names[x[1]]) \in T
    <3>1. x[1] \in 1 .. n /\ x[2] \in T
      OBVIOUS
    <3>2. QED
      BY <1>2, <3>1
  <2>2. QED
    BY <2>1
<1>4. PICK at \in [0 .. n -> T] :
        at = [i \in 0 .. n |-> IF i = 0 THEN start ELSE next[<<i, at[i - 1]>>]]
  <2> HIDE DEF next, T, n
  <2>1. Iterated(n, T, start, next)
    BY ONLY <1>1, <1>3, Iteration
  <2>2. QED
    BY ONLY <2>1 DEF Iterated
<1>5. at = [i \in 0 .. n |-> IF i = 0 THEN start ELSE CdStep(at[i - 1], names[i])]
  <2> HIDE DEF T
  <2>1. ASSUME NEW i \in 0 .. n, i # 0
        PROVE  next[<<i, at[i - 1]>>] = CdStep(at[i - 1], names[i])
    <3>1. <<i, at[i - 1]>> \in (1 .. n) \X T
      BY <1>1, <2>1
    <3>2. QED
      BY <3>1
  <2> HIDE DEF next, n
  <2>2. QED
    BY <1>4, <2>1
<1> DEFINE walk == CHOOSE g :
             g = [i \in 0 .. n |-> IF i = 0 THEN start ELSE CdStep(g[i - 1], names[i])]
<1>6. walk = [i \in 0 .. n |-> IF i = 0 THEN start ELSE CdStep(walk[i - 1], names[i])]
  <2> HIDE DEF n
  <2>1. QED
    BY <1>5
<1>7. Walked(start, names) = walk[n]
  BY DEF Walked
<1> HIDE DEF walk, T, n, next
<1> DEFINE Fine == {i \in Nat : i <= n => walk[i] \in T}
<1>8. walk[0] = start /\ \A i \in 1 .. n : walk[i] = CdStep(walk[i - 1], names[i])
  <2>1. 0 \in 0 .. n /\ \A i \in 1 .. n : i \in 0 .. n /\ i # 0
    BY <1>1
  <2>2. QED
    BY <1>6, <2>1
<1>9. 0 \in Fine
  BY <1>1, <1>8
<1>10. ASSUME NEW i \in Nat, i \in Fine PROVE i + 1 \in Fine
  <2>1. SUFFICES ASSUME i + 1 <= n PROVE walk[i + 1] \in T
    OBVIOUS
  <2>2. walk[i] \in T /\ i + 1 \in 1 .. n /\ (i + 1) - 1 = i
    BY <1>1, <1>10, <2>1
  <2>3. QED
    BY <1>2, <1>8, <2>2
<1>11. Nat \subseteq Fine
  <2> HIDE DEF Fine
  <2>1. QED
    BY <1>9, <1>10, Induction
<1>12. walk[n] \in T
  BY <1>1, <1>11
<1>13. QED
  BY <1>7, <1>12 DEF T

-----------------------------------------------------------------------------
(***************************************************************************)
(* format.                                                                 *)
(***************************************************************************)
OfFirst(g, n) == IF g = 0 THEN n ELSE 0

FirstCounts(t, g) ==
  /\ GroupCounters(t, g) \in [blocks : Nat, inodes : Nat, dirs : Nat]
  /\ GroupSize(t, g) - Overhead(t, g) \in Nat
  /\ GroupCounters(t, g).blocks = GroupSize(t, g) - Overhead(t, g) - OfFirst(g, 1)
  /\ GroupCounters(t, g).inodes = InodesPerGroup - OfFirst(g, ReservedInodes)

LEMMA GroupAtFormat ==
  ASSUME NEW t \in Totals, NEW g \in Groups(t)
  PROVE  FirstCounts(t, g)
<1> DEFINE n == GroupSize(t, g) - Overhead(t, g)
           c == GroupCounters(t, g)
<1>1. n \in Nat /\ n < Word16 /\ (g = 0 => n > 0)
  <2> DEFINE o == Overhead(t, g)
             z == GroupSize(t, g)
  <2>1. GroupFits(t, g)
    BY GroupsFit
  <2>2. o \in Nat \ {0} /\ z \in Nat /\ o <= z /\ z <= BlocksPerGroup /\ (g = 0 => o < z)
    BY <2>1 DEF GroupFits
  <2>3. BlocksPerGroup \in Nat /\ BlocksPerGroup < Word16 /\ Word16 \in Nat
    BY Params DEF Word16
  <2> HIDE DEF o, z
  <2>4. z - o \in Nat /\ z - o < Word16 /\ (g = 0 => z - o > 0)
    BY <2>2, <2>3
  <2>5. QED
    BY <2>4 DEF o, z
<1>2. n % Word16 = n
  <2>1. Word16 \in Nat \ {0} /\ n \in Int /\ 0 \in Int /\ 0 * Word16 = 0
    BY <1>1 DEF Word16
  <2>2. 0 * Word16 <= n /\ n < 0 * Word16 + Word16
    BY <1>1, <2>1
  <2>3. n % Word16 = n - 0 * Word16
    BY <2>1, <2>2, DivUnique
  <2>4. QED
    BY <1>1, <2>1, <2>3
<1>3. c = [blocks |-> IF g = 0 /\ n > 0 THEN n - 1 ELSE n,
           inodes |-> IF g = 0 THEN InodesPerGroup - ReservedInodes ELSE InodesPerGroup,
           dirs   |-> IF g = 0 THEN 1 ELSE 0]
  BY <1>2 DEF GroupCounters
<1> HIDE DEF n, c
<1>4. c.blocks = n - OfFirst(g, 1) /\ c.blocks \in Nat
  BY <1>1, <1>3 DEF OfFirst
<1>5. c.inodes = InodesPerGroup - OfFirst(g, ReservedInodes) /\ c.inodes \in Nat
  BY <1>3, Params DEF OfFirst
<1>6. c \in [blocks : Nat, inodes : Nat, dirs : Nat]
  <2>1. c.dirs \in Nat
    BY <1>3
  <2>2. c = [blocks |-> c.blocks, inodes |-> c.inodes, dirs |-> c.dirs]
    BY <1>3
  <2>3. QED
    BY <1>4, <1>5, <2>1, <2>2
<1>7. QED
  BY <1>1, <1>4, <1>5, <1>6 DEF FirstCounts, n, c

LEMMA UsedOfGroup ==
  ASSUME NEW t \in Totals, NEW g \in Groups(t)
  PROVE  Cardinality(UsedAtFormat(t) \cap GroupBlocks(g)) =
           BlocksPerGroup - GroupCounters(t, g).blocks
<1> DEFINE s == GroupStart(g)
           o == Overhead(t, g)
           z == GroupSize(t, g)
           n == BlocksPerGroup
           r == OfFirst(g, 1)
           all == GroupBlocks(g)
           clear == (s + o + r) .. (s + z - 1)
           used == UsedAtFormat(t) \cap all
<1>1. g \in Nat
  BY Layout DEF GroupsLaidOut, Groups
<1>2. s \in Nat /\ n \in Nat \ {0} /\ o \in Nat \ {0} /\ z \in Nat /\ r \in {0, 1}
      /\ o + r <= z /\ z <= n
  BY <1>1, Layout, Params, GroupsFit DEF GroupsLaidOut, GroupFits, OfFirst
<1>3. all = s .. (s + n - 1)
  BY DEF GroupBlocks
<1>4. /\ Metadata(t) \cap all = s .. (s + o - 1)
      /\ BeyondEnd(t) \cap all = (s + z) .. (s + n - 1)
  BY MetadataFacts DEF OwnMetadata
<1>5. {RootBlock(t)} \cap all = (s + o) .. (s + o + r - 1)
  <2>1. CASE g = 0
    <3>1. RootBlock(t) = s + o
      <4>1. 0 * BlocksPerGroup = 0 /\ FirstDataBlock + 0 = FirstDataBlock
        BY Params
      <4>2. QED
        BY <2>1, <4>1 DEF RootBlock, GroupStart
    <3>2. RootBlock(t) \in all
      BY <2>1, DataFacts
    <3>3. r = 1
      BY <2>1 DEF OfFirst
    <3> HIDE DEF s, o, all
    <3>4. (s + o) .. (s + o + r - 1) = {s + o}
      BY <1>2, <3>3
    <3>5. QED
      BY <3>1, <3>2, <3>4
  <2>2. CASE g # 0
    <3>1. RootBlock(t) \notin all
      BY <1>1, <2>2, DataFacts, OneGroup
    <3>2. r = 0
      BY <2>2 DEF OfFirst
    <3> HIDE DEF s, o, all
    <3>3. (s + o) .. (s + o + r - 1) = {}
      BY <1>2, <3>2
    <3>4. QED
      BY <3>1, <3>3
  <2>3. QED
    BY <2>1, <2>2
<1>6. used = (Metadata(t) \cap all) \cup (BeyondEnd(t) \cap all) \cup ({RootBlock(t)} \cap all)
  BY DEF UsedAtFormat
<1>7. GroupCounters(t, g).blocks = z - o - r
  BY GroupAtFormat DEF FirstCounts
<1> HIDE DEF s, o, z, r, all, used, n
<1>8. used = all \ clear
  BY <1>2, <1>3, <1>4, <1>5, <1>6
<1>9. clear \subseteq all
  BY <1>2, <1>3
<1>10. IsFiniteSet(all) /\ Cardinality(all) = n
  <2> DEFINE e == s + n - 1
  <2>1. s \in Int /\ e \in Int /\ ~(s > e) /\ e - s + 1 = n
    BY <1>2
  <2> HIDE DEF e
  <2>2. IsFiniteSet(s .. e) /\ Cardinality(s .. e) = n
    BY <2>1, FS_Interval
  <2>3. QED
    BY <1>3, <2>2 DEF e
<1>11. Cardinality(clear) = z - o - r
  <2> DEFINE from == s + o + r
             to   == s + z - 1
  <2>1. from \in Int /\ to \in Int /\ z - o - r = IF from > to THEN 0 ELSE to - from + 1
    BY <1>2
  <2>2. clear = from .. to
    OBVIOUS
  <2> HIDE DEF from, to, clear
  <2>3. Cardinality(from .. to) = IF from > to THEN 0 ELSE to - from + 1
    BY <2>1, FS_Interval
  <2>4. QED
    BY <2>1, <2>2, <2>3
<1>12. Cardinality(used) = n - (z - o - r)
  <2>1. all \cap clear = clear
    BY <1>9
  <2> HIDE DEF clear
  <2>2. Cardinality(all \ clear) = Cardinality(all) - Cardinality(all \cap clear)
    BY <1>10, FS_Difference
  <2>3. QED
    BY <1>8, <1>10, <1>11, <2>1, <2>2
<1>13. QED
  BY <1>7, <1>12 DEF used, all, n

LEMMA TakenOfGroup ==
  ASSUME NEW g \in Nat
  PROVE  LET bits == {<<0, i>> : i \in 0 .. (ReservedInodes - 1)}
         IN  Cardinality({bit \in bits : bit[1] = g}) = OfFirst(g, ReservedInodes)
<1> DEFINE bits == {<<0, i>> : i \in 0 .. (ReservedInodes - 1)}
           row  == {bit \in bits : bit[1] = g}
<1>1. CASE g = 0
  <2>1. row = {0} \X (0 .. (ReservedInodes - 1))
    BY <1>1
  <2>2. /\ IsFiniteSet(0 .. (ReservedInodes - 1))
        /\ Cardinality(0 .. (ReservedInodes - 1)) = ReservedInodes
    <3>1. 0 \in Int /\ ReservedInodes - 1 \in Int /\ ~(0 > ReservedInodes - 1)
          /\ ReservedInodes - 1 - 0 + 1 = ReservedInodes
      BY Params
    <3>2. QED
      BY <3>1, FS_Interval
  <2>3. IsFiniteSet({0}) /\ Cardinality({0}) = 1
    BY FS_Singleton
  <2>4. Cardinality({0} \X (0 .. (ReservedInodes - 1))) = 1 * ReservedInodes
    BY ZenonT(60), <2>2, <2>3, FS_Product
  <2>5. 1 * ReservedInodes = ReservedInodes /\ OfFirst(g, ReservedInodes) = ReservedInodes
    BY <1>1, Params DEF OfFirst
  <2>6. QED
    BY <2>1, <2>4, <2>5
<1>2. CASE g # 0
  <2>1. row = {}
    BY <1>2
  <2>2. QED
    BY <1>2, <2>1, FS_EmptySet DEF OfFirst
<1>3. QED
  BY <1>1, <1>2

LEMMA BlocksAtFormat ==
  ASSUME NEW t \in Totals
  PROVE  /\ FreeAtFormat(t) \in Nat
         /\ FreeAtFormat(t) = Sum(t, [g \in Groups(t) |-> GroupCounters(t, g).blocks])
<1> DEFINE room(g) == GroupSize(t, g) - Overhead(t, g)
           f == [g \in Groups(t) |-> IF room(g) > 0 THEN room(g) ELSE 0]
           h == [g \in Groups(t) |-> GroupCounters(t, g).blocks]
<1>1. 0 \in Groups(t)
  BY Layout DEF GroupsLaidOut, Groups
<1>2. ASSUME NEW g \in Groups(t)
      PROVE  /\ room(g) \in Nat /\ f[g] = room(g)
             /\ h[g] = room(g) - OfFirst(g, 1) /\ h[g] \in Nat
  <2>1. FirstCounts(t, g)
    BY GroupAtFormat
  <2>2. room(g) \in Nat /\ h[g] = room(g) - OfFirst(g, 1) /\ h[g] \in Nat
    BY <2>1 DEF FirstCounts
  <2>3. f[g] = IF room(g) > 0 THEN room(g) ELSE 0
    OBVIOUS
  <2> HIDE DEF room, f, h
  <2>4. QED
    BY <2>2, <2>3
<1>3. FreeAtFormat(t) = IF Sum(t, f) > 0 THEN Sum(t, f) - 1 ELSE 0
  BY DEF FreeAtFormat
<1>4. f \in [Groups(t) -> Nat] /\ h \in [Groups(t) -> Nat]
  <2>1. \A g \in Groups(t) : f[g] \in Nat /\ h[g] \in Nat
    BY <1>2
  <2>2. f = [g \in Groups(t) |-> f[g]] /\ h = [g \in Groups(t) |-> h[g]]
    OBVIOUS
  <2> HIDE DEF f, h
  <2>3. QED
    BY <2>1, <2>2
<1>5. h[0] = f[0] + (-1) /\ \A g \in Groups(t) : g # 0 => h[g] = f[g]
  <2>1. h[0] = room(0) - 1 /\ f[0] = room(0) /\ room(0) \in Nat
    BY <1>1, <1>2 DEF OfFirst
  <2>2. ASSUME NEW g \in Groups(t), g # 0 PROVE h[g] = f[g]
    <3>1. h[g] = room(g) - 0 /\ f[g] = room(g) /\ room(g) \in Nat
      BY <1>2, <2>2 DEF OfFirst
    <3> HIDE DEF room, f, h
    <3>2. QED
      BY <3>1
  <2> HIDE DEF room, f, h
  <2>3. QED
    BY <2>1, <2>2
<1> HIDE DEF f, h
<1>6. Sum(t, h) = Sum(t, f) + (-1) /\ Sum(t, f) \in Nat /\ Sum(t, h) \in Nat
  <2>1. -1 \in Int
    OBVIOUS
  <2>2. QED
    BY <1>1, <1>4, <1>5, <2>1, SumMoves
<1>7. FreeAtFormat(t) = Sum(t, h) /\ FreeAtFormat(t) \in Nat
  BY <1>3, <1>6
<1>8. QED
  BY <1>7 DEF h

LEMMA InodesAtFormat ==
  ASSUME NEW t \in Totals
  PROVE  LET n == Cardinality(Inodes(t)) - ReservedInodes
         IN  n \in Nat /\ n = Sum(t, [g \in Groups(t) |-> GroupCounters(t, g).inodes])
<1> DEFINE c == InodesPerGroup
           f == [g \in Groups(t) |-> c]
           h == [g \in Groups(t) |-> GroupCounters(t, g).inodes]
           all == GroupsCount(t) * c
<1>1. 0 \in Groups(t) /\ c \in Nat /\ ReservedInodes \in Nat /\ all \in Nat
  BY Layout, Params DEF GroupsLaidOut, Groups
<1>2. ASSUME NEW g \in Groups(t)
      PROVE  h[g] = c - OfFirst(g, ReservedInodes) /\ h[g] \in Nat /\ f[g] = c
  BY GroupAtFormat DEF FirstCounts
<1>3. Cardinality(Inodes(t)) = all
  <2>1. Inodes(t) = 1 .. all
    BY DEF Inodes
  <2> HIDE DEF all
  <2>2. 1 \in Int /\ all \in Int /\ all = IF 1 > all THEN 0 ELSE all - 1 + 1
    BY <1>1
  <2>3. QED
    BY <2>1, <2>2, FS_Interval
<1>4. Sum(t, f) = all
  BY <1>1, SumOfEqual
<1>5. f \in [Groups(t) -> Nat] /\ h \in [Groups(t) -> Nat]
  <2>1. \A g \in Groups(t) : f[g] \in Nat /\ h[g] \in Nat
    BY <1>1, <1>2
  <2>2. f = [g \in Groups(t) |-> f[g]] /\ h = [g \in Groups(t) |-> h[g]]
    OBVIOUS
  <2> HIDE DEF f, h
  <2>3. QED
    BY <2>1, <2>2
<1> DEFINE d == -ReservedInodes
<1>6. d \in Int /\ h[0] = f[0] + d /\ \A g \in Groups(t) : g # 0 => h[g] = f[g]
  <2>1. h[0] = c - ReservedInodes /\ f[0] = c
    BY <1>1, <1>2 DEF OfFirst
  <2>2. ASSUME NEW g \in Groups(t), g # 0 PROVE h[g] = f[g]
    <3>1. h[g] = c - 0 /\ f[g] = c
      BY <1>2, <2>2 DEF OfFirst
    <3> HIDE DEF f, h
    <3>2. QED
      BY <1>1, <3>1
  <2> HIDE DEF f, h
  <2>3. QED
    BY <1>1, <2>1, <2>2
<1> HIDE DEF f, h, d, all
<1>7. Sum(t, h) = Sum(t, f) + d /\ Sum(t, h) \in Nat
  BY <1>1, <1>5, <1>6, SumMoves
<1>8. Sum(t, h) = all - ReservedInodes
  BY <1>1, <1>4, <1>7 DEF d
<1>9. QED
  BY <1>3, <1>7, <1>8 DEF h

LEMMA FormattedTyped ==
  ASSUME NEW t \in Totals
  PROVE  Formatted(t) \in Volumes(t)
<1> DEFINE v == Formatted(t)
<1>1. UsedAtFormat(t) \in SUBSET Bits(t)
  <2>1. Metadata(t) \subseteq Bits(t) /\ BeyondEnd(t) \subseteq Bits(t) /\ RootBlock(t) \in Bits(t)
    BY MetadataFacts, BlocksOfGroups, DataFacts
  <2>2. QED
    BY <2>1 DEF UsedAtFormat
<1>2. {<<0, i>> : i \in 0 .. (ReservedInodes - 1)} \in SUBSET BitsOfInodes(t)
  <2>1. 0 \in Groups(t) /\ \A i \in 0 .. (ReservedInodes - 1) : i \in 0 .. (InodesPerGroup - 1)
    BY Layout, Params DEF GroupsLaidOut, Groups
  <2>2. QED
    BY <2>1 DEF BitsOfInodes
<1>3. [g \in Groups(t) |-> GroupCounters(t, g)]
        \in [Groups(t) -> [blocks : Nat, inodes : Nat, dirs : Nat]]
  BY GroupAtFormat DEF FirstCounts
<1>4. FreeAtFormat(t) \in Nat /\ Cardinality(Inodes(t)) - ReservedInodes \in Nat
  BY BlocksAtFormat, InodesAtFormat
<1>5. DirInode(RootBlock(t)) \in InodesOf(t) /\ NewInode("none") \in InodesOf(t)
  <2> DEFINE long == [NewInode("dir") EXCEPT !.size = 1]
  <2>1. NewInode("dir") \in InodesOf(t) /\ NewInode("none") \in InodesOf(t)
    BY EmptyInode
  <2>2. long \in InodesOf(t) /\ RootBlock(t) \in Pointees(t) /\ 0 \in 0 .. Double
    BY <2>1, DataFacts, BlockLimits DEF InodesOf, Pointees
  <2>3. DirInode(RootBlock(t)) = [long EXCEPT !.block[0] = RootBlock(t)]
    BY DEF DirInode, NewInode
  <2> HIDE DEF long
  <2>4. [long EXCEPT !.block[0] = RootBlock(t)] \in InodesOf(t)
    BY <2>2, BlockSet
  <2>5. QED
    BY <2>1, <2>3, <2>4
<1>6. Dir(DotRecords(RootInode, RootInode)) \in Contents(t) /\ Nothing \in Contents(t)
  BY RootFacts, DotFacts, ContentMade
<1>7. v.inode \in [Inodes(t) -> InodesOf(t)]
  BY <1>5 DEF Formatted
<1>8. v.data \in [Blocks(t) -> Contents(t)]
  BY <1>6 DEF Formatted
<1> DEFINE sb == [blocks |-> FreeAtFormat(t), inodes |-> Cardinality(Inodes(t)) - ReservedInodes]
<1>9. sb \in [blocks : Nat, inodes : Nat]
  BY <1>4
<1>10. v = [total |-> t, blockBits |-> UsedAtFormat(t),
            inodeBits |-> {<<0, i>> : i \in 0 .. (ReservedInodes - 1)},
            groups |-> [g \in Groups(t) |-> GroupCounters(t, g)], sb |-> sb,
            inode |-> v.inode, data |-> v.data]
  BY DEF Formatted
<1> HIDE DEF v, sb
<1>11. v \in Volumes(t)
  BY <1>1, <1>2, <1>3, <1>7, <1>8, <1>9, <1>10 DEF Volumes
<1>12. QED
  BY <1>11 DEF v

LEMMA FormattedSolid ==
  ASSUME NEW t \in Totals
  PROVE  Solid(Formatted(t))
<1> DEFINE v == Formatted(t)
           root == Dir(DotRecords(RootInode, RootInode))
           none == {}
<1>1. /\ v.total = t /\ v.blockBits = UsedAtFormat(t)
      /\ v.inodeBits = {<<0, i>> : i \in 0 .. (ReservedInodes - 1)}
      /\ v.groups = [g \in Groups(t) |-> GroupCounters(t, g)]
      /\ v.sb.blocks = FreeAtFormat(t)
      /\ v.sb.inodes = Cardinality(Inodes(t)) - ReservedInodes
      /\ v.data = [b \in Blocks(t) |-> IF b = RootBlock(t) THEN root ELSE Nothing]
  BY DEF Formatted
<1>2. v \in Volumes(t)
  BY FormattedTyped
<1> HIDE DEF v
<1>3. Kept(v)
  <2>1. RootBlock(t) \in v.blockBits /\ Metadata(t) \cup BeyondEnd(t) \subseteq v.blockBits
    BY <1>1 DEF UsedAtFormat
  <2>2. \A b \in Blocks(t) : b \notin v.blockBits => v.data[b] = Nothing
    BY <1>1, <2>1
  <2>3. QED
    BY <1>1, <2>1, <2>2 DEF Kept
<1>4. NamedOnce(v)
  <2>1. /\ OnceEach(RecordsIn(root)) /\ Roster(RecordsIn(root)) = {}
        /\ OnceEach(RecordsIn(Nothing)) /\ Roster(RecordsIn(Nothing)) = {}
    BY RootFacts, DotFacts, NothingHeld, NoRecords
  <2>2. ASSUME NEW b \in Blocks(t) PROVE OnceEach(Records(v, b)) /\ Roster(Records(v, b)) = {}
    <3>1. Records(v, b) \in {<<>>, RecordsIn(v.data[b])}
      BY DEF Records, RecordsIn
    <3>2. v.data[b] \in {root, Nothing}
      BY <1>1
    <3> HIDE DEF root
    <3>3. QED
      BY <2>1, <3>1, <3>2, NoRecords
  <2>3. QED
    BY <1>1, <2>2 DEF NamedOnce
<1>5. BlocksCounted(v)
  <2>1. ASSUME NEW g \in Groups(t)
        PROVE  v.groups[g].blocks = BlocksPerGroup - Used(v, g)
    <3>1. v.groups[g] = GroupCounters(t, g)
      BY <1>1
    <3>2. Used(v, g) = BlocksPerGroup - GroupCounters(t, g).blocks
      BY <1>1, UsedOfGroup DEF Used
    <3>3. GroupCounters(t, g).blocks \in Nat
      BY GroupAtFormat DEF FirstCounts
    <3>4. QED
      BY <3>1, <3>2, <3>3, Params
  <2>2. [g \in Groups(t) |-> v.groups[g].blocks] = [g \in Groups(t) |-> GroupCounters(t, g).blocks]
    BY <1>1
  <2>3. v.sb.blocks = Sum(t, [g \in Groups(t) |-> v.groups[g].blocks])
    BY <1>1, <2>2, BlocksAtFormat
  <2>4. QED
    BY <1>1, <2>1, <2>3 DEF BlocksCounted
<1>6. InodesCounted(v)
  <2>1. ASSUME NEW g \in Groups(t)
        PROVE  v.groups[g].inodes = InodesPerGroup - Taken(v, g)
    <3>1. v.groups[g].inodes = InodesPerGroup - OfFirst(g, ReservedInodes)
      BY <1>1, GroupAtFormat DEF FirstCounts
    <3>2. g \in Nat
      BY Layout DEF GroupsLaidOut, Groups
    <3>3. Taken(v, g) = OfFirst(g, ReservedInodes)
      BY <1>1, <3>2, TakenOfGroup DEF Taken, BitsTaken
    <3>4. QED
      BY <3>1, <3>3
  <2>2. [g \in Groups(t) |-> v.groups[g].inodes] = [g \in Groups(t) |-> GroupCounters(t, g).inodes]
    BY <1>1
  <2>3. v.sb.inodes = Sum(t, [g \in Groups(t) |-> v.groups[g].inodes])
    BY <1>1, <2>2, InodesAtFormat
  <2>4. QED
    BY <1>1, <2>1, <2>3 DEF InodesCounted
<1>7. QED
  BY <1>3, <1>4, <1>5, <1>6 DEF Solid, v

LEMMA FormattedFacts ==
  ASSUME NEW t \in Totals
  PROVE  Sound(t, Formatted(t), Formatted(t).inode)
<1> DEFINE v == Formatted(t)
           ino == v.inode
           root == Dir(DotRecords(RootInode, RootInode))
           home == <<0, RootInode, 0>>
<1>1. v \in Volumes(t) /\ Solid(v) /\ ino \in Inos(t)
  BY FormattedTyped, FormattedSolid DEF Volumes, Inos
<1>2. /\ v.total = t /\ RootBlock(t) \in v.blockBits
      /\ v.inode = [n \in Inodes(t) |-> IF n = RootInode THEN DirInode(RootBlock(t))
                                        ELSE NewInode("none")]
      /\ v.data = [b \in Blocks(t) |-> IF b = RootBlock(t) THEN root ELSE Nothing]
  BY DEF Formatted, UsedAtFormat
<1> HIDE DEF v
<1>3. ASSUME NEW s \in Slots(t), s # home PROVE At(v, ino, s) = 0
  <2>1. CASE \E n \in Inodes(t), i \in 0 .. Double : s = <<0, n, i>>
    <3>1. PICK n \in Inodes(t), i \in 0 .. Double : s = <<0, n, i>>
      BY <2>1
    <3>2. At(v, ino, s) = ino[n].block[i]
      BY <3>1, SlotsAt
    <3>3. CASE n = RootInode
      <4>1. i # 0 /\ ino[n] = DirInode(RootBlock(t))
        BY <1>2, <1>3, <3>1, <3>3
      <4>2. DirInode(RootBlock(t)).block[i] = 0
        BY <4>1 DEF DirInode, NewInode
      <4>3. QED
        BY <3>2, <4>1, <4>2
    <3>4. CASE n # RootInode
      <4>1. ino[n] = NewInode("none")
        BY <1>2, <3>4
      <4>2. QED
        BY <3>2, <4>1, EmptyInode
    <3>5. QED
      BY <3>3, <3>4
  <2>2. CASE \E b \in Blocks(t), i \in 0 .. (PtrsPerBlock - 1) : s = <<1, b, i>>
    <3>1. PICK b \in Blocks(t), i \in 0 .. (PtrsPerBlock - 1) : s = <<1, b, i>>
      BY <2>2
    <3>2. At(v, ino, s) = Pointers(v, b)[i]
      BY <3>1, SlotsAt
    <3>3. v.data[b] \in {root, Nothing}
      BY <1>2
    <3>4. PtrsIn(root) = NoPtrs /\ PtrsIn(Nothing) = NoPtrs
      BY RootFacts, DotFacts, NothingHeld
    <3>5. Pointers(v, b) = NoPtrs
      <4> HIDE DEF root
      <4>1. QED
        BY <3>3, <3>4 DEF Pointers, PtrsIn
    <3>6. QED
      BY <3>2, <3>5 DEF NoPtrs
  <2>3. QED
    BY <2>1, <2>2, SlotKinds
<1>4. home \in Slots(t) /\ At(v, ino, home) = RootBlock(t)
  <2>1. RootInode \in Inodes(t) /\ 0 \in 0 .. Double
    BY RootFacts, BlockLimits
  <2>2. home \in Slots(t) /\ At(v, ino, home) = ino[RootInode].block[0]
    BY <2>1, SlotsAt
  <2>3. ino[RootInode].block[0] = RootBlock(t)
    <3>1. ino[RootInode] = DirInode(RootBlock(t))
      BY <1>2, <2>1
    <3>2. DirInode(RootBlock(t)).block[0] = RootBlock(t)
      BY <2>1 DEF DirInode, NewInode
    <3>3. QED
      BY <3>1, <3>2
  <2>4. QED
    BY <2>2, <2>3
<1>5. Apart(v, ino)
  <2> HIDE DEF ino, home
  <2>1. QED
    BY <1>2, <1>3, <1>4 DEF Apart
<1>6. QED
  BY <1>1, <1>5 DEF Sound, v

-----------------------------------------------------------------------------
(***************************************************************************)
(* The inductive invariant, for users who delete directories with things   *)
(* in them but are careful otherwise.                                      *)
(***************************************************************************)
Careful == Careless \subseteq {"inhabited"}

VolumeInv == volume.total \in Totals /\ Sound(volume.total, volume, volume.inode)

Counters == [blocks : Nat, inodes : Nat]

ShellInv ==
  /\ memory \in Seq(Counters) /\ Len(memory) <= 1
  /\ mounted \in BOOLEAN
  /\ mounted => cwd \in Inodes(volume.total)
  /\ path \in Paths

Ext2Inv == VolumeInv /\ ShellInv

LEMMA VolumeKept ==
  ASSUME NEW t \in Totals, ShellInv, volume.total = t, UNCHANGED <<mounted, cwd, path>>,
         memory' = <<>>, Sound(t, volume', volume'.inode)
  PROVE  Ext2Inv'
<1>1. volume'.total = t
  BY DEF Sound, Volumes
<1>2. VolumeInv'
  BY <1>1 DEF VolumeInv
<1>3. memory' \in Seq(Counters) /\ Len(memory') <= 1
  OBVIOUS
<1>4. ShellInv'
  BY <1>1, <1>3 DEF ShellInv
<1>5. QED
  BY <1>2, <1>4 DEF Ext2Inv

(* Careful users go on only with the counters of the disk in memory.       *)
LEMMA GoingOn ==
  ASSUME Careful, MayGoOn
  PROVE  memory = <<>> /\ Counted = volume
<1>1. memory = <<>>
  BY DEF Careful, MayGoOn
<1>2. QED
  BY <1>1 DEF Counted

LEMMA Left ==
  ASSUME memory = <<>>, Counted = volume, NEW w, Leaves(w)
  PROVE  volume' = w /\ memory' = <<>>
  BY DEF Leaves

LEMMA BelowFacts ==
  ASSUME NEW names \in Below
  PROVE  /\ names \in Seq(Names) /\ names # <<>>
         /\ Front(names) \in Seq(Names) /\ Last(names) \in Names
<1>1. names \in Seq(Names) /\ names # <<>>
  <2>1. CASE \E n \in Names : names = <<n>>
    <3>1. PICK n \in Names : names = <<n>>
      BY <2>1
    <3>2. <<n>> \in Seq(Names) /\ <<n>> # <<>>
      OBVIOUS
    <3>3. QED
      BY <3>1, <3>2
  <2>2. CASE \E m, n \in Names : names = <<m, n>>
    <3>1. PICK m \in Names, n \in Names : names = <<m, n>>
      BY <2>2
    <3>2. <<m, n>> \in Seq(Names) /\ <<m, n>> # <<>>
      OBVIOUS
    <3>3. QED
      BY <3>1, <3>2
  <2>3. QED
    BY <2>1, <2>2 DEF Below
<1>2. Front(names) \in Seq(Names) /\ Len(names) \in Nat \ {0}
  BY <1>1, FrontFacts
<1>3. names[Len(names)] \in Names
  <2>1. Len(names) \in 1 .. Len(names)
    BY <1>2
  <2>2. QED
    BY <1>1, <2>1, ElementOfSeq
<1>4. QED
  BY <1>1, <1>2, <1>3 DEF Last

LEMMA ParentFacts ==
  ASSUME Ext2Inv, mounted, NEW names \in Below, Parent(names) # 0
  PROVE  /\ volume.total \in Totals /\ Sound(volume.total, volume, volume.inode)
         /\ Parent(names) \in Inodes(volume.total) /\ Last(names) \in Names
<1>1. volume.total \in Totals /\ Sound(volume.total, volume, volume.inode)
      /\ cwd \in Inodes(volume.total)
  BY DEF Ext2Inv, VolumeInv, ShellInv
<1>2. Front(names) \in Seq(Names) /\ Last(names) \in Names
  BY BelowFacts
<1>3. Resolve(volume, cwd, Front(names)) \in {0} \cup Inodes(volume.total)
  BY <1>1, <1>2, ResolveFacts
<1>4. QED
  BY <1>1, <1>2, <1>3 DEF Parent

(* A file that careful users write over or remove has direct blocks only.  *)
LEMMA DirectOnly ==
  ASSUME Careful, NEW n, Keeps(n)
  PROVE  volume.inode[n].block[Single] = 0 /\ volume.inode[n].block[Double] = 0
  BY DEF Careful, Keeps, HasIndirect

LEMMA WriteFileStep ==
  ASSUME Careful, Ext2Inv, NEW names \in Below, NEW text \in Texts, NEW size \in Sizes,
         Write(names, text, size)
  PROVE  Ext2Inv'
<1> DEFINE t == volume.total
           d == Parent(names)
           name == Last(names)
           n == Find(volume, d, name)
           w == Written(volume, d, name, text, size)
<1>0. MayGoOn /\ MayWrite(names, text, size) /\ WriteFile(names, text, size)
  BY DEF Write
<1>1. /\ mounted /\ d # 0 /\ volume' = w.volume /\ memory' = <<>>
      /\ UNCHANGED <<mounted, cwd, path>>
  <2>1. Counted = volume /\ memory = <<>>
    BY <1>0, GoingOn
  <2>2. /\ mounted /\ d # 0 /\ Leaves(w.volume) /\ UNCHANGED <<mounted, cwd, path>>
    BY <1>0, <2>1 DEF WriteFile
  <2> HIDE DEF w, d
  <2>3. QED
    BY <2>1, <2>2, Left
<1>2. t \in Totals /\ Sound(t, volume, volume.inode) /\ d \in Inodes(t) /\ name \in Names
  BY <1>1, ParentFacts
<1>3. size \in Nat
  <2>1. Sizes \subseteq 0 .. (DirectBlocks + PtrsPerBlock + PtrsPerBlock * PtrsPerBlock)
    BY Ext2Assumption
  <2>2. QED
    BY <2>1
<1>4. (size <= DirectBlocks /\ n = 0) \/ w.ok
  BY <1>0, <1>1 DEF Careful, MayWrite, RoomToWrite
<1>5. n \in {0} \cup Inodes(t)
  BY <1>2, FindFacts
<1>6. CASE n = 0
  <2>1. w = WrittenNew(volume, d, name, text, size)
    BY <1>6 DEF Written
  <2> HIDE DEF w, n, d, name
  <2>2. Sound(t, w.volume, w.volume.inode)
    BY <1>2, <1>3, <1>4, <2>1, WrittenNewFacts
  <2>3. QED
    BY <1>1, <1>2, <2>2, VolumeKept DEF Ext2Inv
<1>7. CASE n # 0
  <2>1. w = WrittenOver(volume, n, text, size) /\ w.ok
    BY <1>4, <1>7 DEF Written
  <2>2. Keeps(n)
    BY <1>0, <1>1, <1>7 DEF MayWrite, Named
  <2>3. volume.inode[n].block[Single] = 0 /\ volume.inode[n].block[Double] = 0
    BY <2>2, DirectOnly
  <2> HIDE DEF w, n, d, name
  <2>4. n \in Inodes(t)
    BY <1>5, <1>7
  <2>5. Sound(t, w.volume, w.volume.inode)
    BY <1>2, <1>3, <2>1, <2>3, <2>4, WrittenOverFacts
  <2>6. QED
    BY <1>1, <1>2, <2>5, VolumeKept DEF Ext2Inv
<1>8. QED
  BY <1>6, <1>7

LEMMA CreateDirStep ==
  ASSUME Careful, Ext2Inv, NEW names \in Below, MakeDir(names)
  PROVE  Ext2Inv'
<1> DEFINE t == volume.total
           d == Parent(names)
           name == Last(names)
<1>1. /\ mounted /\ d # 0 /\ volume' = DirMade(volume, d, name) /\ memory' = <<>>
      /\ UNCHANGED <<mounted, cwd, path>>
  <2>1. Counted = volume /\ memory = <<>>
    BY GoingOn DEF MakeDir
  <2>2. /\ mounted /\ d # 0 /\ Leaves(DirMade(volume, d, name))
        /\ UNCHANGED <<mounted, cwd, path>>
    BY <2>1 DEF MakeDir, CreateDir
  <2> HIDE DEF d, name
  <2>3. QED
    BY <2>1, <2>2, Left
<1>2. t \in Totals /\ Sound(t, volume, volume.inode) /\ d \in Inodes(t) /\ name \in Names
  BY <1>1, ParentFacts
<1> HIDE DEF d, name
<1>3. Sound(t, volume', volume'.inode)
  BY <1>1, <1>2, DirMadeFacts
<1>4. QED
  BY <1>1, <1>2, <1>3, VolumeKept DEF Ext2Inv

LEMMA DeleteFileStep ==
  ASSUME Careful, Ext2Inv, NEW names \in Below, Delete(names)
  PROVE  Ext2Inv'
<1> DEFINE t == volume.total
           d == Parent(names)
           name == Last(names)
           place == PlaceOf(volume, d, name)
           n == RecordAt(volume, d, place).inode
<1>0. MayDelete(names) /\ memory = <<>> /\ Counted = volume
  BY GoingOn DEF Delete
<1>1. /\ mounted /\ d # 0 /\ place # <<>> /\ volume' = Deleted(volume, d, place)
      /\ memory' = <<>> /\ UNCHANGED <<mounted, cwd, path>>
  <2>1. /\ mounted /\ d # 0 /\ place # <<>> /\ Leaves(Deleted(volume, d, place))
        /\ UNCHANGED <<mounted, cwd, path>>
    BY <1>0 DEF Delete, DeleteFile
  <2> HIDE DEF d, name, place, n
  <2>2. QED
    BY <1>0, <2>1, Left
<1>2. t \in Totals /\ Sound(t, volume, volume.inode) /\ d \in Inodes(t) /\ name \in Names
  BY <1>1, ParentFacts
<1>3. place \in Places(volume, d) /\ IsNamed(RecordAt(volume, d, place)) /\ n \in Inodes(t)
  BY <1>1, <1>2, PlaceOfFacts
<1>4. IsDir(volume, d)
  BY <1>0, <1>1 DEF Careful, MayDelete, MayCreate
<1>5. n = Find(volume, d, name) /\ n # 0
  BY <1>1, <1>2, <1>3, <1>4, FindFacts, RootFacts
<1>6. Keeps(n)
  BY <1>0, <1>1, <1>5 DEF MayDelete, Named
<1>7. volume.inode[n].block[Single] = 0 /\ volume.inode[n].block[Double] = 0
  BY <1>6, DirectOnly
<1> HIDE DEF d, name, place
<1>8. Sound(t, volume', volume'.inode)
  BY <1>1, <1>2, <1>3, <1>7, DeletedFacts
<1>9. QED
  BY <1>1, <1>2, <1>8, VolumeKept DEF Ext2Inv

LEMMA CdStays ==
  ASSUME Ext2Inv, NEW absolute \in BOOLEAN, NEW names \in Below \cup {<<>>, <<"..">>},
         Cd(absolute, names)
  PROVE  Ext2Inv'
<1> DEFINE t == volume.total
           end == Walked(CdFrom(absolute), names)
<1>1. /\ mounted /\ UNCHANGED <<volume, memory, mounted>>
      /\ cwd' = IF end.ok THEN end.cwd ELSE cwd
      /\ path' = IF end.ok THEN end.path ELSE path
  BY DEF Cd
<1>2. /\ t \in Totals /\ Sound(t, volume, volume.inode)
      /\ mounted \in BOOLEAN /\ cwd \in Inodes(t) /\ path \in Paths
  BY <1>1 DEF Ext2Inv, VolumeInv, ShellInv
<1>3. names \in Seq(Names \cup {".."})
  <2>1. CASE names \in Below
    <3>1. names \in Seq(Names)
      BY <2>1, BelowFacts
    <3>2. \A i \in 1 .. Len(names) : names[i] \in Names \cup {".."}
      BY <3>1
    <3>3. Len(names) \in Nat /\ names = [i \in 1 .. Len(names) |-> names[i]]
      BY <3>1
    <3>4. QED
      BY <3>2, <3>3
  <2>2. CASE names = <<>>
    <3>1. <<>> \in Seq(Names \cup {".."})
      OBVIOUS
    <3>2. QED
      BY <2>2, <3>1
  <2>3. CASE names = <<"..">>
    <3>1. <<"..">> \in Seq(Names \cup {".."})
      OBVIOUS
    <3>2. QED
      BY <2>3, <3>1
  <2>4. QED
    BY <2>1, <2>2, <2>3
<1>4. CdFrom(absolute) \in Walks(t)
  BY <1>2, RootFacts, PathFacts DEF CdFrom, Walks
<1>5. end \in Walks(t)
  BY <1>2, <1>3, <1>4, WalkedFacts
<1> HIDE DEF end
<1>6. cwd' \in Inodes(t) /\ path' \in Paths
  BY <1>1, <1>2, <1>5 DEF Walks
<1>7. VolumeInv'
  BY <1>1, <1>2 DEF VolumeInv
<1>8. ShellInv'
  BY <1>1, <1>2, <1>6 DEF Ext2Inv, ShellInv
<1>9. QED
  BY <1>7, <1>8 DEF Ext2Inv

LEMMA DriveStays ==
  ASSUME Ext2Inv, DriveCommand
  PROVE  Ext2Inv'
<1>1. CASE Mount
  <2>1. VolumeInv'
    BY <1>1 DEF Ext2Inv, VolumeInv, Mount
  <2>2. ShellInv'
    BY <1>1, RootFacts, PathFacts DEF Ext2Inv, VolumeInv, ShellInv, Mount
  <2>3. QED
    BY <2>1, <2>2 DEF Ext2Inv
<1>2. CASE Unmount
  <2>1. VolumeInv'
    BY <1>2 DEF Ext2Inv, VolumeInv, Unmount
  <2>2. memory' = <<>> /\ memory' \in Seq(Counters) /\ Len(memory') <= 1
    BY <1>2 DEF Unmount
  <2>3. ShellInv'
    BY <1>2, <2>2 DEF Ext2Inv, ShellInv, Unmount
  <2>4. QED
    BY <2>1, <2>3 DEF Ext2Inv
<1>3. ASSUME NEW total \in Totals, Format(total) PROVE Ext2Inv'
  <2>1. Sound(total, volume', volume'.inode)
    BY <1>3, FormattedFacts DEF Format
  <2>2. volume'.total = total
    BY <2>1 DEF Sound, Volumes
  <2>3. VolumeInv'
    BY <2>1, <2>2 DEF VolumeInv
  <2>4. Counted.sb \in Counters
    <3>1. volume \in Volumes(volume.total)
      BY DEF Ext2Inv, VolumeInv, Sound
    <3>2. volume.sb \in Counters
      BY <3>1 DEF Volumes, Counters
    <3>3. CASE memory = <<>>
      BY <3>2, <3>3 DEF Counted
    <3>4. CASE memory # <<>>
      <4>1. memory \in Seq(Counters) /\ Len(memory) \in Nat
        BY DEF Ext2Inv, ShellInv
      <4>2. 1 \in 1 .. Len(memory)
        BY <3>4, <4>1
      <4>3. memory[1] \in Counters
        BY <4>1, <4>2, ElementOfSeq
      <4>4. Counted.sb = memory[1]
        BY <3>1, <3>4 DEF Counted, Volumes
      <4>5. QED
        BY <4>3, <4>4
    <3>5. QED
      BY <3>3, <3>4
  <2>5. memory' \in Seq(Counters) /\ Len(memory') <= 1
    <3> DEFINE sb == Counted.sb
    <3>1. memory' = IF mounted THEN <<sb>> ELSE <<>>
      BY <1>3 DEF Format
    <3> HIDE DEF sb
    <3>2. QED
      BY <2>4, <3>1 DEF sb
  <2>6. ShellInv'
    BY <1>3, <2>2, <2>5 DEF Ext2Inv, ShellInv, Format
  <2>7. QED
    BY <2>3, <2>6 DEF Ext2Inv
<1>4. QED
  BY <1>1, <1>2, <1>3 DEF DriveCommand

LEMMA Ext2Start == Ext2Init => Ext2Inv
<1> SUFFICES ASSUME Ext2Init PROVE Ext2Inv
  OBVIOUS
<1>1. PICK t \in Totals : volume = Formatted(t)
  BY DEF Ext2Init
<1>2. Sound(t, volume, volume.inode)
  BY <1>1, FormattedFacts
<1>3. volume.total = t
  BY <1>2 DEF Sound, Volumes
<1>4. ShellInv
  <2>1. <<>> \in Seq(Counters) /\ Len(<<>>) <= 1
    OBVIOUS
  <2>2. QED
    BY <2>1, PathFacts DEF Ext2Init, ShellInv
<1>5. QED
  BY <1>2, <1>3, <1>4 DEF Ext2Inv, VolumeInv

LEMMA Ext2Step ==
  ASSUME Careful
  PROVE  Ext2Inv /\ [Ext2Next]_vars => Ext2Inv'
<1> SUFFICES ASSUME Ext2Inv, [Ext2Next]_vars PROVE Ext2Inv'
  OBVIOUS
<1>1. CASE FileCommand
  <2>1. PICK names \in Below :
          \/ \E text \in Texts, size \in Sizes : Write(names, text, size)
          \/ MakeDir(names)
          \/ Delete(names)
    BY <1>1 DEF FileCommand
  <2>2. CASE \E text \in Texts, size \in Sizes : Write(names, text, size)
    BY <2>2, WriteFileStep
  <2>3. CASE MakeDir(names)
    BY <2>3, CreateDirStep
  <2>4. CASE Delete(names)
    BY <2>4, DeleteFileStep
  <2>5. QED
    BY <2>1, <2>2, <2>3, <2>4
<1>2. CASE CdCommand
  BY <1>2, CdStays DEF CdCommand
<1>3. CASE DriveCommand
  BY <1>3, DriveStays
<1>4. CASE UNCHANGED vars
  BY <1>4 DEF vars, Ext2Inv, VolumeInv, ShellInv
<1>5. QED
  BY <1>1, <1>2, <1>3, <1>4 DEF Ext2Next

(***************************************************************************)
(* On every volume, whatever its size and however full, after any commands *)
(* of careful users and after formats and mounts between them: the bits of *)
(* the metadata stay set, what pointers point to is in use and pointed to  *)
(* from one place only, an inode in use has at most one name, and what has *)
(* a name is in use.                                                       *)
(***************************************************************************)
THEOREM Ext2Invariant ==
  ASSUME Careful
  PROVE  Ext2Spec => []Ext2Inv
<1>1. Ext2Init => Ext2Inv
  BY Ext2Start
<1>2. Ext2Inv /\ [Ext2Next]_vars => Ext2Inv'
  BY Ext2Step
<1>3. QED
  BY <1>1, <1>2, PTL DEF Ext2Spec

(* Every variable of Ext2 stays in its range.                              *)
THEOREM Ext2TypeCorrect ==
  ASSUME Careful
  PROVE  Ext2Spec => []Ext2TypeOK
<1>1. Ext2Inv => Ext2TypeOK
  <2> SUFFICES ASSUME Ext2Inv PROVE Ext2TypeOK
    OBVIOUS
  <2> DEFINE t == volume.total
  <2>1. t \in Totals /\ volume \in Volumes(t) /\ Sound(t, volume, volume.inode)
    BY DEF Ext2Inv, VolumeInv, Sound
  <2>2. /\ memory \in Seq([blocks : Nat, inodes : Nat]) /\ Len(memory) <= 1
        /\ mounted \in BOOLEAN /\ (mounted => cwd \in Inodes(t))
        /\ path \in Seq(Names) /\ Len(path) <= MaxDepth
    BY DEF Ext2Inv, ShellInv, Counters, Paths
  <2>3. /\ volume.blockBits \subseteq FirstDataBlock .. (GroupStart(GroupsCount(t)) - 1)
        /\ volume.inodeBits \subseteq Groups(t) \X (0 .. InodesPerGroup - 1)
    BY <2>1 DEF Volumes, Bits, BitsOfInodes
  <2>4. Pointees(t) \subseteq BlockNumbers
    BY DEF Pointees, DataArea, BlockNumbers
  <2>5. ASSUME NEW n \in Inodes(t)
        PROVE  /\ volume.inode[n].type \in {"none", "file", "dir"}
               /\ volume.inode[n].block \in [0 .. Double -> BlockNumbers]
    <3>1. volume.inode[n] \in InodesOf(t)
      BY <2>1 DEF Volumes
    <3>2. QED
      BY <2>4, <3>1 DEF InodesOf
  <2>6. ASSUME NEW b \in Blocks(t)
        PROVE  /\ volume.data[b].kind = "ptrs" => \A i \in DOMAIN volume.data[b].to :
                    volume.data[b].to[i] \in BlockNumbers
               /\ volume.data[b].kind = "dir" => \A k \in DOMAIN volume.data[b].records :
                    volume.data[b].records[k].inode \in {0} \cup Inodes(t)
    <3>1. volume.data[b] \in Contents(t)
      BY <2>1 DEF Volumes
    <3>2. /\ volume.data[b].kind = "ptrs" => volume.data[b].to \in Maps(t)
          /\ volume.data[b].kind = "dir" => volume.data[b].records \in Seq(RecordsOf(t))
      BY <3>1, ContentKinds
    <3>3. ASSUME volume.data[b].kind = "dir", NEW k \in DOMAIN volume.data[b].records
          PROVE  volume.data[b].records[k].inode \in {0} \cup Inodes(t)
      <4>1. volume.data[b].records[k] \in RecordsOf(t)
        BY <3>2, <3>3
      <4>2. QED
        BY <4>1 DEF RecordsOf
    <3>4. QED
      BY <2>4, <3>2, <3>3 DEF Maps
  <2>7. QED
    BY <2>1, <2>2, <2>3, <2>5, <2>6 DEF Ext2TypeOK
<1>2. QED
  BY <1>1, Ext2Invariant, PTL

(* The counters of every group and of the superblock count exactly what    *)
(* the bitmaps have free, through every command that fails half-way too.   *)
THEOREM Ext2CountersExact ==
  ASSUME Careful
  PROVE  Ext2Spec => []CountersExact
<1>1. Ext2Inv => CountersExact
  <2> SUFFICES ASSUME Ext2Inv PROVE CountersExact
    OBVIOUS
  <2>1. BlocksCounted(volume) /\ InodesCounted(volume)
    BY DEF Ext2Inv, VolumeInv, Sound, Solid
  <2>2. QED
    BY <2>1 DEF CountersExact, BlocksCounted, InodesCounted, Used, Taken, BitsTaken
<1>2. QED
  BY <1>1, Ext2Invariant, PTL
=============================================================================
