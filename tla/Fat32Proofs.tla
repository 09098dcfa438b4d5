----------------------------- MODULE Fat32Proofs -----------------------------
(***************************************************************************)
(* Proofs about Fat32 for every size of volume and of cluster.             *)
(***************************************************************************)
EXTENDS Fat32, FiniteSetTheorems, FunctionTheorems, WellFoundedInduction, SequenceTheorems, TLAPS

(* Every set of numbers that has a member has a least one.                 *)
LEMMA LeastNumber ==
  ASSUME NEW T, T \subseteq Nat, T # {}
  PROVE  \E n \in T : \A m \in T : n <= m
<1> DEFINE R == OpToRel(<, Nat)
<1>1. IsWellFoundedOn(R, Nat)
  BY NatLessThanWellFounded
<1> HIDE DEF R
<1>2. PICK n \in T : \A m \in T : <<m, n>> \notin R
  BY <1>1, WFMin
<1>3. \A m \in T : m < n => <<m, n>> \in R
  BY DEF R, OpToRel
<1>4. ASSUME NEW m \in T PROVE n <= m
  <2>1. m \in Nat /\ n \in Nat
    OBVIOUS
  <2>2. ~(m < n)
    BY <1>2, <1>3
  <2>3. QED
    BY <2>1, <2>2
<1>5. QED
  BY <1>4

(* Induction, with a set in the place of the operator.                    *)
LEMMA Induction ==
  ASSUME NEW S, 0 \in S, \A n \in Nat : n \in S => n + 1 \in S
  PROVE  Nat \subseteq S
<1>1. SUFFICES ASSUME Nat \ S # {} PROVE FALSE
  OBVIOUS
<1>2. PICK n \in Nat \ S : \A m \in Nat \ S : n <= m
  BY <1>1, LeastNumber
<1>3. n # 0 /\ n - 1 \in Nat
  BY <1>2
<1>4. n - 1 \in S
  BY <1>2, <1>3
<1>5. QED
  BY <1>3, <1>4

(* Steps counted from 0 to n, each from the one before it, exist.          *)
Iterated(n, T, start, next) ==
  \E at \in [0 .. n -> T] :
    at = [i \in 0 .. n |-> IF i = 0 THEN start ELSE next[<<i, at[i - 1]>>]]

LEMMA Iteration ==
  ASSUME NEW n \in Nat, NEW T, NEW start \in T, NEW next \in [(1 .. n) \X T -> T]
  PROVE  Iterated(n, T, start, next)
<1> DEFINE Upto(k) ==
             \E at \in [0 .. k -> T] :
               at = [i \in 0 .. k |-> IF i = 0 THEN start ELSE next[<<i, at[i - 1]>>]]
           S == {k \in Nat : k <= n => Upto(k)}
<1>1. 0 \in S
  <2>1. [i \in 0 .. 0 |-> start] \in [0 .. 0 -> T]
    OBVIOUS
  <2>2. \A i \in 0 .. 0 : i = 0
    OBVIOUS
  <2>3. Upto(0)
    BY <2>1, <2>2
  <2>4. QED
    BY <2>3
<1>2. ASSUME NEW k \in Nat, k \in S PROVE k + 1 \in S
  <2>1. SUFFICES ASSUME k + 1 <= n PROVE Upto(k + 1)
    OBVIOUS
  <2>2. PICK at \in [0 .. k -> T] :
          at = [i \in 0 .. k |-> IF i = 0 THEN start ELSE next[<<i, at[i - 1]>>]]
    BY <1>2, <2>1
  <2> DEFINE bt == [i \in 0 .. k + 1 |-> IF i = k + 1 THEN next[<<k + 1, at[k]>>] ELSE at[i]]
  <2>3. at[k] \in T /\ k + 1 \in 1 .. n
    BY <2>1
  <2>4. next[<<k + 1, at[k]>>] \in T
    BY <2>3
  <2>5. bt \in [0 .. k + 1 -> T]
    BY <2>4
  <2>6. ASSUME NEW i \in 0 .. k + 1
        PROVE  bt[i] = IF i = 0 THEN start ELSE next[<<i, bt[i - 1]>>]
    <3>1. CASE i = k + 1
      BY SMTT(60), <3>1
    <3>2. CASE i # k + 1
      <4>1. i \in 0 .. k /\ bt[i] = at[i]
        BY <3>2
      <4>2. i # 0 => i - 1 \in 0 .. k + 1 /\ i - 1 # k + 1 /\ bt[i - 1] = at[i - 1]
        BY <3>2
      <4>3. at[i] = IF i = 0 THEN start ELSE next[<<i, at[i - 1]>>]
        BY <2>2, <4>1
      <4> HIDE DEF bt
      <4>4. QED
        BY <4>1, <4>2, <4>3
    <3>3. QED
      BY <3>1, <3>2
  <2>7. bt = [i \in 0 .. k + 1 |-> IF i = 0 THEN start ELSE next[<<i, bt[i - 1]>>]]
    <3> HIDE DEF bt
    <3>1. QED
      BY <2>5, <2>6
  <2>8. QED
    BY <2>5, <2>7
<1>3. n \in S
  <2> HIDE DEF S
  <2>1. QED
    BY <1>1, <1>2, Induction
<1>4. QED
  BY <1>3 DEF Iterated

(* The values a chain's links can have.                                    *)
Links == {Free, EndOfChain} \cup Clusters
Fats  == [Clusters -> Links]

LEMMA Numbers ==
  /\ TotalClusters \in Nat \ {0} /\ EndOfChain \in Nat /\ Clusters \subseteq Nat
  /\ Free \notin Clusters /\ EndOfChain \notin Clusters /\ Free # EndOfChain
  /\ RootCluster \in Clusters
  /\ IsFiniteSet(Clusters) /\ Cardinality(Clusters) = TotalClusters
<1>1. TotalClusters \in Nat \ {0}
  BY Fat32Assumption
<1>2. IsFiniteSet(Clusters) /\ Cardinality(Clusters) = TotalClusters
  BY <1>1, FS_Interval DEF Clusters
<1>3. QED
  BY <1>1, <1>2 DEF Clusters, EndOfChain, Free, RootCluster

(* next_cluster is followed one link at a time.                            *)
LEMMA FollowedFacts ==
  ASSUME NEW fat \in Fats, NEW first
  PROVE  /\ Followed(fat, first) \in [0 .. TotalClusters -> Links \cup {first}]
         /\ Followed(fat, first)[0] = first
         /\ \A i \in 1 .. TotalClusters :
              Followed(fat, first)[i] =
                IF Followed(fat, first)[i - 1] \in Clusters
                THEN fat[Followed(fat, first)[i - 1]] ELSE EndOfChain
<1> DEFINE T == Links \cup {first}
           n == TotalClusters
           next == [x \in (1 .. n) \X T |-> IF x[2] \in Clusters THEN fat[x[2]] ELSE EndOfChain]
<1>1. next \in [(1 .. n) \X T -> T]
  BY DEF Fats, Links
<1>2. PICK at \in [0 .. n -> T] :
        at = [i \in 0 .. n |-> IF i = 0 THEN first ELSE next[<<i, at[i - 1]>>]]
  <2>1. first \in T
    BY DEF T
  <2>2. n \in Nat
    BY Numbers
  <2> HIDE DEF next, T, n
  <2>3. Iterated(n, T, first, next)
    BY ONLY <1>1, <2>1, <2>2, Iteration
  <2>4. QED
    BY ONLY <2>3 DEF Iterated
<1>3. at = [i \in 0 .. n |-> IF i = 0 THEN first
                             ELSE IF at[i - 1] \in Clusters THEN fat[at[i - 1]]
                             ELSE EndOfChain]
  <2>1. \A i \in 0 .. n : i # 0 =>
          next[<<i, at[i - 1]>>] = IF at[i - 1] \in Clusters THEN fat[at[i - 1]] ELSE EndOfChain
    <3>1. ASSUME NEW i \in 0 .. n, i # 0
          PROVE  <<i, at[i - 1]>> \in (1 .. n) \X T
      BY <3>1, Numbers
    <3>2. QED
      BY <3>1
  <2> HIDE DEF next, T
  <2>2. QED
    BY <1>2, <2>1
<1> DEFINE f == Followed(fat, first)
<1>4. f = [i \in 0 .. n |-> IF i = 0 THEN first
                            ELSE IF f[i - 1] \in Clusters THEN fat[f[i - 1]] ELSE EndOfChain]
  BY <1>3 DEF Followed
<1> HIDE DEF f
<1>5. /\ f[0] = first
      /\ \A i \in 1 .. n : f[i] = IF f[i - 1] \in Clusters THEN fat[f[i - 1]] ELSE EndOfChain
  <2>1. 0 \in 0 .. n /\ \A i \in 1 .. n : i \in 0 .. n /\ i # 0
    BY Numbers
  <2>2. QED
    BY <1>4, <2>1
<1>6. \A i \in 1 .. n : f[i] \in Links
  BY <1>5 DEF Fats, Links
<1>7. ASSUME NEW i \in 0 .. n PROVE f[i] \in T
  <2>1. i = 0 \/ i \in 1 .. n
    BY Numbers
  <2>2. QED
    BY <1>5, <1>6, <2>1
<1>8. f \in [0 .. n -> T]
  BY <1>4, <1>7, Zenon
<1>9. QED
  BY <1>5, <1>8 DEF f

(* A set that a chain cannot leave holds the chain: by induction.          *)
LEMMA FollowedStays ==
  ASSUME NEW fat \in Fats, NEW S, NEW first, first \in S,
         \A c \in S \cap Clusters : fat[c] \in S,
         EndOfChain \in S
  PROVE  \A i \in 0 .. TotalClusters : Followed(fat, first)[i] \in S
<1> DEFINE f == Followed(fat, first)
           Good == {i \in Nat : i <= TotalClusters => f[i] \in S}
<1>1. 0 \in Good
  BY FollowedFacts
<1>2. ASSUME NEW i \in Nat, i \in Good PROVE i + 1 \in Good
  <2>1. SUFFICES ASSUME i + 1 <= TotalClusters PROVE f[i + 1] \in S
    OBVIOUS
  <2>2. f[i] \in S /\ i + 1 \in 1 .. TotalClusters /\ (i + 1) - 1 = i
    BY <1>2, <2>1, Numbers
  <2>3. f[i + 1] = IF f[i] \in Clusters THEN fat[f[i]] ELSE EndOfChain
    BY <2>2, FollowedFacts
  <2>4. QED
    BY <2>2, <2>3
<1>3. Nat \subseteq Good
  <2> HIDE DEF Good
  <2>1. QED
    BY <1>1, <1>2, Induction
<1>4. QED
  BY <1>3, Numbers

(* Two FATs that agree wherever a chain goes have the same chain.          *)
LEMMA FollowedSame ==
  ASSUME NEW fat \in Fats, NEW gat \in Fats, NEW S, NEW first, first \in S,
         \A c \in S \cap Clusters : fat[c] \in S /\ gat[c] = fat[c],
         EndOfChain \in S
  PROVE  /\ Followed(gat, first) = Followed(fat, first)
         /\ Chain(gat, first) = Chain(fat, first)
<1> DEFINE f == Followed(fat, first)
           g == Followed(gat, first)
           Good == {i \in Nat : i <= TotalClusters => g[i] = f[i]}
<1>1. 0 \in Good
  BY FollowedFacts
<1>2. ASSUME NEW i \in Nat, i \in Good PROVE i + 1 \in Good
  <2>1. SUFFICES ASSUME i + 1 <= TotalClusters PROVE g[i + 1] = f[i + 1]
    OBVIOUS
  <2>2. g[i] = f[i] /\ i + 1 \in 1 .. TotalClusters /\ (i + 1) - 1 = i
    BY <1>2, <2>1, Numbers
  <2>3. f[i] \in S
    <3>1. \A c \in S \cap Clusters : fat[c] \in S
      OBVIOUS
    <3>2. \A j \in 0 .. TotalClusters : f[j] \in S
      BY <3>1, FollowedStays
    <3>3. QED
      BY <2>1, <3>2, Numbers
  <2>4. /\ f[i + 1] = IF f[i] \in Clusters THEN fat[f[i]] ELSE EndOfChain
        /\ g[i + 1] = IF g[i] \in Clusters THEN gat[g[i]] ELSE EndOfChain
    BY <2>2, FollowedFacts
  <2>5. QED
    BY <2>2, <2>3, <2>4
<1>3. Nat \subseteq Good
  <2> HIDE DEF Good
  <2>1. QED
    BY <1>1, <1>2, Induction
<1>4. \A i \in 0 .. TotalClusters : g[i] = f[i]
  BY <1>3, Numbers
<1>5. /\ f \in [0 .. TotalClusters -> Links \cup {first}]
      /\ g \in [0 .. TotalClusters -> Links \cup {first}]
  BY FollowedFacts
<1>6. f = g
  <2> HIDE DEF f, g
  <2>1. f = [i \in 0 .. TotalClusters |-> f[i]] /\ g = [i \in 0 .. TotalClusters |-> g[i]]
    BY <1>5
  <2>2. QED
    BY <1>4, <2>1, Zenon
<1>7. QED
  BY <1>6 DEF Chain, InData

(* A chain is what is followed up to the first value that is no cluster.   *)
ChainLen(fat, first, n) ==
  /\ n \in 0 .. TotalClusters
  /\ Chain(fat, first) = [i \in 1 .. n |-> Followed(fat, first)[i - 1]]
  /\ \A i \in 0 .. n - 1 : Followed(fat, first)[i] \in Clusters
  /\ \A i \in n .. TotalClusters - 1 : Followed(fat, first)[i] \notin Clusters

LEMMA ChainFacts ==
  ASSUME NEW fat \in Fats, NEW first
  PROVE  \E n \in 0 .. TotalClusters : ChainLen(fat, first, n)
<1> DEFINE f == Followed(fat, first)
           T == TotalClusters
           Out == {k \in Nat : k = T \/ (k < T /\ f[k] \notin Clusters)}
<1>1. T \in Nat /\ Out \subseteq Nat /\ T \in Out
  BY Numbers
<1>2. PICK n \in Out : \A k \in Out : n <= k
  <2> HIDE DEF Out
  <2>1. QED
    BY <1>1, LeastNumber
<1>3. n \in 0 .. T /\ \A i \in 0 .. n - 1 : f[i] \in Clusters
  <2>1. n \in Nat /\ n <= T
    BY <1>1, <1>2
  <2>2. ASSUME NEW i \in 0 .. n - 1, f[i] \notin Clusters PROVE FALSE
    <3>1. i \in Nat /\ i < n /\ i < T
      BY <1>1, <2>1
    <3>2. i \in Out
      BY <2>2, <3>1
    <3>3. n <= i
      BY <1>2, <3>2
    <3>4. QED
      BY <2>1, <3>1, <3>3
  <2>3. QED
    BY <1>1, <2>1, <2>2
<1>4. \A i \in n .. T - 1 : f[i] \notin Clusters
  <2> DEFINE Good == {j \in Nat : n + j < T => f[n + j] \notin Clusters}
  <2>1. 0 \in Good
    <3>1. n < T => f[n] \notin Clusters
      BY <1>1, <1>2
    <3>2. QED
      BY <1>3, <3>1
  <2>2. ASSUME NEW j \in Nat, j \in Good PROVE j + 1 \in Good
    <3>1. SUFFICES ASSUME n + (j + 1) < T PROVE f[n + (j + 1)] \notin Clusters
      OBVIOUS
    <3>2. n + j < T /\ n + (j + 1) \in 1 .. T /\ (n + (j + 1)) - 1 = n + j
      BY <1>1, <1>3, <3>1
    <3>3. f[n + j] \notin Clusters
      BY <2>2, <3>2
    <3>4. f[n + (j + 1)] = EndOfChain
      BY <3>2, <3>3, FollowedFacts
    <3>5. QED
      BY <3>4, Numbers
  <2>3. Nat \subseteq Good
    <3> HIDE DEF Good
    <3>1. QED
      BY <2>1, <2>2, Induction
  <2>4. ASSUME NEW i \in n .. T - 1 PROVE f[i] \notin Clusters
    <3>1. i - n \in Nat /\ n + (i - n) = i /\ n + (i - n) < T
      BY <1>1, <1>3
    <3>2. i - n \in Good
      BY <2>3, <3>1
    <3>3. QED
      BY <3>1, <3>2
  <2>5. QED
    BY <2>4
<1>5. {i \in 0 .. T - 1 : f[i] \in Clusters} = 0 .. n - 1
  BY <1>1, <1>3, <1>4
<1>6. Cardinality(0 .. n - 1) = n
  BY <1>3, FS_Interval
<1>7. Chain(fat, first) = [i \in 1 .. n |-> f[i - 1]]
  <2>1. Chain(fat, first) =
          [i \in 1 .. Cardinality({i \in 0 .. T - 1 : f[i] \in Clusters}) |-> f[i - 1]]
    BY DEF Chain, InData
  <2> HIDE DEF f
  <2>2. QED
    BY <1>5, <1>6, <2>1
<1>8. ChainLen(fat, first, n)
  BY <1>3, <1>4, <1>7 DEF ChainLen
<1>9. QED
  BY <1>3, <1>8

(* A chain is a sequence of clusters.                                      *)
LEMMA ChainType ==
  ASSUME NEW fat \in Fats, NEW first
  PROVE  /\ Chain(fat, first) \in Seq(Clusters)
         /\ \A n : ChainLen(fat, first, n) =>
              /\ Len(Chain(fat, first)) = n
              /\ ToSet(Chain(fat, first)) = {Followed(fat, first)[i] : i \in 0 .. n - 1}
<1>1. ASSUME NEW n, ChainLen(fat, first, n)
      PROVE  /\ Chain(fat, first) \in Seq(Clusters)
             /\ Len(Chain(fat, first)) = n
             /\ ToSet(Chain(fat, first)) = {Followed(fat, first)[i] : i \in 0 .. n - 1}
  <2> DEFINE f == Followed(fat, first)
  <2>1. n \in Nat /\ Chain(fat, first) = [i \in 1 .. n |-> f[i - 1]]
    BY <1>1, Numbers DEF ChainLen
  <2>2. \A i \in 1 .. n : f[i - 1] \in Clusters
    BY <1>1, <2>1 DEF ChainLen
  <2> HIDE DEF f
  <2>3. Chain(fat, first) \in [1 .. n -> Clusters]
    BY <2>1, <2>2
  <2>4. Chain(fat, first) \in Seq(Clusters) /\ Len(Chain(fat, first)) = n
    BY <2>1, <2>3
  <2>5. ToSet(Chain(fat, first)) = {f[i - 1] : i \in 1 .. n}
    BY <2>1 DEF ToSet
  <2>6. {f[i - 1] : i \in 1 .. n} = {f[i] : i \in 0 .. n - 1}
    <3>1. ASSUME NEW i \in 1 .. n PROVE f[i - 1] \in {f[j] : j \in 0 .. n - 1}
      <4>1. i - 1 \in 0 .. n - 1
        BY <2>1
      <4>2. QED
        BY <4>1
    <3>2. ASSUME NEW i \in 0 .. n - 1 PROVE f[i] \in {f[j - 1] : j \in 1 .. n}
      <4>1. i + 1 \in 1 .. n /\ (i + 1) - 1 = i
        BY <2>1
      <4>2. QED
        BY <4>1
    <3>3. QED
      BY <3>1, <3>2
  <2>7. QED
    BY <2>4, <2>5, <2>6 DEF f
<1>2. QED
  BY <1>1, ChainFacts

(***************************************************************************)
(* A sound FAT is a set of chains that end: no link leads to a free        *)
(* cluster, no two lead to one, and none leads round in a circle.          *)
(***************************************************************************)
FatSound(fat) ==
  /\ \A c \in Clusters : fat[c] \in Clusters => fat[fat[c]] # Free
  /\ \A c, d \in Clusters : fat[c] \in Clusters /\ fat[c] = fat[d] => c = d
  /\ \A S \in SUBSET Clusters : S # {} => \E c \in S : fat[c] \notin S

NoPred(fat, h) == \A c \in Clusters : fat[c] # h

(* What is followed in a sound FAT comes to no cluster again.              *)
LEMMA NoRepeat ==
  ASSUME NEW fat \in Fats, FatSound(fat), NEW first, NEW i \in Nat, NEW j \in Nat,
         i < j, j <= TotalClusters,
         \A k \in i .. j : Followed(fat, first)[k] \in Clusters
  PROVE  Followed(fat, first)[i] # Followed(fat, first)[j]
<1> DEFINE f == Followed(fat, first)
           S == {f[k] : k \in i .. j - 1}
<1>1. SUFFICES ASSUME f[i] = f[j] PROVE FALSE
  OBVIOUS
<1>2. S \in SUBSET Clusters /\ f[i] \in S
  OBVIOUS
<1>3. PICK c \in S : fat[c] \notin S
  BY <1>2 DEF FatSound
<1>4. PICK k \in i .. j - 1 : c = f[k]
  OBVIOUS
<1>5. k + 1 \in 1 .. TotalClusters /\ (k + 1) - 1 = k /\ k + 1 \in i .. j /\ k \in i .. j
  BY <1>4, Numbers
<1>6. f[k + 1] = fat[c]
  BY <1>4, <1>5, FollowedFacts
<1>7. f[k + 1] \in S
  <2>1. CASE k + 1 = j
    BY <1>1, <1>2, <2>1
  <2>2. CASE k + 1 # j
    <3>1. k + 1 \in i .. j - 1
      BY <1>5, <2>2
    <3>2. QED
      BY <3>1
  <2>3. QED
    BY <2>1, <2>2
<1>8. QED
  BY <1>3, <1>6, <1>7

(* A chain that starts at a cluster in use holds no cluster twice, none    *)
(* that is free, and ends with the mark of the end.                        *)
LEMMA ChainSound ==
  ASSUME NEW fat \in Fats, FatSound(fat), NEW first \in Clusters, fat[first] # Free
  PROVE  /\ IsInjective(Chain(fat, first))
         /\ Len(Chain(fat, first)) \in 1 .. TotalClusters
         /\ Chain(fat, first)[1] = first
         /\ \A c \in ToSet(Chain(fat, first)) : c \in Clusters /\ fat[c] # Free
         /\ fat[Last(Chain(fat, first))] = EndOfChain
<1> DEFINE f == Followed(fat, first)
           T == TotalClusters
<1>1. PICK n \in 0 .. T : ChainLen(fat, first, n)
  BY ChainFacts
<1>2. /\ n \in Nat /\ n <= T /\ T \in Nat \ {0}
      /\ Chain(fat, first) = [i \in 1 .. n |-> f[i - 1]]
      /\ \A i \in 0 .. n - 1 : f[i] \in Clusters
      /\ \A i \in n .. T - 1 : f[i] \notin Clusters
  BY <1>1, Numbers DEF ChainLen
<1>3. f[0] = first
  BY FollowedFacts
<1>4. n # 0
  BY <1>2, <1>3
<1>5. \A i, j \in 0 .. n - 1 : i < j => f[i] # f[j]
  <2>1. ASSUME NEW i \in 0 .. n - 1, NEW j \in 0 .. n - 1, i < j PROVE f[i] # f[j]
    <3>1. i \in Nat /\ j \in Nat /\ j <= T /\ \A k \in i .. j : k \in 0 .. n - 1
      BY <1>2
    <3>2. QED
      BY <1>2, <2>1, <3>1, NoRepeat
  <2>2. QED
    BY <2>1
<1>6. IsInjective(Chain(fat, first))
  <2>1. ASSUME NEW a \in 1 .. n, NEW b \in 1 .. n, f[a - 1] = f[b - 1] PROVE a = b
    <3>1. a - 1 \in 0 .. n - 1 /\ b - 1 \in 0 .. n - 1
      BY <1>2
    <3>2. ~(a - 1 < b - 1) /\ ~(b - 1 < a - 1)
      BY <1>5, <2>1, <3>1
    <3>3. QED
      BY <1>2, <3>1, <3>2
  <2> HIDE DEF f
  <2>2. QED
    BY <1>2, <2>1 DEF IsInjective
<1>7. \A i \in 0 .. T : f[i] \in {c \in Links : c \in Clusters => fat[c] # Free}
  <2> DEFINE S == {c \in Links : c \in Clusters => fat[c] # Free}
  <2>1. first \in S /\ EndOfChain \in S
    BY Numbers DEF Links
  <2>2. \A c \in S \cap Clusters : fat[c] \in S
    BY DEF FatSound, Fats
  <2> HIDE DEF S
  <2>3. \A i \in 0 .. T : f[i] \in S
    BY <2>1, <2>2, FollowedStays
  <2>4. QED
    BY <2>3 DEF S
<1>8. ToSet(Chain(fat, first)) = {f[i] : i \in 0 .. n - 1} /\ Len(Chain(fat, first)) = n
  BY <1>1, ChainType
<1>9. ASSUME NEW c \in ToSet(Chain(fat, first)) PROVE c \in Clusters /\ fat[c] # Free
  <2>1. PICK i \in 0 .. n - 1 : c = f[i]
    BY <1>8
  <2>2. i \in 0 .. T
    BY <1>2
  <2>3. QED
    BY <1>2, <1>7, <2>1, <2>2
<1>10. f[n] \notin Clusters
  <2>1. CASE n < T
    BY <1>2, <2>1
  <2>2. CASE n = T
    <3>1. SUFFICES ASSUME f[T] \in Clusters PROVE FALSE
      BY <2>2
    <3>2. \A i \in 0 .. T : f[i] \in Clusters
      BY <1>2, <2>2, <3>1
    <3>3. f \in [0 .. T -> Clusters]
      BY <3>2, FollowedFacts
    <3>4. IsFiniteSet(0 .. T) /\ Cardinality(0 .. T) = T + 1
      BY <1>2, FS_Interval
    <3>5. PICK x \in 0 .. T, y \in 0 .. T : x # y /\ f[x] = f[y]
      <4> HIDE DEF f
      <4>1. Cardinality(Clusters) < Cardinality(0 .. T) /\ IsFiniteSet(Clusters)
        BY <1>2, <3>4, Numbers
      <4>2. QED
        BY <3>3, <3>4, <4>1, FS_PigeonHole
    <3>6. \A i, j \in 0 .. T : i < j => f[i] # f[j]
      <4>1. ASSUME NEW i \in 0 .. T, NEW j \in 0 .. T, i < j PROVE f[i] # f[j]
        <5>1. i \in Nat /\ j \in Nat /\ j <= T /\ \A k \in i .. j : k \in 0 .. T
          BY <1>2
        <5>2. QED
          BY <3>2, <4>1, <5>1, NoRepeat
      <4>2. QED
        BY <4>1
    <3>7. x < y \/ y < x
      BY <1>2, <3>5
    <3>8. QED
      BY <3>5, <3>6, <3>7
  <2>3. QED
    BY <1>2, <2>1, <2>2
<1>11. fat[f[n - 1]] = EndOfChain
  <2>1. n \in 1 .. T /\ n - 1 \in 0 .. n - 1 /\ n - 1 \in 0 .. T
    BY <1>2, <1>4
  <2>2. f[n - 1] \in Clusters /\ f[n] = fat[f[n - 1]]
    BY <1>2, <2>1, FollowedFacts
  <2>3. fat[f[n - 1]] # Free /\ fat[f[n - 1]] \in Links
    BY <1>7, <2>1, <2>2 DEF Fats
  <2>4. QED
    BY <1>10, <2>2, <2>3 DEF Links
<1>12. Last(Chain(fat, first)) = f[n - 1] /\ Chain(fat, first)[1] = first
  <2>1. n \in 1 .. n /\ 1 \in 1 .. n
    BY <1>2, <1>4
  <2> HIDE DEF f
  <2>2. Last(Chain(fat, first)) = f[n - 1]
    BY <1>2, <1>8, <2>1 DEF Last
  <2>3. QED
    BY <1>2, <1>3, <2>1, <2>2
<1>13. QED
  BY <1>2, <1>4, <1>6, <1>8, <1>9, <1>11, <1>12

(* No cluster, no chain.                                                   *)
LEMMA ChainEmpty ==
  ASSUME NEW fat \in Fats, NEW first, first \notin Clusters
  PROVE  Chain(fat, first) = <<>> /\ ToSet(Chain(fat, first)) = {}
<1>1. PICK n \in 0 .. TotalClusters : ChainLen(fat, first, n)
  BY ChainFacts
<1>2. Followed(fat, first)[0] = first
  BY FollowedFacts
<1>3. n = 0
  <2>1. n # 0 => 0 \in 0 .. n - 1
    BY Numbers
  <2>2. QED
    BY <1>1, <1>2, <2>1 DEF ChainLen
<1>4. Chain(fat, first) \in Seq(Clusters) /\ Len(Chain(fat, first)) = 0
  BY <1>1, <1>3, ChainType
<1>5. Chain(fat, first) = <<>>
  BY <1>4, EmptySeq
<1>6. QED
  BY <1>5 DEF ToSet

(* Chains of different heads, none of which a link leads to, are disjoint. *)
LEMMA ChainsApart ==
  ASSUME NEW fat \in Fats, FatSound(fat), NEW g, NEW h, g # h, NoPred(fat, g), NoPred(fat, h)
  PROVE  ToSet(Chain(fat, g)) \cap ToSet(Chain(fat, h)) = {}
<1> DEFINE e == Followed(fat, g)
           f == Followed(fat, h)
           T == TotalClusters
           Meet(i) == \E j \in 0 .. T : e[i] = f[j] /\ e[i] \in Clusters
                                       /\ \A k \in 0 .. j : f[k] \in Clusters
           Good == {i \in Nat : (i <= T /\ \A k \in 0 .. i : e[k] \in Clusters) => ~Meet(i)}
<1>1. e[0] = g /\ f[0] = h /\ T \in Nat
  BY FollowedFacts, Numbers
<1>2. \A i \in 1 .. T : (e[i - 1] \in Clusters => e[i] = fat[e[i - 1]])
                       /\ (f[i - 1] \in Clusters => f[i] = fat[f[i - 1]])
  BY FollowedFacts
<1> HIDE DEF e, f
<1>3. 0 \in Good
  <2>1. ASSUME Meet(0) PROVE FALSE
    <3>1. PICK j \in 0 .. T : /\ e[0] = f[j] /\ e[0] \in Clusters
                              /\ \A k \in 0 .. j : f[k] \in Clusters
      BY <2>1
    <3>2. CASE j = 0
      BY <1>1, <3>1, <3>2
    <3>3. CASE j # 0
      <4>1. j \in 1 .. T /\ j - 1 \in 0 .. j
        BY <1>1, <3>1, <3>3
      <4>2. f[j - 1] \in Clusters
        BY <3>1, <4>1
      <4>3. fat[f[j - 1]] = g
        BY <1>1, <1>2, <3>1, <4>1, <4>2
      <4>4. QED
        BY <4>2, <4>3 DEF NoPred
    <3>4. QED
      BY <3>2, <3>3
  <2>2. QED
    BY <2>1
<1>4. ASSUME NEW i \in Nat, i \in Good PROVE i + 1 \in Good
  <2>1. SUFFICES ASSUME i + 1 <= T, \A k \in 0 .. i + 1 : e[k] \in Clusters, Meet(i + 1)
                 PROVE  FALSE
    OBVIOUS
  <2>2. PICK j \in 0 .. T : /\ e[i + 1] = f[j] /\ e[i + 1] \in Clusters
                            /\ \A k \in 0 .. j : f[k] \in Clusters
    BY <2>1
  <2>3. i + 1 \in 1 .. T /\ (i + 1) - 1 = i /\ i \in 0 .. i + 1 /\ i <= T
    BY <1>1, <2>1
  <2>4. e[i] \in Clusters /\ e[i + 1] = fat[e[i]]
    BY <1>2, <2>1, <2>3
  <2>5. CASE j = 0
    BY <1>1, <2>2, <2>4, <2>5 DEF NoPred
  <2>6. CASE j # 0
    <3>1. j \in 1 .. T /\ j - 1 \in 0 .. j /\ j - 1 \in 0 .. T
      BY <1>1, <2>2, <2>6
    <3>2. f[j - 1] \in Clusters /\ f[j] = fat[f[j - 1]]
      BY <1>2, <2>2, <3>1
    <3>3. e[i] = f[j - 1]
      BY <2>2, <2>4, <3>2 DEF FatSound
    <3>4. \A k \in 0 .. j - 1 : f[k] \in Clusters
      BY <2>2
    <3>5. Meet(i)
      BY <2>4, <3>1, <3>3, <3>4
    <3>6. \A k \in 0 .. i : e[k] \in Clusters
      BY <2>1
    <3>7. QED
      BY <1>4, <2>3, <3>5, <3>6
  <2>7. QED
    BY <2>5, <2>6
<1>5. Nat \subseteq Good
  <2> HIDE DEF Good
  <2>1. QED
    BY <1>3, <1>4, Induction
<1>6. PICK m \in 0 .. T : ChainLen(fat, g, m)
  BY ChainFacts
<1>7. PICK n \in 0 .. T : ChainLen(fat, h, n)
  BY ChainFacts
<1>8. /\ ToSet(Chain(fat, g)) = {e[i] : i \in 0 .. m - 1}
      /\ ToSet(Chain(fat, h)) = {f[i] : i \in 0 .. n - 1}
  BY <1>6, <1>7, ChainType DEF e, f
<1>9. /\ \A i \in 0 .. m - 1 : e[i] \in Clusters
      /\ \A i \in 0 .. n - 1 : f[i] \in Clusters
  BY <1>6, <1>7 DEF ChainLen, e, f
<1>10. ASSUME NEW i \in 0 .. m - 1, NEW j \in 0 .. n - 1, e[i] = f[j] PROVE FALSE
  <2>1. i \in Nat /\ i <= T /\ j \in 0 .. T
    BY <1>1, <1>6, <1>7
  <2>2. \A k \in 0 .. i : e[k] \in Clusters
    BY <1>9
  <2>3. \A k \in 0 .. j : f[k] \in Clusters
    BY <1>9
  <2>4. Meet(i)
    BY <1>9, <1>10, <2>1, <2>3
  <2>5. QED
    BY <1>5, <2>1, <2>2, <2>4
<1>11. QED
  BY <1>8, <1>10

(***************************************************************************)
(* A volume, and the places of its slots.                                  *)
(***************************************************************************)
Rows      == [1 .. SlotsPerCluster -> Slot]
Volumes   == [fat : Fats, clusters : [Clusters -> Rows]]
AllPlaces == Clusters \X (1 .. SlotsPerCluster)
Entries   == [kind : {"entry"}, name : Names \cup {".", ".."}, dir : BOOLEAN,
              first : {0} \cup Clusters, size : {0} \cup Sizes]

(* Clusters, each once: a chain to be made.                                *)
FreshChain(cs) == cs \in Seq(Clusters) /\ cs # <<>> /\ IsInjective(cs)

LEMMA LinkedFacts ==
  ASSUME NEW v \in Volumes, NEW cs, FreshChain(cs)
  PROVE  /\ Linked(v, cs) \in Volumes
         /\ Linked(v, cs).clusters = v.clusters
         /\ Len(cs) \in Nat \ {0}
         /\ ToSet(cs) \subseteq Clusters
         /\ \A i \in 1 .. Len(cs) : cs[i] \in Clusters /\ cs[i] \in ToSet(cs)
         /\ \A c \in Clusters \ ToSet(cs) : Linked(v, cs).fat[c] = v.fat[c]
         /\ \A i \in 1 .. Len(cs) - 1 : Linked(v, cs).fat[cs[i]] = cs[i + 1]
         /\ Linked(v, cs).fat[cs[Len(cs)]] = EndOfChain
<1> DEFINE Index(c) == CHOOSE j \in DOMAIN cs : cs[j] = c
           Next(c) == IF c \notin ToSet(cs) THEN v.fat[c]
                      ELSE IF Index(c) < Len(cs) THEN cs[Index(c) + 1] ELSE EndOfChain
           fat == [c \in Clusters |-> Next(c)]
<1>1. /\ Len(cs) \in Nat \ {0}
      /\ DOMAIN cs = 1 .. Len(cs)
      /\ \A i \in 1 .. Len(cs) : cs[i] \in Clusters
  <2>1. cs \in Seq(Clusters) /\ cs # <<>>
    BY DEF FreshChain
  <2>2. Len(cs) \in Nat /\ DOMAIN cs = 1 .. Len(cs) /\ Len(cs) # 0
    BY <2>1, EmptySeq, LenProperties
  <2>3. QED
    BY <2>1, <2>2, ElementOfSeq
<1>2. ToSet(cs) \subseteq Clusters /\ \A i \in 1 .. Len(cs) : cs[i] \in ToSet(cs)
  BY <1>1 DEF ToSet
<1>3. \A i \in 1 .. Len(cs) : Next(cs[i]) = IF i < Len(cs) THEN cs[i + 1] ELSE EndOfChain
  <2>1. ASSUME NEW i \in 1 .. Len(cs)
        PROVE  Next(cs[i]) = IF i < Len(cs) THEN cs[i + 1] ELSE EndOfChain
    <3>1. Index(cs[i]) = i
      <4>1. \A j \in DOMAIN cs : cs[j] = cs[i] => j = i
        BY <1>1 DEF FreshChain, IsInjective
      <4>2. i \in DOMAIN cs
        BY <1>1
      <4>3. QED
        BY <4>1, <4>2
    <3>2. cs[i] \in ToSet(cs)
      BY <1>2
    <3> HIDE DEF Index
    <3>3. QED
      BY <3>1, <3>2
  <2>2. QED
    BY <2>1
<1>4. \A c \in Clusters \ ToSet(cs) : Next(c) = v.fat[c]
  OBVIOUS
<1>5. v.fat \in Fats
  BY DEF Volumes
<1>6. \A c \in Clusters : Next(c) \in Links
  <2>1. ASSUME NEW c \in ToSet(cs) PROVE Next(c) \in Links
    <3>1. PICK i \in 1 .. Len(cs) : c = cs[i]
      BY <1>1 DEF ToSet
    <3>2. i < Len(cs) => i + 1 \in 1 .. Len(cs)
      BY <1>1
    <3> HIDE DEF Next
    <3>3. QED
      BY <1>1, <1>3, <3>1, <3>2 DEF Links
  <2> HIDE DEF Next
  <2>2. QED
    BY <1>4, <1>5, <2>1 DEF Fats
<1>7. Linked(v, cs) = [v EXCEPT !.fat = fat]
  BY DEF Linked
<1>8. fat \in Fats
  <2> HIDE DEF Next
  <2>1. QED
    BY <1>6 DEF Fats
<1> HIDE DEF Next
<1>9. Linked(v, cs).fat = fat /\ Linked(v, cs).clusters = v.clusters /\ Linked(v, cs) \in Volumes
  <2> HIDE DEF fat
  <2>1. QED
    BY <1>7, <1>8 DEF Volumes
<1>10. \A i \in 1 .. Len(cs) : fat[cs[i]] = IF i < Len(cs) THEN cs[i + 1] ELSE EndOfChain
  BY <1>1, <1>3
<1>11. \A c \in Clusters \ ToSet(cs) : fat[c] = v.fat[c]
  BY <1>4
<1> HIDE DEF fat
<1>12. \A i \in 1 .. Len(cs) - 1 : fat[cs[i]] = cs[i + 1]
  BY <1>1, <1>10
<1>13. fat[cs[Len(cs)]] = EndOfChain
  BY <1>1, <1>10
<1>14. QED
  BY <1>1, <1>2, <1>9, <1>11, <1>12, <1>13

(* A chain made of free clusters, or added to where a chain ends, leaves   *)
(* the FAT sound, and leads to none of the clusters there were in use.     *)
LEMMA LinkedSound ==
  ASSUME NEW v \in Volumes, FatSound(v.fat), NEW cs, FreshChain(cs),
         v.fat[cs[1]] \notin Clusters,
         \A i \in 2 .. Len(cs) : v.fat[cs[i]] = Free
  PROVE  /\ FatSound(Linked(v, cs).fat)
         /\ \A c \in ToSet(cs) : Linked(v, cs).fat[c] # Free
         /\ \A h \in Clusters : NoPred(v.fat, h) /\ (h = cs[1] \/ v.fat[h] # Free)
              => NoPred(Linked(v, cs).fat, h)
<1> DEFINE fat == Linked(v, cs).fat
           n == Len(cs)
<1>1. /\ n \in Nat \ {0}
      /\ \A i \in 1 .. n : cs[i] \in Clusters /\ cs[i] \in ToSet(cs)
      /\ \A c \in Clusters \ ToSet(cs) : fat[c] = v.fat[c]
      /\ \A i \in 1 .. n - 1 : fat[cs[i]] = cs[i + 1]
      /\ fat[cs[n]] = EndOfChain
  BY LinkedFacts
<1>2. \A c \in ToSet(cs) : \E i \in 1 .. n : c = cs[i]
  BY <1>1, LenProperties DEF ToSet, FreshChain
<1>3. \A i \in 1 .. n : v.fat[cs[i]] \notin Clusters
  <2>1. ASSUME NEW i \in 1 .. n PROVE v.fat[cs[i]] \notin Clusters
    <3>1. i = 1 \/ i \in 2 .. Len(cs)
      BY <1>1
    <3>2. QED
      BY <3>1, Numbers
  <2>2. QED
    BY <2>1
<1>4. \A i, j \in 1 .. n : cs[i] = cs[j] => i = j
  BY LenProperties DEF FreshChain, IsInjective
<1>5. v.fat \in Fats
  BY DEF Volumes
<1> HIDE DEF fat
(* What a link leads to now: the next one of cs, or what it led to.        *)
<1>6. ASSUME NEW c \in Clusters, fat[c] \in Clusters
      PROVE  \/ /\ c \notin ToSet(cs) /\ fat[c] = v.fat[c]
             \/ \E i \in 1 .. n - 1 : c = cs[i] /\ fat[c] = cs[i + 1]
  <2>1. CASE c \notin ToSet(cs)
    BY <1>1, <2>1
  <2>2. CASE c \in ToSet(cs)
    <3>1. PICK i \in 1 .. n : c = cs[i]
      BY <1>2, <2>2
    <3>2. i # n
      BY <1>1, <1>6, <3>1, Numbers
    <3>3. i \in 1 .. n - 1
      BY <1>1, <3>1, <3>2
    <3>4. QED
      BY <1>1, <3>1, <3>3
  <2>3. QED
    BY <2>1, <2>2
<1>7. \A c \in ToSet(cs) : fat[c] # Free
  <2>1. ASSUME NEW i \in 1 .. n PROVE fat[cs[i]] # Free
    <3>1. CASE i = n
      BY <1>1, <3>1, Numbers
    <3>2. CASE i # n
      <4>1. i \in 1 .. n - 1 /\ i + 1 \in 1 .. n
        BY <1>1, <3>2
      <4>2. fat[cs[i]] = cs[i + 1] /\ cs[i + 1] \in Clusters
        BY <1>1, <4>1
      <4>3. QED
        BY <4>2, Numbers
    <3>3. QED
      BY <3>1, <3>2
  <2>2. QED
    BY <1>2, <2>1
<1>8. ASSUME NEW c \in Clusters, fat[c] \in Clusters PROVE fat[fat[c]] # Free
  <2>1. CASE c \notin ToSet(cs) /\ fat[c] = v.fat[c]
    <3>1. v.fat[fat[c]] # Free
      BY <1>8, <2>1 DEF FatSound
    <3>2. QED
      BY <1>1, <1>7, <1>8, <3>1
  <2>2. CASE \E i \in 1 .. n - 1 : c = cs[i] /\ fat[c] = cs[i + 1]
    <3>1. PICK i \in 1 .. n - 1 : c = cs[i] /\ fat[c] = cs[i + 1]
      BY <2>2
    <3>2. i + 1 \in 1 .. n
      BY <1>1
    <3>3. QED
      BY <1>1, <1>7, <3>1, <3>2
  <2>3. QED
    BY <1>6, <1>8, <2>1, <2>2
<1>9. ASSUME NEW c \in Clusters, NEW d \in Clusters, fat[c] \in Clusters, fat[c] = fat[d]
      PROVE  c = d
  <2>1. \A i \in 1 .. n - 1 : v.fat[cs[i + 1]] = Free
    <3>1. ASSUME NEW i \in 1 .. n - 1 PROVE v.fat[cs[i + 1]] = Free
      <4>1. i + 1 \in 2 .. Len(cs)
        BY <1>1
      <4>2. QED
        BY <4>1
    <3>2. QED
      BY <3>1
  <2>2. \A b \in Clusters : v.fat[b] \in Clusters => v.fat[v.fat[b]] # Free
    BY DEF FatSound
  <2>3. CASE c \notin ToSet(cs) /\ fat[c] = v.fat[c]
    <3>1. ~ \E i \in 1 .. n - 1 : fat[d] = cs[i + 1]
      BY <1>9, <2>1, <2>2, <2>3
    <3>2. fat[d] = v.fat[d]
      BY <1>6, <1>9, <3>1
    <3>3. QED
      BY <1>9, <2>3, <3>2 DEF FatSound
  <2>4. CASE \E i \in 1 .. n - 1 : c = cs[i] /\ fat[c] = cs[i + 1]
    <3>1. PICK i \in 1 .. n - 1 : c = cs[i] /\ fat[c] = cs[i + 1]
      BY <2>4
    <3>2. v.fat[d] # fat[d]
      BY <1>9, <2>1, <2>2, <3>1
    <3>3. PICK j \in 1 .. n - 1 : d = cs[j] /\ fat[d] = cs[j + 1]
      BY <1>6, <1>9, <3>2
    <3>4. i + 1 \in 1 .. n /\ j + 1 \in 1 .. n /\ cs[i + 1] = cs[j + 1]
      BY <1>1, <1>9, <3>1, <3>3
    <3>5. i + 1 = j + 1
      BY <1>4, <3>4
    <3>6. i = j
      BY <1>1, <3>5
    <3>7. QED
      BY <3>1, <3>3, <3>6
  <2>5. QED
    BY <1>6, <1>9, <2>3, <2>4
<1>10. ASSUME NEW S \in SUBSET Clusters, S # {} PROVE \E c \in S : fat[c] \notin S
  <2>1. CASE \A i \in 1 .. n : cs[i] \notin S
    <3>1. PICK c \in S : v.fat[c] \notin S
      BY <1>10 DEF FatSound
    <3>2. c \in Clusters \ ToSet(cs)
      BY <1>2, <2>1, <3>1
    <3>3. fat[c] = v.fat[c]
      BY <1>1, <3>2
    <3>4. QED
      BY <3>1, <3>3
  <2>2. CASE \E i \in 1 .. n : cs[i] \in S
    <3> DEFINE Back == {k \in Nat : k < n /\ cs[n - k] \in S}
    <3>1. PICK i \in 1 .. n : cs[i] \in S
      BY <2>2
    <3>2. n - i \in Nat /\ n - i < n /\ n - (n - i) = i
      BY <1>1
    <3>3. n - i \in Back
      BY <3>1, <3>2
    <3>4. PICK k \in Back : \A m \in Back : k <= m
      <4>1. Back \subseteq Nat /\ Back # {}
        BY <3>3
      <4> HIDE DEF Back
      <4>2. QED
        BY <4>1, LeastNumber
    <3>5. k \in Nat /\ k < n /\ cs[n - k] \in S
      OBVIOUS
    <3>6. CASE k = 0
      <4>1. n - k = n
        BY <1>1, <3>6
      <4>2. fat[cs[n - k]] = EndOfChain
        BY <1>1, <4>1
      <4>3. QED
        BY <3>5, <4>2, Numbers
    <3>7. CASE k # 0
      <4>1. /\ k - 1 \in Nat /\ k - 1 < n /\ n - k \in 1 .. n - 1
            /\ (n - k) + 1 = n - (k - 1) /\ ~(k <= k - 1)
        BY <1>1, <3>5, <3>7
      <4>2. k - 1 \notin Back
        BY <3>4, <4>1
      <4>3. cs[n - (k - 1)] \notin S
        BY <4>1, <4>2
      <4>4. fat[cs[n - k]] = cs[(n - k) + 1]
        BY <1>1, <4>1
      <4>5. QED
        BY <3>5, <4>1, <4>3, <4>4
    <3>8. QED
      BY <3>6, <3>7
  <2>3. QED
    BY <2>1, <2>2
<1>11. FatSound(fat)
  BY <1>8, <1>9, <1>10 DEF FatSound
<1>12. ASSUME NEW h \in Clusters, NoPred(v.fat, h), h = cs[1] \/ v.fat[h] # Free
       PROVE  NoPred(fat, h)
  <2>1. SUFFICES ASSUME NEW c \in Clusters, fat[c] = h PROVE FALSE
    BY DEF NoPred
  <2>2. fat[c] \in Clusters
    BY <2>1
  <2>3. CASE c \notin ToSet(cs) /\ fat[c] = v.fat[c]
    BY <1>12, <2>1, <2>3 DEF NoPred
  <2>4. CASE \E i \in 1 .. n - 1 : c = cs[i] /\ fat[c] = cs[i + 1]
    <3>1. PICK i \in 1 .. n - 1 : fat[c] = cs[i + 1]
      BY <2>4
    <3>2. i + 1 \in 2 .. Len(cs) /\ i + 1 \in 1 .. n /\ 1 \in 1 .. n /\ i + 1 # 1
      BY <1>1
    <3>3. v.fat[h] = Free
      BY <2>1, <3>1, <3>2
    <3>4. h = cs[1]
      BY <1>12, <3>3
    <3>5. i + 1 = 1
      BY <1>4, <2>1, <3>1, <3>2, <3>4
    <3>6. QED
      BY <3>2, <3>5
  <2>5. QED
    BY <1>6, <2>2, <2>3, <2>4
<1>13. QED
  BY <1>7, <1>11, <1>12 DEF fat

(* free_chain: the clusters of the chain are free then, the others as they *)
(* were.                                                                   *)
LEMMA FreeChainFacts ==
  ASSUME NEW v \in Volumes, NEW first
  PROVE  /\ FreeChain(v, first) \in Volumes
         /\ FreeChain(v, first).clusters = v.clusters
         /\ \A c \in Clusters :
              FreeChain(v, first).fat[c] =
                IF c \in ToSet(Chain(v.fat, first)) THEN Free ELSE v.fat[c]
<1> DEFINE C == ToSet(Chain(v.fat, first))
           fat == [c \in Clusters |-> IF c \in C THEN Free ELSE v.fat[c]]
<1>1. FreeChain(v, first) = [v EXCEPT !.fat = fat]
  BY DEF FreeChain
<1> HIDE DEF C
<1>2. fat \in Fats
  BY DEF Fats, Links, Volumes
<1>3. \A c \in Clusters : fat[c] = IF c \in C THEN Free ELSE v.fat[c]
  OBVIOUS
<1> HIDE DEF fat
<1>4. /\ FreeChain(v, first) \in Volumes /\ FreeChain(v, first).fat = fat
      /\ FreeChain(v, first).clusters = v.clusters
  BY <1>1, <1>2 DEF Volumes
<1>5. QED
  BY <1>3, <1>4 DEF C

LEMMA FreedSound ==
  ASSUME NEW v \in Volumes, FatSound(v.fat), NEW first, NoPred(v.fat, first)
  PROVE  /\ FatSound(FreeChain(v, first).fat)
         /\ \A h \in Clusters : NoPred(v.fat, h) => NoPred(FreeChain(v, first).fat, h)
<1> DEFINE C == ToSet(Chain(v.fat, first))
           fat == FreeChain(v, first).fat
           f == Followed(v.fat, first)
<1>1. \A c \in Clusters : fat[c] = IF c \in C THEN Free ELSE v.fat[c]
  BY FreeChainFacts
<1>2. v.fat \in Fats
  BY DEF Volumes
<1>3. ASSUME NEW c \in Clusters, v.fat[c] \in C PROVE c \in C
  <2>1. PICK n \in 0 .. TotalClusters : ChainLen(v.fat, first, n)
    BY <1>2, ChainFacts
  <2>2. C = {f[i] : i \in 0 .. n - 1}
    BY <1>2, <2>1, ChainType
  <2>3. PICK k \in 0 .. n - 1 : v.fat[c] = f[k]
    BY <1>3, <2>2
  <2>4. k # 0
    BY <1>2, <2>3, FollowedFacts DEF NoPred
  <2>5. k - 1 \in 0 .. n - 1 /\ k \in 1 .. TotalClusters
    BY <2>3, <2>4, Numbers
  <2>6. f[k - 1] \in Clusters /\ f[k] \in Clusters
    BY <2>1, <2>3, <2>5 DEF ChainLen
  <2>7. f[k] = v.fat[f[k - 1]]
    BY <1>2, <2>5, <2>6, FollowedFacts
  <2>8. c = f[k - 1]
    BY <2>3, <2>6, <2>7 DEF FatSound
  <2>9. QED
    BY <2>2, <2>5, <2>8
<1> HIDE DEF C, fat, f
<1>4. \A c \in Clusters : fat[c] \in Clusters => c \notin C /\ fat[c] = v.fat[c]
  BY <1>1, Numbers
<1>5. ASSUME NEW c \in Clusters, fat[c] \in Clusters PROVE fat[fat[c]] # Free
  <2>1. v.fat[c] = fat[c] /\ fat[c] \notin C
    BY <1>3, <1>4, <1>5
  <2>2. QED
    BY <1>1, <1>5, <2>1 DEF FatSound
<1>6. ASSUME NEW c \in Clusters, NEW d \in Clusters, fat[c] \in Clusters, fat[c] = fat[d]
      PROVE  c = d
  BY <1>4, <1>6 DEF FatSound
<1>7. ASSUME NEW S \in SUBSET Clusters, S # {} PROVE \E c \in S : fat[c] \notin S
  <2>1. PICK c \in S : v.fat[c] \notin S
    BY <1>7 DEF FatSound
  <2>2. QED
    BY <1>1, <2>1, Numbers
<1>8. FatSound(fat)
  BY <1>5, <1>6, <1>7 DEF FatSound
<1>9. \A h \in Clusters : NoPred(v.fat, h) => NoPred(fat, h)
  BY <1>4 DEF NoPred
<1>10. QED
  BY <1>8, <1>9 DEF fat

(* The number of members of a set of numbers below one of them.            *)
LEMMA NthLowest ==
  ASSUME NEW S \in SUBSET Nat, IsFiniteSet(S), NEW i \in 1 .. Cardinality(S)
  PROVE  \E c \in S : Cardinality({d \in S : d < c}) = i - 1
<1> DEFINE n == Cardinality(S)
           Lower(c) == {d \in S : d < c}
           rank == [c \in S |-> Cardinality(Lower(c))]
<1>1. n \in Nat
  BY FS_CardinalityType
<1>2. \A c \in S : IsFiniteSet(Lower(c)) /\ Cardinality(Lower(c)) \in Nat
  <2>1. ASSUME NEW c \in S PROVE IsFiniteSet(Lower(c))
    BY FS_Subset
  <2>2. QED
    BY <2>1, FS_CardinalityType
<1>3. \A c, d \in S : c < d => Cardinality(Lower(c)) < Cardinality(Lower(d))
  <2>1. ASSUME NEW c \in S, NEW d \in S, c < d
        PROVE  Cardinality(Lower(c)) < Cardinality(Lower(d))
    <3>1. c \in Nat /\ d \in Nat
      OBVIOUS
    <3>2. Lower(c) \subseteq Lower(d)
      <4>1. \A x \in S : x \in Nat
        OBVIOUS
      <4>2. \A x \in S : x < c => x < d
        BY <2>1, <3>1, <4>1
      <4>3. QED
        BY <4>2
    <3>3. c \in Lower(d) /\ c \notin Lower(c)
      BY <2>1, <3>1
    <3> HIDE DEF Lower
    <3>4. Lower(c) # Lower(d)
      BY <3>3
    <3>5. /\ Cardinality(Lower(c)) <= Cardinality(Lower(d))
          /\ Cardinality(Lower(c)) # Cardinality(Lower(d))
      BY <1>2, <3>2, <3>4, FS_Subset
    <3>6. QED
      BY <1>2, <3>5
  <2>2. QED
    BY <2>1
<1>4. \A c \in S : Cardinality(Lower(c)) \in 0 .. n - 1
  <2>1. ASSUME NEW c \in S PROVE Cardinality(Lower(c)) \in 0 .. n - 1
    <3>1. Lower(c) \in SUBSET S /\ Lower(c) # S
      OBVIOUS
    <3> HIDE DEF Lower
    <3>2. Cardinality(Lower(c)) <= n /\ Cardinality(Lower(c)) # n
      BY <3>1, FS_Subset
    <3>3. QED
      BY <1>1, <1>2, <3>2
  <2>2. QED
    BY <2>1
<1> HIDE DEF Lower
<1>5. rank \in [S -> 0 .. n - 1]
  BY <1>4
<1>6. \A c, d \in S : rank[c] = rank[d] => c = d
  <2>1. ASSUME NEW c \in S, NEW d \in S, rank[c] = rank[d] PROVE c = d
    <3>1. c \in Nat /\ d \in Nat
      OBVIOUS
    <3>2. ~(c < d) /\ ~(d < c)
      BY <1>2, <1>3, <2>1
    <3>3. QED
      BY <3>1, <3>2
  <2>2. QED
    BY <2>1
<1>7. IsFiniteSet(0 .. n - 1) /\ Cardinality(0 .. n - 1) = n
  <2> HIDE DEF n
  <2>1. n - 1 \in Int /\ 0 \in Int
    BY <1>1
  <2>2. /\ IsFiniteSet(0 .. n - 1)
        /\ Cardinality(0 .. n - 1) = IF 0 > n - 1 THEN 0 ELSE (n - 1) - 0 + 1
    BY <2>1, FS_Interval
  <2>3. QED
    BY <1>1, <2>2
<1> HIDE DEF rank
<1>8. rank \in Injection(S, 0 .. n - 1)
  BY <1>5, <1>6 DEF Injection, IsInjective
<1>9. rank \in Surjection(S, 0 .. n - 1)
  BY <1>7, <1>8, FS_Injection
<1>10. i - 1 \in 0 .. n - 1
  BY <1>1
<1>11. PICK c \in S : rank[c] = i - 1
  BY <1>9, <1>10 DEF Surjection
<1>12. QED
  BY <1>11 DEF rank, Lower

(* alloc_cluster finds free clusters, each once.                           *)
LEMMA FreeClustersFacts ==
  ASSUME NEW v
  PROVE  /\ FreeClusters(v) \in Seq(Clusters)
         /\ IsInjective(FreeClusters(v))
         /\ Len(FreeClusters(v)) \in Nat
         /\ \A i \in 1 .. Len(FreeClusters(v)) :
              FreeClusters(v)[i] \in Clusters /\ v.fat[FreeClusters(v)[i]] = Free
<1> DEFINE free == {c \in Clusters : v.fat[c] = Free}
           n == Cardinality(free)
           Nth(i) == CHOOSE c \in free : Cardinality({d \in free : d < c}) = i - 1
           fs == [i \in 1 .. n |-> Nth(i)]
<1>1. IsFiniteSet(free) /\ free \in SUBSET Nat
  BY Numbers, FS_Subset
<1>2. n \in Nat
  <2> HIDE DEF free
  <2>1. QED
    BY <1>1, FS_CardinalityType
<1>3. ASSUME NEW i \in 1 .. n
      PROVE  Nth(i) \in free /\ Cardinality({d \in free : d < Nth(i)}) = i - 1
  <2> HIDE DEF free
  <2>1. \E c \in free : Cardinality({d \in free : d < c}) = i - 1
    BY <1>1, <1>3, NthLowest
  <2>2. QED
    BY <2>1
<1> HIDE DEF Nth
<1>4. \A i, j \in 1 .. n : Nth(i) = Nth(j) => i = j
  <2>1. ASSUME NEW i \in 1 .. n, NEW j \in 1 .. n, Nth(i) = Nth(j) PROVE i = j
    <3>1. i - 1 = j - 1
      BY <1>3, <2>1
    <3>2. QED
      BY <1>2, <3>1
  <2>2. QED
    BY <2>1
<1>5. FreeClusters(v) = fs
  BY DEF FreeClusters, Nth
<1>6. fs \in [1 .. n -> Clusters]
  <2>1. \A i \in 1 .. n : Nth(i) \in Clusters
    BY <1>3
  <2> HIDE DEF n, free
  <2>2. QED
    BY <2>1
<1>7. fs \in Seq(Clusters) /\ Len(fs) = n
  <2> HIDE DEF n
  <2>1. DOMAIN fs = 1 .. n
    OBVIOUS
  <2> HIDE DEF fs
  <2>2. QED
    BY <1>2, <1>6, <2>1
<1>8. IsInjective(fs)
  BY <1>4 DEF IsInjective
<1>9. \A i \in 1 .. n : fs[i] \in Clusters /\ v.fat[fs[i]] = Free
  BY <1>3
<1> HIDE DEF fs, n
<1>10. QED
  BY <1>2, <1>5, <1>7, <1>8, <1>9

-----------------------------------------------------------------------------
(***************************************************************************)
(* Slots and places.                                                       *)
(***************************************************************************)
LEMMA SlotFacts ==
  ASSUME NEW slot \in Slot
  PROVE  /\ slot.kind \in {"never", "deleted", "text", "entry"}
         /\ slot.kind = "entry" => slot \in Entries
         /\ slot.kind = "never" => slot = Never
         /\ slot.kind = "deleted" => slot = Deleted
         /\ IsGap(slot) => slot.kind # "entry"
<1>1. CASE slot = Never
  BY <1>1 DEF Never, IsGap
<1>2. CASE slot = Deleted
  BY <1>2 DEF Deleted, IsGap
<1>3. CASE slot \in {Text(t) : t \in Texts}
  BY <1>3 DEF Text, IsGap
<1>4. CASE slot \in Entries
  BY <1>4 DEF Entries, IsGap
<1>5. QED
  BY <1>1, <1>2, <1>3, <1>4 DEF Slot, Entries

LEMMA SlotKinds ==
  /\ Never \in Slot /\ Never.kind = "never"
  /\ Deleted \in Slot /\ Deleted.kind = "deleted"
  /\ \A t \in Texts : Text(t) \in Slot /\ Text(t).kind = "text"
  /\ Entries \subseteq Slot
  /\ \A e \in Entries : e.kind = "entry" /\ e.first \in {0} \cup Clusters
                        /\ e.dir \in BOOLEAN
BY DEF Slot, Entries, Never, Deleted, Text

LEMMA PerCluster == SlotsPerCluster \in Nat /\ SlotsPerCluster >= 2
BY Fat32Assumption

LEMMA SetSlotFacts ==
  ASSUME NEW v \in Volumes, NEW p \in AllPlaces, NEW slot \in Slot
  PROVE  /\ SetSlot(v, p, slot) \in Volumes
         /\ SetSlot(v, p, slot).fat = v.fat
         /\ SlotAt(SetSlot(v, p, slot), p) = slot
         /\ \A q \in AllPlaces : q # p => SlotAt(SetSlot(v, p, slot), q) = SlotAt(v, q)
         /\ \A c \in Clusters : c # p[1] => SetSlot(v, p, slot).clusters[c] = v.clusters[c]
<1>1. PICK c \in Clusters, s \in 1 .. SlotsPerCluster : p = <<c, s>>
  BY DEF AllPlaces
<1> DEFINE row == [v.clusters[c] EXCEPT ![s] = slot]
           rows == [v.clusters EXCEPT ![c] = row]
<1>2. v.clusters \in [Clusters -> Rows] /\ v.fat \in Fats
  BY DEF Volumes
<1>3. /\ row \in Rows
      /\ row[s] = slot
      /\ \A t \in 1 .. SlotsPerCluster : t # s => row[t] = v.clusters[c][t]
  BY <1>2 DEF Rows
<1>4. SetSlot(v, p, slot) = [v EXCEPT !.clusters = rows]
  BY <1>1, <1>2 DEF SetSlot, Volumes
<1> HIDE DEF row
<1>5. /\ rows \in [Clusters -> Rows]
      /\ rows[c] = row
      /\ \A d \in Clusters : d # c => rows[d] = v.clusters[d]
  BY <1>2, <1>3
<1> HIDE DEF rows
<1>6. /\ SetSlot(v, p, slot) \in Volumes /\ SetSlot(v, p, slot).fat = v.fat
      /\ SetSlot(v, p, slot).clusters = rows
  BY <1>4, <1>5 DEF Volumes
<1>7. p[1] = c /\ p[2] = s
  BY <1>1
<1>8. SlotAt(SetSlot(v, p, slot), p) = slot
  BY <1>3, <1>5, <1>6, <1>7 DEF SlotAt
<1>9. ASSUME NEW q \in AllPlaces, q # p
      PROVE  SlotAt(SetSlot(v, p, slot), q) = SlotAt(v, q)
  <2>1. PICK d \in Clusters, t \in 1 .. SlotsPerCluster : q = <<d, t>>
    BY DEF AllPlaces
  <2>2. q[1] = d /\ q[2] = t /\ (d # c \/ t # s)
    BY <1>1, <1>9, <2>1
  <2>3. rows[d][t] = v.clusters[d][t]
    BY <1>3, <1>5, <2>2
  <2>4. QED
    BY <1>6, <2>2, <2>3 DEF SlotAt
<1>10. QED
  BY <1>5, <1>6, <1>7, <1>8, <1>9

(* The slot at a place is a slot.                                          *)
LEMMA SlotAtType ==
  ASSUME NEW v \in Volumes, NEW p \in AllPlaces
  PROVE  p[1] \in Clusters /\ p[2] \in 1 .. SlotsPerCluster /\ SlotAt(v, p) \in Slot
BY DEF Volumes, AllPlaces, Rows, SlotAt

(* The number of a slot in a row of clusters tells its cluster and slot.   *)
LEMMA DivFacts ==
  ASSUME NEW n \in Nat, NEW s \in Nat \ {0}, NEW i \in 1 .. n * s
  PROVE  /\ ((i - 1) \div s) + 1 \in 1 .. n
         /\ ((i - 1) % s) + 1 \in 1 .. s
         /\ i - 1 = s * ((i - 1) \div s) + ((i - 1) % s)
<1> DEFINE q == (i - 1) \div s
           r == (i - 1) % s
<1>1. i - 1 \in Nat /\ n * s \in Nat /\ i - 1 < n * s
  OBVIOUS
<1>2. q \in Int /\ r \in 0 .. s - 1 /\ i - 1 = s * q + r
  BY <1>1
<1> HIDE DEF q, r
<1>3. q >= 0
  <2>1. SUFFICES ASSUME q <= -1 PROVE FALSE
    BY <1>2
  <2>2. s * q <= s * (-1)
    BY <1>2, <2>1
  <2>3. QED
    BY <1>1, <1>2, <2>2
<1>4. q < n
  <2>1. SUFFICES ASSUME q >= n PROVE FALSE
    BY <1>2
  <2>2. s * q >= s * n
    BY <1>2, <2>1
  <2>3. s * n = n * s
    OBVIOUS
  <2>4. QED
    BY <1>1, <1>2, <2>2, <2>3
<1>5. QED
  BY <1>2, <1>3, <1>4 DEF q, r

(* The places of a directory: slots of the clusters of its chain, in order.*)
LEMMA PlacesFacts ==
  ASSUME NEW v \in Volumes, NEW dir
  PROVE  /\ Len(Chain(v.fat, dir)) \in Nat
         /\ Places(v, dir) \in Seq(AllPlaces)
         /\ Len(Places(v, dir)) = Len(Chain(v.fat, dir)) * SlotsPerCluster
         /\ Len(Places(v, dir)) \in Nat
         /\ DOMAIN Places(v, dir) = 1 .. Len(Places(v, dir))
         /\ \A i \in DOMAIN Places(v, dir) :
              /\ Places(v, dir)[i] \in AllPlaces
              /\ Places(v, dir)[i][1] \in ToSet(Chain(v.fat, dir))
<1> DEFINE chain == Chain(v.fat, dir)
           n == Len(chain)
           m == n * SlotsPerCluster
           At(i) == <<chain[((i - 1) \div SlotsPerCluster) + 1], ((i - 1) % SlotsPerCluster) + 1>>
           places == [i \in 1 .. m |-> At(i)]
<1>1. v.fat \in Fats
  BY DEF Volumes
<1>2. chain \in Seq(Clusters)
  BY <1>1, ChainType
<1>3. n \in Nat /\ m \in Nat /\ DOMAIN chain = 1 .. n /\ \A i \in 1 .. n : chain[i] \in Clusters
  BY <1>2, PerCluster, LenProperties, ElementOfSeq
<1>4. Places(v, dir) = places
  BY DEF Places
<1> HIDE DEF chain
<1>5. ASSUME NEW i \in 1 .. m PROVE At(i) \in AllPlaces /\ At(i)[1] \in ToSet(chain)
  <2>1. /\ ((i - 1) \div SlotsPerCluster) + 1 \in 1 .. n
        /\ ((i - 1) % SlotsPerCluster) + 1 \in 1 .. SlotsPerCluster
    <3> HIDE DEF n
    <3>1. n \in Nat /\ SlotsPerCluster \in Nat \ {0} /\ i \in 1 .. n * SlotsPerCluster
      BY <1>3, PerCluster
    <3>2. QED
      BY <3>1, DivFacts
  <2>2. QED
    BY <1>3, <2>1 DEF AllPlaces, ToSet
<1> HIDE DEF At, n, m
<1>6. places \in [1 .. m -> AllPlaces] /\ DOMAIN places = 1 .. m
  BY <1>5
<1>7. \A i \in 1 .. m : places[i] \in AllPlaces /\ places[i][1] \in ToSet(chain)
  BY <1>5
<1> HIDE DEF places
<1>8. places \in Seq(AllPlaces) /\ Len(places) = m
  BY <1>3, <1>6
<1>9. QED
  BY <1>3, <1>4, <1>6, <1>7, <1>8 DEF n, m, chain

(* FirstOf: the least of a set of positions, or 0.                         *)
LEMMA FirstOfFacts ==
  ASSUME NEW S, S \subseteq Nat \ {0}
  PROVE  /\ S = {} <=> FirstOf(S) = 0
         /\ S # {} => FirstOf(S) \in S /\ \A m \in S : FirstOf(S) <= m
<1>1. CASE S = {}
  BY <1>1 DEF FirstOf
<1>2. CASE S # {}
  <2>1. \E n \in S : \A m \in S : n <= m
    BY <1>2, LeastNumber
  <2>2. Min(S) \in S /\ \A m \in S : Min(S) <= m
    BY <2>1 DEF Min
  <2>3. FirstOf(S) = Min(S)
    BY <1>2 DEF FirstOf
  <2>4. QED
    BY <1>2, <2>2, <2>3
<1>3. QED
  BY <1>1, <1>2

(* find_entry finds the first slot of that name before any never used.     *)
Called(slot, name) == slot.kind = "entry" /\ slot.name = name

IsFirst(v, dir, name, k) ==
  /\ k \in DOMAIN Places(v, dir)
  /\ Called(SlotAt(v, Places(v, dir)[k]), name)
  /\ \A i \in 1 .. k - 1 : /\ SlotAt(v, Places(v, dir)[i]) # Never
                           /\ ~Called(SlotAt(v, Places(v, dir)[i]), name)

LEMMA FindFacts ==
  ASSUME NEW v \in Volumes, NEW dir, NEW name
  PROVE  /\ \A k \in DOMAIN Places(v, dir) : IsFirst(v, dir, name, k) =>
              Found(v, dir, name) /\ FindEntry(v, dir, name) = Places(v, dir)[k]
         /\ Found(v, dir, name) => \E k \in DOMAIN Places(v, dir) :
              IsFirst(v, dir, name, k) /\ FindEntry(v, dir, name) = Places(v, dir)[k]
<1> DEFINE places == Places(v, dir)
           F == {i \in DOMAIN places : SlotAt(v, places[i]).kind = "entry"
                                       /\ SlotAt(v, places[i]).name = name}
           N == {i \in DOMAIN places : SlotAt(v, places[i]) = Never}
           found == FirstOf(F)
           never == FirstOf(N)
<1>1. DOMAIN places \subseteq Nat \ {0} /\ DOMAIN places = 1 .. Len(places) /\ Len(places) \in Nat
  BY PlacesFacts
<1>2. /\ F \subseteq DOMAIN places /\ N \subseteq DOMAIN places
      /\ \A i \in DOMAIN places : i \in F <=> Called(SlotAt(v, places[i]), name)
      /\ \A i \in DOMAIN places : i \in N <=> SlotAt(v, places[i]) = Never
      /\ F \cap N = {}
  BY SlotKinds DEF Called
<1>3. FindEntry(v, dir, name) =
        IF found = 0 \/ (never # 0 /\ never < found) THEN <<>> ELSE places[found]
  BY DEF FindEntry
<1>4. \A i \in DOMAIN places : places[i] # <<>>
  BY PlacesFacts DEF AllPlaces
<1> HIDE DEF places, F, N
<1>5. /\ F = {} <=> found = 0
      /\ F # {} => found \in F /\ \A m \in F : found <= m
  BY <1>1, <1>2, FirstOfFacts
<1>6. /\ N = {} <=> never = 0
      /\ N # {} => never \in N /\ \A m \in N : never <= m
  BY <1>1, <1>2, FirstOfFacts
<1> HIDE DEF found, never
<1>7. ASSUME NEW k \in DOMAIN places, IsFirst(v, dir, name, k)
      PROVE  Found(v, dir, name) /\ FindEntry(v, dir, name) = places[k]
  <2>1. k \in F /\ \A i \in 1 .. k - 1 : i \notin F /\ i \notin N
    <3>1. \A i \in 1 .. k - 1 : i \in DOMAIN places
      BY <1>1
    <3>2. QED
      BY <1>2, <1>7, <3>1 DEF IsFirst, places
  <2>2. found \in F /\ found <= k /\ found \in Nat \ {0}
    BY <1>1, <1>2, <1>5, <2>1
  <2>3. found = k
    BY <1>1, <2>1, <2>2
  <2>4. ~(never # 0 /\ never < found)
    <3>1. SUFFICES ASSUME never # 0, never < found PROVE FALSE
      OBVIOUS
    <3>2. never \in N /\ never \in Nat \ {0}
      BY <1>1, <1>2, <1>6, <3>1
    <3>3. never \in 1 .. k - 1
      BY <1>1, <2>3, <3>1, <3>2
    <3>4. QED
      BY <2>1, <3>2, <3>3
  <2>5. FindEntry(v, dir, name) = places[k]
    BY <1>3, <2>2, <2>3, <2>4
  <2>6. QED
    BY <1>4, <2>5 DEF Found
<1>8. ASSUME Found(v, dir, name)
      PROVE  \E k \in DOMAIN places :
               IsFirst(v, dir, name, k) /\ FindEntry(v, dir, name) = places[k]
  <2>1. found # 0 /\ ~(never # 0 /\ never < found) /\ FindEntry(v, dir, name) = places[found]
    BY <1>3, <1>8 DEF Found
  <2>2. found \in F /\ found \in DOMAIN places /\ found \in Nat /\ found <= Len(places)
    BY <1>1, <1>2, <1>5, <2>1
  <2>3. ASSUME NEW i \in 1 .. found - 1
        PROVE  SlotAt(v, places[i]) # Never /\ ~Called(SlotAt(v, places[i]), name)
    <3>1. i \in DOMAIN places /\ i \in Nat /\ i < found
      BY <1>1, <2>2
    <3>2. i \notin F
      <4>1. SUFFICES ASSUME i \in F PROVE FALSE
        OBVIOUS
      <4>2. found <= i
        BY <1>5, <4>1
      <4>3. QED
        BY <2>2, <3>1, <4>2
    <3>3. i \notin N
      <4>1. SUFFICES ASSUME i \in N PROVE FALSE
        OBVIOUS
      <4>2. never \in N /\ never <= i /\ never # 0
        BY <1>6, <4>1
      <4>3. never \in Nat
        BY <1>1, <1>2, <4>2
      <4>4. QED
        BY <2>1, <2>2, <3>1, <4>2, <4>3
    <3>4. QED
      BY <1>2, <3>1, <3>2, <3>3
  <2>4. IsFirst(v, dir, name, found)
    BY <1>2, <2>2, <2>3 DEF IsFirst, places
  <2>5. QED
    BY <2>1, <2>2, <2>4
<1>9. QED
  BY <1>7, <1>8 DEF places

-----------------------------------------------------------------------------
(***************************************************************************)
(* The inductive invariant.  The clusters of a volume are of two sorts:    *)
(* data, which are free or in the chain of a file, and those of            *)
(* directories.  A link stays within its sort, and data holds no entries,  *)
(* so that a free cluster brings none with it when a directory grows.      *)
(* What an entry of a name starts is the head of a chain in use, that no   *)
(* other entry starts.  No link leads to where a directory starts.         *)
(***************************************************************************)
DirHead(v, data, h) == h \in Clusters \ data /\ NoPred(v.fat, h)

EntryFits(v, data, e) ==
  IF e.first = 0 THEN ~e.dir
  ELSE /\ e.first # RootCluster
       /\ v.fat[e.first] # Free
       /\ NoPred(v.fat, e.first)
       /\ e.dir <=> e.first \notin data

EntryAt(v, p) == SlotAt(v, p).kind = "entry"
NamedAt(v, p) == EntryAt(v, p) /\ SlotAt(v, p).name \in Names

DataApart(v, data) ==
  /\ data \in SUBSET Clusters
  /\ \A c \in Clusters : v.fat[c] = Free => c \in data
  /\ \A c \in Clusters : v.fat[c] \in Clusters => (c \in data <=> v.fat[c] \in data)
  /\ \A p \in AllPlaces : p[1] \in data => ~EntryAt(v, p)

EntriesFit(v, data) ==
  \A p \in AllPlaces :
    /\ NamedAt(v, p) => EntryFits(v, data, SlotAt(v, p))
    /\ EntryAt(v, p) /\ ~NamedAt(v, p) => DirHead(v, data, SlotAt(v, p).first)

FirstsDiffer(v) ==
  \A p, q \in AllPlaces :
    NamedAt(v, p) /\ NamedAt(v, q) /\ p # q /\ SlotAt(v, p).first = SlotAt(v, q).first
      => SlotAt(v, p).first = 0

VolumeSound(v, data) ==
  /\ v \in Volumes
  /\ FatSound(v.fat)
  /\ DataApart(v, data)
  /\ DirHead(v, data, RootCluster)
  /\ EntriesFit(v, data)
  /\ FirstsDiffer(v)

(* Directories stay directories.                                           *)
HeadsStay(v, data, w, eata) ==
  /\ eata \subseteq data
  /\ \A h : DirHead(v, data, h) => DirHead(w, eata, h)

Fat32Inv ==
  /\ \E data : VolumeSound(volume, data) /\ DirHead(volume, data, cwd)
  /\ mounted \in BOOLEAN
  /\ path \in Seq(Names) /\ Len(path) <= MaxDepth

(* What an entry starts: nothing, or a cluster.                            *)
LEMMA EntryFirst ==
  ASSUME NEW v \in Volumes, NEW p \in AllPlaces, EntryAt(v, p)
  PROVE  /\ SlotAt(v, p) \in Entries
         /\ SlotAt(v, p).first = 0 \/ SlotAt(v, p).first \in Clusters
BY SlotAtType, SlotFacts, SlotKinds DEF EntryAt

(* Chains stay within their sort.                                          *)
LEMMA DirChain ==
  ASSUME NEW v, NEW data, VolumeSound(v, data), NEW h, DirHead(v, data, h)
  PROVE  /\ ToSet(Chain(v.fat, h)) \subseteq Clusters \ data
         /\ v.fat[h] # Free
         /\ Chain(v.fat, h) \in Seq(Clusters)
         /\ Len(Chain(v.fat, h)) \in Nat \ {0}
         /\ IsInjective(Chain(v.fat, h))
         /\ Last(Chain(v.fat, h)) \in Clusters \ data
         /\ v.fat[Last(Chain(v.fat, h))] = EndOfChain
<1> DEFINE S == (Links \ data)
           f == Followed(v.fat, h)
<1>1. v.fat \in Fats /\ FatSound(v.fat) /\ h \in Clusters \ data
  BY DEF VolumeSound, Volumes, DirHead
<1>2. v.fat[h] # Free
  BY <1>1 DEF VolumeSound, DataApart
<1>3. h \in S /\ EndOfChain \in S
  BY <1>1, Numbers DEF Links, VolumeSound, DataApart
<1>4. \A c \in S \cap Clusters : v.fat[c] \in S
  <2>1. ASSUME NEW c \in Clusters \ data PROVE v.fat[c] \notin data
    BY DEF VolumeSound, DataApart
  <2>2. QED
    BY <1>1, <2>1 DEF Fats
<1>5. \A i \in 0 .. TotalClusters : f[i] \in S
  <2> HIDE DEF S
  <2>1. QED
    BY <1>1, <1>3, <1>4, FollowedStays
<1>6. PICK n \in 0 .. TotalClusters : ChainLen(v.fat, h, n)
  BY <1>1, ChainFacts
<1>7. ToSet(Chain(v.fat, h)) = {f[i] : i \in 0 .. n - 1} /\ Chain(v.fat, h) \in Seq(Clusters)
  BY <1>1, <1>6, ChainType
<1>8. \A i \in 0 .. n - 1 : i \in 0 .. TotalClusters /\ f[i] \in Clusters
  BY <1>6, Numbers DEF ChainLen
<1>9. ToSet(Chain(v.fat, h)) \subseteq Clusters \ data
  BY <1>5, <1>7, <1>8
<1>10. /\ IsInjective(Chain(v.fat, h))
       /\ Len(Chain(v.fat, h)) \in Nat \ {0}
       /\ v.fat[Last(Chain(v.fat, h))] = EndOfChain
  BY <1>1, <1>2, ChainSound, Numbers
<1>11. Last(Chain(v.fat, h)) \in ToSet(Chain(v.fat, h))
  BY <1>7, <1>10, LenProperties DEF Last, ToSet
<1>12. QED
  BY <1>2, <1>7, <1>9, <1>10, <1>11

LEMMA FileChain ==
  ASSUME NEW v, NEW data, VolumeSound(v, data), NEW h \in data
  PROVE  ToSet(Chain(v.fat, h)) \subseteq data
<1> DEFINE S == data \cup {Free, EndOfChain}
           f == Followed(v.fat, h)
<1>1. v.fat \in Fats /\ data \subseteq Clusters
  BY DEF VolumeSound, Volumes, DataApart
<1>2. \A c \in S \cap Clusters : v.fat[c] \in S
  <2>1. \A c \in data : v.fat[c] \in Links /\ (v.fat[c] \in Clusters => v.fat[c] \in data)
    BY <1>1 DEF VolumeSound, DataApart, Fats
  <2>2. S \cap Clusters = data
    BY <1>1, Numbers
  <2>3. QED
    BY <2>1, <2>2 DEF Links
<1>3. h \in S /\ EndOfChain \in S
  OBVIOUS
<1>4. \A i \in 0 .. TotalClusters : f[i] \in S
  <2> HIDE DEF S
  <2>1. QED
    BY <1>1, <1>2, <1>3, FollowedStays
<1>5. PICK n \in 0 .. TotalClusters : ChainLen(v.fat, h, n)
  BY <1>1, ChainFacts
<1>6. ToSet(Chain(v.fat, h)) = {f[i] : i \in 0 .. n - 1}
  BY <1>1, <1>5, ChainType
<1>7. \A i \in 0 .. n - 1 : i \in 0 .. TotalClusters /\ f[i] \in Clusters
  BY <1>5, Numbers DEF ChainLen
<1>8. QED
  BY <1>4, <1>6, <1>7, Numbers

(* The chain of a directory is what it was where its links are.            *)
LEMMA DirChainSame ==
  ASSUME NEW v, NEW data, VolumeSound(v, data), NEW h, DirHead(v, data, h),
         NEW fat \in Fats, \A c \in Clusters \ data : fat[c] = v.fat[c]
  PROVE  Chain(fat, h) = Chain(v.fat, h)
<1> DEFINE S == Links \ data
<1>1. v.fat \in Fats /\ h \in Clusters \ data /\ data \subseteq Clusters
  BY DEF VolumeSound, Volumes, DirHead, DataApart
<1>2. \A c \in S \cap Clusters : v.fat[c] \in S /\ fat[c] = v.fat[c]
  <2>1. ASSUME NEW c \in Clusters \ data PROVE v.fat[c] \notin data
    BY DEF VolumeSound, DataApart
  <2>2. QED
    BY <1>1, <2>1 DEF Fats
<1>3. h \in S /\ EndOfChain \in S
  BY <1>1, Numbers DEF Links
<1> HIDE DEF S
<1>4. QED
  BY <1>1, <1>2, <1>3, FollowedSame

(* A slot of a directory gives up its entry, or takes one that fits.       *)
LEMMA PutSound ==
  ASSUME NEW v, NEW data, VolumeSound(v, data), NEW p \in AllPlaces, p[1] \notin data,
         NEW slot \in Slot,
         slot.kind = "entry" =>
           /\ slot.name \in Names
           /\ EntryFits(v, data, slot)
           /\ \A q \in AllPlaces : q # p /\ NamedAt(v, q) /\ SlotAt(v, q).first = slot.first
                => slot.first = 0
  PROVE  /\ VolumeSound(SetSlot(v, p, slot), data)
         /\ HeadsStay(v, data, SetSlot(v, p, slot), data)
<1> DEFINE w == SetSlot(v, p, slot)
<1>1. /\ w \in Volumes /\ w.fat = v.fat /\ SlotAt(w, p) = slot
      /\ \A q \in AllPlaces : q # p => SlotAt(w, q) = SlotAt(v, q)
  BY SetSlotFacts DEF VolumeSound
<1> HIDE DEF w
<1>2. \A h : DirHead(w, data, h) <=> DirHead(v, data, h)
  BY <1>1 DEF DirHead
<1>3. \A e : EntryFits(w, data, e) <=> EntryFits(v, data, e)
  BY <1>1 DEF EntryFits
<1>4. \A q \in AllPlaces : q # p =>
            /\ (EntryAt(w, q) <=> EntryAt(v, q))
            /\ (NamedAt(w, q) <=> NamedAt(v, q))
  BY <1>1 DEF EntryAt, NamedAt
<1>5. EntryAt(w, p) => NamedAt(w, p)
  BY <1>1 DEF EntryAt, NamedAt
<1>6. FatSound(w.fat) /\ DirHead(w, data, RootCluster)
  BY <1>1, <1>2 DEF VolumeSound
<1>7. DataApart(w, data)
  <2>1. \A q \in AllPlaces : q[1] \in data => q # p /\ ~EntryAt(w, q)
    BY <1>4 DEF VolumeSound, DataApart
  <2>2. QED
    BY <1>1, <2>1 DEF VolumeSound, DataApart
<1>8. EntriesFit(w, data)
  <2>1. ASSUME NEW q \in AllPlaces
        PROVE  /\ NamedAt(w, q) => EntryFits(w, data, SlotAt(w, q))
               /\ EntryAt(w, q) /\ ~NamedAt(w, q) => DirHead(w, data, SlotAt(w, q).first)
    <3>1. CASE q = p
      <4>1. NamedAt(w, p) => EntryFits(v, data, slot)
        BY <1>1 DEF NamedAt, EntryAt
      <4>2. QED
        BY <1>1, <1>3, <1>5, <3>1, <4>1
    <3>2. CASE q # p
      BY <1>1, <1>2, <1>3, <1>4, <3>2 DEF VolumeSound, EntriesFit
    <3>3. QED
      BY <3>1, <3>2
  <2>2. QED
    BY <2>1 DEF EntriesFit
<1>9. FirstsDiffer(w)
  <2>1. NamedAt(w, p) => \A q \in AllPlaces :
          q # p /\ NamedAt(w, q) /\ SlotAt(w, q).first = slot.first => slot.first = 0
    BY <1>1, <1>4 DEF NamedAt, EntryAt
  <2>2. ASSUME NEW q \in AllPlaces, NEW r \in AllPlaces, NamedAt(w, q), NamedAt(w, r), q # r,
               SlotAt(w, q).first = SlotAt(w, r).first
        PROVE  SlotAt(w, q).first = 0
    <3>1. CASE q = p
      BY <1>1, <2>1, <2>2, <3>1
    <3>2. CASE r = p
      BY <1>1, <2>1, <2>2, <3>2
    <3>3. CASE q # p /\ r # p
      BY <1>1, <1>4, <2>2, <3>3 DEF VolumeSound, FirstsDiffer
    <3>4. QED
      BY <3>1, <3>2, <3>3
  <2>3. QED
    BY <2>2 DEF FirstsDiffer
<1>10. HeadsStay(v, data, w, data)
  BY <1>2 DEF HeadsStay
<1>11. QED
  BY <1>1, <1>6, <1>7, <1>8, <1>9, <1>10 DEF VolumeSound, w

(* A new chain of free clusters is data; free clusters linked to the end   *)
(* of a directory become its own.                                          *)
SortOf(data, cs) == IF cs[1] \in data THEN data ELSE data \ ToSet(cs)

LEMMA LinkSound ==
  ASSUME NEW v, NEW data, VolumeSound(v, data), NEW cs, FreshChain(cs),
         v.fat[cs[1]] = IF cs[1] \in data THEN Free ELSE EndOfChain,
         \A i \in 2 .. Len(cs) : v.fat[cs[i]] = Free
  PROVE  /\ VolumeSound(Linked(v, cs), SortOf(data, cs))
         /\ HeadsStay(v, data, Linked(v, cs), SortOf(data, cs))
         /\ \A p \in AllPlaces : NamedAt(v, p) => SlotAt(v, p).first \notin
              {c \in ToSet(cs) : v.fat[c] = Free}
<1> DEFINE w == Linked(v, cs)
           eata == SortOf(data, cs)
           n == Len(cs)
<1>1. /\ v \in Volumes /\ FatSound(v.fat) /\ DataApart(v, data) /\ EntriesFit(v, data)
      /\ FirstsDiffer(v) /\ DirHead(v, data, RootCluster)
  BY DEF VolumeSound
<1>2. /\ w \in Volumes /\ w.clusters = v.clusters /\ n \in Nat \ {0}
      /\ ToSet(cs) \subseteq Clusters
      /\ \A i \in 1 .. n : cs[i] \in Clusters /\ cs[i] \in ToSet(cs)
      /\ \A c \in Clusters \ ToSet(cs) : w.fat[c] = v.fat[c]
      /\ \A i \in 1 .. n - 1 : w.fat[cs[i]] = cs[i + 1]
      /\ w.fat[cs[n]] = EndOfChain
  BY <1>1, LinkedFacts
<1>3. /\ FatSound(w.fat)
      /\ \A c \in ToSet(cs) : w.fat[c] # Free
      /\ \A h \in Clusters : NoPred(v.fat, h) /\ (h = cs[1] \/ v.fat[h] # Free) => NoPred(w.fat, h)
  <2>1. v.fat[cs[1]] \notin Clusters
    BY Numbers
  <2>2. QED
    BY <1>1, <2>1, LinkedSound
<1>4. \A c \in ToSet(cs) : c = cs[1] \/ v.fat[c] = Free
  <2>1. ASSUME NEW c \in ToSet(cs) PROVE c = cs[1] \/ v.fat[c] = Free
    <3>1. PICK i \in 1 .. n : c = cs[i]
      BY <1>2, LenProperties DEF ToSet, FreshChain
    <3>2. i = 1 \/ i \in 2 .. Len(cs)
      BY <1>2, <3>1
    <3>3. QED
      BY <3>1, <3>2
  <2>2. QED
    BY <2>1
<1>5. /\ data \subseteq Clusters /\ cs[1] \in ToSet(cs)
      /\ cs[1] \in data => eata = data /\ ToSet(cs) \subseteq data
      /\ cs[1] \notin data => eata = data \ ToSet(cs)
  <2>1. cs[1] \in ToSet(cs)
    BY <1>2
  <2>2. \A c \in ToSet(cs) : v.fat[c] = Free => c \in data
    BY <1>1, <1>2 DEF DataApart
  <2>3. QED
    BY <1>1, <1>4, <2>1, <2>2 DEF SortOf, DataApart
<1>6. \A c \in Clusters : v.fat[c] # Free => (c \in eata <=> c \in data)
  <2>1. ASSUME NEW c \in Clusters, v.fat[c] # Free PROVE c \in eata <=> c \in data
    <3>1. CASE c \in ToSet(cs)
      <4>1. c = cs[1]
        BY <1>4, <2>1, <3>1
      <4>2. QED
        BY <1>5, <3>1, <4>1
    <3>2. CASE c \notin ToSet(cs)
      BY <1>5, <3>2
    <3>3. QED
      BY <3>1, <3>2
  <2>2. QED
    BY <2>1
<1> HIDE DEF w, eata
<1>7. ASSUME NEW h, DirHead(v, data, h) PROVE DirHead(w, eata, h)
  <2>1. h \in Clusters /\ h \notin data /\ v.fat[h] # Free /\ NoPred(v.fat, h)
    BY <1>1, <1>7 DEF DirHead, DataApart
  <2>2. QED
    BY <1>3, <1>6, <2>1 DEF DirHead
<1>8. /\ \A p : SlotAt(w, p) = SlotAt(v, p)
      /\ \A p : EntryAt(w, p) <=> EntryAt(v, p)
      /\ \A p : NamedAt(w, p) <=> NamedAt(v, p)
  BY <1>2 DEF SlotAt, EntryAt, NamedAt
<1>9. DataApart(w, eata)
  <2>1. eata \in SUBSET Clusters
    BY <1>5
  <2>2. ASSUME NEW c \in Clusters, w.fat[c] = Free PROVE c \in eata
    <3>1. c \notin ToSet(cs)
      BY <1>3, <2>2
    <3>2. v.fat[c] = Free
      BY <1>2, <2>2, <3>1
    <3>3. QED
      BY <1>1, <1>5, <3>1, <3>2 DEF DataApart
  <2>3. ASSUME NEW c \in Clusters, w.fat[c] \in Clusters PROVE c \in eata <=> w.fat[c] \in eata
    <3>1. CASE c \notin ToSet(cs)
      <4>1. w.fat[c] = v.fat[c]
        BY <1>2, <3>1
      <4>2. v.fat[v.fat[c]] # Free
        BY <1>1, <2>3, <4>1 DEF FatSound
      <4>3. v.fat[c] \in eata <=> v.fat[c] \in data
        BY <1>6, <2>3, <4>1, <4>2
      <4>4. c \in data <=> v.fat[c] \in data
        BY <1>1, <2>3, <4>1 DEF DataApart
      <4>5. c \in eata <=> c \in data
        BY <1>5, <3>1
      <4>6. QED
        BY <4>1, <4>3, <4>4, <4>5
    <3>2. CASE c \in ToSet(cs)
      <4>1. PICK i \in 1 .. n : c = cs[i]
        BY <1>2, <3>2, LenProperties DEF ToSet, FreshChain
      <4>2. i # n
        BY <1>2, <2>3, <4>1, Numbers
      <4>3. i \in 1 .. n - 1 /\ i + 1 \in 1 .. n
        BY <1>2, <4>1, <4>2
      <4>4. w.fat[c] \in ToSet(cs)
        BY <1>2, <4>1, <4>3
      <4>5. QED
        BY <1>5, <3>2, <4>4
    <3>3. QED
      BY <3>1, <3>2
  <2>4. \A p \in AllPlaces : p[1] \in eata => ~EntryAt(w, p)
    BY <1>1, <1>5, <1>8 DEF DataApart
  <2>5. QED
    BY <2>1, <2>2, <2>3, <2>4 DEF DataApart
<1>10. ASSUME NEW p \in AllPlaces, NamedAt(v, p)
       PROVE  EntryFits(w, eata, SlotAt(w, p))
  <2> DEFINE e == SlotAt(v, p)
  <2>1. e.first = 0 \/ e.first \in Clusters
    BY <1>1, <1>10, EntryFirst DEF NamedAt
  <2>2. EntryFits(v, data, e)
    BY <1>1, <1>10 DEF EntriesFit
  <2> HIDE DEF e
  <2>3. CASE e.first = 0
    BY <1>8, <2>2, <2>3 DEF EntryFits, e
  <2>4. CASE e.first # 0
    <3>1. /\ e.first \in Clusters /\ e.first # RootCluster /\ v.fat[e.first] # Free
          /\ NoPred(v.fat, e.first) /\ (e.dir <=> e.first \notin data)
      BY <2>1, <2>2, <2>4 DEF EntryFits
    <3>2. NoPred(w.fat, e.first) /\ (e.first \in eata <=> e.first \in data)
      BY <1>3, <1>6, <3>1
    <3>3. w.fat[e.first] # Free
      BY <1>2, <1>3, <3>1
    <3>4. QED
      BY <1>8, <2>4, <3>1, <3>2, <3>3 DEF EntryFits, e
  <2>5. QED
    BY <2>3, <2>4
<1>11. EntriesFit(w, eata)
  <2>1. \A p \in AllPlaces : EntryAt(v, p) /\ ~NamedAt(v, p) => DirHead(w, eata, SlotAt(w, p).first)
    BY <1>1, <1>7, <1>8 DEF EntriesFit
  <2>2. QED
    BY <1>8, <1>10, <2>1 DEF EntriesFit
<1>12. FirstsDiffer(w)
  BY <1>1, <1>8 DEF FirstsDiffer
<1>13. VolumeSound(w, eata)
  BY <1>1, <1>2, <1>3, <1>7, <1>9, <1>11, <1>12 DEF VolumeSound
<1>14. HeadsStay(v, data, w, eata)
  BY <1>5, <1>7 DEF HeadsStay
<1>15. ASSUME NEW p \in AllPlaces, NamedAt(v, p)
       PROVE  SlotAt(v, p).first \notin {c \in ToSet(cs) : v.fat[c] = Free}
  <2>1. EntryFits(v, data, SlotAt(v, p))
    BY <1>1, <1>15 DEF EntriesFit
  <2>2. SlotAt(v, p).first # 0 => v.fat[SlotAt(v, p).first] # Free
    BY <2>1 DEF EntryFits
  <2>3. 0 \notin ToSet(cs)
    BY <1>2, Numbers DEF Free
  <2>4. QED
    BY <2>2, <2>3
<1>16. QED
  BY <1>13, <1>14, <1>15 DEF w, eata

(* Data may be overwritten with what is no entry.                          *)
LEMMA DataRowsSound ==
  ASSUME NEW v, NEW data, VolumeSound(v, data), NEW w \in Volumes, w.fat = v.fat,
         \A p \in AllPlaces : p[1] \notin data => SlotAt(w, p) = SlotAt(v, p),
         \A p \in AllPlaces : p[1] \in data => ~EntryAt(w, p)
  PROVE  VolumeSound(w, data) /\ HeadsStay(v, data, w, data)
<1>1. /\ v \in Volumes /\ FatSound(v.fat) /\ DataApart(v, data) /\ EntriesFit(v, data)
      /\ FirstsDiffer(v) /\ DirHead(v, data, RootCluster)
  BY DEF VolumeSound
<1>2. \A h : DirHead(w, data, h) <=> DirHead(v, data, h)
  BY DEF DirHead
<1>3. \A e : EntryFits(w, data, e) <=> EntryFits(v, data, e)
  BY DEF EntryFits
<1>4. \A p \in AllPlaces : EntryAt(w, p) => p[1] \notin data /\ SlotAt(w, p) = SlotAt(v, p)
                                          /\ EntryAt(v, p)
  BY DEF EntryAt
<1>5. \A p \in AllPlaces : NamedAt(w, p) => SlotAt(w, p) = SlotAt(v, p) /\ NamedAt(v, p)
  BY <1>4 DEF NamedAt
<1>6. DataApart(w, data)
  BY <1>1 DEF DataApart
<1>7. EntriesFit(w, data)
  <2>1. \A p \in AllPlaces : NamedAt(w, p) => EntryFits(w, data, SlotAt(w, p))
    BY <1>1, <1>3, <1>5 DEF EntriesFit
  <2>2. \A p \in AllPlaces : EntryAt(w, p) /\ ~NamedAt(w, p) => DirHead(w, data, SlotAt(w, p).first)
    <3>1. ASSUME NEW p \in AllPlaces, EntryAt(w, p), ~NamedAt(w, p)
          PROVE  DirHead(w, data, SlotAt(w, p).first)
      <4>1. EntryAt(v, p) /\ ~NamedAt(v, p) /\ SlotAt(w, p) = SlotAt(v, p)
        BY <1>4, <3>1 DEF NamedAt
      <4>2. QED
        BY <1>1, <1>2, <4>1 DEF EntriesFit
    <3>2. QED
      BY <3>1
  <2>3. QED
    BY <2>1, <2>2 DEF EntriesFit
<1>8. FirstsDiffer(w)
  BY <1>1, <1>5 DEF FirstsDiffer
<1>9. QED
  BY <1>1, <1>2, <1>6, <1>7, <1>8 DEF VolumeSound, HeadsStay

-----------------------------------------------------------------------------
(* Distinct free clusters behind a cluster in use.                         *)
LEMMA BehindFacts ==
  ASSUME NEW v, NEW last \in Clusters, v.fat[last] # Free,
         NEW added \in Seq(Clusters), IsInjective(added),
         \A i \in 1 .. Len(added) : v.fat[added[i]] = Free
  PROVE  /\ FreshChain(<<last>> \o added)
         /\ (<<last>> \o added)[1] = last
         /\ Len(<<last>> \o added) = Len(added) + 1 /\ Len(added) \in Nat
         /\ \A i \in 2 .. Len(<<last>> \o added) :
              /\ i - 1 \in 1 .. Len(added)
              /\ (<<last>> \o added)[i] = added[i - 1]
              /\ v.fat[(<<last>> \o added)[i]] = Free
         /\ ToSet(<<last>> \o added) = {last} \cup ToSet(added)
<1> DEFINE cs == <<last>> \o added
           n == Len(added)
<1>1. n \in Nat /\ DOMAIN added = 1 .. n /\ \A i \in 1 .. n : added[i] \in Clusters
  BY LenProperties, ElementOfSeq
<1>2. <<last>> \in Seq(Clusters) /\ Len(<<last>>) = 1 /\ <<last>>[1] = last
  OBVIOUS
<1>3. /\ cs \in Seq(Clusters) /\ Len(cs) = n + 1
      /\ \A i \in 1 .. n + 1 : cs[i] = IF i <= 1 THEN <<last>>[i] ELSE added[i - 1]
  BY <1>1, <1>2, ConcatProperties
<1>4. cs[1] = last /\ \A i \in 2 .. n + 1 : i - 1 \in 1 .. n /\ cs[i] = added[i - 1]
  BY <1>1, <1>2, <1>3
<1> HIDE DEF cs, n
<1>5. DOMAIN cs = 1 .. n + 1 /\ cs # <<>>
  BY <1>1, <1>3, LenProperties
<1>6. \A i \in 2 .. n + 1 : v.fat[cs[i]] = Free /\ cs[i] # last
  BY <1>4 DEF n
<1>7. \A i, j \in 1 .. n + 1 : cs[i] = cs[j] => i = j
  <2>1. ASSUME NEW i \in 1 .. n + 1, NEW j \in 1 .. n + 1, cs[i] = cs[j] PROVE i = j
    <3>1. (i = 1 \/ i \in 2 .. n + 1) /\ (j = 1 \/ j \in 2 .. n + 1)
      BY <1>1
    <3>2. CASE i = 1 \/ j = 1
      BY <1>4, <1>6, <2>1, <3>1, <3>2
    <3>3. CASE i # 1 /\ j # 1
      <4>1. i - 1 \in 1 .. n /\ j - 1 \in 1 .. n /\ added[i - 1] = added[j - 1]
        BY <1>4, <2>1, <3>1, <3>3
      <4>2. i - 1 = j - 1
        BY <1>1, <4>1 DEF IsInjective
      <4>3. QED
        BY <1>1, <4>2
    <3>4. QED
      BY <3>2, <3>3
  <2>2. QED
    BY <2>1
<1>8. FreshChain(cs)
  BY <1>3, <1>5, <1>7 DEF FreshChain, IsInjective
<1>9. ToSet(cs) = {last} \cup ToSet(added)
  <2>1. ASSUME NEW i \in 1 .. n + 1 PROVE cs[i] \in {last} \cup ToSet(added)
    <3>1. i = 1 \/ i \in 2 .. n + 1
      BY <1>1
    <3>2. QED
      BY <1>1, <1>4, <3>1 DEF ToSet
  <2>2. ASSUME NEW i \in 1 .. n PROVE added[i] \in ToSet(cs)
    <3>1. i + 1 \in 2 .. n + 1 /\ i + 1 \in 1 .. n + 1 /\ (i + 1) - 1 = i
      BY <1>1
    <3>2. QED
      BY <1>4, <1>5, <3>1 DEF ToSet
  <2>3. last \in ToSet(cs)
    <3>1. 1 \in 1 .. n + 1
      BY <1>1
    <3>2. QED
      BY <1>4, <1>5, <3>1 DEF ToSet
  <2>4. QED
    BY <1>1, <1>5, <2>1, <2>2, <2>3 DEF ToSet
<1>10. QED
  BY <1>1, <1>3, <1>4, <1>6, <1>8, <1>9 DEF cs, n

(* The first so many of the free clusters.                                 *)
LEMMA SomeFree ==
  ASSUME NEW v, NEW k \in 0 .. Len(FreeClusters(v))
  PROVE  /\ SubSeq(FreeClusters(v), 1, k) \in Seq(Clusters)
         /\ IsInjective(SubSeq(FreeClusters(v), 1, k))
         /\ Len(SubSeq(FreeClusters(v), 1, k)) = k
         /\ \A i \in 1 .. k :
              /\ SubSeq(FreeClusters(v), 1, k)[i] = FreeClusters(v)[i]
              /\ SubSeq(FreeClusters(v), 1, k)[i] \in Clusters
              /\ v.fat[SubSeq(FreeClusters(v), 1, k)[i]] = Free
<1> DEFINE free == FreeClusters(v)
           s == SubSeq(free, 1, k)
<1>1. /\ free \in Seq(Clusters) /\ IsInjective(free) /\ Len(free) \in Nat /\ k \in Nat
      /\ \A i \in 1 .. Len(free) : free[i] \in Clusters /\ v.fat[free[i]] = Free
  BY FreeClustersFacts
<1>2. DOMAIN free = 1 .. Len(free) /\ \A i \in 1 .. k : i \in 1 .. Len(free)
  BY <1>1, LenProperties
<1> HIDE DEF free
<1>3. \A i \in 1 .. k : free[i] \in Clusters
  BY <1>1, <1>2
<1>4. /\ s \in Seq(Clusters) /\ Len(s) = IF 1 <= k THEN k - 1 + 1 ELSE 0
      /\ \A i \in 1 .. k - 1 + 1 : s[i] = free[1 + i - 1]
  BY <1>1, <1>3, SubSeqProperties
<1>5. s \in Seq(Clusters) /\ Len(s) = k /\ \A i \in 1 .. k : s[i] = free[i]
  BY <1>1, <1>4
<1>6. DOMAIN s = 1 .. k
  BY <1>5, LenProperties
<1> HIDE DEF s
<1>7. IsInjective(s)
  BY <1>1, <1>2, <1>5, <1>6 DEF IsInjective
<1>8. QED
  BY <1>1, <1>2, <1>5, <1>7 DEF s, free

(***************************************************************************)
(* What create_file_entry does: the first gap takes the entry; or the      *)
(* directory grows, by every free cluster in vain, or by as many as it     *)
(* takes to find a gap, which is in the last of them.                      *)
(***************************************************************************)
FirstGap(v, dir, k) ==
  /\ k \in DOMAIN Places(v, dir)
  /\ IsGap(SlotAt(v, Places(v, dir)[k]))
  /\ \A i \in 1 .. k - 1 : ~IsGap(SlotAt(v, Places(v, dir)[i]))

NoGap(v, dir) == \A i \in DOMAIN Places(v, dir) : ~IsGap(SlotAt(v, Places(v, dir)[i]))

GrownBy(v, dir, added) == Linked(v, <<Last(Chain(v.fat, dir))>> \o added)

IntoGap(v, dir, entry, w, ok) ==
  \E k \in DOMAIN Places(v, dir) :
    FirstGap(v, dir, k) /\ ok = TRUE /\ w = SetSlot(v, Places(v, dir)[k], entry)

GrownInVain(v, dir, w, ok) ==
  NoGap(v, dir) /\ ok = FALSE /\ w = GrownBy(v, dir, FreeClusters(v))

IntoNewGap(v, dir, entry, w, ok) ==
  /\ NoGap(v, dir) /\ ok = TRUE
  /\ \E e \in 1 .. Len(FreeClusters(v)) : \E s \in 1 .. SlotsPerCluster :
       LET c == FreeClusters(v)[e]
       IN  /\ IsGap(SlotAt(v, <<c, s>>))
           /\ \A t \in 1 .. s - 1 : ~IsGap(SlotAt(v, <<c, t>>))
           /\ \A i \in 1 .. e - 1 : \A t \in 1 .. SlotsPerCluster :
                ~IsGap(SlotAt(v, <<FreeClusters(v)[i], t>>))
           /\ w = SetSlot(GrownBy(v, dir, SubSeq(FreeClusters(v), 1, e)), <<c, s>>, entry)

LEMMA CreateCases ==
  ASSUME NEW v \in Volumes, NEW dir, NEW entry
  PROVE  LET made == CreateEntry(v, dir, entry)
         IN  \/ IntoGap(v, dir, entry, made.volume, made.ok)
             \/ GrownInVain(v, dir, made.volume, made.ok)
             \/ IntoNewGap(v, dir, entry, made.volume, made.ok)
<1> DEFINE places == Places(v, dir)
           chain == Chain(v.fat, dir)
           free == FreeClusters(v)
           G == {i \in DOMAIN places : IsGap(SlotAt(v, places[i]))}
           gap == FirstOf(G)
           Gaps(c) == {s \in 1 .. SlotsPerCluster : IsGap(v.clusters[c][s])}
           E == {i \in DOMAIN free : Gaps(free[i]) # {}}
           enough == FirstOf(E)
           added == IF enough = 0 THEN free ELSE SubSeq(free, 1, enough)
           grown == Linked(v, <<Last(chain)>> \o added)
           made == CreateEntry(v, dir, entry)
<1>1. made = IF gap # 0 THEN [ok |-> TRUE, volume |-> SetSlot(v, places[gap], entry)]
             ELSE IF enough = 0 THEN [ok |-> FALSE, volume |-> grown]
             ELSE [ok |-> TRUE,
                   volume |-> SetSlot(grown, <<free[enough], Min(Gaps(free[enough]))>>, entry)]
  BY DEF CreateEntry
<1>2. /\ DOMAIN places = 1 .. Len(places) /\ Len(places) \in Nat
      /\ G \subseteq DOMAIN places /\ G \subseteq Nat \ {0}
      /\ \A i \in DOMAIN places : i \in G <=> IsGap(SlotAt(v, places[i]))
  BY PlacesFacts
<1>3. DOMAIN free = 1 .. Len(free) /\ Len(free) \in Nat
  BY FreeClustersFacts, LenProperties
<1>4. /\ E \subseteq DOMAIN free /\ E \subseteq Nat \ {0}
      /\ \A i \in DOMAIN free : i \in E <=> Gaps(free[i]) # {}
  BY <1>3
<1>5. \A c : \A s \in 1 .. SlotsPerCluster : s \in Gaps(c) <=> IsGap(SlotAt(v, <<c, s>>))
  BY DEF SlotAt
<1>6. \A c : Gaps(c) \subseteq 1 .. SlotsPerCluster /\ Gaps(c) \subseteq Nat
  BY PerCluster
<1> HIDE DEF places, G, Gaps, E, free, made
<1>7. (G = {} <=> gap = 0) /\ (G # {} => gap \in G /\ \A m \in G : gap <= m)
  BY <1>2, FirstOfFacts
<1>8. (E = {} <=> enough = 0) /\ (E # {} => enough \in E /\ \A m \in E : enough <= m)
  BY <1>4, FirstOfFacts
<1> HIDE DEF gap, enough
<1>9. CASE gap # 0
  <2>1. gap \in G /\ gap \in DOMAIN places /\ IsGap(SlotAt(v, places[gap]))
    BY <1>2, <1>7, <1>9
  <2>2. ASSUME NEW i \in 1 .. gap - 1 PROVE ~IsGap(SlotAt(v, places[i]))
    <3>1. i \in DOMAIN places /\ i < gap /\ i \in Nat /\ gap \in Nat
      BY <1>2, <2>1
    <3>2. i \notin G
      BY <1>7, <1>9, <3>1
    <3>3. QED
      BY <1>2, <3>1, <3>2
  <2>3. FirstGap(v, dir, gap)
    BY <2>1, <2>2 DEF FirstGap, places
  <2>4. made.ok = TRUE /\ made.volume = SetSlot(v, places[gap], entry)
    BY <1>1, <1>9
  <2>5. IntoGap(v, dir, entry, made.volume, made.ok)
    BY <2>1, <2>3, <2>4 DEF IntoGap, places
  <2>6. QED
    BY <2>5 DEF made
<1>10. gap = 0 => NoGap(v, dir)
  BY <1>2, <1>7 DEF NoGap, places
<1>11. CASE gap = 0 /\ enough = 0
  <2>1. made.ok = FALSE /\ made.volume = GrownBy(v, dir, free)
    BY <1>1, <1>11 DEF GrownBy
  <2>2. GrownInVain(v, dir, made.volume, made.ok)
    BY <1>10, <1>11, <2>1 DEF GrownInVain, free
  <2>3. QED
    BY <2>2 DEF made
<1>12. CASE gap = 0 /\ enough # 0
  <2> DEFINE c == free[enough]
             s == Min(Gaps(c))
  <2>1. enough \in E /\ enough \in 1 .. Len(free) /\ Gaps(c) # {}
    BY <1>3, <1>4, <1>8, <1>12
  <2>2. s \in Gaps(c) /\ \A t \in Gaps(c) : s <= t
    <3> DEFINE T == Gaps(c)
    <3>1. T \subseteq Nat /\ T # {}
      BY <1>6, <2>1
    <3> HIDE DEF T
    <3>2. \E n \in T : \A m \in T : n <= m
      BY <3>1, LeastNumber
    <3>3. Min(T) \in T /\ \A m \in T : Min(T) <= m
      BY <3>2 DEF Min
    <3>4. QED
      BY <3>3 DEF T
  <2>3. /\ made.ok = TRUE
        /\ made.volume = SetSlot(GrownBy(v, dir, SubSeq(free, 1, enough)), <<c, s>>, entry)
    BY <1>1, <1>12 DEF GrownBy
  <2> HIDE DEF s
  <2>4. s \in 1 .. SlotsPerCluster /\ IsGap(SlotAt(v, <<c, s>>))
    BY <1>5, <1>6, <2>2
  <2>5. \A t \in 1 .. s - 1 : ~IsGap(SlotAt(v, <<c, t>>))
    <3>1. ASSUME NEW t \in 1 .. s - 1 PROVE ~IsGap(SlotAt(v, <<c, t>>))
      <4>1. t \in 1 .. SlotsPerCluster /\ ~(s <= t)
        BY <2>4, PerCluster
      <4>2. t \notin Gaps(c)
        BY <2>2, <4>1
      <4>3. QED
        BY <1>5, <4>1, <4>2
    <3>2. QED
      BY <3>1
  <2>6. \A i \in 1 .. enough - 1 : \A t \in 1 .. SlotsPerCluster : ~IsGap(SlotAt(v, <<free[i], t>>))
    <3>1. ASSUME NEW i \in 1 .. enough - 1, NEW t \in 1 .. SlotsPerCluster
          PROVE  ~IsGap(SlotAt(v, <<free[i], t>>))
      <4>1. i \in DOMAIN free /\ ~(enough <= i)
        BY <1>3, <2>1
      <4>2. i \notin E
        BY <1>8, <2>1, <4>1
      <4>3. t \notin Gaps(free[i])
        BY <1>4, <4>1, <4>2
      <4>4. QED
        BY <1>5, <4>3
    <3>2. QED
      BY <3>1
  <2>7. IntoNewGap(v, dir, entry, made.volume, made.ok)
    BY <1>10, <1>12, <2>1, <2>3, <2>4, <2>5, <2>6 DEF IntoNewGap, free
  <2>8. QED
    BY <2>7 DEF made
<1>13. QED
  BY <1>9, <1>11, <1>12

(* A directory that grows.                                                 *)
Growth(v, data, last, added, w) ==
  /\ VolumeSound(w, data \ ToSet(added))
  /\ HeadsStay(v, data, w, data \ ToSet(added))
  /\ w.clusters = v.clusters
  /\ \A c \in Clusters : c # last /\ c \notin ToSet(added) => w.fat[c] = v.fat[c]
  /\ \A c \in Clusters : v.fat[c] # Free => w.fat[c] # Free
  /\ \A c \in Clusters : v.fat[c] # Free /\ NoPred(v.fat, c) => NoPred(w.fat, c)

LEMMA GrownSound ==
  ASSUME NEW v, NEW data, VolumeSound(v, data), NEW dir, DirHead(v, data, dir),
         NEW added \in Seq(Clusters), IsInjective(added),
         \A i \in 1 .. Len(added) : v.fat[added[i]] = Free
  PROVE  Growth(v, data, Last(Chain(v.fat, dir)), added, GrownBy(v, dir, added))
<1> DEFINE last == Last(Chain(v.fat, dir))
           cs == <<last>> \o added
<1>1. last \in Clusters \ data /\ v.fat[last] = EndOfChain
  BY DirChain
<1>2. v.fat[last] # Free
  BY <1>1, Numbers
<1>3. /\ FreshChain(cs) /\ cs[1] = last /\ ToSet(cs) = {last} \cup ToSet(added)
      /\ \A i \in 2 .. Len(cs) : v.fat[cs[i]] = Free
  BY <1>1, <1>2, BehindFacts
<1>4. v \in Volumes /\ FatSound(v.fat)
  BY DEF VolumeSound
<1>5. GrownBy(v, dir, added) = Linked(v, cs)
  BY DEF GrownBy
<1> HIDE DEF cs, last
<1>6. v.fat[cs[1]] = IF cs[1] \in data THEN Free ELSE EndOfChain
  BY <1>1, <1>3
<1>7. SortOf(data, cs) = data \ ToSet(added)
  BY <1>1, <1>3 DEF SortOf
<1>8. /\ VolumeSound(Linked(v, cs), data \ ToSet(added))
      /\ HeadsStay(v, data, Linked(v, cs), data \ ToSet(added))
  BY <1>3, <1>6, <1>7, LinkSound
<1>9. /\ Linked(v, cs).clusters = v.clusters
      /\ \A c \in Clusters \ ToSet(cs) : Linked(v, cs).fat[c] = v.fat[c]
  BY <1>3, <1>4, LinkedFacts
<1>10. v.fat[cs[1]] \notin Clusters
  BY <1>1, <1>3, Numbers
<1>11. /\ \A c \in ToSet(cs) : Linked(v, cs).fat[c] # Free
       /\ \A h \in Clusters : NoPred(v.fat, h) /\ (h = cs[1] \/ v.fat[h] # Free)
            => NoPred(Linked(v, cs).fat, h)
  BY <1>3, <1>4, <1>10, LinkedSound
<1>12. \A c \in Clusters : v.fat[c] # Free => Linked(v, cs).fat[c] # Free
  BY <1>9, <1>11
<1>13. \A c \in Clusters : c # last /\ c \notin ToSet(added) => Linked(v, cs).fat[c] = v.fat[c]
  BY <1>3, <1>9
<1>14. \A c \in Clusters : v.fat[c] # Free /\ NoPred(v.fat, c) => NoPred(Linked(v, cs).fat, c)
  BY <1>11
<1>15. QED
  BY <1>5, <1>8, <1>9, <1>12, <1>13, <1>14 DEF last, Growth

(* An entry that starts what no other entry starts, or nothing.            *)
NewEntry(v, data, entry) ==
  /\ entry \in Entries /\ entry.name \in Names
  /\ EntryFits(v, data, entry)
  /\ \A q \in AllPlaces : NamedAt(v, q) /\ SlotAt(v, q).first = entry.first => entry.first = 0

(* It stays one while a directory grows.                                   *)
LEMMA NewEntryGrown ==
  ASSUME NEW v, NEW data, VolumeSound(v, data), NEW dir, DirHead(v, data, dir),
         NEW added \in Seq(Clusters), IsInjective(added),
         \A i \in 1 .. Len(added) : v.fat[added[i]] = Free,
         NEW entry, NewEntry(v, data, entry)
  PROVE  NewEntry(GrownBy(v, dir, added), data \ ToSet(added), entry)
<1> DEFINE w == GrownBy(v, dir, added)
<1>1. /\ w.clusters = v.clusters
      /\ \A c \in Clusters : v.fat[c] # Free => w.fat[c] # Free
      /\ \A c \in Clusters : v.fat[c] # Free /\ NoPred(v.fat, c) => NoPred(w.fat, c)
  <2>1. Growth(v, data, Last(Chain(v.fat, dir)), added, w)
    BY GrownSound
  <2>2. QED
    BY <2>1 DEF Growth
<1>2. \A c \in ToSet(added) : v.fat[c] = Free
  BY LenProperties DEF ToSet
<1> HIDE DEF w
<1>3. entry.first = 0 \/ entry.first \in Clusters
  BY SlotKinds DEF NewEntry
<1>4. EntryFits(w, data \ ToSet(added), entry)
  <2>1. CASE entry.first = 0
    BY <2>1 DEF EntryFits, NewEntry
  <2>2. CASE entry.first # 0
    <3>1. /\ entry.first \in Clusters /\ entry.first # RootCluster
          /\ v.fat[entry.first] # Free /\ NoPred(v.fat, entry.first)
          /\ entry.dir <=> entry.first \notin data
      BY <1>3, <2>2 DEF EntryFits, NewEntry
    <3>2. entry.first \notin ToSet(added)
      BY <1>2, <3>1
    <3>3. w.fat[entry.first] # Free /\ NoPred(w.fat, entry.first)
      BY <1>1, <3>1
    <3>4. entry.dir <=> entry.first \notin data \ ToSet(added)
      BY <3>1, <3>2
    <3>5. QED
      BY <2>2, <3>1, <3>3, <3>4 DEF EntryFits
  <2>3. QED
    BY <2>1, <2>2
<1>5. \A q : (NamedAt(w, q) <=> NamedAt(v, q)) /\ SlotAt(w, q) = SlotAt(v, q)
  BY <1>1 DEF NamedAt, EntryAt, SlotAt
<1>6. QED
  BY <1>4, <1>5 DEF NewEntry, w

(* A cluster of data at the end of its chain becomes a directory.          *)
BecomesDir(v, data, c, rows, w) ==
  /\ VolumeSound(w, data \ {c})
  /\ HeadsStay(v, data, w, data \ {c})
  /\ w.fat = v.fat
  /\ w.clusters[c] = rows
  /\ \A p \in AllPlaces : p[1] # c => SlotAt(w, p) = SlotAt(v, p)
  /\ \A s \in 1 .. SlotsPerCluster : rows[s].kind = "entry" => rows[s].name \notin Names

LEMMA NewDirSound ==
  ASSUME NEW v, NEW data, VolumeSound(v, data), NEW c \in data,
         v.fat[c] = EndOfChain, NoPred(v.fat, c),
         \A p \in AllPlaces : NamedAt(v, p) => SlotAt(v, p).first # c,
         NEW parent, DirHead(v, data, parent),
         NEW rows, rows = Row(<<Entry(".", TRUE, c), Entry("..", TRUE, parent)>>)
  PROVE  BecomesDir(v, data, c, rows, [v EXCEPT !.clusters[c] = rows])
<1> DEFINE w == [v EXCEPT !.clusters[c] = rows]
           dot == Entry(".", TRUE, c)
           dots == Entry("..", TRUE, parent)
           eata == data \ {c}
<1>1. /\ v \in Volumes /\ FatSound(v.fat) /\ DataApart(v, data) /\ EntriesFit(v, data)
      /\ FirstsDiffer(v) /\ DirHead(v, data, RootCluster) /\ c \in Clusters
  BY DEF VolumeSound, DataApart
<1>2. /\ dot \in Entries /\ dots \in Entries /\ dot.first = c /\ dots.first = parent
      /\ dot.name = "." /\ dots.name = ".."
  BY <1>1, Fat32Assumption DEF Entry, Entries, DirHead
<1>3. \A s \in 1 .. SlotsPerCluster : rows[s] = IF s = 1 THEN dot ELSE IF s = 2 THEN dots ELSE Never
  <2>1. DOMAIN <<dot, dots>> = {1, 2} /\ <<dot, dots>>[1] = dot /\ <<dot, dots>>[2] = dots
    OBVIOUS
  <2> HIDE DEF dot, dots
  <2>2. rows = Row(<<dot, dots>>)
    BY DEF dot, dots
  <2>3. \A s \in 1 .. SlotsPerCluster :
          rows[s] = IF s \in {1, 2} THEN <<dot, dots>>[s] ELSE Never
    BY <2>1, <2>2 DEF Row
  <2>4. QED
    BY <2>1, <2>3
<1>4. rows \in Rows
  <2>1. \A s \in 1 .. SlotsPerCluster : rows[s] \in Slot
    BY <1>2, <1>3, SlotKinds
  <2>2. rows = [s \in 1 .. SlotsPerCluster |-> rows[s]]
    BY DEF Row
  <2>3. QED
    BY <2>1, <2>2 DEF Rows
<1>5. /\ w \in Volumes /\ w.fat = v.fat
      /\ w.clusters[c] = rows /\ \A d \in Clusters : d # c => w.clusters[d] = v.clusters[d]
  BY <1>1, <1>4 DEF Volumes
<1> HIDE DEF w, dot, dots
<1>6. \A p \in AllPlaces : SlotAt(w, p) = IF p[1] = c THEN rows[p[2]] ELSE SlotAt(v, p)
  BY <1>5 DEF SlotAt, AllPlaces
<1>7. \A p \in AllPlaces : EntryAt(w, p) /\ p[1] = c =>
        /\ ~NamedAt(w, p)
        /\ SlotAt(w, p).first \in {c, parent}
  <2>1. ASSUME NEW p \in AllPlaces, EntryAt(w, p), p[1] = c
        PROVE  ~NamedAt(w, p) /\ SlotAt(w, p).first \in {c, parent}
    <3>1. p[2] \in 1 .. SlotsPerCluster /\ SlotAt(w, p) = rows[p[2]]
      BY <1>6, <2>1 DEF AllPlaces
    <3>2. rows[p[2]] = dot \/ rows[p[2]] = dots
      BY <1>3, <2>1, <3>1, SlotKinds DEF EntryAt
    <3>3. QED
      BY <1>2, <3>1, <3>2, Fat32Assumption DEF NamedAt
  <2>2. QED
    BY <2>1
<1>8. \A p \in AllPlaces : p[1] # c =>
        (EntryAt(w, p) <=> EntryAt(v, p)) /\ (NamedAt(w, p) <=> NamedAt(v, p))
  BY <1>6 DEF EntryAt, NamedAt
<1>9. \A h : DirHead(v, data, h) => DirHead(w, eata, h)
  BY <1>5 DEF DirHead
<1>10. DirHead(w, eata, c)
  BY <1>1, <1>5 DEF DirHead
<1>11. DataApart(w, eata)
  <2>1. eata \in SUBSET Clusters /\ \A p \in AllPlaces : p[1] \in eata => ~EntryAt(w, p)
    BY <1>1, <1>8 DEF DataApart
  <2>2. \A d \in Clusters : v.fat[d] = Free => d \in eata
    BY <1>1, Numbers DEF DataApart
  <2>3. \A d \in Clusters : v.fat[d] \in Clusters => (d \in eata <=> v.fat[d] \in eata)
    <3>1. \A d \in Clusters : v.fat[d] # c
      BY DEF NoPred
    <3>2. v.fat[c] \notin Clusters
      BY Numbers
    <3>3. QED
      BY <1>1, <3>1, <3>2 DEF DataApart
  <2>4. QED
    BY <1>5, <2>1, <2>2, <2>3 DEF DataApart
<1>12. EntriesFit(w, eata)
  <2>1. ASSUME NEW p \in AllPlaces, NamedAt(w, p) PROVE EntryFits(w, eata, SlotAt(w, p))
    <3>1. p[1] # c
      BY <1>7, <2>1 DEF NamedAt
    <3>2. NamedAt(v, p) /\ SlotAt(w, p) = SlotAt(v, p)
      BY <1>6, <1>8, <2>1, <3>1
    <3>3. EntryFits(v, data, SlotAt(v, p)) /\ SlotAt(v, p).first # c
      BY <1>1, <3>2 DEF EntriesFit
    <3>4. QED
      BY <1>5, <3>2, <3>3 DEF EntryFits
  <2>2. ASSUME NEW p \in AllPlaces, EntryAt(w, p), ~NamedAt(w, p)
        PROVE  DirHead(w, eata, SlotAt(w, p).first)
    <3>1. CASE p[1] = c
      BY <1>7, <1>9, <1>10, <2>2, <3>1
    <3>2. CASE p[1] # c
      <4>1. EntryAt(v, p) /\ ~NamedAt(v, p) /\ SlotAt(w, p) = SlotAt(v, p)
        BY <1>6, <1>8, <2>2, <3>2
      <4>2. QED
        BY <1>1, <1>9, <4>1 DEF EntriesFit
    <3>3. QED
      BY <3>1, <3>2
  <2>3. QED
    BY <2>1, <2>2 DEF EntriesFit
<1>13. FirstsDiffer(w)
  <2>1. \A p \in AllPlaces : NamedAt(w, p) => NamedAt(v, p) /\ SlotAt(w, p) = SlotAt(v, p)
    BY <1>6, <1>7, <1>8 DEF NamedAt
  <2>2. QED
    BY <1>1, <2>1 DEF FirstsDiffer
<1>14. VolumeSound(w, eata)
  BY <1>1, <1>5, <1>9, <1>11, <1>12, <1>13 DEF VolumeSound
<1>15. HeadsStay(v, data, w, eata)
  BY <1>9 DEF HeadsStay
<1>16. \A s \in 1 .. SlotsPerCluster : rows[s].kind = "entry" => rows[s].name \notin Names
  BY <1>2, <1>3, SlotKinds, Fat32Assumption
<1>17. QED
  BY <1>5, <1>6, <1>14, <1>15, <1>16 DEF w, BecomesDir

-----------------------------------------------------------------------------
(***************************************************************************)
(* The commands.                                                           *)
(***************************************************************************)
(* The clusters of a chain behind the first have one that leads to them.   *)
LEMMA ChainLeads ==
  ASSUME NEW fat \in Fats, NEW first, NEW c \in ToSet(Chain(fat, first)), c # first
  PROVE  ~NoPred(fat, c)
<1> DEFINE f == Followed(fat, first)
<1>1. PICK n \in 0 .. TotalClusters : ChainLen(fat, first, n)
  BY ChainFacts
<1>2. ToSet(Chain(fat, first)) = {f[i] : i \in 0 .. n - 1}
  BY <1>1, ChainType
<1>3. PICK k \in 0 .. n - 1 : c = f[k]
  BY <1>2
<1>4. k # 0
  BY <1>3, FollowedFacts
<1>5. k - 1 \in 0 .. n - 1 /\ k \in 1 .. TotalClusters
  BY <1>3, <1>4, Numbers
<1>6. f[k - 1] \in Clusters
  BY <1>1, <1>5 DEF ChainLen
<1>7. f[k] = fat[f[k - 1]]
  BY <1>5, <1>6, FollowedFacts
<1>8. QED
  BY <1>3, <1>6, <1>7 DEF NoPred

(* Volumes in which a directory has the same clusters and slots.           *)
LEMMA SamePlaces ==
  ASSUME NEW v, NEW w, NEW dir, Chain(w.fat, dir) = Chain(v.fat, dir)
  PROVE  Places(w, dir) = Places(v, dir)
BY DEF Places

LEMMA FreshSingle ==
  ASSUME NEW c \in Clusters
  PROVE  /\ FreshChain(<<c>>) /\ <<c>>[1] = c /\ Len(<<c>>) = 1 /\ ToSet(<<c>>) = {c}
<1>1. /\ <<c>> \in Seq(Clusters)
      /\ Len(<<c>>) = 1
      /\ <<c>>[1] = c
      /\ <<c>> # <<>>
      /\ DOMAIN <<c>> = {1}
  OBVIOUS
<1>2. QED
  BY <1>1 DEF FreshChain, IsInjective, ToSet

(* A free cluster is data, no link leads to it and no entry starts it.     *)
LEMMA FreeCluster ==
  ASSUME NEW v, NEW data, VolumeSound(v, data), NEW c \in Clusters, v.fat[c] = Free
  PROVE  /\ c \in data /\ c # RootCluster /\ c # 0 /\ NoPred(v.fat, c)
         /\ \A p \in AllPlaces : NamedAt(v, p) => SlotAt(v, p).first # c
<1>1. c \in data /\ c # RootCluster
  BY DEF VolumeSound, DataApart, DirHead
<1>2. NoPred(v.fat, c)
  BY DEF VolumeSound, FatSound, NoPred
<1>3. c # 0
  BY Numbers DEF Free
<1>4. ASSUME NEW p \in AllPlaces, NamedAt(v, p) PROVE SlotAt(v, p).first # c
  <2>1. EntryFits(v, data, SlotAt(v, p))
    BY <1>4 DEF VolumeSound, EntriesFit
  <2>2. QED
    BY <1>3, <2>1 DEF EntryFits
<1>5. QED
  BY <1>1, <1>2, <1>3, <1>4

(* The entry that find_entry finds.                                        *)
LEMMA FoundEntry ==
  ASSUME NEW v, NEW data, VolumeSound(v, data), NEW dir, DirHead(v, data, dir),
         NEW name, Found(v, dir, name)
  PROVE  /\ FindEntry(v, dir, name) \in AllPlaces
         /\ FindEntry(v, dir, name)[1] \in Clusters \ data
         /\ EntryOf(v, dir, name) = SlotAt(v, FindEntry(v, dir, name))
         /\ EntryAt(v, FindEntry(v, dir, name))
         /\ EntryOf(v, dir, name) \in Entries /\ EntryOf(v, dir, name).name = name
         /\ FindEntry(v, dir, name) # <<>>
<1>1. v \in Volumes
  BY DEF VolumeSound
<1>2. PICK k \in DOMAIN Places(v, dir) :
        IsFirst(v, dir, name, k) /\ FindEntry(v, dir, name) = Places(v, dir)[k]
  BY <1>1, FindFacts
<1> DEFINE p == Places(v, dir)[k]
<1>3. p \in AllPlaces /\ p[1] \in ToSet(Chain(v.fat, dir))
  BY <1>1, PlacesFacts
<1>4. p[1] \in Clusters \ data
  BY <1>3, DirChain
<1>5. EntryAt(v, p) /\ SlotAt(v, p).name = name
  BY <1>2 DEF IsFirst, Called, EntryAt
<1>6. SlotAt(v, p) \in Entries
  BY <1>1, <1>3, <1>5, EntryFirst
<1>7. EntryOf(v, dir, name) = SlotAt(v, p)
  BY <1>2 DEF EntryOf
<1>8. FindEntry(v, dir, name) # <<>>
  BY DEF Found
<1>9. QED
  BY <1>2, <1>3, <1>4, <1>5, <1>6, <1>7, <1>8

(***************************************************************************)
(* write_file over an old file: its clusters are data, none of them is the *)
(* directory's, so the slot is found again when they are free; and they    *)
(* are in no other chain, so no entry starts at a free cluster.            *)
(***************************************************************************)
LEMMA FreedSamePlaces ==
  ASSUME NEW v, NEW data, VolumeSound(v, data), NEW dir, DirHead(v, data, dir),
         NEW first, first = 0 \/ first \in data
  PROVE  /\ FreeChain(v, first) \in Volumes
         /\ FreeChain(v, first).clusters = v.clusters
         /\ \A c \in Clusters \ data : FreeChain(v, first).fat[c] = v.fat[c]
         /\ Chain(FreeChain(v, first).fat, dir) = Chain(v.fat, dir)
<1>1. v \in Volumes /\ v.fat \in Fats
  BY DEF VolumeSound, Volumes
<1>2. /\ FreeChain(v, first) \in Volumes
      /\ FreeChain(v, first).clusters = v.clusters
      /\ \A c \in Clusters :
           FreeChain(v, first).fat[c] =
             IF c \in ToSet(Chain(v.fat, first)) THEN Free ELSE v.fat[c]
  BY <1>1, FreeChainFacts
<1>3. ToSet(Chain(v.fat, first)) \subseteq data
  <2>1. CASE first = 0
    BY <1>1, <2>1, ChainEmpty, Numbers DEF Free
  <2>2. CASE first \in data
    BY <2>2, FileChain
  <2>3. QED
    BY <2>1, <2>2
<1>4. \A c \in Clusters \ data : FreeChain(v, first).fat[c] = v.fat[c]
  BY <1>2, <1>3
<1>5. FreeChain(v, first).fat \in Fats
  BY <1>2 DEF Volumes
<1>6. Chain(FreeChain(v, first).fat, dir) = Chain(v.fat, dir)
  BY <1>4, <1>5, DirChainSame
<1>7. QED
  BY <1>2, <1>4, <1>6

LEMMA SameFind ==
  ASSUME NEW v, NEW w, NEW dir, NEW name,
         Chain(w.fat, dir) = Chain(v.fat, dir), w.clusters = v.clusters
  PROVE  /\ FindEntry(w, dir, name) = FindEntry(v, dir, name)
         /\ Found(w, dir, name) <=> Found(v, dir, name)
<1>1. Places(w, dir) = Places(v, dir)
  BY SamePlaces
<1>2. FindEntry(w, dir, name) = FindEntry(v, dir, name)
  BY <1>1 DEF FindEntry, SlotAt
<1>3. QED
  BY <1>2 DEF Found

LEMMA WithoutOldSound ==
  ASSUME NEW v, NEW data, VolumeSound(v, data), DirHead(v, data, cwd), NEW name \in Names,
         Found(v, cwd, name) => ~EntryOf(v, cwd, name).dir
  PROVE  /\ VolumeSound(WithoutOld(v, name), data)
         /\ HeadsStay(v, data, WithoutOld(v, name), data)
<1>1. CASE ~Found(v, cwd, name)
  BY <1>1 DEF WithoutOld, HeadsStay
<1>2. CASE Found(v, cwd, name)
  <2> DEFINE p == FindEntry(v, cwd, name)
             e == EntryOf(v, cwd, name)
             C == ToSet(Chain(v.fat, e.first))
             u == FreeChain(v, e.first)
             w == SetSlot(u, p, Deleted)
  <2>1. /\ p \in AllPlaces /\ p[1] \in Clusters \ data /\ EntryAt(v, p) /\ NamedAt(v, p)
        /\ e = SlotAt(v, p) /\ e \in Entries /\ ~e.dir
    BY <1>2, FoundEntry DEF NamedAt
  <2>2. EntryFits(v, data, e)
    BY <2>1 DEF VolumeSound, EntriesFit
  <2>3. e.first = 0 \/ e.first \in data
    BY <2>1, <2>2, SlotKinds DEF EntryFits
  <2> HIDE DEF p, e
  <2>4. /\ u \in Volumes /\ u.clusters = v.clusters /\ Chain(u.fat, cwd) = Chain(v.fat, cwd)
        /\ \A c \in Clusters \ data : u.fat[c] = v.fat[c]
    BY <2>3, FreedSamePlaces
  <2>5. v \in Volumes /\ v.fat \in Fats /\ FatSound(v.fat) /\ data \subseteq Clusters
    BY DEF VolumeSound, Volumes, DataApart
  <2>6. \A c \in Clusters : u.fat[c] = IF c \in C THEN Free ELSE v.fat[c]
    BY <2>5, FreeChainFacts
  <2>7. C \subseteq data
    <3>1. CASE e.first = 0
      BY <2>5, <3>1, ChainEmpty, Numbers DEF Free
    <3>2. CASE e.first \in data
      BY <3>2, FileChain
    <3>3. QED
      BY <2>3, <3>1, <3>2
  <2>8. FatSound(u.fat) /\ \A h \in Clusters : NoPred(v.fat, h) => NoPred(u.fat, h)
    <3>1. CASE e.first = 0
      <4>1. C = {}
        BY <2>5, <3>1, ChainEmpty, Numbers DEF Free
      <4>2. u.fat \in Fats /\ \A c \in Clusters : u.fat[c] = v.fat[c]
        BY <2>4, <2>6, <4>1 DEF Volumes
      <4>3. u.fat = v.fat
        BY <2>5, <4>2 DEF Fats
      <4>4. QED
        BY <2>5, <4>3
    <3>2. CASE e.first # 0
      <4>1. NoPred(v.fat, e.first)
        BY <2>2, <3>2 DEF EntryFits
      <4>2. QED
        BY <2>5, <4>1, FreedSound
    <3>3. QED
      BY <3>1, <3>2
  <2>9. \A h \in Clusters : NoPred(v.fat, h) /\ h # e.first => h \notin C
    BY <2>5, ChainLeads
  <2> HIDE DEF u, C
  <2>10. WithoutOld(v, name) = w
    <3>1. WithoutOld(v, name) = MarkDeleted(u, cwd, name)
      BY <1>2 DEF WithoutOld, u, e
    <3>2. FindEntry(u, cwd, name) = p /\ Found(u, cwd, name)
      BY <1>2, <2>4, SameFind DEF p
    <3>3. QED
      BY <3>1, <3>2 DEF MarkDeleted
  <2>11. /\ w \in Volumes /\ w.fat = u.fat /\ SlotAt(w, p) = Deleted
         /\ \A q \in AllPlaces : q # p => SlotAt(w, q) = SlotAt(v, q)
    <3>1. \A q : SlotAt(u, q) = SlotAt(v, q)
      BY <2>4 DEF SlotAt
    <3>2. QED
      BY <2>1, <2>4, <3>1, SetSlotFacts, SlotKinds
  <2> HIDE DEF w
  <2>12. ~EntryAt(w, p) /\ \A q \in AllPlaces : q # p => (EntryAt(w, q) <=> EntryAt(v, q))
                                                      /\ (NamedAt(w, q) <=> NamedAt(v, q))
    BY <2>11, SlotKinds DEF EntryAt, NamedAt
  <2>13. \A h : DirHead(v, data, h) => DirHead(w, data, h)
    BY <2>8, <2>11 DEF DirHead
  <2>14. DataApart(w, data)
    <3>1. \A q \in AllPlaces : q[1] \in data => ~EntryAt(w, q)
      BY <2>12 DEF VolumeSound, DataApart
    <3>2. \A c \in Clusters : u.fat[c] = Free => c \in data
      BY <2>6, <2>7 DEF VolumeSound, DataApart
    <3>3. \A c \in Clusters : u.fat[c] \in Clusters => (c \in data <=> u.fat[c] \in data)
      BY <2>6, Numbers DEF VolumeSound, DataApart
    <3>4. QED
      BY <2>5, <2>11, <3>1, <3>2, <3>3 DEF DataApart
  <2>15. ASSUME NEW q \in AllPlaces, NamedAt(w, q) PROVE EntryFits(w, data, SlotAt(w, q))
    <3>1. q # p /\ NamedAt(v, q) /\ SlotAt(w, q) = SlotAt(v, q)
      BY <2>11, <2>12, <2>15 DEF NamedAt
    <3> DEFINE f == SlotAt(v, q)
    <3>2. EntryFits(v, data, f)
      BY <3>1 DEF VolumeSound, EntriesFit
    <3>3. f.first # 0 => f.first # e.first
      BY <2>1, <3>1 DEF VolumeSound, FirstsDiffer
    <3>4. f.first = 0 \/ f.first \in Clusters
      BY <2>5, <3>1, EntryFirst DEF NamedAt
    <3> HIDE DEF f
    <3>5. CASE f.first = 0
      BY <3>1, <3>2, <3>5 DEF EntryFits, f
    <3>6. CASE f.first # 0
      <4>1. /\ f.first \in Clusters /\ f.first # RootCluster /\ v.fat[f.first] # Free
            /\ NoPred(v.fat, f.first) /\ (f.dir <=> f.first \notin data)
        BY <3>2, <3>4, <3>6 DEF EntryFits
      <4>2. f.first \notin C
        BY <2>9, <3>3, <3>6, <4>1
      <4>3. w.fat[f.first] # Free /\ NoPred(w.fat, f.first)
        BY <2>6, <2>8, <2>11, <4>1, <4>2
      <4>4. QED
        BY <3>1, <3>6, <4>1, <4>3 DEF EntryFits, f
    <3>7. QED
      BY <3>5, <3>6
  <2>16. EntriesFit(w, data)
    <3>1. ASSUME NEW q \in AllPlaces, EntryAt(w, q), ~NamedAt(w, q)
          PROVE  DirHead(w, data, SlotAt(w, q).first)
      <4>1. EntryAt(v, q) /\ ~NamedAt(v, q) /\ SlotAt(w, q) = SlotAt(v, q)
        BY <2>11, <2>12, <3>1
      <4>2. QED
        BY <2>13, <4>1 DEF VolumeSound, EntriesFit
    <3>2. QED
      BY <2>15, <3>1 DEF EntriesFit
  <2>17. FirstsDiffer(w)
    <3>1. \A q \in AllPlaces : NamedAt(w, q) => NamedAt(v, q) /\ SlotAt(w, q) = SlotAt(v, q)
      BY <2>11, <2>12 DEF NamedAt
    <3>2. QED
      BY <3>1 DEF VolumeSound, FirstsDiffer
  <2>18. VolumeSound(w, data)
    <3>1. DirHead(w, data, RootCluster)
      BY <2>13 DEF VolumeSound
    <3>2. QED
      BY <2>8, <2>11, <2>14, <2>16, <2>17, <3>1 DEF VolumeSound
  <2>19. QED
    BY <2>10, <2>13, <2>18 DEF HeadsStay
<1>3. QED
  BY <1>1, <1>2

(* What the text overwrites.                                               *)
LEMMA StoredFacts ==
  ASSUME NEW v \in Volumes, NEW cs \in Seq(Clusters), NEW text \in Texts
  PROVE  /\ Stored(v, cs, text) \in Volumes
         /\ Stored(v, cs, text).fat = v.fat
         /\ \A c \in Clusters \ ToSet(cs) : Stored(v, cs, text).clusters[c] = v.clusters[c]
         /\ \A p \in AllPlaces : p[1] \in ToSet(cs) => ~EntryAt(Stored(v, cs, text), p)
         /\ \A c \in Clusters \cap ToSet(cs) : Stored(v, cs, text).clusters[c][1] = Text(text)
<1> DEFINE full == [s \in 1 .. SlotsPerCluster |-> Text(text)]
           row == Row(<<Text(text)>>)
           rows == [c \in Clusters |-> IF c \in ToSet(cs)
                                       THEN IF c = Last(cs) THEN row ELSE full
                                       ELSE v.clusters[c]]
           w == Stored(v, cs, text)
<1>1. w = [v EXCEPT !.clusters = rows]
  BY DEF Stored
<1>2. Text(text) \in Slot /\ Text(text).kind # "entry" /\ Never \in Slot /\ Never.kind # "entry"
  BY SlotKinds
<1>3. 1 \in 1 .. SlotsPerCluster
  BY PerCluster
<1>4. full \in Rows /\ \A s \in 1 .. SlotsPerCluster : full[s].kind # "entry"
  BY <1>2 DEF Rows
<1>5. full[1] = Text(text)
  BY <1>3
<1>6. row \in Rows /\ row[1] = Text(text) /\ \A s \in 1 .. SlotsPerCluster : row[s].kind # "entry"
  <2>1. DOMAIN <<Text(text)>> = {1} /\ <<Text(text)>>[1] = Text(text)
    OBVIOUS
  <2>2. row = [s \in 1 .. SlotsPerCluster |-> IF s \in {1} THEN <<Text(text)>>[s] ELSE Never]
    BY <2>1 DEF Row
  <2>3. \A s \in 1 .. SlotsPerCluster : row[s] = IF s = 1 THEN Text(text) ELSE Never
    BY <2>1, <2>2
  <2>4. \A s \in 1 .. SlotsPerCluster : row[s] \in Slot /\ row[s].kind # "entry"
    BY <1>2, <2>3
  <2>5. row \in Rows
    <3> HIDE DEF row
    <3>1. row \in [1 .. SlotsPerCluster -> Slot]
      BY <2>2, <2>4
    <3>2. QED
      BY <3>1 DEF Rows
  <2>6. QED
    BY <1>3, <2>3, <2>4, <2>5
<1>7. v.clusters \in [Clusters -> Rows] /\ v.fat \in Fats
  BY DEF Volumes
<1> HIDE DEF full, row
<1>8. rows \in [Clusters -> Rows]
  BY <1>4, <1>6, <1>7
<1>9. \A c \in Clusters : rows[c] = IF c \in ToSet(cs) THEN IF c = Last(cs) THEN row ELSE full
                                    ELSE v.clusters[c]
  OBVIOUS
<1> HIDE DEF rows
<1>10. w \in Volumes /\ w.fat = v.fat /\ w.clusters = rows
  BY <1>1, <1>8 DEF Volumes
<1> HIDE DEF w
<1>11. \A c \in Clusters \ ToSet(cs) : w.clusters[c] = v.clusters[c]
  BY <1>9, <1>10
<1>12. \A c \in Clusters \cap ToSet(cs) :
         /\ w.clusters[c][1] = Text(text)
         /\ \A s \in 1 .. SlotsPerCluster : w.clusters[c][s].kind # "entry"
  BY <1>4, <1>5, <1>6, <1>9, <1>10
<1>13. \A p \in AllPlaces : p[1] \in ToSet(cs) => ~EntryAt(w, p)
  BY <1>12 DEF EntryAt, SlotAt, AllPlaces
<1>14. QED
  BY <1>10, <1>11, <1>12, <1>13 DEF w

(* Linking and writing no clusters changes nothing.                        *)
LEMMA NothingStored ==
  ASSUME NEW v \in Volumes, NEW text
  PROVE  Stored(Linked(v, <<>>), <<>>, text) = v
<1>1. ToSet(<<>>) = {}
  BY DEF ToSet
<1>2. /\ v = [fat |-> v.fat, clusters |-> v.clusters]
      /\ v.fat = [c \in Clusters |-> v.fat[c]]
      /\ v.clusters = [c \in Clusters |-> v.clusters[c]]
  BY DEF Volumes, Fats
<1>3. [v EXCEPT !.fat = v.fat] = v /\ [v EXCEPT !.clusters = v.clusters] = v
  BY <1>2
<1>4. Linked(v, <<>>) = v
  <2> DEFINE Next(c) == LET i == CHOOSE j \in DOMAIN <<>> : <<>>[j] = c
                        IN  IF i < Len(<<>>) THEN <<>>[i + 1] ELSE EndOfChain
  <2>1. Linked(v, <<>>) =
          [v EXCEPT !.fat = [c \in Clusters |->
             IF c \notin ToSet(<<>>) THEN v.fat[c] ELSE Next(c)]]
    BY DEF Linked
  <2> HIDE DEF Next
  <2>2. [c \in Clusters |-> IF c \notin ToSet(<<>>) THEN v.fat[c] ELSE Next(c)]
          = [c \in Clusters |-> v.fat[c]]
    BY <1>1, Zenon
  <2>3. QED
    BY <1>2, <1>3, <2>1, <2>2
<1>5. Stored(v, <<>>, text) = v
  <2> DEFINE New(c) == IF c = Last(<<>>) THEN Row(<<Text(text)>>)
                       ELSE [s \in 1 .. SlotsPerCluster |-> Text(text)]
  <2>1. Stored(v, <<>>, text) =
          [v EXCEPT !.clusters = [c \in Clusters |->
             IF c \in ToSet(<<>>) THEN New(c) ELSE v.clusters[c]]]
    BY DEF Stored
  <2> HIDE DEF New
  <2>2. [c \in Clusters |-> IF c \in ToSet(<<>>) THEN New(c) ELSE v.clusters[c]]
          = [c \in Clusters |-> v.clusters[c]]
    BY <1>1, Zenon
  <2>3. QED
    BY <1>2, <1>3, <2>1, <2>2
<1>6. QED
  BY <1>4, <1>5

(* The clusters of a text, taken, linked and written: a file that no entry *)
(* starts yet.                                                             *)
LEMMA StoreSound ==
  ASSUME NEW v, NEW data, VolumeSound(v, data), NEW cs \in Seq(Clusters), IsInjective(cs),
         \A i \in 1 .. Len(cs) : v.fat[cs[i]] = Free, NEW text \in Texts
  PROVE  /\ VolumeSound(Stored(Linked(v, cs), cs, text), data)
         /\ HeadsStay(v, data, Stored(Linked(v, cs), cs, text), data)
         /\ cs # <<>> =>
              /\ cs[1] \in data \ {RootCluster}
              /\ Stored(Linked(v, cs), cs, text).fat[cs[1]] # Free
              /\ NoPred(Stored(Linked(v, cs), cs, text).fat, cs[1])
              /\ \A p \in AllPlaces : NamedAt(Stored(Linked(v, cs), cs, text), p)
                   => SlotAt(Stored(Linked(v, cs), cs, text), p).first # cs[1]
<1>1. v \in Volumes /\ FatSound(v.fat) /\ data \subseteq Clusters
  BY DEF VolumeSound, DataApart
<1>2. CASE cs = <<>>
  BY <1>1, <1>2, NothingStored DEF HeadsStay
<1>3. CASE cs # <<>>
  <2> DEFINE u == Linked(v, cs)
             w == Stored(u, cs, text)
  <2>1. FreshChain(cs) /\ 1 \in 1 .. Len(cs) /\ \A i \in 1 .. Len(cs) : cs[i] \in Clusters
    <3>1. FreshChain(cs)
      BY <1>3 DEF FreshChain
    <3>2. QED
      BY <1>1, <3>1, LinkedFacts
  <2>2. \A i \in 1 .. Len(cs) : cs[i] \in data
    BY <2>1, FreeCluster
  <2>3. /\ cs[1] \in Clusters /\ v.fat[cs[1]] = Free /\ cs[1] \in data /\ cs[1] # RootCluster
        /\ NoPred(v.fat, cs[1]) /\ \A p \in AllPlaces : NamedAt(v, p) => SlotAt(v, p).first # cs[1]
    BY <2>1, FreeCluster
  <2>4. ToSet(cs) \subseteq data
    BY <2>1, <2>2, LenProperties DEF ToSet
  <2>5. \A i \in 2 .. Len(cs) : v.fat[cs[i]] = Free
    <3>1. \A i \in 2 .. Len(cs) : i \in 1 .. Len(cs)
      BY LenProperties
    <3>2. QED
      BY <3>1
  <2>6. VolumeSound(u, data) /\ HeadsStay(v, data, u, data)
    <3>1. SortOf(data, cs) = data
      BY <2>3 DEF SortOf
    <3>2. v.fat[cs[1]] = IF cs[1] \in data THEN Free ELSE EndOfChain
      BY <2>3
    <3>3. VolumeSound(u, SortOf(data, cs)) /\ HeadsStay(v, data, u, SortOf(data, cs))
      BY <2>1, <2>5, <3>2, LinkSound
    <3>4. QED
      BY <3>1, <3>3
  <2>7. u.clusters = v.clusters /\ u.fat[cs[1]] # Free /\ NoPred(u.fat, cs[1])
    <3>1. v.fat[cs[1]] \notin Clusters
      BY <2>3, Numbers
    <3>2. cs[1] \in ToSet(cs) /\ u.clusters = v.clusters
      BY <1>1, <2>1, LinkedFacts
    <3>3. QED
      BY <1>1, <2>1, <2>3, <2>5, <3>1, <3>2, LinkedSound
  <2>8. u \in Volumes
    BY <2>6 DEF VolumeSound
  <2> HIDE DEF u
  <2>9. /\ w \in Volumes /\ w.fat = u.fat
        /\ \A c \in Clusters \ ToSet(cs) : w.clusters[c] = u.clusters[c]
        /\ \A p \in AllPlaces : p[1] \in ToSet(cs) => ~EntryAt(w, p)
    BY <2>8, StoredFacts
  <2> HIDE DEF w
  <2>10. \A p \in AllPlaces : p[1] \notin ToSet(cs) => SlotAt(w, p) = SlotAt(u, p)
    BY <2>9 DEF SlotAt, AllPlaces
  <2>11. VolumeSound(w, data) /\ HeadsStay(u, data, w, data)
    <3>1. \A p \in AllPlaces : p[1] \notin data => SlotAt(w, p) = SlotAt(u, p)
      BY <2>4, <2>10
    <3>2. \A p \in AllPlaces : p[1] \in data => ~EntryAt(w, p)
      <4>1. \A p \in AllPlaces : p[1] \in data => ~EntryAt(u, p)
        BY <2>6 DEF VolumeSound, DataApart
      <4>2. QED
        BY <2>9, <2>10, <4>1 DEF EntryAt
    <3>3. QED
      BY <2>6, <2>9, <3>1, <3>2, DataRowsSound
  <2>12. HeadsStay(v, data, w, data)
    BY <2>6, <2>11 DEF HeadsStay
  <2>13. ASSUME NEW p \in AllPlaces, NamedAt(w, p) PROVE SlotAt(w, p).first # cs[1]
    <3>1. p[1] \notin ToSet(cs)
      BY <2>9, <2>13 DEF NamedAt
    <3>2. SlotAt(w, p) = SlotAt(v, p)
      BY <2>7, <2>10, <3>1 DEF SlotAt
    <3>3. NamedAt(v, p)
      BY <2>13, <3>2 DEF NamedAt, EntryAt
    <3>4. QED
      BY <2>3, <3>2, <3>3
  <2>14. w.fat[cs[1]] # Free /\ NoPred(w.fat, cs[1])
    BY <2>7, <2>9
  <2>15. QED
    BY <2>3, <2>11, <2>12, <2>13, <2>14 DEF w, u
<1>4. QED
  BY <1>2, <1>3

(***************************************************************************)
(* What other files and directories keep.  The links of a chain that ends  *)
(* stay in the chain: two FATs that agree on it have the same chain there. *)
(***************************************************************************)
LEMMA ChainClosed ==
  ASSUME NEW fat \in Fats, FatSound(fat), NEW first \in Clusters, fat[first] # Free
  PROVE  /\ first \in ToSet(Chain(fat, first))
         /\ \A c \in ToSet(Chain(fat, first)) :
              fat[c] = EndOfChain \/ fat[c] \in ToSet(Chain(fat, first))
<1> DEFINE f == Followed(fat, first)
           C == ToSet(Chain(fat, first))
<1>1. PICK n \in 0 .. TotalClusters : ChainLen(fat, first, n)
  BY ChainFacts
<1>2. /\ Chain(fat, first) \in Seq(Clusters)
      /\ Len(Chain(fat, first)) = n
      /\ C = {f[i] : i \in 0 .. n - 1}
  BY <1>1, ChainType
<1>3. n \in 1 .. TotalClusters /\ fat[Last(Chain(fat, first))] = EndOfChain
  BY <1>2, ChainSound
<1>4. Last(Chain(fat, first)) = f[n - 1]
  <2>1. Chain(fat, first) = [i \in 1 .. n |-> f[i - 1]]
    BY <1>1 DEF ChainLen
  <2>2. Chain(fat, first)[n] = f[n - 1]
    BY <1>3, <2>1
  <2>3. QED
    BY <1>2, <2>2 DEF Last
<1>5. f[0] = first
  BY FollowedFacts
<1> HIDE DEF C
<1>6. first \in C
  <2>1. 0 \in 0 .. n - 1
    BY <1>3
  <2>2. QED
    BY <1>2, <1>5, <2>1
<1>7. ASSUME NEW i \in 0 .. n - 1 PROVE fat[f[i]] = EndOfChain \/ fat[f[i]] \in C
  <2>1. CASE i = n - 1
    BY <1>3, <1>4, <2>1
  <2>2. CASE i # n - 1
    <3>1. i + 1 \in 0 .. n - 1 /\ i + 1 \in 1 .. TotalClusters /\ (i + 1) - 1 = i
      BY <1>3, <2>2, Numbers
    <3>2. f[i] \in Clusters
      BY <1>1 DEF ChainLen
    <3>3. f[i + 1] = fat[f[i]]
      BY <3>1, <3>2, FollowedFacts
    <3>4. QED
      BY <1>2, <3>1, <3>3
  <2>3. QED
    BY <2>1, <2>2
<1>8. QED
  BY <1>2, <1>6, <1>7 DEF C

LEMMA ChainSame ==
  ASSUME NEW fat \in Fats, FatSound(fat), NEW first \in Clusters, fat[first] # Free,
         NEW gat \in Fats, \A c \in ToSet(Chain(fat, first)) : gat[c] = fat[c]
  PROVE  Chain(gat, first) = Chain(fat, first)
<1> DEFINE C == ToSet(Chain(fat, first))
           S == C \cup {EndOfChain}
<1>1. first \in C /\ \A c \in C : fat[c] = EndOfChain \/ fat[c] \in C
  BY ChainClosed
<1>2. \A c \in C : gat[c] = fat[c]
  OBVIOUS
<1> HIDE DEF C
<1>3. first \in S /\ EndOfChain \in S
  BY <1>1
<1>4. \A c \in S \cap Clusters : fat[c] \in S /\ gat[c] = fat[c]
  BY <1>1, <1>2, Numbers
<1> HIDE DEF S
<1>5. QED
  BY <1>3, <1>4, FollowedSame

(* A chain that grows at its end.                                          *)
LEMMA ChainPrefix ==
  ASSUME NEW fat \in Fats, FatSound(fat), NEW first \in Clusters, fat[first] # Free,
         NEW gat \in Fats,
         \A c \in ToSet(Chain(fat, first)) : c # Last(Chain(fat, first)) => gat[c] = fat[c]
  PROVE  /\ Len(Chain(fat, first)) \in Nat /\ Len(Chain(gat, first)) \in Nat
         /\ Len(Chain(fat, first)) <= Len(Chain(gat, first))
         /\ \A i \in 1 .. Len(Chain(fat, first)) : Chain(gat, first)[i] = Chain(fat, first)[i]
<1> DEFINE f == Followed(fat, first)
           g == Followed(gat, first)
           C == ToSet(Chain(fat, first))
<1>1. PICK n \in 0 .. TotalClusters : ChainLen(fat, first, n)
  BY ChainFacts
<1>2. PICK m \in 0 .. TotalClusters : ChainLen(gat, first, m)
  BY ChainFacts
<1>3. /\ Chain(fat, first) \in Seq(Clusters)
      /\ Len(Chain(fat, first)) = n
      /\ C = {f[i] : i \in 0 .. n - 1}
  BY <1>1, ChainType
<1>4. Len(Chain(gat, first)) = m
  BY <1>2, ChainType
<1>5. /\ Chain(fat, first) = [i \in 1 .. n |-> f[i - 1]]
      /\ Chain(gat, first) = [i \in 1 .. m |-> g[i - 1]]
      /\ \A i \in 0 .. n - 1 : f[i] \in Clusters
      /\ \A i \in m .. TotalClusters - 1 : g[i] \notin Clusters
  BY <1>1, <1>2 DEF ChainLen
<1>6. n \in 1 .. TotalClusters /\ IsInjective(Chain(fat, first))
  BY <1>3, ChainSound
<1>7. \A i \in 0 .. n - 1 : i # n - 1 => f[i] # Last(Chain(fat, first))
  <2> DEFINE ch == Chain(fat, first)
  <2>1. Last(ch) = ch[n] /\ DOMAIN ch = 1 .. n
    BY <1>3, <1>5 DEF Last
  <2>2. ASSUME NEW i \in 0 .. n - 1, i # n - 1 PROVE f[i] # ch[n]
    <3>1. i + 1 \in 1 .. n /\ n \in 1 .. n /\ i + 1 # n /\ (i + 1) - 1 = i
      BY <1>6, <2>2
    <3>2. ch[i + 1] = f[i]
      BY <1>5, <3>1
    <3> HIDE DEF ch
    <3>3. ch[i + 1] # ch[n]
      BY <1>6, <2>1, <3>1 DEF IsInjective, ch
    <3>4. QED
      BY <3>2, <3>3
  <2>3. QED
    BY <2>1, <2>2
<1> DEFINE Good == {i \in Nat : i <= n - 1 => g[i] = f[i]}
<1>8. 0 \in Good
  BY FollowedFacts
<1>9. ASSUME NEW i \in Nat, i \in Good PROVE i + 1 \in Good
  <2>1. SUFFICES ASSUME i + 1 <= n - 1 PROVE g[i + 1] = f[i + 1]
    OBVIOUS
  <2>2. /\ i \in 0 .. n - 1 /\ i # n - 1 /\ i + 1 \in 1 .. TotalClusters /\ (i + 1) - 1 = i
        /\ i <= n - 1
    BY <1>6, <2>1, Numbers
  <2>3. g[i] = f[i]
    BY <1>9, <2>2
  <2>4. f[i] \in Clusters /\ f[i] \in C /\ f[i] # Last(Chain(fat, first))
    BY <1>3, <1>5, <1>7, <2>2
  <2>5. gat[f[i]] = fat[f[i]]
    BY <2>4
  <2>6. f[i + 1] = fat[f[i]] /\ g[i + 1] = gat[g[i]]
    BY <2>2, <2>3, <2>4, FollowedFacts
  <2>7. QED
    BY <2>3, <2>5, <2>6
<1>10. \A i \in 0 .. n - 1 : g[i] = f[i]
  <2>1. Nat \subseteq Good
    <3> HIDE DEF Good
    <3>1. QED
      BY <1>8, <1>9, Induction
  <2>2. \A i \in 0 .. n - 1 : i \in Nat /\ i <= n - 1
    BY <1>6
  <2>3. QED
    BY <2>1, <2>2
<1> HIDE DEF f, g
<1>11. n <= m
  <2>1. SUFFICES ASSUME m <= n - 1 PROVE FALSE
    BY <1>6
  <2>2. n - 1 \in 0 .. n - 1 /\ n - 1 \in m .. TotalClusters - 1
    BY <1>6, <2>1, Numbers
  <2>3. QED
    BY <1>5, <1>10, <2>2
<1>12. ASSUME NEW i \in 1 .. n PROVE Chain(gat, first)[i] = Chain(fat, first)[i]
  <2>1. i \in 1 .. m /\ i - 1 \in 0 .. n - 1
    BY <1>6, <1>11
  <2>2. QED
    BY <1>5, <1>10, <2>1
<1>13. QED
  BY <1>3, <1>4, <1>6, <1>11, <1>12

(***************************************************************************)
(* What a file is read from: the chain its entry starts, and the rows on   *)
(* it.                                                                     *)
(***************************************************************************)
FileHead(v, data, h) == h = 0 \/ (h \in data /\ NoPred(v.fat, h) /\ v.fat[h] # Free)

FileKept(v, w, h) ==
  /\ Chain(w.fat, h) = Chain(v.fat, h)
  /\ \A c \in ToSet(Chain(v.fat, h)) : w.clusters[c] = v.clusters[c]

FilesKept(v, data, w) == \A h : FileHead(v, data, h) => FileKept(v, w, h)

LEMMA FileHeadChain ==
  ASSUME NEW v, NEW data, VolumeSound(v, data), NEW h, FileHead(v, data, h)
  PROVE  \A c \in ToSet(Chain(v.fat, h)) : c \in data /\ v.fat[c] # Free
<1>1. v.fat \in Fats /\ FatSound(v.fat) /\ data \subseteq Clusters
  BY DEF VolumeSound, Volumes, DataApart
<1>2. CASE h = 0
  BY <1>1, <1>2, ChainEmpty, Numbers DEF Free
<1>3. CASE h # 0
  <2>1. h \in data /\ h \in Clusters /\ v.fat[h] # Free
    BY <1>1, <1>3 DEF FileHead
  <2>2. ToSet(Chain(v.fat, h)) \subseteq data
    BY <2>1, FileChain
  <2>3. QED
    BY <1>1, <2>1, <2>2, ChainSound
<1>4. QED
  BY <1>2, <1>3

LEMMA FileSame ==
  ASSUME NEW v, NEW data, VolumeSound(v, data), NEW w \in Volumes, NEW h,
         FileHead(v, data, h),
         \A c \in ToSet(Chain(v.fat, h)) : w.fat[c] = v.fat[c] /\ w.clusters[c] = v.clusters[c]
  PROVE  FileKept(v, w, h)
<1>1. /\ v.fat \in Fats /\ FatSound(v.fat) /\ data \subseteq Clusters /\ w.fat \in Fats
  BY DEF VolumeSound, Volumes, DataApart
<1>2. CASE h = 0
  BY <1>1, <1>2, ChainEmpty, Numbers DEF Free, FileKept
<1>3. CASE h # 0
  <2>1. h \in Clusters /\ v.fat[h] # Free
    BY <1>1, <1>3 DEF FileHead
  <2>2. Chain(w.fat, h) = Chain(v.fat, h)
    BY <1>1, <2>1, ChainSame
  <2>3. QED
    BY <2>2 DEF FileKept
<1>4. QED
  BY <1>2, <1>3

LEMMA FilesStay ==
  ASSUME NEW v, NEW data, VolumeSound(v, data), NEW w \in Volumes,
         \A c \in data : v.fat[c] # Free => w.fat[c] = v.fat[c] /\ w.clusters[c] = v.clusters[c]
  PROVE  FilesKept(v, data, w)
<1>1. ASSUME NEW h, FileHead(v, data, h) PROVE FileKept(v, w, h)
  <2>1. \A c \in ToSet(Chain(v.fat, h)) : c \in data /\ v.fat[c] # Free
    BY <1>1, FileHeadChain
  <2>2. \A c \in ToSet(Chain(v.fat, h)) : w.fat[c] = v.fat[c] /\ w.clusters[c] = v.clusters[c]
    BY <2>1
  <2>3. QED
    BY <1>1, <2>2, FileSame
<1>2. QED
  BY <1>1 DEF FilesKept

(***************************************************************************)
(* What a name is found by: the slots of its directory, up to its own.     *)
(* Others may change, to anything but one that was never used, as long as  *)
(* they are not called by the name before or after.                        *)
(***************************************************************************)
Alike(v, w, dir, name) ==
  \A i \in DOMAIN Places(v, dir) :
    /\ i \in DOMAIN Places(w, dir) /\ Places(w, dir)[i] = Places(v, dir)[i]
    /\ \/ SlotAt(w, Places(v, dir)[i]) = SlotAt(v, Places(v, dir)[i])
       \/ /\ ~Called(SlotAt(v, Places(v, dir)[i]), name)
          /\ ~Called(SlotAt(w, Places(v, dir)[i]), name)
          /\ SlotAt(w, Places(v, dir)[i]) # Never

FindKept(v, w, dir, name) ==
  Found(v, dir, name) => Found(w, dir, name) /\ EntryOf(w, dir, name) = EntryOf(v, dir, name)

LEMMA FindStays ==
  ASSUME NEW v \in Volumes, NEW w \in Volumes, NEW dir, NEW name, Alike(v, w, dir, name)
  PROVE  FindKept(v, w, dir, name)
<1>1. SUFFICES ASSUME Found(v, dir, name)
               PROVE  Found(w, dir, name) /\ EntryOf(w, dir, name) = EntryOf(v, dir, name)
  BY DEF FindKept
<1>2. PICK k \in DOMAIN Places(v, dir) :
        IsFirst(v, dir, name, k) /\ FindEntry(v, dir, name) = Places(v, dir)[k]
  BY <1>1, FindFacts
<1>3. /\ Called(SlotAt(v, Places(v, dir)[k]), name)
      /\ \A i \in 1 .. k - 1 : /\ SlotAt(v, Places(v, dir)[i]) # Never
                               /\ ~Called(SlotAt(v, Places(v, dir)[i]), name)
  BY <1>2 DEF IsFirst
<1>4. \A i \in 1 .. k - 1 : i \in DOMAIN Places(v, dir)
  <2>1. DOMAIN Places(v, dir) = 1 .. Len(Places(v, dir)) /\ Len(Places(v, dir)) \in Nat
    BY PlacesFacts
  <2>2. QED
    BY <2>1
<1>5. /\ k \in DOMAIN Places(w, dir) /\ Places(w, dir)[k] = Places(v, dir)[k]
      /\ SlotAt(w, Places(v, dir)[k]) = SlotAt(v, Places(v, dir)[k])
  BY <1>3 DEF Alike
<1>6. ASSUME NEW i \in 1 .. k - 1
      PROVE  /\ SlotAt(w, Places(w, dir)[i]) # Never
             /\ ~Called(SlotAt(w, Places(w, dir)[i]), name)
  <2>1. Places(w, dir)[i] = Places(v, dir)[i]
    BY <1>4 DEF Alike
  <2>2. \/ SlotAt(w, Places(v, dir)[i]) = SlotAt(v, Places(v, dir)[i])
        \/ /\ ~Called(SlotAt(w, Places(v, dir)[i]), name)
           /\ SlotAt(w, Places(v, dir)[i]) # Never
    BY <1>4 DEF Alike
  <2>3. QED
    BY <1>3, <2>1, <2>2
<1>7. IsFirst(w, dir, name, k)
  BY <1>3, <1>5, <1>6 DEF IsFirst
<1>8. Found(w, dir, name) /\ FindEntry(w, dir, name) = Places(w, dir)[k]
  BY <1>5, <1>7, FindFacts
<1>9. QED
  BY <1>2, <1>5, <1>8 DEF EntryOf

(* A directory whose chain at most grows keeps its places.                 *)
LEMMA PlacesPrefix ==
  ASSUME NEW v \in Volumes, NEW w \in Volumes, NEW dir,
         Len(Chain(v.fat, dir)) <= Len(Chain(w.fat, dir)),
         \A i \in 1 .. Len(Chain(v.fat, dir)) : Chain(w.fat, dir)[i] = Chain(v.fat, dir)[i]
  PROVE  \A i \in DOMAIN Places(v, dir) :
           i \in DOMAIN Places(w, dir) /\ Places(w, dir)[i] = Places(v, dir)[i]
<1> DEFINE n == Len(Chain(v.fat, dir))
           m == Len(Chain(w.fat, dir))
           s == SlotsPerCluster
           At(ch, i) == <<ch[((i - 1) \div s) + 1], ((i - 1) % s) + 1>>
<1>1. n \in Nat /\ m \in Nat /\ n <= m /\ s \in Nat \ {0}
  BY PlacesFacts, PerCluster
<1>2. /\ Places(v, dir) = [i \in 1 .. n * s |-> At(Chain(v.fat, dir), i)]
      /\ Places(w, dir) = [i \in 1 .. m * s |-> At(Chain(w.fat, dir), i)]
  BY DEF Places
<1>3. \A i \in 1 .. n : Chain(w.fat, dir)[i] = Chain(v.fat, dir)[i]
  OBVIOUS
<1>4. n * s \in Nat /\ m * s \in Nat /\ n * s <= m * s
  <2> HIDE DEF n, m, s
  <2>1. PICK d \in Nat : m = n + d
    BY <1>1
  <2>2. m * s = n * s + d * s /\ d * s \in Nat /\ n * s \in Nat
    BY <1>1, <2>1
  <2>3. QED
    BY <2>2
<1> HIDE DEF n, m, s
<1>5. ASSUME NEW i \in 1 .. n * s
      PROVE  i \in 1 .. m * s /\ At(Chain(w.fat, dir), i) = At(Chain(v.fat, dir), i)
  <2>1. ((i - 1) \div s) + 1 \in 1 .. n
    BY <1>1, DivFacts
  <2>2. i \in 1 .. m * s
    BY <1>4
  <2>3. QED
    BY <1>3, <2>1, <2>2
<1> HIDE DEF At
<1>6. QED
  BY <1>2, <1>5

(***************************************************************************)
(* A command for one name in the shell's directory keeps every other entry *)
(* and what it starts.                                                     *)
(***************************************************************************)
EntryKept(v, w, dir, name) ==
  /\ FindKept(v, w, dir, name)
  /\ Found(v, dir, name) /\ ~EntryOf(v, dir, name).dir
       => FileKept(v, w, EntryOf(v, dir, name).first)

OthersKept(v, data, w, target) ==
  \A dir : \A name \in Names :
    DirHead(v, data, dir) /\ (dir # cwd \/ name # target) => EntryKept(v, w, dir, name)

LEMMA KeptTrans ==
  ASSUME NEW v, NEW data, NEW w, NEW eata, NEW x, NEW target,
         OthersKept(v, data, w, target), HeadsStay(v, data, w, eata),
         OthersKept(w, eata, x, target)
  PROVE  OthersKept(v, data, x, target)
<1>1. ASSUME NEW dir, NEW name \in Names, DirHead(v, data, dir), dir # cwd \/ name # target
      PROVE  EntryKept(v, x, dir, name)
  <2>1. EntryKept(v, w, dir, name)
    BY <1>1 DEF OthersKept
  <2>2. EntryKept(w, x, dir, name)
    <3>1. DirHead(w, eata, dir)
      BY <1>1 DEF HeadsStay
    <3>2. QED
      BY <1>1, <3>1 DEF OthersKept
  <2>3. FindKept(v, x, dir, name)
    BY <2>1, <2>2 DEF EntryKept, FindKept
  <2>4. ASSUME Found(v, dir, name), ~EntryOf(v, dir, name).dir
        PROVE  FileKept(v, x, EntryOf(v, dir, name).first)
    <3>1. Found(w, dir, name) /\ EntryOf(w, dir, name) = EntryOf(v, dir, name)
      BY <2>1, <2>4 DEF EntryKept, FindKept
    <3>2. FileKept(v, w, EntryOf(v, dir, name).first)
      BY <2>1, <2>4 DEF EntryKept
    <3>3. FileKept(w, x, EntryOf(v, dir, name).first)
      BY <2>2, <2>4, <3>1 DEF EntryKept
    <3>4. QED
      BY <3>2, <3>3 DEF FileKept
  <2>5. QED
    BY <2>3, <2>4 DEF EntryKept
<1>2. QED
  BY <1>1 DEF OthersKept

(* A file that is found starts at a head, or holds nothing.                *)
LEMMA FoundFile ==
  ASSUME NEW v, NEW data, VolumeSound(v, data), NEW dir, DirHead(v, data, dir),
         NEW name \in Names, Found(v, dir, name), ~EntryOf(v, dir, name).dir
  PROVE  FileHead(v, data, EntryOf(v, dir, name).first)
<1> DEFINE p == FindEntry(v, dir, name)
           e == EntryOf(v, dir, name)
<1>1. /\ p \in AllPlaces /\ EntryAt(v, p) /\ e = SlotAt(v, p)
      /\ e \in Entries /\ e.name = name
  BY FoundEntry
<1>2. EntryFits(v, data, e)
  BY <1>1 DEF VolumeSound, EntriesFit, NamedAt
<1>3. e.first = 0 \/ e.first \in Clusters
  BY <1>1, SlotKinds
<1>4. ~e.dir
  OBVIOUS
<1> HIDE DEF p, e
<1>5. FileHead(v, data, e.first)
  BY <1>2, <1>3, <1>4 DEF EntryFits, FileHead
<1>6. QED
  BY <1>5 DEF e

LEMMA KeptFrom ==
  ASSUME NEW v, NEW data, VolumeSound(v, data), NEW w, FilesKept(v, data, w), NEW target,
         \A dir : \A name \in Names :
           DirHead(v, data, dir) /\ (dir # cwd \/ name # target) => FindKept(v, w, dir, name)
  PROVE  OthersKept(v, data, w, target)
<1>1. ASSUME NEW dir, NEW name \in Names, DirHead(v, data, dir),
             Found(v, dir, name), ~EntryOf(v, dir, name).dir
      PROVE  FileKept(v, w, EntryOf(v, dir, name).first)
  <2>1. FileHead(v, data, EntryOf(v, dir, name).first)
    BY <1>1, FoundFile
  <2>2. QED
    BY <2>1 DEF FilesKept
<1>2. QED
  BY <1>1 DEF OthersKept, EntryKept

(* Two directories share no cluster.                                       *)
LEMMA DirsApart ==
  ASSUME NEW v, NEW data, VolumeSound(v, data), NEW g, DirHead(v, data, g),
         NEW h, DirHead(v, data, h), g # h
  PROVE  ToSet(Chain(v.fat, g)) \cap ToSet(Chain(v.fat, h)) = {}
<1>1. v.fat \in Fats /\ FatSound(v.fat) /\ NoPred(v.fat, g) /\ NoPred(v.fat, h)
  BY DEF VolumeSound, Volumes, DirHead
<1>2. QED
  BY <1>1, ChainsApart

(* What a command for a name does to slots of its directory.               *)
Changed(old, new, target) ==
  /\ IsGap(old) \/ Called(old, target)
  /\ new # Never
  /\ new.kind = "entry" => new.name = target

DirsChanged(v, data, w, target) ==
  /\ \A c \in Clusters \ data : w.fat[c] = v.fat[c]
  /\ \A q \in AllPlaces : q[1] \notin data =>
       \/ SlotAt(w, q) = SlotAt(v, q)
       \/ /\ q[1] \in ToSet(Chain(v.fat, cwd))
          /\ Changed(SlotAt(v, q), SlotAt(w, q), target)

LEMMA DirsFindKept ==
  ASSUME NEW v, NEW data, VolumeSound(v, data), DirHead(v, data, cwd), NEW w \in Volumes,
         NEW target, DirsChanged(v, data, w, target)
  PROVE  \A dir : \A name \in Names :
           DirHead(v, data, dir) /\ (dir # cwd \/ name # target) => FindKept(v, w, dir, name)
<1> SUFFICES ASSUME NEW dir, NEW name \in Names, DirHead(v, data, dir),
                    dir # cwd \/ name # target
             PROVE  FindKept(v, w, dir, name)
  OBVIOUS
<1>1. v \in Volumes /\ w.fat \in Fats
  BY DEF VolumeSound, Volumes
<1>2. Places(w, dir) = Places(v, dir)
  <2>1. Chain(w.fat, dir) = Chain(v.fat, dir)
    BY <1>1, DirChainSame DEF DirsChanged
  <2>2. QED
    BY <2>1, SamePlaces
<1>3. ASSUME NEW i \in DOMAIN Places(v, dir)
      PROVE  \/ SlotAt(w, Places(v, dir)[i]) = SlotAt(v, Places(v, dir)[i])
             \/ /\ ~Called(SlotAt(v, Places(v, dir)[i]), name)
                /\ ~Called(SlotAt(w, Places(v, dir)[i]), name)
                /\ SlotAt(w, Places(v, dir)[i]) # Never
  <2> DEFINE q == Places(v, dir)[i]
  <2>1. q \in AllPlaces /\ q[1] \in ToSet(Chain(v.fat, dir))
    BY <1>1, PlacesFacts
  <2>2. q[1] \notin data
    BY <2>1, DirChain
  <2>3. CASE SlotAt(w, q) = SlotAt(v, q)
    BY <2>3
  <2>4. CASE SlotAt(w, q) # SlotAt(v, q)
    <3> HIDE DEF q
    <3>1. q[1] \in ToSet(Chain(v.fat, cwd)) /\ Changed(SlotAt(v, q), SlotAt(w, q), target)
      BY <2>1, <2>2, <2>4 DEF DirsChanged
    <3>2. dir = cwd /\ name # target
      BY <2>1, <3>1, DirsApart
    <3>3. SlotAt(v, q) \in Slot /\ SlotAt(w, q) \in Slot
      BY <1>1, <2>1, SlotAtType
    <3>4. ~Called(SlotAt(v, q), name)
      BY <3>1, <3>2, <3>3, SlotFacts DEF Changed, Called
    <3>5. ~Called(SlotAt(w, q), name) /\ SlotAt(w, q) # Never
      BY <3>1, <3>2 DEF Changed, Called
    <3>6. QED
      BY <3>4, <3>5 DEF q
  <2>5. QED
    BY <2>3, <2>4
<1>4. Alike(v, w, dir, name)
  BY <1>2, <1>3 DEF Alike
<1>5. QED
  BY <1>1, <1>4, FindStays

(***************************************************************************)
(* The chain after clusters were linked to it, cluster by cluster.         *)
(***************************************************************************)
LEMMA ChainSteps ==
  ASSUME NEW fat \in Fats, FatSound(fat), NEW first \in Clusters, fat[first] # Free
  PROVE  /\ Len(Chain(fat, first)) \in 1 .. TotalClusters
         /\ Chain(fat, first)[1] = first
         /\ \A i \in 1 .. Len(Chain(fat, first)) : Chain(fat, first)[i] \in Clusters
         /\ \A i \in 1 .. Len(Chain(fat, first)) - 1 :
              Chain(fat, first)[i + 1] = fat[Chain(fat, first)[i]]
         /\ fat[Chain(fat, first)[Len(Chain(fat, first))]] = EndOfChain
<1> DEFINE f == Followed(fat, first)
           ch == Chain(fat, first)
<1>1. PICK n \in 0 .. TotalClusters : ChainLen(fat, first, n)
  BY ChainFacts
<1>2. ch \in Seq(Clusters) /\ Len(ch) = n
  BY <1>1, ChainType
<1>3. /\ ch = [i \in 1 .. n |-> f[i - 1]]
      /\ \A i \in 0 .. n - 1 : f[i] \in Clusters
  BY <1>1 DEF ChainLen
<1>4. n \in 1 .. TotalClusters /\ fat[Last(ch)] = EndOfChain /\ ch[1] = first
  BY <1>2, ChainSound
<1> HIDE DEF ch
<1>5. \A i \in 1 .. n : ch[i] = f[i - 1] /\ ch[i] \in Clusters
  <2>1. \A i \in 1 .. n : i - 1 \in 0 .. n - 1
    BY <1>4, Numbers
  <2>2. QED
    BY <1>3, <2>1
<1>6. ASSUME NEW i \in 1 .. n - 1 PROVE ch[i + 1] = fat[ch[i]]
  <2>1. /\ i \in 1 .. n /\ i + 1 \in 1 .. n /\ (i + 1) - 1 = i
        /\ i - 1 \in 0 .. n - 1 /\ i \in 1 .. TotalClusters
    BY <1>4, Numbers
  <2>2. f[i] = fat[f[i - 1]]
    BY <1>3, <2>1, FollowedFacts
  <2>3. QED
    BY <1>5, <2>1, <2>2
<1>7. Last(ch) = ch[n]
  BY <1>2 DEF Last
<1>8. QED
  BY <1>2, <1>4, <1>5, <1>6, <1>7 DEF ch

LEMMA ChainFollows ==
  ASSUME NEW fat \in Fats, FatSound(fat), NEW first \in Clusters, fat[first] # Free,
         NEW cs \in Seq(Clusters), cs # <<>>,
         \A i \in 1 .. Len(cs) - 1 : fat[cs[i]] = cs[i + 1],
         fat[cs[Len(cs)]] = EndOfChain,
         NEW n \in 1 .. Len(Chain(fat, first)), Chain(fat, first)[n] = cs[1]
  PROVE  /\ Len(Chain(fat, first)) = n + Len(cs) - 1
         /\ \A j \in 1 .. Len(cs) : Chain(fat, first)[n + j - 1] = cs[j]
<1> DEFINE ch == Chain(fat, first)
           m == Len(ch)
           k == Len(cs)
<1>1. /\ m \in 1 .. TotalClusters /\ n \in 1 .. m
      /\ \A i \in 1 .. m : ch[i] \in Clusters
      /\ \A i \in 1 .. m - 1 : ch[i + 1] = fat[ch[i]]
      /\ fat[ch[m]] = EndOfChain /\ EndOfChain \notin Clusters /\ TotalClusters \in Nat
  BY ChainSteps, Numbers
<1>2. k \in Nat \ {0} /\ \A i \in 1 .. k : cs[i] \in Clusters
  BY EmptySeq, LenProperties
<1>3. \A i \in 1 .. k - 1 : fat[cs[i]] = cs[i + 1]
  OBVIOUS
<1>4. fat[cs[k]] = EndOfChain /\ ch[n] = cs[1]
  OBVIOUS
<1> HIDE DEF ch, m, k
<1> DEFINE Good == {j \in Nat : j + 1 <= k => n + j <= m /\ ch[n + j] = cs[j + 1]}
<1>5. 0 \in Good
  BY <1>1, <1>4
<1>6. ASSUME NEW j \in Nat, j \in Good PROVE j + 1 \in Good
  <2>1. SUFFICES ASSUME j + 2 <= k
                 PROVE  n + (j + 1) <= m /\ ch[n + (j + 1)] = cs[(j + 1) + 1]
    BY <1>2
  <2>2. n + j <= m /\ ch[n + j] = cs[j + 1] /\ n + j \in 1 .. m
    BY <1>1, <1>2, <1>6, <2>1
  <2>3. j + 1 \in 1 .. k - 1 /\ (j + 1) + 1 \in 1 .. k
    BY <1>2, <2>1
  <2>4. fat[ch[n + j]] = cs[(j + 1) + 1] /\ cs[(j + 1) + 1] \in Clusters
    BY <1>2, <1>3, <2>2, <2>3
  <2>5. n + j # m
    BY <1>1, <2>4
  <2>6. n + j \in 1 .. m - 1 /\ (n + j) + 1 = n + (j + 1)
    BY <1>1, <2>2, <2>5
  <2>7. ch[n + (j + 1)] = cs[(j + 1) + 1]
    BY <1>1, <2>4, <2>6
  <2>8. QED
    BY <1>1, <2>6, <2>7
<1>7. \A j \in Nat : j + 1 <= k => n + j <= m /\ ch[n + j] = cs[j + 1]
  <2>1. Nat \subseteq Good
    <3> HIDE DEF Good
    <3>1. QED
      BY <1>5, <1>6, Induction
  <2>2. QED
    BY <2>1
<1>8. ASSUME NEW j \in 1 .. k PROVE n + j - 1 <= m /\ ch[n + j - 1] = cs[j]
  <2>1. j - 1 \in Nat /\ (j - 1) + 1 <= k /\ (j - 1) + 1 = j /\ n + (j - 1) = n + j - 1
    BY <1>1, <1>2
  <2>2. n + (j - 1) <= m /\ ch[n + (j - 1)] = cs[(j - 1) + 1]
    BY <1>7, <2>1
  <2>3. QED
    BY <2>1, <2>2
<1>9. m = n + k - 1
  <2>1. k \in 1 .. k
    BY <1>2
  <2>2. n + k - 1 <= m /\ ch[n + k - 1] = cs[k]
    BY <1>8, <2>1
  <2>3. SUFFICES ASSUME n + k - 1 # m PROVE FALSE
    OBVIOUS
  <2>4. n + k - 1 \in 1 .. m - 1 /\ (n + k - 1) + 1 \in 1 .. m
    BY <1>1, <1>2, <2>2, <2>3
  <2>5. ch[(n + k - 1) + 1] = EndOfChain
    BY <1>1, <1>4, <2>2, <2>4
  <2>6. QED
    BY <1>1, <2>4, <2>5
<1>10. QED
  BY <1>8, <1>9 DEF ch, m, k

(* The chain of a file just linked is the clusters linked.                 *)
LEMMA LinkedChain ==
  ASSUME NEW v \in Volumes, NEW cs, FreshChain(cs), FatSound(Linked(v, cs).fat)
  PROVE  /\ Len(Chain(Linked(v, cs).fat, cs[1])) = Len(cs)
         /\ \A j \in 1 .. Len(cs) : Chain(Linked(v, cs).fat, cs[1])[j] = cs[j]
         /\ Linked(v, cs).fat[cs[1]] # Free
<1> DEFINE fat == Linked(v, cs).fat
           first == cs[1]
<1>1. /\ cs \in Seq(Clusters) /\ cs # <<>> /\ fat \in Fats
      /\ Len(cs) \in Nat \ {0} /\ \A i \in 1 .. Len(cs) : cs[i] \in Clusters
      /\ \A i \in 1 .. Len(cs) - 1 : fat[cs[i]] = cs[i + 1]
      /\ fat[cs[Len(cs)]] = EndOfChain
  BY LinkedFacts DEF FreshChain, Volumes
<1>2. first \in Clusters /\ fat[first] # Free
  <2>1. 1 \in 1 .. Len(cs)
    BY <1>1
  <2>2. fat[first] = EndOfChain \/ (2 \in 1 .. Len(cs) /\ fat[first] = cs[2])
    <3>1. CASE Len(cs) = 1
      BY <1>1, <3>1
    <3>2. CASE Len(cs) # 1
      <4>1. 1 \in 1 .. Len(cs) - 1 /\ 2 \in 1 .. Len(cs) /\ 1 + 1 = 2
        <5>1. Len(cs) \in Nat \ {0}
          BY <1>1
        <5>2. QED
          BY ONLY <3>2, <5>1
      <4>2. QED
        BY <1>1, <4>1
    <3>3. QED
      BY <3>1, <3>2
  <2>3. QED
    BY <1>1, <2>1, <2>2, Numbers
<1>3. FatSound(fat)
  OBVIOUS
<1> HIDE DEF fat, first
<1>4. 1 \in 1 .. Len(Chain(fat, first)) /\ Chain(fat, first)[1] = cs[1]
  <2>1. Chain(fat, first)[1] = first /\ Len(Chain(fat, first)) \in 1 .. TotalClusters
    BY <1>1, <1>2, <1>3, ChainSteps
  <2>2. QED
    BY <2>1, Numbers DEF first
<1>5. /\ Len(Chain(fat, first)) = 1 + Len(cs) - 1
      /\ \A j \in 1 .. Len(cs) : Chain(fat, first)[1 + j - 1] = cs[j]
  BY <1>1, <1>2, <1>3, <1>4, ChainFollows
<1>6. \A j \in 1 .. Len(cs) : 1 + j - 1 = j
  BY <1>1
<1>7. Len(Chain(fat, first)) = Len(cs)
  BY <1>1, <1>5
<1>8. QED
  BY <1>2, <1>5, <1>6, <1>7 DEF fat, first

(* A directory that grows: its chain goes on with the clusters added, the  *)
(* others keep theirs.                                                     *)
GrownChain(v, data, dir, added, u) ==
  LET old == Chain(v.fat, dir)
      new == Chain(u.fat, dir)
  IN  /\ u \in Volumes /\ u.clusters = v.clusters
      /\ Len(old) \in Nat \ {0} /\ Len(added) \in Nat
      /\ Len(new) = Len(old) + Len(added)
      /\ \A i \in 1 .. Len(old) : new[i] = old[i]
      /\ \A j \in 1 .. Len(added) : new[Len(old) + j] = added[j]
      /\ \A h : DirHead(v, data, h) /\ h # dir => Chain(u.fat, h) = Chain(v.fat, h)

LEMMA GrownLinks ==
  ASSUME NEW v, NEW data, VolumeSound(v, data), NEW dir, DirHead(v, data, dir),
         NEW added \in Seq(Clusters), IsInjective(added),
         \A i \in 1 .. Len(added) : v.fat[added[i]] = Free
  PROVE  GrownChain(v, data, dir, added, GrownBy(v, dir, added))
<1> DEFINE old == Chain(v.fat, dir)
           last == Last(old)
           cs == <<last>> \o added
           u == GrownBy(v, dir, added)
           new == Chain(u.fat, dir)
           n == Len(old)
           k == Len(added)
<1>1. /\ old \in Seq(Clusters) /\ n \in Nat \ {0} /\ ToSet(old) \subseteq Clusters \ data
      /\ IsInjective(old) /\ last \in Clusters \ data /\ v.fat[last] = EndOfChain
      /\ v.fat[dir] # Free
  BY DirChain
<1>2. /\ v \in Volumes /\ v.fat \in Fats /\ FatSound(v.fat) /\ dir \in Clusters
      /\ \A c \in Clusters : v.fat[c] = Free => c \in data
  BY DEF VolumeSound, Volumes, DirHead, DataApart
<1>3. /\ FreshChain(cs) /\ cs[1] = last /\ Len(cs) = k + 1 /\ k \in Nat
      /\ ToSet(cs) = {last} \cup ToSet(added)
      /\ \A i \in 2 .. Len(cs) : i - 1 \in 1 .. k /\ cs[i] = added[i - 1]
  BY <1>1, BehindFacts, Numbers
<1>4. \A c \in ToSet(added) : c \in data
  <2>1. \A i \in 1 .. k : added[i] \in Clusters /\ v.fat[added[i]] = Free
    BY <1>3, LenProperties
  <2>2. QED
    BY <1>2, <2>1, LenProperties DEF ToSet
<1>5. u = Linked(v, cs)
  BY DEF GrownBy
<1>6. Growth(v, data, last, added, u)
  BY GrownSound
<1>7. /\ u \in Volumes /\ u.fat \in Fats /\ FatSound(u.fat) /\ u.clusters = v.clusters
      /\ \A c \in Clusters : c # last /\ c \notin ToSet(added) => u.fat[c] = v.fat[c]
      /\ u.fat[dir] # Free
  BY <1>1, <1>2, <1>6 DEF Growth, VolumeSound, Volumes
<1>8. /\ cs \in Seq(Clusters) /\ cs # <<>>
      /\ \A i \in 1 .. Len(cs) - 1 : u.fat[cs[i]] = cs[i + 1]
      /\ u.fat[cs[Len(cs)]] = EndOfChain
  <2>1. cs \in Seq(Clusters) /\ cs # <<>>
    BY <1>3 DEF FreshChain
  <2>2. v \in Volumes /\ FreshChain(cs)
    BY <1>2, <1>3
  <2> HIDE DEF u, cs
  <2>3. /\ \A i \in 1 .. Len(cs) - 1 : Linked(v, cs).fat[cs[i]] = cs[i + 1]
        /\ Linked(v, cs).fat[cs[Len(cs)]] = EndOfChain
    BY ONLY <2>2, LinkedFacts
  <2>4. QED
    BY <1>5, <2>1, <2>3
<1> HIDE DEF u, cs, last, old
<1>9. Len(old) <= Len(new) /\ \A i \in 1 .. Len(old) : new[i] = old[i]
  <2>1. \A c \in ToSet(old) : c # Last(old) => u.fat[c] = v.fat[c]
    BY <1>1, <1>4, <1>7 DEF last
  <2>2. QED
    BY <1>1, <1>2, <1>7, <2>1, ChainPrefix DEF old
<1>10. Len(new) = Len(old) + k /\ \A j \in 1 .. k : new[Len(old) + j] = added[j]
  <2>1. Len(new) \in 1 .. TotalClusters
    BY <1>2, <1>7, ChainSteps
  <2>2. n \in 1 .. Len(new) /\ new[n] = cs[1]
    <3>1. n \in 1 .. n
      BY <1>1
    <3>2. new[n] = old[n] /\ Len(new) \in Nat
      BY <1>9, <2>1, <3>1, Numbers
    <3>3. old[n] = last
      BY DEF Last, last
    <3>4. QED
      BY <1>1, <1>3, <1>9, <3>2, <3>3
  <2>3. /\ Len(new) = n + Len(cs) - 1
        /\ \A j \in 1 .. Len(cs) : new[n + j - 1] = cs[j]
    BY <1>2, <1>7, <1>8, <2>2, ChainFollows
  <2> HIDE DEF new, n, k
  <2>4. Len(new) = n + k
    BY <1>1, <1>3, <2>3
  <2>5. ASSUME NEW j \in 1 .. k PROVE new[n + j] = added[j]
    <3>1. j + 1 \in 1 .. Len(cs) /\ j + 1 \in 2 .. Len(cs) /\ n + (j + 1) - 1 = n + j
          /\ (j + 1) - 1 = j
      BY <1>1, <1>3
    <3>2. QED
      BY <1>3, <2>3, <3>1
  <2>6. QED
    BY <2>4, <2>5 DEF n
<1>11. ASSUME NEW h, DirHead(v, data, h), h # dir PROVE Chain(u.fat, h) = Chain(v.fat, h)
  <2>1. h \in Clusters /\ v.fat[h] # Free /\ ToSet(Chain(v.fat, h)) \subseteq Clusters \ data
    BY <1>11, DirChain DEF DirHead
  <2>2. last \notin ToSet(Chain(v.fat, h))
    <3>1. last \in ToSet(old)
      BY <1>1, LenProperties DEF last, Last, ToSet
    <3>2. ToSet(old) \cap ToSet(Chain(v.fat, h)) = {}
      BY <1>11, DirsApart DEF old
    <3>3. QED
      BY <3>1, <3>2
  <2>3. \A c \in ToSet(Chain(v.fat, h)) : u.fat[c] = v.fat[c]
    BY <1>4, <1>7, <2>1, <2>2
  <2>4. QED
    BY <1>2, <1>7, <2>1, <2>3, ChainSame
<1>12. QED
  BY <1>1, <1>3, <1>7, <1>9, <1>10, <1>11 DEF GrownChain, u, old

FilesStayHeads(v, data, w, eata) == \A h : FileHead(v, data, h) => FileHead(w, eata, h)

LEMMA GrownKept ==
  ASSUME NEW v, NEW data, VolumeSound(v, data), NEW dir, DirHead(v, data, dir),
         NEW added \in Seq(Clusters), IsInjective(added),
         \A i \in 1 .. Len(added) : v.fat[added[i]] = Free, NEW target
  PROVE  /\ FilesKept(v, data, GrownBy(v, dir, added))
         /\ FilesStayHeads(v, data, GrownBy(v, dir, added), data \ ToSet(added))
         /\ OthersKept(v, data, GrownBy(v, dir, added), target)
<1> DEFINE u == GrownBy(v, dir, added)
           last == Last(Chain(v.fat, dir))
<1>1. v \in Volumes /\ data \subseteq Clusters /\ last \in Clusters \ data
  BY DirChain DEF VolumeSound, DataApart
<1>2. \A c \in ToSet(added) : v.fat[c] = Free
  BY LenProperties DEF ToSet
<1>3. Growth(v, data, last, added, u)
  BY GrownSound
<1>4. GrownChain(v, data, dir, added, u)
  BY GrownLinks
<1> HIDE DEF u, last
<1>5. /\ u \in Volumes /\ u.clusters = v.clusters
      /\ \A c \in Clusters : c # last /\ c \notin ToSet(added) => u.fat[c] = v.fat[c]
  BY <1>3, <1>4 DEF Growth, GrownChain
<1>6. FilesKept(v, data, u)
  <2>1. \A c \in data : v.fat[c] # Free => u.fat[c] = v.fat[c] /\ u.clusters[c] = v.clusters[c]
    BY <1>1, <1>2, <1>5
  <2>2. QED
    BY <1>5, <2>1, FilesStay
<1>7. FilesStayHeads(v, data, u, data \ ToSet(added))
  BY <1>1, <1>2, <1>3 DEF FilesStayHeads, FileHead, Growth
<1>8. ASSUME NEW d, DirHead(v, data, d), NEW name PROVE FindKept(v, u, d, name)
  <2>1. \A i \in DOMAIN Places(v, d) :
          i \in DOMAIN Places(u, d) /\ Places(u, d)[i] = Places(v, d)[i]
    <3>1. CASE d = dir
      <4>1. /\ Len(Chain(v.fat, d)) <= Len(Chain(u.fat, d))
            /\ \A i \in 1 .. Len(Chain(v.fat, d)) : Chain(u.fat, d)[i] = Chain(v.fat, d)[i]
        BY <1>4, <3>1 DEF GrownChain
      <4>2. QED
        BY <1>1, <1>5, <4>1, PlacesPrefix
    <3>2. CASE d # dir
      <4>1. Chain(u.fat, d) = Chain(v.fat, d)
        BY <1>4, <1>8, <3>2 DEF GrownChain
      <4>2. QED
        BY <4>1, SamePlaces
    <3>3. QED
      BY <3>1, <3>2
  <2>2. \A p : SlotAt(u, p) = SlotAt(v, p)
    BY <1>5 DEF SlotAt
  <2>3. Alike(v, u, d, name)
    BY <2>1, <2>2 DEF Alike
  <2>4. QED
    BY <1>1, <1>5, <2>3, FindStays
<1>9. OthersKept(v, data, u, target)
  BY <1>6, <1>8, KeptFrom
<1>10. QED
  BY <1>6, <1>7, <1>9 DEF u

(***************************************************************************)
(* All that a step inside a command for a name keeps.                      *)
(***************************************************************************)
Kept(v, data, w, eata, target) ==
  /\ VolumeSound(w, eata)
  /\ HeadsStay(v, data, w, eata)
  /\ FilesStayHeads(v, data, w, eata)
  /\ FilesKept(v, data, w)
  /\ OthersKept(v, data, w, target)

LEMMA KeptSame ==
  ASSUME NEW v, NEW data, VolumeSound(v, data), NEW target
  PROVE  Kept(v, data, v, data, target)
BY DEF Kept, HeadsStay, FilesStayHeads, FilesKept, FileKept, OthersKept, EntryKept, FindKept

LEMMA KeptOnward ==
  ASSUME NEW v, NEW data, NEW w, NEW eata, NEW x, NEW bata, NEW target,
         Kept(v, data, w, eata, target), Kept(w, eata, x, bata, target)
  PROVE  Kept(v, data, x, bata, target)
<1>1. VolumeSound(x, bata) /\ HeadsStay(v, data, x, bata) /\ FilesStayHeads(v, data, x, bata)
  BY DEF Kept, HeadsStay, FilesStayHeads
<1>2. FilesKept(v, data, x)
  BY DEF Kept, FilesStayHeads, FilesKept, FileKept
<1>3. OthersKept(v, data, x, target)
  BY KeptTrans DEF Kept
<1>4. QED
  BY <1>1, <1>2, <1>3 DEF Kept

(* A slot of the shell's directory: a gap takes an entry, or the entry     *)
(* found changes.                                                          *)
LEMMA PutKept ==
  ASSUME NEW v, NEW data, VolumeSound(v, data), DirHead(v, data, cwd),
         NEW p \in AllPlaces, p[1] \in ToSet(Chain(v.fat, cwd)), NEW slot \in Slot, NEW target,
         Changed(SlotAt(v, p), slot, target),
         slot.kind = "entry" =>
           /\ slot.name \in Names
           /\ EntryFits(v, data, slot)
           /\ \A q \in AllPlaces : q # p /\ NamedAt(v, q) /\ SlotAt(v, q).first = slot.first
                => slot.first = 0
  PROVE  Kept(v, data, SetSlot(v, p, slot), data, target)
<1> DEFINE w == SetSlot(v, p, slot)
<1>1. v \in Volumes /\ data \subseteq Clusters /\ p[1] \in Clusters \ data
  BY DirChain DEF VolumeSound, DataApart
<1>2. VolumeSound(w, data) /\ HeadsStay(v, data, w, data)
  BY <1>1, PutSound
<1>3. /\ w \in Volumes /\ w.fat = v.fat /\ SlotAt(w, p) = slot
      /\ \A q \in AllPlaces : q # p => SlotAt(w, q) = SlotAt(v, q)
      /\ \A c \in Clusters : c # p[1] => w.clusters[c] = v.clusters[c]
  BY <1>1, SetSlotFacts
<1> HIDE DEF w
<1>4. FilesKept(v, data, w)
  <2>1. \A c \in data : w.fat[c] = v.fat[c] /\ w.clusters[c] = v.clusters[c]
    BY <1>1, <1>3
  <2>2. QED
    BY <1>3, <2>1, FilesStay
<1>5. FilesStayHeads(v, data, w, data)
  BY <1>3 DEF FilesStayHeads, FileHead
<1>6. DirsChanged(v, data, w, target)
  BY <1>3 DEF DirsChanged
<1>7. OthersKept(v, data, w, target)
  <2>1. \A dir : \A name \in Names :
          DirHead(v, data, dir) /\ (dir # cwd \/ name # target) => FindKept(v, w, dir, name)
    BY <1>3, <1>6, DirsFindKept
  <2>2. QED
    BY <1>4, <2>1, KeptFrom
<1>8. QED
  BY <1>2, <1>4, <1>5, <1>7 DEF Kept, w

(* create_file_entry.                                                      *)
LEMMA CreateKept ==
  ASSUME NEW v, NEW data, VolumeSound(v, data), DirHead(v, data, cwd),
         NEW entry, NewEntry(v, data, entry)
  PROVE  \E eata : Kept(v, data, CreateEntry(v, cwd, entry).volume, eata, entry.name)
<1> DEFINE w == CreateEntry(v, cwd, entry).volume
           ok == CreateEntry(v, cwd, entry).ok
           free == FreeClusters(v)
           target == entry.name
<1>1. v \in Volumes /\ data \subseteq Clusters
  BY DEF VolumeSound, DataApart
<1>2. \/ IntoGap(v, cwd, entry, w, ok)
      \/ GrownInVain(v, cwd, w, ok)
      \/ IntoNewGap(v, cwd, entry, w, ok)
  BY <1>1, CreateCases
<1>3. entry \in Slot /\ entry.kind = "entry" /\ entry.name \in Names /\ entry # Never
  BY SlotKinds DEF NewEntry
<1>4. CASE IntoGap(v, cwd, entry, w, ok)
  <2>1. PICK k \in DOMAIN Places(v, cwd) :
          FirstGap(v, cwd, k) /\ w = SetSlot(v, Places(v, cwd)[k], entry)
    BY <1>4 DEF IntoGap
  <2> DEFINE p == Places(v, cwd)[k]
  <2>2. p \in AllPlaces /\ p[1] \in ToSet(Chain(v.fat, cwd)) /\ IsGap(SlotAt(v, p))
    BY <1>1, <2>1, PlacesFacts DEF FirstGap
  <2> HIDE DEF p
  <2>3. Changed(SlotAt(v, p), entry, target)
    BY <1>3, <2>2 DEF Changed
  <2>4. /\ EntryFits(v, data, entry)
        /\ \A q \in AllPlaces : q # p /\ NamedAt(v, q) /\ SlotAt(v, q).first = entry.first
             => entry.first = 0
    BY DEF NewEntry
  <2>5. Kept(v, data, SetSlot(v, p, entry), data, target)
    BY <1>3, <2>2, <2>3, <2>4, PutKept
  <2>6. QED
    BY <2>1, <2>5 DEF p
<1>5. CASE GrownInVain(v, cwd, w, ok)
  <2>1. w = GrownBy(v, cwd, free)
    BY <1>5 DEF GrownInVain
  <2>2. /\ free \in Seq(Clusters)
        /\ IsInjective(free)
        /\ \A i \in 1 .. Len(free) : v.fat[free[i]] = Free
    BY FreeClustersFacts
  <2> HIDE DEF free
  <2>3. Kept(v, data, GrownBy(v, cwd, free), data \ ToSet(free), target)
    <3>1. Growth(v, data, Last(Chain(v.fat, cwd)), free, GrownBy(v, cwd, free))
      BY <2>2, GrownSound
    <3>2. QED
      BY <2>2, <3>1, GrownKept DEF Growth, Kept
  <2>4. QED
    BY <2>1, <2>3
<1>6. CASE IntoNewGap(v, cwd, entry, w, ok)
  <2>1. PICK e \in 1 .. Len(free), s \in 1 .. SlotsPerCluster :
          /\ IsGap(SlotAt(v, <<free[e], s>>))
          /\ w = SetSlot(GrownBy(v, cwd, SubSeq(free, 1, e)), <<free[e], s>>, entry)
    BY <1>6 DEF IntoNewGap
  <2> DEFINE added == SubSeq(free, 1, e)
             u == GrownBy(v, cwd, added)
             p == <<free[e], s>>
             eata == data \ ToSet(added)
  <2>2. e \in 0 .. Len(free) /\ e \in 1 .. e /\ e \in Nat
    BY FreeClustersFacts
  <2>3. /\ added \in Seq(Clusters) /\ IsInjective(added) /\ Len(added) = e
        /\ \A i \in 1 .. e : added[i] = free[i] /\ added[i] \in Clusters /\ v.fat[added[i]] = Free
    BY <2>2, SomeFree
  <2> HIDE DEF added
  <2>4. Kept(v, data, u, eata, target) /\ NewEntry(u, eata, entry)
    <3>1. Growth(v, data, Last(Chain(v.fat, cwd)), added, u)
      BY <2>3, GrownSound
    <3>2. NewEntry(u, eata, entry)
      BY <2>3, NewEntryGrown
    <3>3. /\ FilesKept(v, data, u)
          /\ FilesStayHeads(v, data, u, eata)
          /\ OthersKept(v, data, u, target)
      BY <2>3, GrownKept
    <3>4. QED
      BY <3>1, <3>2, <3>3 DEF Growth, Kept
  <2>5. GrownChain(v, data, cwd, added, u)
    BY <2>3, GrownLinks
  <2>6. p \in AllPlaces /\ p[1] = free[e] /\ p[1] = added[e]
    BY <2>2, <2>3 DEF AllPlaces
  <2> HIDE DEF u, p, eata
  <2>7. p[1] \in ToSet(Chain(u.fat, cwd))
    <3> DEFINE ch == Chain(u.fat, cwd)
               n == Len(Chain(v.fat, cwd))
    <3>1. n \in Nat /\ Len(ch) = n + e /\ ch[n + e] = added[e]
      BY <2>2, <2>3, <2>5 DEF GrownChain
    <3>2. DOMAIN ch = 1 .. Len(ch)
      <4>1. u \in Volumes /\ u.fat \in Fats
        BY <2>5 DEF GrownChain, Volumes
      <4>2. ch \in Seq(Clusters)
        BY <4>1, ChainType
      <4>3. QED
        BY <4>2, LenProperties
    <3> HIDE DEF ch, n
    <3>3. n + e \in DOMAIN ch
      BY <2>2, <3>1, <3>2
    <3>4. QED
      BY <2>6, <3>1, <3>3 DEF ToSet, ch
  <2>8. SlotAt(u, p) = SlotAt(v, p)
    BY <2>5 DEF GrownChain, SlotAt
  <2>9. Changed(SlotAt(u, p), entry, target)
    BY <1>3, <2>1, <2>8 DEF Changed, p
  <2>10. /\ VolumeSound(u, eata) /\ DirHead(u, eata, cwd)
         /\ EntryFits(u, eata, entry)
         /\ \A q \in AllPlaces : q # p /\ NamedAt(u, q) /\ SlotAt(u, q).first = entry.first
              => entry.first = 0
    BY <2>4 DEF Kept, HeadsStay, NewEntry
  <2>11. Kept(u, eata, SetSlot(u, p, entry), eata, target)
    BY <1>3, <2>6, <2>7, <2>9, <2>10, PutKept
  <2>12. Kept(v, data, SetSlot(u, p, entry), eata, target)
    BY <2>4, <2>11, KeptOnward
  <2>13. w = SetSlot(u, p, entry)
    BY <2>1 DEF u, p, added
  <2>14. QED
    BY <2>12, <2>13
<1>7. QED
  BY <1>2, <1>4, <1>5, <1>6

(* Free clusters taken, linked and written.                                *)
LEMMA StoreKept ==
  ASSUME NEW v, NEW data, VolumeSound(v, data), DirHead(v, data, cwd),
         NEW cs \in Seq(Clusters), IsInjective(cs),
         \A i \in 1 .. Len(cs) : v.fat[cs[i]] = Free, NEW text \in Texts, NEW target
  PROVE  Kept(v, data, Stored(Linked(v, cs), cs, text), data, target)
<1>1. v \in Volumes /\ FatSound(v.fat) /\ data \subseteq Clusters
  BY DEF VolumeSound, DataApart
<1>2. CASE cs = <<>>
  BY <1>1, <1>2, NothingStored, KeptSame
<1>3. CASE cs # <<>>
  <2> DEFINE u == Linked(v, cs)
             w == Stored(u, cs, text)
  <2>1. FreshChain(cs)
    BY <1>3 DEF FreshChain
  <2>2. \A i \in 1 .. Len(cs) : cs[i] \in Clusters /\ cs[i] \in data /\ v.fat[cs[i]] = Free
    BY <1>1, <2>1, LinkedFacts, FreeCluster
  <2>3. \A c \in ToSet(cs) : c \in data /\ v.fat[c] = Free
    BY <2>2, LenProperties DEF ToSet
  <2>4. /\ u \in Volumes /\ u.clusters = v.clusters
        /\ \A c \in Clusters \ ToSet(cs) : u.fat[c] = v.fat[c]
    BY <1>1, <2>1, LinkedFacts
  <2>5. \A h \in Clusters : NoPred(v.fat, h) /\ v.fat[h] # Free => NoPred(u.fat, h)
    <3>1. 1 \in 1 .. Len(cs) /\ \A i \in 2 .. Len(cs) : i \in 1 .. Len(cs)
      <4>1. Len(cs) \in Nat \ {0}
        BY <1>1, <2>1, LinkedFacts
      <4>2. QED
        BY ONLY <4>1
    <3>2. v.fat[cs[1]] \notin Clusters /\ \A i \in 2 .. Len(cs) : v.fat[cs[i]] = Free
      BY <2>2, <3>1, Numbers
    <3>3. QED
      BY <1>1, <2>1, <3>2, LinkedSound
  <2>6. VolumeSound(w, data) /\ HeadsStay(v, data, w, data)
    BY StoreSound
  <2> HIDE DEF u
  <2>7. /\ w \in Volumes /\ w.fat = u.fat
        /\ \A c \in Clusters \ ToSet(cs) : w.clusters[c] = u.clusters[c]
    BY <2>4, StoredFacts
  <2> HIDE DEF w
  <2>8. \A c \in Clusters \ ToSet(cs) : w.fat[c] = v.fat[c] /\ w.clusters[c] = v.clusters[c]
    BY <2>4, <2>7
  <2>9. FilesKept(v, data, w)
    <3>1. \A c \in data : v.fat[c] # Free => w.fat[c] = v.fat[c] /\ w.clusters[c] = v.clusters[c]
      BY <1>1, <2>3, <2>8
    <3>2. QED
      BY <2>7, <3>1, FilesStay
  <2>10. FilesStayHeads(v, data, w, data)
    <3>1. ASSUME NEW h, FileHead(v, data, h), h # 0 PROVE FileHead(w, data, h)
      <4>1. h \in data /\ h \in Clusters /\ NoPred(v.fat, h) /\ v.fat[h] # Free
        BY <1>1, <3>1 DEF FileHead
      <4>2. h \notin ToSet(cs) /\ w.fat[h] = v.fat[h] /\ NoPred(w.fat, h)
        BY <2>3, <2>5, <2>7, <2>8, <4>1
      <4>3. QED
        BY <4>1, <4>2 DEF FileHead
    <3>2. QED
      BY <3>1 DEF FilesStayHeads, FileHead
  <2>11. DirsChanged(v, data, w, target)
    <3>1. \A q \in AllPlaces : q[1] \notin data => SlotAt(w, q) = SlotAt(v, q)
      BY <2>3, <2>8 DEF SlotAt, AllPlaces
    <3>2. QED
      BY <2>3, <2>8, <3>1 DEF DirsChanged
  <2>12. OthersKept(v, data, w, target)
    <3>1. \A dir : \A name \in Names :
            DirHead(v, data, dir) /\ (dir # cwd \/ name # target) => FindKept(v, w, dir, name)
      BY <2>7, <2>11, DirsFindKept
    <3>2. QED
      BY <2>9, <3>1, KeptFrom
  <2>13. QED
    BY <2>6, <2>9, <2>10, <2>12 DEF Kept, w, u
<1>4. QED
  BY <1>2, <1>3

(* Where the name is found in the shell's directory.                       *)
LEMMA FoundHere ==
  ASSUME NEW v, NEW data, VolumeSound(v, data), DirHead(v, data, cwd), NEW name,
         Found(v, cwd, name)
  PROVE  /\ FindEntry(v, cwd, name)[1] \in ToSet(Chain(v.fat, cwd))
         /\ Called(SlotAt(v, FindEntry(v, cwd, name)), name)
<1>1. v \in Volumes
  BY DEF VolumeSound
<1>2. PICK k \in DOMAIN Places(v, cwd) :
        IsFirst(v, cwd, name, k) /\ FindEntry(v, cwd, name) = Places(v, cwd)[k]
  BY <1>1, FindFacts
<1>3. QED
  BY <1>1, <1>2, PlacesFacts DEF IsFirst

(* The size, last, in the entry that is found under the name.              *)
LEMMA SetSizeKept ==
  ASSUME NEW v, NEW data, VolumeSound(v, data), DirHead(v, data, cwd), NEW name \in Names,
         NEW size \in Sizes
  PROVE  Kept(v, data, SetSize(v, name, size), data, name)
<1> DEFINE p == FindEntry(v, cwd, name)
           e == SlotAt(v, p)
           f == [e EXCEPT !.size = size]
<1>1. CASE p = <<>>
  <2>1. SetSize(v, name, size) = v
    BY <1>1 DEF SetSize
  <2>2. QED
    BY <2>1, KeptSame
<1>2. CASE p # <<>>
  <2>1. Found(v, cwd, name)
    BY <1>2 DEF Found
  <2>2. /\ p \in AllPlaces /\ p[1] \notin data /\ EntryAt(v, p) /\ e \in Entries /\ e.name = name
        /\ p[1] \in ToSet(Chain(v.fat, cwd)) /\ Called(e, name)
    BY <2>1, FoundEntry, FoundHere
  <2>3. SetSize(v, name, size) = SetSlot(v, p, f)
    BY <1>2 DEF SetSize
  <2> HIDE DEF p
  <2>4. NamedAt(v, p) /\ EntryFits(v, data, e)
    BY <2>2 DEF NamedAt, VolumeSound, EntriesFit
  <2>5. \A q \in AllPlaces : q # p /\ NamedAt(v, q) /\ SlotAt(v, q).first = e.first
          => e.first = 0
    BY <2>2, <2>4 DEF VolumeSound, FirstsDiffer
  <2> HIDE DEF e
  <2>6. f \in Entries /\ f.name = name /\ f.first = e.first /\ f.dir = e.dir
    BY <2>2 DEF Entries
  <2> HIDE DEF f
  <2>7. f \in Slot /\ f # Never
    BY <2>6, SlotKinds
  <2>8. EntryFits(v, data, f)
    BY <2>4, <2>6 DEF EntryFits
  <2>9. /\ f.name \in Names
        /\ \A q \in AllPlaces : q # p /\ NamedAt(v, q) /\ SlotAt(v, q).first = f.first
             => f.first = 0
    BY <2>5, <2>6
  <2>10. Changed(SlotAt(v, p), f, name)
    BY <2>2, <2>6, <2>7 DEF Changed, e
  <2>11. Kept(v, data, SetSlot(v, p, f), data, name)
    BY <2>2, <2>7, <2>8, <2>9, <2>10, PutKept
  <2>12. QED
    BY <2>3, <2>11
<1>3. QED
  BY <1>1, <1>2

(* delete_file.                                                            *)
LEMMA MarkDeletedKept ==
  ASSUME NEW v, NEW data, VolumeSound(v, data), DirHead(v, data, cwd), NEW name
  PROVE  Kept(v, data, MarkDeleted(v, cwd, name), data, name)
<1> DEFINE p == FindEntry(v, cwd, name)
<1>1. CASE ~Found(v, cwd, name)
  BY <1>1, KeptSame DEF MarkDeleted
<1>2. CASE Found(v, cwd, name)
  <2>1. p \in AllPlaces /\ p[1] \in ToSet(Chain(v.fat, cwd)) /\ Called(SlotAt(v, p), name)
    BY <1>2, FoundEntry, FoundHere
  <2>2. MarkDeleted(v, cwd, name) = SetSlot(v, p, Deleted)
    BY <1>2 DEF MarkDeleted
  <2> HIDE DEF p
  <2>3. Deleted \in Slot /\ Deleted.kind # "entry" /\ Deleted # Never
    BY SlotKinds
  <2>4. Changed(SlotAt(v, p), Deleted, name)
    BY <2>1, <2>3 DEF Changed
  <2>5. Kept(v, data, SetSlot(v, p, Deleted), data, name)
    BY <2>1, <2>3, <2>4, PutKept
  <2>6. QED
    BY <2>2, <2>5
<1>3. QED
  BY <1>1, <1>2

(* write_file over an old file: no other is read from what is freed.       *)
LEMMA WithoutOldKept ==
  ASSUME NEW v, NEW data, VolumeSound(v, data), DirHead(v, data, cwd), NEW name \in Names,
         Found(v, cwd, name) => ~EntryOf(v, cwd, name).dir
  PROVE  OthersKept(v, data, WithoutOld(v, name), name)
<1>1. CASE ~Found(v, cwd, name)
  <2>1. WithoutOld(v, name) = v
    BY <1>1 DEF WithoutOld
  <2>2. QED
    BY <2>1, KeptSame DEF Kept
<1>2. CASE Found(v, cwd, name)
  <2> DEFINE p == FindEntry(v, cwd, name)
             e == EntryOf(v, cwd, name)
             C == ToSet(Chain(v.fat, e.first))
             u == FreeChain(v, e.first)
             w == SetSlot(u, p, Deleted)
  <2>1. /\ p \in AllPlaces /\ p[1] \in Clusters \ data /\ EntryAt(v, p) /\ NamedAt(v, p)
        /\ e = SlotAt(v, p) /\ e.name = name
        /\ p[1] \in ToSet(Chain(v.fat, cwd)) /\ Called(SlotAt(v, p), name)
    BY <1>2, FoundEntry, FoundHere DEF NamedAt
  <2>2. FileHead(v, data, e.first)
    BY <1>2, FoundFile
  <2> HIDE DEF p, e
  <2>3. e.first = 0 \/ e.first \in data
    BY <2>2 DEF FileHead
  <2>4. v \in Volumes /\ v.fat \in Fats /\ FatSound(v.fat) /\ data \subseteq Clusters
    BY DEF VolumeSound, Volumes, DataApart
  <2>5. /\ u \in Volumes /\ u.clusters = v.clusters /\ Chain(u.fat, cwd) = Chain(v.fat, cwd)
        /\ \A c \in Clusters \ data : u.fat[c] = v.fat[c]
    BY <2>3, FreedSamePlaces
  <2>6. \A c \in Clusters : c \notin C => u.fat[c] = v.fat[c]
    BY <2>4, FreeChainFacts
  <2> HIDE DEF u
  <2>7. WithoutOld(v, name) = w
    <3>1. WithoutOld(v, name) = MarkDeleted(u, cwd, name)
      BY <1>2 DEF WithoutOld, u, e
    <3>2. FindEntry(u, cwd, name) = p /\ Found(u, cwd, name)
      BY <1>2, <2>5, SameFind DEF p
    <3>3. QED
      BY <3>1, <3>2 DEF MarkDeleted
  <2>8. /\ w \in Volumes /\ w.fat = u.fat /\ SlotAt(w, p) = Deleted
        /\ \A q \in AllPlaces : q # p => SlotAt(w, q) = SlotAt(v, q)
        /\ \A c \in Clusters : c # p[1] => w.clusters[c] = v.clusters[c]
    <3>1. \A q : SlotAt(u, q) = SlotAt(v, q)
      BY <2>5 DEF SlotAt
    <3>2. QED
      BY <2>1, <2>5, <3>1, SetSlotFacts, SlotKinds
  <2> HIDE DEF w
  <2>9. DirsChanged(v, data, w, name)
    <3>1. Changed(SlotAt(v, p), SlotAt(w, p), name)
      BY <2>1, <2>8, SlotKinds DEF Changed
    <3>2. QED
      BY <2>1, <2>5, <2>8, <3>1 DEF DirsChanged
  <2>10. ASSUME NEW dir, NEW other \in Names, DirHead(v, data, dir), dir # cwd \/ other # name,
                Found(v, dir, other), ~EntryOf(v, dir, other).dir
         PROVE  FileKept(v, w, EntryOf(v, dir, other).first)
    <3> DEFINE q == FindEntry(v, dir, other)
               g == EntryOf(v, dir, other)
               D == ToSet(Chain(v.fat, g.first))
    <3>1. /\ q \in AllPlaces /\ EntryAt(v, q) /\ g = SlotAt(v, q) /\ g.name = other
      BY <2>10, FoundEntry
    <3>2. q # p
      <4>1. CASE dir = cwd
        BY <2>1, <2>10, <3>1, <4>1
      <4>2. CASE dir # cwd
        <5>1. q[1] \in ToSet(Chain(v.fat, dir))
          <6>1. PICK k \in DOMAIN Places(v, dir) : q = Places(v, dir)[k]
            BY <2>4, <2>10, FindFacts
          <6>2. QED
            BY <2>4, <6>1, PlacesFacts
        <5>2. QED
          BY <2>1, <2>10, <4>2, <5>1, DirsApart
      <4>3. QED
        BY <4>1, <4>2
    <3>3. g.first # e.first \/ g.first = 0
      BY <2>1, <3>1, <3>2 DEF VolumeSound, FirstsDiffer, NamedAt
    <3>4. FileHead(v, data, g.first)
      BY <2>10, FoundFile
    <3> HIDE DEF q, g
    <3>5. D \cap C = {}
      <4>1. CASE g.first = 0 \/ e.first = 0
        BY <2>4, <4>1, ChainEmpty, Numbers DEF Free
      <4>2. CASE g.first # 0 /\ e.first # 0
        <5>1. NoPred(v.fat, g.first) /\ NoPred(v.fat, e.first) /\ g.first # e.first
          BY <2>2, <3>3, <3>4, <4>2 DEF FileHead
        <5>2. QED
          BY <2>4, <5>1, ChainsApart
      <4>3. QED
        BY <4>1, <4>2
    <3>6. \A c \in D : c \in data
      BY <3>4, FileHeadChain
    <3> HIDE DEF D
    <3>7. \A c \in D : w.fat[c] = v.fat[c] /\ w.clusters[c] = v.clusters[c]
      BY <2>1, <2>4, <2>6, <2>8, <3>5, <3>6
    <3>8. FileKept(v, w, g.first)
      BY <2>8, <3>4, <3>7, FileSame DEF D
    <3>9. QED
      BY <3>8 DEF g
  <2>11. \A dir : \A other \in Names :
           DirHead(v, data, dir) /\ (dir # cwd \/ other # name) => FindKept(v, w, dir, other)
    BY <2>8, <2>9, DirsFindKept
  <2>12. OthersKept(v, data, w, name)
    BY <2>10, <2>11 DEF OthersKept, EntryKept
  <2>13. QED
    BY <2>7, <2>12
<1>3. QED
  BY <1>1, <1>2

LEMMA SomeFirstFree ==
  ASSUME NEW v, FreeClusters(v) # <<>>
  PROVE  FreeClusters(v)[1] \in Clusters /\ v.fat[FreeClusters(v)[1]] = Free
<1>1. Len(FreeClusters(v)) # 0 /\ Len(FreeClusters(v)) \in Nat
  BY FreeClustersFacts, EmptySeq
<1>2. 1 \in 1 .. Len(FreeClusters(v))
  BY <1>1
<1>3. QED
  BY <1>2, FreeClustersFacts

(* create_dir, up to the entry: a free cluster becomes a directory.        *)
DotRow(c) == Row(<<Entry(".", TRUE, c), Entry("..", TRUE, cwd)>>)

DirMade(v, c) == [Linked(v, <<c>>) EXCEPT !.clusters[c] = DotRow(c)]

LEMMA DirPrepared ==
  ASSUME NEW v, NEW data, VolumeSound(v, data), DirHead(v, data, cwd), NEW name \in Names,
         NEW c \in Clusters, v.fat[c] = Free
  PROVE  /\ Kept(v, data, DirMade(v, c), data \ {c}, name)
         /\ DirMade(v, c).clusters[c] = DotRow(c)
         /\ DirsChanged(v, data, DirMade(v, c), name)
         /\ \A p \in AllPlaces : p[1] # c => SlotAt(DirMade(v, c), p) = SlotAt(v, p)
         /\ NewEntry(DirMade(v, c), data \ {c}, Entry(name, TRUE, c))
<1> DEFINE rows == DotRow(c)
           u == Linked(v, <<c>>)
           w == [u EXCEPT !.clusters[c] = rows]
           entry == Entry(name, TRUE, c)
<1>1. c \in Clusters /\ v.fat[c] = Free
  OBVIOUS
<1>2. /\ c \in data /\ c # RootCluster /\ c # 0 /\ NoPred(v.fat, c)
      /\ \A p \in AllPlaces : NamedAt(v, p) => SlotAt(v, p).first # c
  BY <1>1, FreeCluster
<1>3. FreshChain(<<c>>) /\ <<c>>[1] = c /\ Len(<<c>>) = 1 /\ ToSet(<<c>>) = {c}
  BY <1>1, FreshSingle
<1>4. v \in Volumes /\ FatSound(v.fat) /\ data \subseteq Clusters
  BY DEF VolumeSound, DataApart
<1>5. VolumeSound(u, data) /\ HeadsStay(v, data, u, data)
  <2>1. SortOf(data, <<c>>) = data
    BY <1>2, <1>3 DEF SortOf
  <2>2. \A i \in 2 .. Len(<<c>>) : v.fat[<<c>>[i]] = Free
    BY <1>3
  <2>3. v.fat[<<c>>[1]] = IF <<c>>[1] \in data THEN Free ELSE EndOfChain
    BY <1>1, <1>2, <1>3
  <2>4. /\ VolumeSound(u, SortOf(data, <<c>>))
        /\ HeadsStay(v, data, u, SortOf(data, <<c>>))
    BY <1>3, <2>2, <2>3, LinkSound
  <2>5. QED
    BY <2>1, <2>4
<1>6. /\ u.clusters = v.clusters /\ u.fat[c] = EndOfChain
      /\ \A d \in Clusters : d # c => u.fat[d] = v.fat[d]
  BY <1>3, <1>4, LinkedFacts
<1>7. \A h \in Clusters : NoPred(v.fat, h) /\ (h = c \/ v.fat[h] # Free) => NoPred(u.fat, h)
  <2>1. v.fat[<<c>>[1]] \notin Clusters /\ \A i \in 2 .. Len(<<c>>) : v.fat[<<c>>[i]] = Free
    BY <1>1, <1>3, Numbers
  <2>2. QED
    BY <1>3, <1>4, <2>1, LinkedSound
<1>8. \A p \in AllPlaces : NamedAt(u, p) => SlotAt(u, p).first # c
  BY <1>2, <1>6 DEF NamedAt, EntryAt, SlotAt
<1>9. DirHead(u, data, cwd)
  BY <1>5 DEF HeadsStay
<1> HIDE DEF u, rows
<1>10. BecomesDir(u, data, c, rows, w)
  <2>1. rows = Row(<<Entry(".", TRUE, c), Entry("..", TRUE, cwd)>>)
    BY DEF rows, DotRow
  <2>2. NoPred(u.fat, c)
    BY <1>1, <1>2, <1>7
  <2>3. QED
    BY <1>2, <1>5, <1>6, <1>8, <1>9, <2>1, <2>2, NewDirSound
<1>11. \A p \in AllPlaces : NamedAt(w, p) => SlotAt(w, p).first # c
  <2>1. ASSUME NEW p \in AllPlaces, NamedAt(w, p) PROVE SlotAt(w, p).first # c
    <3>1. p[1] # c
      <4>1. SUFFICES ASSUME p[1] = c PROVE FALSE
        OBVIOUS
      <4>2. w.clusters[c] = rows
        BY <1>10 DEF BecomesDir
      <4>3. p[2] \in 1 .. SlotsPerCluster /\ SlotAt(w, p) = rows[p[2]]
        BY <4>1, <4>2 DEF SlotAt, AllPlaces
      <4>4. QED
        BY <1>10, <2>1, <4>3 DEF NamedAt, EntryAt, BecomesDir
    <3>2. SlotAt(w, p) = SlotAt(u, p) /\ NamedAt(u, p)
      BY <1>10, <2>1, <3>1 DEF NamedAt, EntryAt, BecomesDir
    <3>3. QED
      BY <1>8, <3>2
  <2>2. QED
    BY <2>1
<1>12. DirHead(w, data \ {c}, cwd)
  BY <1>9, <1>10 DEF HeadsStay, BecomesDir
<1>13. w.fat = u.fat /\ \A d \in Clusters : d # c => w.clusters[d] = v.clusters[d]
  <2>1. u \in Volumes
    BY <1>5 DEF VolumeSound
  <2>2. \A d \in Clusters : d # c => w.clusters[d] = u.clusters[d]
    BY <2>1 DEF Volumes
  <2>3. QED
    BY <1>6, <1>10, <2>2 DEF BecomesDir
<1> HIDE DEF w
<1>14. DirsChanged(v, data, w, name)
  <2>1. \A q \in AllPlaces : q[1] \notin data => SlotAt(w, q) = SlotAt(v, q)
    BY <1>2, <1>13 DEF SlotAt, AllPlaces
  <2>2. QED
    BY <1>2, <1>6, <1>13, <2>1 DEF DirsChanged
<1>15. Kept(v, data, w, data \ {c}, name)
  <2>1. VolumeSound(w, data \ {c}) /\ w \in Volumes /\ HeadsStay(v, data, w, data \ {c})
    BY <1>5, <1>10 DEF HeadsStay, BecomesDir, VolumeSound
  <2>2. FilesKept(v, data, w)
    <3>1. \A d \in data : v.fat[d] # Free => w.fat[d] = v.fat[d] /\ w.clusters[d] = v.clusters[d]
      BY <1>1, <1>4, <1>6, <1>13
    <3>2. QED
      BY <2>1, <3>1, FilesStay
  <2>3. FilesStayHeads(v, data, w, data \ {c})
    <3>1. ASSUME NEW h, FileHead(v, data, h), h # 0 PROVE FileHead(w, data \ {c}, h)
      <4>1. h \in data /\ h \in Clusters /\ NoPred(v.fat, h) /\ v.fat[h] # Free
        BY <1>4, <3>1 DEF FileHead
      <4>2. h # c /\ w.fat[h] = v.fat[h] /\ NoPred(w.fat, h)
        BY <1>1, <1>6, <1>7, <1>13, <4>1
      <4>3. QED
        BY <4>1, <4>2 DEF FileHead
    <3>2. QED
      BY <3>1 DEF FilesStayHeads, FileHead
  <2>4. OthersKept(v, data, w, name)
    <3>1. \A dir : \A other \in Names :
            DirHead(v, data, dir) /\ (dir # cwd \/ other # name) => FindKept(v, w, dir, other)
      BY <1>14, <2>1, DirsFindKept
    <3>2. QED
      BY <2>2, <3>1, KeptFrom
  <2>5. QED
    BY <2>1, <2>2, <2>3, <2>4 DEF Kept
<1>16. /\ entry \in Entries /\ entry.name = name /\ entry.first = c /\ entry.dir = TRUE
  BY <1>1 DEF Entry, Entries
<1> HIDE DEF entry
<1>17. NewEntry(w, data \ {c}, entry)
  <2>1. NoPred(w.fat, c) /\ w.fat[c] # Free
    BY <1>1, <1>2, <1>6, <1>7, <1>13, Numbers
  <2>2. EntryFits(w, data \ {c}, entry)
    BY <1>2, <1>16, <2>1 DEF EntryFits
  <2>3. QED
    BY <1>11, <1>16, <2>2 DEF NewEntry
<1>18. \A p \in AllPlaces : p[1] # c => SlotAt(w, p) = SlotAt(v, p)
  BY <1>13 DEF SlotAt, AllPlaces
<1>19. w.clusters[c] = rows
  BY <1>10 DEF BecomesDir
<1>20. DirMade(v, c) = w
  BY DEF DirMade, w, u, rows
<1>21. QED
  BY <1>14, <1>15, <1>17, <1>18, <1>19, <1>20 DEF rows, entry

(* create_dir.                                                             *)
LEMMA DirCreatedKept ==
  ASSUME NEW v, NEW data, VolumeSound(v, data), DirHead(v, data, cwd), NEW name \in Names
  PROVE  \E eata : Kept(v, data, DirCreated(v, name).volume, eata, name)
<1> DEFINE free == FreeClusters(v)
           c == free[1]
           w == DirMade(v, c)
           entry == Entry(name, TRUE, c)
<1>1. DirCreated(v, name) =
        IF free = <<>> THEN [ok |-> FALSE, volume |-> v] ELSE CreateEntry(w, cwd, entry)
  BY DEF DirCreated, DirMade, DotRow
<1>2. CASE free = <<>>
  <2>1. DirCreated(v, name).volume = v
    BY <1>1, <1>2
  <2>2. QED
    BY <2>1, KeptSame
<1>3. CASE free # <<>>
  <2>1. c \in Clusters /\ v.fat[c] = Free
    BY <1>3, SomeFirstFree
  <2> HIDE DEF c
  <2>2. Kept(v, data, w, data \ {c}, name) /\ NewEntry(w, data \ {c}, entry)
    BY <2>1, DirPrepared
  <2>3. entry.name = name
    BY DEF Entry
  <2> HIDE DEF w, entry
  <2>4. VolumeSound(w, data \ {c}) /\ DirHead(w, data \ {c}, cwd)
    BY <2>2 DEF Kept, HeadsStay
  <2>5. PICK eata : Kept(w, data \ {c}, CreateEntry(w, cwd, entry).volume, eata, entry.name)
    BY <2>2, <2>4, CreateKept
  <2>6. Kept(v, data, CreateEntry(w, cwd, entry).volume, eata, name)
    BY <2>2, <2>3, <2>5, KeptOnward
  <2>7. DirCreated(v, name).volume = CreateEntry(w, cwd, entry).volume
    BY <1>1, <1>3
  <2>8. QED
    BY <2>6, <2>7
<1>4. QED
  BY <1>2, <1>3

(***************************************************************************)
(* write_file, up to the entry: what it takes and stores, and the entry it *)
(* is about to make.                                                       *)
(***************************************************************************)
Taken(v, name, size) ==
  LET free == FreeClusters(WithoutOld(v, name))
  IN  SubSeq(free, 1, IF size < Len(free) THEN size ELSE Len(free))

StoredText(v, name, text, size) ==
  Stored(Linked(WithoutOld(v, name), Taken(v, name, size)), Taken(v, name, size), text)

FirstTaken(v, name, size) == IF size = 0 THEN 0 ELSE Taken(v, name, size)[1]

Enough(v, name, size) == ~(Len(FreeClusters(WithoutOld(v, name))) < size)

Made(v, name, text, size) ==
  CreateEntry(StoredText(v, name, text, size), cwd,
              Entry(name, FALSE, FirstTaken(v, name, size)))

Prepared(v, data, name, text, size) ==
  /\ VolumeSound(StoredText(v, name, text, size), data)
  /\ HeadsStay(v, data, StoredText(v, name, text, size), data)
  /\ OthersKept(v, data, StoredText(v, name, text, size), name)
  /\ VolumeSound(WithoutOld(v, name), data)
  /\ Taken(v, name, size) \in Seq(Clusters) /\ IsInjective(Taken(v, name, size))
  /\ \A i \in 1 .. Len(Taken(v, name, size)) :
       WithoutOld(v, name).fat[Taken(v, name, size)[i]] = Free
  /\ Enough(v, name, size) =>
       /\ Len(Taken(v, name, size)) = size
       /\ size # 0 => Taken(v, name, size) # <<>>
       /\ NewEntry(StoredText(v, name, text, size), data,
                   Entry(name, FALSE, FirstTaken(v, name, size)))
       /\ FileHead(StoredText(v, name, text, size), data, FirstTaken(v, name, size))

LEMMA WrittenIs ==
  ASSUME NEW v, NEW name, NEW text, NEW size
  PROVE  /\ ~Enough(v, name, size) =>
              /\ Written(v, name, text, size).ok = FALSE
              /\ Written(v, name, text, size).volume = StoredText(v, name, text, size)
         /\ Enough(v, name, size) =>
              /\ Written(v, name, text, size).ok = Made(v, name, text, size).ok
              /\ Written(v, name, text, size).volume =
                   IF Made(v, name, text, size).ok
                   THEN SetSize(Made(v, name, text, size).volume, name, size)
                   ELSE Made(v, name, text, size).volume
<1> DEFINE made == Made(v, name, text, size)
           stored == StoredText(v, name, text, size)
<1>1. Written(v, name, text, size) =
        IF ~Enough(v, name, size) THEN [ok |-> FALSE, volume |-> stored]
        ELSE [made EXCEPT !.volume = IF made.ok THEN SetSize(@, name, size) ELSE @]
  BY DEF Written, Made, StoredText, Taken, FirstTaken, Enough
<1>2. PICK o, x : made = [ok |-> o, volume |-> x]
  BY DEF Made, CreateEntry
<1> HIDE DEF made, stored
<1>3. made.ok = o /\ made.volume = x
  BY <1>2
<1>4. /\ [made EXCEPT !.volume = IF made.ok THEN SetSize(@, name, size) ELSE @].ok = made.ok
      /\ [made EXCEPT !.volume = IF made.ok THEN SetSize(@, name, size) ELSE @].volume
           = IF made.ok THEN SetSize(made.volume, name, size) ELSE made.volume
  BY <1>2, <1>3
<1>5. CASE ~Enough(v, name, size)
  <2>1. Written(v, name, text, size) = [ok |-> FALSE, volume |-> stored]
    BY <1>1, <1>5
  <2>2. /\ Written(v, name, text, size).ok = FALSE
        /\ Written(v, name, text, size).volume = stored
    BY <2>1
  <2>3. QED
    BY <1>5, <2>2 DEF stored
<1>6. CASE Enough(v, name, size)
  <2>1. Written(v, name, text, size) =
          [made EXCEPT !.volume = IF made.ok THEN SetSize(@, name, size) ELSE @]
    BY <1>1, <1>6
  <2>2. /\ Written(v, name, text, size).ok = made.ok
        /\ Written(v, name, text, size).volume
             = IF made.ok THEN SetSize(made.volume, name, size) ELSE made.volume
    BY <1>4, <2>1
  <2>3. QED
    BY <1>6, <2>2 DEF made
<1>7. QED
  BY <1>5, <1>6

LEMMA WritePrepared ==
  ASSUME NEW v, NEW data, VolumeSound(v, data), DirHead(v, data, cwd), NEW name \in Names,
         Found(v, cwd, name) => ~EntryOf(v, cwd, name).dir,
         NEW text \in Texts, NEW size \in Sizes
  PROVE  Prepared(v, data, name, text, size)
<1> DEFINE cleared == WithoutOld(v, name)
           free    == FreeClusters(cleared)
           k       == IF size < Len(free) THEN size ELSE Len(free)
           taken   == Taken(v, name, size)
           stored  == StoredText(v, name, text, size)
           first   == FirstTaken(v, name, size)
           entry   == Entry(name, FALSE, first)
<1>1. size \in Nat /\ Len(free) \in Nat /\ k \in 0 .. Len(free)
  BY Fat32Assumption, FreeClustersFacts
<1>2. /\ VolumeSound(cleared, data) /\ HeadsStay(v, data, cleared, data)
      /\ OthersKept(v, data, cleared, name)
  BY WithoutOldSound, WithoutOldKept
<1>3. /\ taken = SubSeq(free, 1, k)
      /\ stored = Stored(Linked(cleared, taken), taken, text)
      /\ first = IF size = 0 THEN 0 ELSE taken[1]
      /\ Enough(v, name, size) <=> ~(Len(free) < size)
  BY DEF Taken, StoredText, FirstTaken, Enough
<1> HIDE DEF taken, stored, first
<1>4. /\ taken \in Seq(Clusters) /\ IsInjective(taken) /\ Len(taken) = k
      /\ \A i \in 1 .. Len(taken) : cleared.fat[taken[i]] = Free
  BY <1>1, <1>3, SomeFree
<1>5. Enough(v, name, size) => k = size
  BY <1>1, <1>3
<1> HIDE DEF k, free
<1> HIDE DEF cleared
<1>6. DirHead(cleared, data, cwd)
  BY <1>2 DEF HeadsStay
<1>7. /\ VolumeSound(stored, data) /\ HeadsStay(cleared, data, stored, data)
      /\ taken # <<>> =>
           /\ taken[1] \in data \ {RootCluster}
           /\ stored.fat[taken[1]] # Free
           /\ NoPred(stored.fat, taken[1])
           /\ \A p \in AllPlaces : NamedAt(stored, p) => SlotAt(stored, p).first # taken[1]
  BY ZenonT(60), <1>2, <1>3, <1>4, StoreSound
<1>8. Kept(cleared, data, stored, data, name)
  BY <1>2, <1>3, <1>4, <1>6, StoreKept
<1>9. HeadsStay(v, data, stored, data)
  BY <1>2, <1>7 DEF HeadsStay
<1>10. OthersKept(v, data, stored, name)
  BY <1>2, <1>8, KeptTrans DEF Kept
<1>11. Enough(v, name, size) =>
         /\ Len(taken) = size
         /\ size # 0 => taken # <<>>
         /\ NewEntry(stored, data, entry)
         /\ FileHead(stored, data, first)
  <2>1. SUFFICES ASSUME Enough(v, name, size)
                 PROVE  /\ Len(taken) = size
                        /\ size # 0 => taken # <<>>
                        /\ NewEntry(stored, data, entry)
                        /\ FileHead(stored, data, first)
    OBVIOUS
  <2>2. Len(taken) = size /\ (size # 0 => taken # <<>>)
    BY <1>4, <1>5, <2>1
  <2>3. data \subseteq Clusters
    BY <1>7 DEF VolumeSound, DataApart
  <2>4. first = 0 \/ (size # 0 /\ first = taken[1])
    BY <1>3
  <2>5. first \in {0} \cup Clusters
    BY <1>7, <2>2, <2>3, <2>4
  <2>6. /\ entry \in Entries /\ entry.name \in Names /\ entry.first = first
        /\ entry.dir = FALSE
    BY <2>5 DEF Entry, Entries
  <2> HIDE DEF entry
  <2>7. CASE first = 0
    <3>1. EntryFits(stored, data, entry)
      BY <2>6, <2>7 DEF EntryFits
    <3>2. QED
      BY <2>2, <2>6, <2>7, <3>1 DEF NewEntry, FileHead
  <2>8. CASE first # 0
    <3>1. /\ first \in data \ {RootCluster} /\ stored.fat[first] # Free
          /\ NoPred(stored.fat, first)
          /\ \A p \in AllPlaces : NamedAt(stored, p) => SlotAt(stored, p).first # first
      BY <1>7, <2>2, <2>4, <2>8
    <3>2. EntryFits(stored, data, entry)
      BY <2>6, <2>8, <3>1 DEF EntryFits
    <3>3. QED
      BY <2>2, <2>6, <3>1, <3>2 DEF NewEntry, FileHead
  <2>9. QED
    BY <2>7, <2>8
<1>12. QED
  BY <1>2, <1>4, <1>7, <1>9, <1>10, <1>11 DEF Prepared, cleared, taken, stored, first

(* write_file.                                                             *)
LEMMA WrittenKept ==
  ASSUME NEW v, NEW data, VolumeSound(v, data), DirHead(v, data, cwd), NEW name \in Names,
         Found(v, cwd, name) => ~EntryOf(v, cwd, name).dir,
         NEW text \in Texts, NEW size \in Sizes
  PROVE  \E eata : /\ VolumeSound(Written(v, name, text, size).volume, eata)
                   /\ HeadsStay(v, data, Written(v, name, text, size).volume, eata)
                   /\ OthersKept(v, data, Written(v, name, text, size).volume, name)
<1> DEFINE w      == Written(v, name, text, size).volume
           stored == StoredText(v, name, text, size)
           entry  == Entry(name, FALSE, FirstTaken(v, name, size))
           m      == Made(v, name, text, size).volume
           z      == SetSize(m, name, size)
<1>1. Prepared(v, data, name, text, size)
  BY WritePrepared
<1>2. /\ VolumeSound(stored, data) /\ HeadsStay(v, data, stored, data)
      /\ OthersKept(v, data, stored, name)
      /\ Enough(v, name, size) => NewEntry(stored, data, entry)
  BY <1>1 DEF Prepared
<1>3. DirHead(stored, data, cwd)
  BY <1>2 DEF HeadsStay
<1>4. CASE ~Enough(v, name, size)
  BY <1>2, <1>4, WrittenIs
<1>5. CASE Enough(v, name, size)
  <2>1. w = z \/ w = m
    BY <1>5, WrittenIs
  <2>2. m = CreateEntry(stored, cwd, entry).volume /\ entry.name = name
    BY DEF Made, Entry
  <2> HIDE DEF stored, entry, m
  <2>3. PICK eata : Kept(stored, data, m, eata, name)
    BY <1>2, <1>3, <1>5, <2>2, CreateKept
  <2>4. /\ VolumeSound(m, eata) /\ HeadsStay(v, data, m, eata) /\ DirHead(m, eata, cwd)
    BY <1>2, <1>3, <2>3 DEF Kept, HeadsStay
  <2>5. OthersKept(v, data, m, name)
    BY <1>2, <2>3, KeptTrans DEF Kept
  <2>6. Kept(m, eata, z, eata, name)
    BY <2>4, SetSizeKept
  <2>7. /\ VolumeSound(z, eata) /\ HeadsStay(v, data, z, eata)
    BY <2>4, <2>6 DEF Kept, HeadsStay
  <2>8. OthersKept(v, data, z, name)
    BY <2>4, <2>5, <2>6, KeptTrans DEF Kept
  <2> HIDE DEF w, z
  <2>9. QED
    BY <2>1, <2>4, <2>5, <2>7, <2>8 DEF w
<1>6. QED
  BY <1>4, <1>5

(* cd goes from place to place of a set that no component leaves.          *)
IsWalk(start, components, f) ==
  /\ f[0] = start
  /\ \A i \in 1 .. Len(components) :
       f[i] = IF f[i - 1].ok THEN Into(f[i - 1], components[i]) ELSE f[i - 1]
  /\ Walked(start, components) = f[Len(components)]

LEMMA WalkedIs ==
  ASSUME NEW S, NEW components \in Seq(S), NEW T, NEW start \in T,
         \A at \in T : at.ok => \A name \in S : Into(at, name) \in T
  PROVE  \E f \in [0 .. Len(components) -> T] : IsWalk(start, components, f)
<1> DEFINE n == Len(components)
           One(i, at) == IF at.ok THEN Into(at, components[i]) ELSE at
           next == [x \in (1 .. n) \X T |-> One(x[1], x[2])]
<1>1. n \in Nat /\ \A i \in 1 .. n : components[i] \in S
  BY LenProperties
<1>2. \A i \in 1 .. n : \A at \in T : One(i, at) \in T
  BY <1>1
<1> HIDE DEF One
<1>3. next \in [(1 .. n) \X T -> T]
  BY <1>2
<1>4. PICK at \in [0 .. n -> T] :
        at = [i \in 0 .. n |-> IF i = 0 THEN start ELSE next[<<i, at[i - 1]>>]]
  <2> HIDE DEF next, n
  <2>1. Iterated(n, T, start, next)
    BY <1>1, <1>3, Iteration
  <2>2. QED
    BY ONLY <2>1 DEF Iterated
<1>5. at = [i \in 0 .. n |-> IF i = 0 THEN start ELSE One(i, at[i - 1])]
  <2>1. \A i \in 0 .. n : i # 0 => next[<<i, at[i - 1]>>] = One(i, at[i - 1])
    <3>1. ASSUME NEW i \in 0 .. n, i # 0 PROVE <<i, at[i - 1]>> \in (1 .. n) \X T
      BY <1>1, <3>1
    <3>2. QED
      BY <3>1
  <2> HIDE DEF next, n
  <2>2. QED
    BY <1>4, <2>1
<1> DEFINE f == CHOOSE g : g = [i \in 0 .. n |-> IF i = 0 THEN start ELSE One(i, g[i - 1])]
<1>6. Walked(start, components) = f[n]
  BY DEF Walked, One
<1>7. f = [i \in 0 .. n |-> IF i = 0 THEN start ELSE One(i, f[i - 1])]
  BY <1>5
<1> HIDE DEF f
<1> DEFINE Good == {i \in Nat : i <= n => f[i] \in T}
<1>8. 0 \in Good
  BY <1>1, <1>7
<1>9. ASSUME NEW i \in Nat, i \in Good PROVE i + 1 \in Good
  <2>1. SUFFICES ASSUME i + 1 <= n PROVE f[i + 1] \in T
    OBVIOUS
  <2>2. f[i] \in T /\ i + 1 \in 0 .. n /\ i + 1 \in 1 .. n /\ (i + 1) - 1 = i /\ i + 1 # 0
    BY <1>1, <1>9, <2>1
  <2>3. f[i + 1] = One(i + 1, f[i])
    BY <1>7, <2>2
  <2>4. QED
    BY <1>2, <2>2, <2>3
<1>10. Nat \subseteq Good
  <2> HIDE DEF Good
  <2>1. QED
    BY <1>8, <1>9, Induction
<1>11. f \in [0 .. n -> T]
  <2>1. \A i \in 0 .. n : f[i] \in T
    BY <1>10
  <2>2. f = [i \in 0 .. n |-> f[i]]
    BY <1>7
  <2> HIDE DEF n
  <2>3. QED
    BY <2>1, <2>2
<1>12. f[0] = start /\ \A i \in 1 .. n : f[i] = One(i, f[i - 1])
  BY <1>1, <1>7
<1>13. IsWalk(start, components, f)
  BY <1>6, <1>12 DEF IsWalk, One
<1>14. QED
  BY <1>11, <1>13

LEMMA WalkedStays ==
  ASSUME NEW S, NEW components \in Seq(S), NEW T, NEW start \in T,
         \A at \in T : at.ok => \A name \in S : Into(at, name) \in T
  PROVE  Walked(start, components) \in T
<1>1. PICK f \in [0 .. Len(components) -> T] : IsWalk(start, components, f)
  BY WalkedIs
<1>2. Len(components) \in 0 .. Len(components)
  BY LenProperties
<1>3. QED
  BY <1>1, <1>2 DEF IsWalk

(* Where the shell can be, with the path it shows.                         *)
Seats(v, data) ==
  [ok : BOOLEAN, cwd : {h \in Clusters : DirHead(v, data, h)},
   path : {p \in Seq(Names) : Len(p) <= MaxDepth}]

(* A component of cd leads to the first cluster of a directory.            *)
LEMMA IntoSound ==
  ASSUME NEW data, VolumeSound(volume, data), NEW at \in Seats(volume, data),
         NEW name \in Names \cup {".."}
  PROVE  Into(at, name) \in Seats(volume, data)
<1> DEFINE e == EntryOf(volume, at.cwd, name)
           to == IF e.first = 0 THEN RootCluster ELSE e.first
           paths == {p \in Seq(Names) : Len(p) <= MaxDepth}
<1>1. /\ at = [ok |-> at.ok, cwd |-> at.cwd, path |-> at.path]
      /\ at.ok \in BOOLEAN /\ at.cwd \in Clusters /\ DirHead(volume, data, at.cwd)
      /\ at.path \in paths
  BY DEF Seats
<1>2. name # "." /\ (name = ".." \/ name \in Names) /\ ".." \notin Names
  BY Fat32Assumption
<1>3. DirHead(volume, data, RootCluster) /\ 0 \notin Clusters
  BY Numbers DEF VolumeSound, Free
<1>4. ASSUME Found(volume, at.cwd, name), name = ".." \/ e.dir
      PROVE  to \in Clusters /\ DirHead(volume, data, to)
  <2> DEFINE p == FindEntry(volume, at.cwd, name)
  <2>1. /\ p \in AllPlaces /\ EntryAt(volume, p) /\ e = SlotAt(volume, p)
        /\ e \in Entries /\ e.name = name
    BY <1>1, <1>4, FoundEntry
  <2> HIDE DEF p, e
  <2>2. e.first = 0 \/ e.first \in Clusters
    BY <2>1, SlotKinds
  <2>3. CASE name = ".."
    <3>1. ~NamedAt(volume, p)
      BY <1>2, <2>1, <2>3 DEF NamedAt
    <3>2. DirHead(volume, data, e.first)
      BY <2>1, <3>1 DEF VolumeSound, EntriesFit
    <3>3. QED
      BY <1>3, <3>2 DEF DirHead
  <2>4. CASE name \in Names
    <3>1. NamedAt(volume, p)
      BY <2>1, <2>4 DEF NamedAt
    <3>2. EntryFits(volume, data, e) /\ e.dir
      BY <1>2, <1>4, <2>1, <2>4, <3>1 DEF VolumeSound, EntriesFit
    <3>3. e.first # 0 => DirHead(volume, data, e.first)
      BY <2>2, <3>2 DEF EntryFits, DirHead
    <3>4. QED
      BY <1>3, <2>2, <3>3, Numbers
  <2>5. QED
    BY <1>2, <2>3, <2>4
<1>5. MaxDepth \in Nat
  BY DEF MaxDepth
<1>6. (IF at.path = <<>> THEN at.path ELSE Front(at.path)) \in paths
  <2>1. CASE at.path = <<>>
    BY <1>1, <2>1
  <2>2. CASE at.path # <<>>
    <3>1. at.path \in Seq(Names) /\ Len(at.path) \in Nat /\ Len(at.path) # 0
          /\ Len(at.path) <= MaxDepth
      BY <1>1, <2>2, EmptySeq, LenProperties
    <3> DEFINE k == Len(at.path) - 1
    <3>2. k \in Nat /\ \A i \in 1 .. k : at.path[i] \in Names
      BY <3>1
    <3>3. /\ SubSeq(at.path, 1, k) \in Seq(Names)
          /\ Len(SubSeq(at.path, 1, k)) = IF 1 <= k THEN k - 1 + 1 ELSE 0
      BY <3>2, SubSeqProperties
    <3>4. Len(SubSeq(at.path, 1, k)) <= MaxDepth
      BY <1>5, <3>1, <3>2, <3>3
    <3>5. QED
      BY <2>2, <3>3, <3>4 DEF Front
  <2>3. QED
    BY <2>1, <2>2
<1>7. name \in Names =>
        (IF Len(at.path) < MaxDepth THEN Append(at.path, name) ELSE at.path) \in paths
  <2>1. SUFFICES ASSUME name \in Names, Len(at.path) < MaxDepth
                 PROVE  Append(at.path, name) \in paths
    BY <1>1
  <2>2. at.path \in Seq(Names) /\ Len(at.path) \in Nat
    BY <1>1, LenProperties
  <2>3. Append(at.path, name) \in Seq(Names) /\ Len(Append(at.path, name)) = Len(at.path) + 1
    BY <2>1, <2>2, AppendProperties
  <2>4. QED
    BY <1>5, <2>1, <2>2, <2>3
<1> HIDE DEF paths, to, e
<1> DEFINE up   == IF at.path = <<>> THEN at.path ELSE Front(at.path)
           down == IF Len(at.path) < MaxDepth THEN Append(at.path, name) ELSE at.path
<1>8. \A p \in paths, c \in Clusters :
        DirHead(volume, data, c) => [at EXCEPT !.cwd = c, !.path = p] \in Seats(volume, data)
  BY DEF Seats, paths
<1>9. CASE name = ".."
  <2>1. Into(at, name) =
          IF at.cwd = RootCluster \/ ~Found(volume, at.cwd, name) THEN at
          ELSE [at EXCEPT !.cwd = to, !.path = up]
    BY <1>2, <1>9 DEF Into, to, e
  <2> HIDE DEF up
  <2>2. up \in paths
    BY <1>6 DEF up
  <2>3. Found(volume, at.cwd, name) => to \in Clusters /\ DirHead(volume, data, to)
    BY <1>4, <1>9
  <2>4. QED
    BY <1>8, <2>1, <2>2, <2>3
<1>10. CASE name \in Names
  <2>1. Into(at, name) =
          IF Found(volume, at.cwd, name) /\ e.dir
          THEN [at EXCEPT !.cwd = to, !.path = down]
          ELSE [at EXCEPT !.ok = FALSE]
    BY <1>2, <1>10 DEF Into, to, e
  <2>2. [at EXCEPT !.ok = FALSE] \in Seats(volume, data)
    BY DEF Seats
  <2> HIDE DEF down
  <2>3. QED
    BY ZenonT(60), <1>4, <1>7, <1>8, <1>10, <2>1, <2>2 DEF down
<1>11. QED
  BY <1>2, <1>9, <1>10

(* A volume just made: one directory, no entry.                            *)
LEMMA NewVolume ==
  ASSUME NEW v, v = Formatted([c \in Clusters |-> Row(<<>>)])
  PROVE  VolumeSound(v, Clusters \ {RootCluster})
<1> DEFINE data == Clusters \ {RootCluster}
           row == Row(<<>>)
           fat == [c \in Clusters |-> IF c = RootCluster THEN EndOfChain ELSE Free]
           rows == [[c \in Clusters |-> row] EXCEPT ![RootCluster] = row]
<1>1. row \in Rows /\ \A s \in 1 .. SlotsPerCluster : row[s] = Never
  <2>1. DOMAIN <<>> = {}
    OBVIOUS
  <2>2. row = [s \in 1 .. SlotsPerCluster |-> IF s \in {} THEN <<>>[s] ELSE Never]
    BY <2>1 DEF Row
  <2> HIDE DEF row
  <2>3. \A s \in 1 .. SlotsPerCluster : row[s] = Never
    BY <2>2
  <2>4. row \in [1 .. SlotsPerCluster -> Slot]
    BY <2>2, <2>3, SlotKinds
  <2>5. QED
    BY <2>3, <2>4 DEF Rows
<1>2. v = [fat |-> fat, clusters |-> rows]
  BY DEF Formatted
<1> HIDE DEF row
<1>3. rows \in [Clusters -> Rows] /\ \A c \in Clusters : rows[c] = row
  BY <1>1
<1>4. /\ fat \in Fats /\ fat[RootCluster] = EndOfChain
      /\ \A c \in Clusters : fat[c] \notin Clusters
      /\ \A c \in data : fat[c] = Free
  BY Numbers DEF Fats, Links
<1> HIDE DEF fat, rows
<1>5. v \in Volumes /\ v.fat = fat /\ v.clusters = rows
  BY <1>2, <1>3, <1>4 DEF Volumes
<1>6. \A p \in AllPlaces : ~EntryAt(v, p)
  <2>1. \A p \in AllPlaces : SlotAt(v, p) = Never
    BY <1>1, <1>3, <1>5 DEF SlotAt, AllPlaces
  <2>2. QED
    BY <2>1, SlotKinds DEF EntryAt
<1>7. FatSound(v.fat)
  BY <1>4, <1>5 DEF FatSound
<1>8. DataApart(v, data)
  BY <1>4, <1>5, <1>6, Numbers DEF DataApart
<1>9. DirHead(v, data, RootCluster)
  <2>1. NoPred(v.fat, RootCluster)
    BY <1>4, <1>5, Numbers DEF NoPred
  <2>2. QED
    BY <2>1, Numbers DEF DirHead
<1>10. EntriesFit(v, data) /\ FirstsDiffer(v)
  BY <1>6 DEF EntriesFit, FirstsDiffer, NamedAt
<1>11. QED
  BY <1>5, <1>7, <1>8, <1>9, <1>10 DEF VolumeSound

(* A volume that stays sound, with the shell where it was.                 *)
LEMMA Stays ==
  ASSUME NEW data, DirHead(volume, data, cwd),
         \E eata : VolumeSound(volume', eata) /\ HeadsStay(volume, data, volume', eata),
         cwd' = cwd
  PROVE  \E eata : VolumeSound(volume', eata) /\ DirHead(volume', eata, cwd')
BY DEF HeadsStay

(* write_file, create_dir and delete_file keep the inductive invariant.    *)
LEMMA CommandKeeps ==
  ASSUME Fat32Inv, CarefulCommand PROVE Fat32Inv'
<1>1. PICK data : VolumeSound(volume, data) /\ DirHead(volume, data, cwd)
  BY DEF Fat32Inv
<1>2. UNCHANGED <<mounted, cwd, path>>
  BY DEF CarefulCommand, WriteFile, CreateDir, DeleteFile
<1>3. PICK name \in Names :
        \/ /\ NoDirectory(name)
           /\ \E text \in Texts, size \in Sizes : WriteFile(name, text, size)
        \/ CreateDir(name)
        \/ DeleteFile(name)
  BY DEF CarefulCommand
<1>4. \E eata : VolumeSound(volume', eata) /\ HeadsStay(volume, data, volume', eata)
  <2>1. ASSUME NoDirectory(name), NEW text \in Texts, NEW size \in Sizes,
               WriteFile(name, text, size)
        PROVE  \E eata : VolumeSound(volume', eata) /\ HeadsStay(volume, data, volume', eata)
    <3>1. volume' = Written(volume, name, text, size).volume
      BY <2>1 DEF WriteFile
    <3>2. Found(volume, cwd, name) => ~EntryOf(volume, cwd, name).dir
      BY <2>1 DEF NoDirectory
    <3>3. QED
      BY <1>1, <3>1, <3>2, WrittenKept
  <2>2. CASE CreateDir(name)
    <3>1. volume' = DirCreated(volume, name).volume
      BY <2>2 DEF CreateDir
    <3>2. QED
      BY <1>1, <3>1, DirCreatedKept DEF Kept
  <2>3. CASE DeleteFile(name)
    <3>1. volume' = MarkDeleted(volume, cwd, name)
      BY <2>3 DEF DeleteFile
    <3>2. QED
      BY <1>1, <3>1, MarkDeletedKept DEF Kept
  <2>4. QED
    BY <1>3, <2>1, <2>2, <2>3
<1>5. \E eata : VolumeSound(volume', eata) /\ DirHead(volume', eata, cwd')
  BY <1>1, <1>2, <1>4, Stays
<1>6. QED
  BY <1>2, <1>5 DEF Fat32Inv

(* So does cd, which only moves the shell.                                 *)
LEMMA ComponentsType == \A components \in Components : components \in Seq(Names \cup {".."})
<1> DEFINE S == Names \cup {".."}
<1> SUFFICES ASSUME NEW components \in Components PROVE components \in Seq(S)
  OBVIOUS
<1>1. CASE components = <<>>
  BY <1>1
<1>2. ASSUME NEW m \in S, components = <<m>> PROVE components \in Seq(S)
  BY <1>2
<1>3. ASSUME NEW m \in Names, NEW n \in Names, components = <<m, n>>
      PROVE  components \in Seq(S)
  <2>1. m \in S /\ n \in S
    OBVIOUS
  <2> HIDE DEF S
  <2>2. <<m, n>> \in Seq(S)
    BY <2>1
  <2>3. QED
    BY <1>3, <2>2
<1>4. \/ components = <<>>
      \/ \E m \in S : components = <<m>>
      \/ \E m, n \in Names : components = <<m, n>>
  BY DEF Components
<1>5. QED
  BY <1>1, <1>2, <1>3, <1>4

LEMMA CdKeeps ==
  ASSUME Fat32Inv, CdCommand PROVE Fat32Inv'
<1>1. PICK data : VolumeSound(volume, data) /\ DirHead(volume, data, cwd)
  BY DEF Fat32Inv
<1>2. PICK absolute \in BOOLEAN, components \in Components : Cd(absolute, components)
  BY DEF CdCommand
<1> DEFINE start == [ok   |-> TRUE,
                     cwd  |-> IF absolute THEN RootCluster ELSE cwd,
                     path |-> IF absolute THEN <<>> ELSE path]
           end == Walked(start, components)
<1>3. components \in Seq(Names \cup {".."})
  BY <1>2, ComponentsType
<1>4. start \in Seats(volume, data)
  <2>1. <<>> \in Seq(Names) /\ Len(<<>>) = 0 /\ 0 <= MaxDepth
    BY DEF MaxDepth
  <2>2. path \in {p \in Seq(Names) : Len(p) <= MaxDepth}
    BY DEF Fat32Inv
  <2>3. RootCluster \in Clusters /\ cwd \in Clusters /\ DirHead(volume, data, RootCluster)
    BY <1>1, Numbers DEF DirHead, VolumeSound
  <2>4. QED
    BY <1>1, <2>1, <2>2, <2>3 DEF Seats
<1> HIDE DEF start
<1>5. end \in Seats(volume, data)
  BY <1>1, <1>3, <1>4, IntoSound, WalkedStays
<1>6. /\ cwd' = IF end.ok THEN end.cwd ELSE cwd
      /\ path' = IF end.ok THEN end.path ELSE path
      /\ UNCHANGED <<volume, mounted>>
  BY <1>2 DEF Cd, start
<1> HIDE DEF end
<1>7. /\ DirHead(volume, data, end.cwd)
      /\ end.path \in Seq(Names) /\ Len(end.path) <= MaxDepth
  BY <1>5 DEF Seats
<1>8. DirHead(volume, data, cwd')
  BY <1>1, <1>6, <1>7
<1>9. path' \in Seq(Names) /\ Len(path') <= MaxDepth
  BY <1>6, <1>7 DEF Fat32Inv
<1>10. VolumeSound(volume', data) /\ DirHead(volume', data, cwd') /\ mounted' \in BOOLEAN
  BY <1>1, <1>6, <1>8 DEF Fat32Inv
<1>11. QED
  BY <1>9, <1>10 DEF Fat32Inv

(* The inductive invariant.                                                *)
THEOREM Fat32Invariant == CarefulSpec => []Fat32Inv
<1>1. Fat32Init => Fat32Inv
  <2>1. SUFFICES ASSUME Fat32Init PROVE Fat32Inv
    OBVIOUS
  <2>2. VolumeSound(volume, Clusters \ {RootCluster})
    BY <2>1, NewVolume DEF Fat32Init
  <2>3. DirHead(volume, Clusters \ {RootCluster}, cwd)
    BY <2>1, <2>2 DEF Fat32Init, VolumeSound
  <2>4. mounted \in BOOLEAN /\ path \in Seq(Names) /\ Len(path) <= MaxDepth
    <3>1. <<>> \in Seq(Names) /\ Len(<<>>) = 0 /\ 0 <= MaxDepth
      BY DEF MaxDepth
    <3>2. mounted = FALSE /\ path = <<>>
      BY <2>1 DEF Fat32Init
    <3>3. QED
      BY <3>1, <3>2
  <2>5. QED
    BY <2>2, <2>3, <2>4 DEF Fat32Inv
<1>2. Fat32Inv /\ [CarefulNext]_vars => Fat32Inv'
  <2>1. SUFFICES ASSUME Fat32Inv, [CarefulNext]_vars PROVE Fat32Inv'
    OBVIOUS
  <2>2. PICK data : VolumeSound(volume, data) /\ DirHead(volume, data, cwd)
    BY <2>1 DEF Fat32Inv
  <2>3. CASE CarefulCommand
    BY <2>1, <2>3, CommandKeeps
  <2>4. CASE CdCommand
    BY <2>1, <2>4, CdKeeps
  <2>5. CASE Mount
    <3>1. volume' = volume /\ cwd' = RootCluster /\ mounted' = TRUE /\ path' = <<>>
      BY <2>5 DEF Mount
    <3>2. DirHead(volume, data, RootCluster)
      BY <2>2 DEF VolumeSound
    <3>3. path' \in Seq(Names) /\ Len(path') <= MaxDepth
      BY <3>1 DEF MaxDepth
    <3>4. VolumeSound(volume', data) /\ DirHead(volume', data, cwd') /\ mounted' \in BOOLEAN
      BY <2>2, <3>1, <3>2
    <3>5. QED
      BY <3>3, <3>4 DEF Fat32Inv
  <2>6. CASE Unmount
    BY <2>1, <2>6 DEF Unmount, Fat32Inv
  <2>7. CASE UNCHANGED vars
    BY <2>1, <2>7 DEF vars, Fat32Inv
  <2>8. QED
    BY <2>1, <2>3, <2>4, <2>5, <2>6, <2>7 DEF CarefulNext
<1>3. QED
  BY <1>1, <1>2, PTL DEF CarefulSpec

(* Every variable stays in its range.                                      *)
THEOREM Fat32TypeCorrect == CarefulSpec => []Fat32TypeOK
<1>1. Fat32Inv => Fat32TypeOK
  <2>1. SUFFICES ASSUME Fat32Inv PROVE Fat32TypeOK
    OBVIOUS
  <2>2. PICK data : VolumeSound(volume, data) /\ DirHead(volume, data, cwd)
    BY <2>1 DEF Fat32Inv
  <2>3. volume.fat \in Fats /\ volume.clusters \in [Clusters -> Rows] /\ cwd \in Clusters
    BY <2>2 DEF VolumeSound, Volumes, DirHead
  <2>4. QED
    BY <2>1, <2>3 DEF Fat32Inv, Fat32TypeOK, Fats, Links, Rows
<1>2. QED
  BY <1>1, Fat32Invariant, PTL

(* No cluster belongs to two files or directories, and none in use is      *)
(* free.                                                                   *)
LEMMA TreeNamed ==
  ASSUME NEW v \in Volumes, NEW p \in Tree(v)
  PROVE  p \in AllPlaces /\ NamedAt(v, p)
<1>1. PICK dir : p \in EntryPlaces(v, dir)
  BY DEF Tree
<1>2. PICK j \in DOMAIN Places(v, dir) :
        /\ p = Places(v, dir)[j]
        /\ SlotAt(v, Places(v, dir)[j]).kind = "entry"
        /\ SlotAt(v, Places(v, dir)[j]).name \in Names
  BY <1>1 DEF EntryPlaces
<1>3. p \in AllPlaces
  BY <1>2, PlacesFacts
<1>4. QED
  BY <1>2, <1>3 DEF NamedAt, EntryAt

LEMMA NoLinksCross ==
  ASSUME Fat32Inv PROVE NoCrossLinks
<1>1. PICK data : VolumeSound(volume, data)
  BY DEF Fat32Inv
<1>2. /\ volume \in Volumes /\ volume.fat \in Fats /\ FatSound(volume.fat)
      /\ DirHead(volume, data, RootCluster)
  BY <1>1 DEF VolumeSound, Volumes
<1> DEFINE First(p) == SlotAt(volume, p).first
           Own(h)   == ToSet(Chain(volume.fat, h))
           Starts(h) == h = 0 \/ (h \in Clusters /\ NoPred(volume.fat, h)
                                 /\ volume.fat[h] # Free)
<1>3. \A h : Starts(h) => SoundChain(volume, h)
  <2>1. ASSUME NEW h, Starts(h) PROVE SoundChain(volume, h)
    <3>1. CASE h = 0
      <4>1. Chain(volume.fat, h) = <<>>
        BY <1>2, <3>1, ChainEmpty, Numbers DEF Free
      <4>2. IsInjective(<<>>)
        BY DEF IsInjective
      <4>3. QED
        BY <4>1, <4>2 DEF SoundChain
    <3>2. CASE h # 0
      BY <1>2, <2>1, <3>2, ChainSound DEF SoundChain
    <3>3. QED
      BY <3>1, <3>2
  <2>2. QED
    BY <2>1
<1>4. \A g, h : Starts(g) /\ Starts(h) /\ (g # h \/ g = 0) => Own(g) \cap Own(h) = {}
  <2>1. ASSUME NEW g, NEW h, Starts(g), Starts(h), g # h \/ g = 0
        PROVE  Own(g) \cap Own(h) = {}
    <3>1. CASE g = 0 \/ h = 0
      <4>1. Own(0) = {}
        BY <1>2, ChainEmpty, Numbers DEF Free
      <4>2. QED
        BY <3>1, <4>1
    <3>2. CASE g # 0 /\ h # 0
      BY <1>2, <2>1, <3>2, ChainsApart
    <3>3. QED
      BY <3>1, <3>2
  <2>2. QED
    BY <2>1
<1>5. Starts(RootCluster) /\ RootCluster # 0
  <2>1. volume.fat[RootCluster] # Free
    BY <1>1, <1>2, DirChain
  <2>2. QED
    BY <1>2, <2>1, Numbers DEF DirHead, Free
<1>6. ASSUME NEW p \in Tree(volume)
      PROVE  p \in AllPlaces /\ NamedAt(volume, p) /\ Starts(First(p)) /\ First(p) # RootCluster
  <2>1. p \in AllPlaces /\ NamedAt(volume, p)
    BY <1>2, TreeNamed
  <2>2. First(p) = 0 \/ First(p) \in Clusters
    BY <1>2, <2>1, EntryFirst DEF NamedAt
  <2>3. EntryFits(volume, data, SlotAt(volume, p))
    BY <1>1, <2>1 DEF VolumeSound, EntriesFit
  <2>4. QED
    BY <1>5, <2>1, <2>2, <2>3 DEF EntryFits
<1> DEFINE tree == Tree(volume)
<1> HIDE DEF Starts, Own, First
<1>7. \A p \in tree : /\ SoundChain(volume, First(p))
                      /\ Own(First(p)) \cap Own(RootCluster) = {}
  BY <1>3, <1>4, <1>5, <1>6
<1>8. \A p, q \in tree : p # q => Own(First(p)) \cap Own(First(q)) = {}
  <2>1. ASSUME NEW p \in tree, NEW q \in tree, p # q
        PROVE  Own(First(p)) \cap Own(First(q)) = {}
    <3>1. First(p) # First(q) \/ First(p) = 0
      BY <1>1, <1>6, <2>1 DEF VolumeSound, FirstsDiffer, First
    <3>2. QED
      BY <1>4, <1>6, <3>1
  <2>2. QED
    BY <2>1
<1>9. SoundChain(volume, RootCluster)
  BY <1>3, <1>5
<1> HIDE DEF tree
<1>10. QED
  BY <1>7, <1>8, <1>9 DEF NoCrossLinks, Own, First, tree

(* No cluster belongs to two files or directories, and none in use is free *)
(* or leads out of its chain.                                              *)
THEOREM Fat32ChainsApart == CarefulSpec => []NoCrossLinks
BY Fat32Invariant, NoLinksCross, PTL

(* The directories of the tree start at heads.                             *)
LEMMA DirsAreHeads ==
  ASSUME NEW v, NEW data, VolumeSound(v, data), NEW dir \in Dirs(v)
  PROVE  DirHead(v, data, dir)
<1> DEFINE Heads == {h \in Clusters : DirHead(v, data, h)}
           T == SUBSET Heads
           n == TotalClusters
           next == [x \in (1 .. n) \X T |-> x[2] \cup Below(v, x[2])]
<1>1. v \in Volumes /\ n \in Nat /\ {RootCluster} \in T
  BY Numbers DEF VolumeSound
<1>2. ASSUME NEW D \in T PROVE D \cup Below(v, D) \in T
  <2>1. ASSUME NEW h \in Below(v, D) PROVE h \in Heads
    <3>1. PICK q \in UNION {EntryPlaces(v, d) : d \in D} :
            SlotAt(v, q).dir /\ h = SlotAt(v, q).first
      BY <2>1 DEF Below
    <3>0. PICK d \in D : q \in EntryPlaces(v, d)
      BY <3>1
    <3>2. PICK j \in DOMAIN Places(v, d) :
            /\ q = Places(v, d)[j]
            /\ SlotAt(v, Places(v, d)[j]).kind = "entry"
            /\ SlotAt(v, Places(v, d)[j]).name \in Names
      BY <3>0 DEF EntryPlaces
    <3>3. q \in AllPlaces /\ NamedAt(v, q)
      BY <1>1, <3>2, PlacesFacts DEF NamedAt, EntryAt
    <3> DEFINE e == SlotAt(v, q)
    <3>4. EntryFits(v, data, e) /\ (e.first = 0 \/ e.first \in Clusters)
      BY <1>1, <3>3, EntryFirst DEF VolumeSound, EntriesFit, NamedAt
    <3>5. e.dir /\ h = e.first
      BY <3>1
    <3> HIDE DEF e
    <3>6. DirHead(v, data, h) /\ h \in Clusters
      BY <3>4, <3>5 DEF EntryFits, DirHead
    <3>7. QED
      BY <3>6
  <2>2. QED
    BY <2>1
<1>3. next \in [(1 .. n) \X T -> T]
  <2> HIDE DEF T
  <2>1. QED
    BY <1>2
<1>4. PICK at \in [0 .. n -> T] :
        at = [i \in 0 .. n |-> IF i = 0 THEN {RootCluster} ELSE next[<<i, at[i - 1]>>]]
  <2> HIDE DEF next, T, n
  <2>1. Iterated(n, T, {RootCluster}, next)
    BY <1>1, <1>3, Iteration
  <2>2. QED
    BY ONLY <2>1 DEF Iterated
<1>5. at = [i \in 0 .. n |-> IF i = 0 THEN {RootCluster} ELSE at[i - 1] \cup Below(v, at[i - 1])]
  <2>1. \A i \in 0 .. n : i # 0 => next[<<i, at[i - 1]>>] = at[i - 1] \cup Below(v, at[i - 1])
    <3>1. ASSUME NEW i \in 0 .. n, i # 0 PROVE <<i, at[i - 1]>> \in (1 .. n) \X T
      <4> HIDE DEF T
      <4>1. i \in 1 .. n /\ i - 1 \in 0 .. n
        BY <1>1, <3>1
      <4>2. QED
        BY <4>1
    <3> HIDE DEF T
    <3>2. QED
      BY <3>1
  <2> HIDE DEF next, n, T
  <2>2. QED
    BY <1>4, <2>1
<1> DEFINE f == CHOOSE g : g = [i \in 0 .. n |-> IF i = 0 THEN {RootCluster}
                                                 ELSE g[i - 1] \cup Below(v, g[i - 1])]
<1>6. Dirs(v) = f[n]
  BY DEF Dirs
<1>7. f = [i \in 0 .. n |-> IF i = 0 THEN {RootCluster} ELSE f[i - 1] \cup Below(v, f[i - 1])]
  BY <1>5
<1> HIDE DEF f, T
<1> DEFINE Good == {i \in Nat : i <= n => f[i] \in T}
<1>8. 0 \in Good
  BY <1>1, <1>7
<1>9. ASSUME NEW i \in Nat, i \in Good PROVE i + 1 \in Good
  <2>1. SUFFICES ASSUME i + 1 <= n PROVE f[i + 1] \in T
    OBVIOUS
  <2>2. f[i] \in T /\ i + 1 \in 0 .. n /\ (i + 1) - 1 = i /\ i + 1 # 0
    BY <1>1, <1>9, <2>1
  <2>3. f[i + 1] = f[i] \cup Below(v, f[i])
    BY <1>7, <2>2
  <2>4. QED
    BY <1>2, <2>2, <2>3
<1>10. f[n] \in T
  <2>1. Nat \subseteq Good
    <3> HIDE DEF Good
    <3>1. QED
      BY <1>8, <1>9, Induction
  <2>2. QED
    BY <1>1, <2>1
<1>11. QED
  BY <1>6, <1>10 DEF T

(* An entry that is kept reads the same.                                   *)
LEMMA LesserOf ==
  ASSUME NEW i \in Nat, NEW j \in Nat
  PROVE  Min({i, j}) \in Nat /\ Min({i, j}) <= i /\ Min({i, j}) <= j
<1>1. \E n \in {i, j} : \A m \in {i, j} : n <= m
  OBVIOUS
<1>2. Min({i, j}) \in {i, j} /\ \A m \in {i, j} : Min({i, j}) <= m
  BY <1>1 DEF Min
<1>3. QED
  BY <1>2

LEMMA ContentsSame ==
  ASSUME NEW v, NEW data, VolumeSound(v, data), NEW w, NEW dir, DirHead(v, data, dir),
         NEW name \in Names, EntryKept(v, w, dir, name), Found(v, dir, name)
  PROVE  Found(w, dir, name) /\ Contents(w, dir, name) = Contents(v, dir, name)
<1> DEFINE e == EntryOf(v, dir, name)
           chain == Chain(v.fat, e.first)
           read == IF e.dir THEN 0 ELSE Min({e.size, Len(chain)})
           dhain == Chain(w.fat, e.first)
           reae == IF e.dir THEN 0 ELSE Min({e.size, Len(dhain)})
           rows == [i \in 1 .. read |-> v.clusters[chain[i]]]
           sows == [i \in 1 .. reae |-> w.clusters[dhain[i]]]
<1>1. Found(w, dir, name) /\ EntryOf(w, dir, name) = e
  BY DEF EntryKept, FindKept
<1>2. e \in Entries /\ v.fat \in Fats
  BY FoundEntry DEF VolumeSound, Volumes
<1>3. /\ Contents(v, dir, name) = [dir |-> IF e.dir THEN e.first ELSE 0, rows |-> rows]
      /\ Contents(w, dir, name) = [dir |-> IF e.dir THEN e.first ELSE 0, rows |-> sows]
  BY <1>1 DEF Contents
<1>4. ~e.dir => FileKept(v, w, e.first)
  BY DEF EntryKept
<1> HIDE DEF e
<1>5. e.size \in Nat
  <2>1. e.size \in {0} \cup Sizes
    BY <1>2 DEF Entries
  <2>2. \A n \in {0} \cup Sizes : n \in Nat
    BY Fat32Assumption
  <2>3. QED
    BY <2>1, <2>2, Zenon
<1>6. sows = rows
  <2>1. CASE e.dir
    <3>1. read = 0 /\ reae = 0
      BY <2>1
    <3>2. \A i \in 1 .. 0 : v.clusters[chain[i]] = w.clusters[dhain[i]]
      OBVIOUS
    <3> HIDE DEF read, reae, chain, dhain
    <3>3. QED
      BY <3>1, <3>2
  <2>2. CASE ~e.dir
    <3>1. dhain = chain /\ \A c \in ToSet(chain) : w.clusters[c] = v.clusters[c]
      BY <1>4, <2>2 DEF FileKept
    <3>2. chain \in Seq(Clusters) /\ Len(chain) \in Nat
      BY <1>2, ChainType
    <3>3. read \in Nat /\ read <= Len(chain)
      BY <1>5, <2>2, <3>2, LesserOf
    <3>4. reae = read
      BY <3>1
    <3> HIDE DEF chain, dhain, read, reae
    <3>5. ASSUME NEW i \in 1 .. read PROVE w.clusters[chain[i]] = v.clusters[chain[i]]
      <4>1. i \in 1 .. Len(chain)
        BY <3>2, <3>3
      <4>2. chain[i] \in ToSet(chain)
        BY <3>2, <4>1 DEF ToSet
      <4>3. QED
        BY <3>1, <4>2
    <3>6. QED
      BY <3>1, <3>4, <3>5
  <2>3. QED
    BY <2>1, <2>2
<1> HIDE DEF rows, sows
<1>7. QED
  BY <1>1, <1>3, <1>6

(***************************************************************************)
(* A command changes or loses at most the one file it names: whatever is   *)
(* read of the others, in any directory, is read of them after it.         *)
(***************************************************************************)
ReadsTheSame(target) ==
  \A dir \in Dirs(volume) \cap Dirs(volume') : \A name \in Names :
    Found(volume, dir, name) /\ <<dir, name>> # <<cwd, target>> =>
      /\ Found(volume', dir, name)
      /\ Contents(volume', dir, name) = Contents(volume, dir, name)

LEMMA OthersRead ==
  ASSUME NEW data, VolumeSound(volume, data), NEW target,
         OthersKept(volume, data, volume', target)
  PROVE  ReadsTheSame(target)
<1>1. ASSUME NEW dir \in Dirs(volume), NEW name \in Names, Found(volume, dir, name),
             <<dir, name>> # <<cwd, target>>
      PROVE  /\ Found(volume', dir, name)
             /\ Contents(volume', dir, name) = Contents(volume, dir, name)
  <2>1. DirHead(volume, data, dir)
    BY DirsAreHeads
  <2>2. dir # cwd \/ name # target
    BY <1>1
  <2>3. EntryKept(volume, volume', dir, name)
    BY <2>1, <2>2 DEF OthersKept
  <2>4. QED
    BY <1>1, <2>1, <2>3, ContentsSame
<1>2. QED
  BY <1>1 DEF ReadsTheSame

LEMMA CommandReads ==
  ASSUME NEW data, VolumeSound(volume, data), DirHead(volume, data, cwd), CarefulCommand
  PROVE  \E target \in Names : ReadsTheSame(target)
<1>1. PICK name \in Names :
        \/ /\ NoDirectory(name)
           /\ \E text \in Texts, size \in Sizes : WriteFile(name, text, size)
        \/ CreateDir(name)
        \/ DeleteFile(name)
  BY DEF CarefulCommand
<1>2. OthersKept(volume, data, volume', name)
  <2>1. ASSUME NoDirectory(name), NEW text \in Texts, NEW size \in Sizes,
               WriteFile(name, text, size)
        PROVE  OthersKept(volume, data, volume', name)
    <3>1. volume' = Written(volume, name, text, size).volume
      BY <2>1 DEF WriteFile
    <3>2. Found(volume, cwd, name) => ~EntryOf(volume, cwd, name).dir
      BY <2>1 DEF NoDirectory
    <3>3. QED
      BY <3>1, <3>2, WrittenKept
  <2>2. CASE CreateDir(name)
    <3>1. volume' = DirCreated(volume, name).volume
      BY <2>2 DEF CreateDir
    <3>2. QED
      BY <3>1, DirCreatedKept DEF Kept
  <2>3. CASE DeleteFile(name)
    <3>1. volume' = MarkDeleted(volume, cwd, name)
      BY <2>3 DEF DeleteFile
    <3>2. QED
      BY <3>1, MarkDeletedKept DEF Kept
  <2>4. QED
    BY <1>1, <2>1, <2>2, <2>3
<1>3. QED
  BY <1>2, OthersRead

THEOREM Fat32OthersSurvive == CarefulSpec => OthersSurvive
<1>1. Fat32Inv /\ [CarefulNext]_vars /\ mounted /\ mounted' =>
        \E target \in Names : ReadsTheSame(target)
  <2>1. SUFFICES ASSUME Fat32Inv, [CarefulNext]_vars, mounted, mounted'
                 PROVE  \E target \in Names : ReadsTheSame(target)
    OBVIOUS
  <2>2. PICK data : VolumeSound(volume, data) /\ DirHead(volume, data, cwd)
    BY <2>1 DEF Fat32Inv
  <2>3. CASE CarefulCommand
    BY <2>2, <2>3, CommandReads
  <2>4. CASE volume' = volume
    <3>1. PICK target : target \in Names
      BY Fat32Assumption
    <3>2. OthersKept(volume, data, volume', target)
      BY <2>2, <2>4, KeptSame DEF Kept
    <3>3. QED
      BY <2>2, <3>1, <3>2, OthersRead
  <2>5. CASE CdCommand
    <3>1. volume' = volume
      BY <2>5 DEF CdCommand, Cd
    <3>2. QED
      BY <2>4, <3>1
  <2>6. CASE Mount
    BY <2>1, <2>6 DEF Mount
  <2>7. CASE Unmount
    BY <2>1, <2>7 DEF Unmount
  <2>8. CASE UNCHANGED vars
    BY <2>4, <2>8 DEF vars
  <2>9. QED
    BY <2>1, <2>3, <2>5, <2>6, <2>7, <2>8 DEF CarefulNext
<1>2. Fat32Inv /\ [CarefulNext]_vars =>
        [mounted /\ mounted' =>
           \E target \in Names : \A dir \in Dirs(volume) \cap Dirs(volume') :
             \A name \in Names :
               Found(volume, dir, name) /\ <<dir, name>> # <<cwd, target>> =>
                 /\ Found(volume', dir, name)
                 /\ Contents(volume', dir, name) = Contents(volume, dir, name)]_vars
  BY <1>1 DEF ReadsTheSame
<1>3. QED
  BY <1>2, Fat32Invariant, PTL DEF CarefulSpec, OthersSurvive

(***************************************************************************)
(* Every slot of every cluster of a directory is one of its places, and    *)
(* the places of a cluster come in the order of its slots.                 *)
(***************************************************************************)
LEMMA DivUnique ==
  ASSUME NEW s \in Nat \ {0}, NEW q \in Int, NEW p \in Int, NEW r \in 0 .. s - 1,
         NEW t \in 0 .. s - 1, s * q + r = s * p + t
  PROVE  q = p /\ r = t
<1>1. ASSUME NEW x \in Int, NEW y \in Int, NEW i \in 0 .. s - 1, NEW j \in 0 .. s - 1,
             s * x + i = s * y + j
      PROVE  ~(x >= y + 1)
  <2>1. SUFFICES ASSUME x >= y + 1 PROVE FALSE
    OBVIOUS
  <2>2. s * x >= s * (y + 1)
    BY <2>1
  <2>3. s * (y + 1) = s * y + s
    OBVIOUS
  <2>4. s * x \in Int /\ s * y \in Int
    OBVIOUS
  <2>5. QED
    BY <1>1, <2>2, <2>3, <2>4
<1>2. ~(q >= p + 1)
  BY <1>1
<1>3. s * p + t = s * q + r
  OBVIOUS
<1>4. ~(p >= q + 1)
  BY <1>1, <1>3
<1>5. q = p
  BY <1>2, <1>4
<1>6. QED
  BY <1>5

PlaceIs(v, dir, a, s) ==
  \E k \in DOMAIN Places(v, dir) : Places(v, dir)[k] = <<Chain(v.fat, dir)[a], s>>

LEMMA PlaceOf ==
  ASSUME NEW v \in Volumes, NEW dir, NEW a \in 1 .. Len(Chain(v.fat, dir)),
         NEW s \in 1 .. SlotsPerCluster
  PROVE  PlaceIs(v, dir, a, s)
<1> DEFINE chain == Chain(v.fat, dir)
           n == Len(chain)
           S == SlotsPerCluster
           k == S * (a - 1) + s
           At(i) == <<chain[((i - 1) \div S) + 1], ((i - 1) % S) + 1>>
<1>1. n \in Nat /\ S \in Nat \ {0} /\ a \in 1 .. n /\ s \in 1 .. S
  BY PlacesFacts, PerCluster
<1>2. Places(v, dir) = [i \in 1 .. n * S |-> At(i)]
  BY DEF Places
<1> HIDE DEF n, S, chain
<1>3. k \in 1 .. n * S /\ k - 1 = S * (a - 1) + (s - 1)
  <2>1. PICK d \in Nat : n = a + d
    <3>1. n - a \in Nat /\ n = a + (n - a)
      BY <1>1
    <3>2. QED
      BY <3>1
  <2>2. n * S = S * (a - 1) + S + S * d
    BY <1>1, <2>1
  <2>3. S * (a - 1) \in Nat /\ S * d \in Nat
    BY <1>1, <2>1
  <2>4. QED
    BY <1>1, <2>2, <2>3
<1> DEFINE q == (k - 1) \div S
           r == (k - 1) % S
<1>4. q + 1 \in 1 .. n /\ r + 1 \in 1 .. S /\ k - 1 = S * q + r /\ q \in Int /\ r \in Int
  BY <1>1, <1>3, DivFacts
<1>5. At(k) = <<chain[q + 1], r + 1>>
  OBVIOUS
<1> HIDE DEF q, r, k, At
<1>6. q = a - 1 /\ r = s - 1
  <2>1. r \in 0 .. S - 1 /\ s - 1 \in 0 .. S - 1 /\ a - 1 \in Int
    BY <1>1, <1>4
  <2>2. S * q + r = S * (a - 1) + (s - 1)
    BY <1>3, <1>4
  <2>3. QED
    BY <1>1, <1>4, <2>1, <2>2, DivUnique
<1>7. q + 1 = a /\ r + 1 = s
  BY <1>1, <1>6
<1>8. k \in DOMAIN Places(v, dir) /\ Places(v, dir)[k] = <<chain[a], s>>
  BY <1>2, <1>3, <1>5, <1>7
<1>9. QED
  BY <1>8 DEF PlaceIs, chain

PlacesInOrder(v, dir) ==
  \A i, j \in DOMAIN Places(v, dir) :
    i < j /\ Places(v, dir)[i][1] = Places(v, dir)[j][1]
      => Places(v, dir)[i][2] < Places(v, dir)[j][2]

LEMMA PlacesOrder ==
  ASSUME NEW v \in Volumes, NEW dir, IsInjective(Chain(v.fat, dir))
  PROVE  PlacesInOrder(v, dir)
<1> DEFINE chain == Chain(v.fat, dir)
           n == Len(chain)
           S == SlotsPerCluster
           Q(i) == (i - 1) \div S
           R(i) == (i - 1) % S
<1>1. n \in Nat /\ S \in Nat \ {0}
  BY PlacesFacts, PerCluster
<1>2. Places(v, dir) = [i \in 1 .. n * S |-> <<chain[Q(i) + 1], R(i) + 1>>]
  BY DEF Places
<1>3. DOMAIN chain = 1 .. n
  BY ChainType, LenProperties DEF Volumes
<1> HIDE DEF n, S
<1>4. \A i \in 1 .. n * S : Q(i) + 1 \in 1 .. n /\ R(i) + 1 \in 1 .. S /\ i - 1 = S * Q(i) + R(i)
                            /\ Q(i) \in Int /\ R(i) \in Int
  BY <1>1, DivFacts
<1> HIDE DEF Q, R
<1>5. ASSUME NEW i \in 1 .. n * S, NEW j \in 1 .. n * S, i < j,
             chain[Q(i) + 1] = chain[Q(j) + 1]
      PROVE  R(i) + 1 < R(j) + 1
  <2>1. Q(i) + 1 = Q(j) + 1
    <3> HIDE DEF chain
    <3>1. Q(i) + 1 \in DOMAIN chain /\ Q(j) + 1 \in DOMAIN chain
      BY <1>3, <1>4
    <3>2. QED
      BY <1>5, <3>1 DEF IsInjective, chain
  <2>2. Q(i) = Q(j)
    BY <1>4, <2>1
  <2>3. i - 1 = S * Q(i) + R(i) /\ j - 1 = S * Q(i) + R(j)
    BY <1>4, <2>2
  <2>4. S * Q(i) \in Int /\ R(i) \in Int /\ R(j) \in Int /\ i \in Int /\ j \in Int
    BY <1>1, <1>4
  <2>5. QED
    BY <1>5, <2>3, <2>4
<1> HIDE DEF chain
<1>6. QED
  BY <1>2, <1>5 DEF PlacesInOrder

(***************************************************************************)
(* Once a name is not to be found, whatever slot is still called by it has *)
(* a gap before it: so the entry that create_file_entry makes, in the      *)
(* first gap, is the one that find_entry finds.                            *)
(***************************************************************************)
GapFirst(v, dir, name) ==
  \A k \in DOMAIN Places(v, dir) :
    Called(SlotAt(v, Places(v, dir)[k]), name) =>
      \E i \in 1 .. k - 1 : IsGap(SlotAt(v, Places(v, dir)[i]))

LEMMA NotFoundGap ==
  ASSUME NEW v \in Volumes, NEW dir, NEW name, ~Found(v, dir, name)
  PROVE  GapFirst(v, dir, name)
<1> DEFINE P == Places(v, dir)
           S == {j \in DOMAIN P : Called(SlotAt(v, P[j]), name)}
<1>1. DOMAIN P = 1 .. Len(P) /\ Len(P) \in Nat
  BY PlacesFacts
<1>2. ASSUME NEW k \in DOMAIN P, Called(SlotAt(v, P[k]), name)
      PROVE  \E i \in 1 .. k - 1 : IsGap(SlotAt(v, P[i]))
  <2>1. S \subseteq Nat /\ k \in S
    BY <1>1, <1>2
  <2>2. PICK j \in S : \A i \in S : j <= i
    <3> HIDE DEF S
    <3>1. QED
      BY <2>1, LeastNumber
  <2>3. j <= k /\ j \in DOMAIN P /\ Called(SlotAt(v, P[j]), name)
    BY <2>1, <2>2
  <2>4. ~IsFirst(v, dir, name, j)
    BY <2>3, FindFacts
  <2>5. PICK i \in 1 .. j - 1 :
          SlotAt(v, P[i]) = Never \/ Called(SlotAt(v, P[i]), name)
    BY <2>3, <2>4 DEF IsFirst
  <2>6. i \in DOMAIN P /\ ~(j <= i) /\ i \in 1 .. k - 1
    BY <1>1, <2>3
  <2>7. SlotAt(v, P[i]) = Never
    BY <2>2, <2>5, <2>6
  <2>8. IsGap(SlotAt(v, P[i]))
    BY <2>7 DEF IsGap, Never
  <2>9. QED
    BY <2>6, <2>8
<1>3. QED
  BY <1>2 DEF GapFirst

LEMMA GapFirstSame ==
  ASSUME NEW v \in Volumes, NEW w, NEW dir, NEW name, GapFirst(v, dir, name),
         Places(w, dir) = Places(v, dir),
         \A i \in DOMAIN Places(v, dir) :
           SlotAt(w, Places(v, dir)[i]) = SlotAt(v, Places(v, dir)[i])
  PROVE  GapFirst(w, dir, name)
<1> DEFINE P == Places(v, dir)
<1>1. DOMAIN P = 1 .. Len(P) /\ Len(P) \in Nat
  BY PlacesFacts
<1>2. \A k \in DOMAIN P : \A i \in 1 .. k - 1 : i \in DOMAIN P
  BY <1>1
<1>3. QED
  BY <1>2 DEF GapFirst

(* The old file's slot becomes a gap.                                      *)
LEMMA WithoutOldGap ==
  ASSUME NEW v, NEW data, VolumeSound(v, data), DirHead(v, data, cwd), NEW name \in Names,
         Found(v, cwd, name) => ~EntryOf(v, cwd, name).dir
  PROVE  GapFirst(WithoutOld(v, name), cwd, name)
<1>1. v \in Volumes
  BY DEF VolumeSound
<1>2. CASE ~Found(v, cwd, name)
  <2>1. WithoutOld(v, name) = v
    BY <1>2 DEF WithoutOld
  <2>2. QED
    BY <1>1, <1>2, <2>1, NotFoundGap
<1>3. CASE Found(v, cwd, name)
  <2> DEFINE p == FindEntry(v, cwd, name)
             e == EntryOf(v, cwd, name)
             u == FreeChain(v, e.first)
             w == SetSlot(u, p, Deleted)
             P == Places(v, cwd)
  <2>1. p \in AllPlaces
    BY <1>3, FoundEntry
  <2>2. PICK k \in DOMAIN P : IsFirst(v, cwd, name, k) /\ p = P[k]
    BY <1>1, <1>3, FindFacts
  <2>3. e.first = 0 \/ e.first \in data
    BY <1>3, FoundFile DEF FileHead
  <2>4. /\ u \in Volumes /\ u.clusters = v.clusters
        /\ Chain(u.fat, cwd) = Chain(v.fat, cwd)
    <3> HIDE DEF e
    <3>1. QED
      BY <2>3, FreedSamePlaces
  <2> HIDE DEF p, u
  <2>5. WithoutOld(v, name) = w
    <3>1. WithoutOld(v, name) = MarkDeleted(u, cwd, name)
      BY <1>3 DEF WithoutOld, u
    <3>2. FindEntry(u, cwd, name) = p /\ Found(u, cwd, name)
      BY <1>3, <2>4, SameFind DEF p
    <3>3. QED
      BY <3>1, <3>2 DEF MarkDeleted
  <2>6. /\ w.fat = u.fat /\ SlotAt(w, p) = Deleted
        /\ \A q \in AllPlaces : q # p => SlotAt(w, q) = SlotAt(v, q)
    <3>1. \A q : SlotAt(u, q) = SlotAt(v, q)
      BY <2>4 DEF SlotAt
    <3>2. QED
      BY <2>1, <2>4, <3>1, SetSlotFacts, SlotKinds
  <2> HIDE DEF w
  <2>7. Places(w, cwd) = P
    BY <2>4, <2>6, SamePlaces
  <2>8. DOMAIN P = 1 .. Len(P) /\ Len(P) \in Nat /\ \A i \in DOMAIN P : P[i] \in AllPlaces
    BY <1>1, PlacesFacts
  <2>9. ASSUME NEW j \in DOMAIN P, Called(SlotAt(w, P[j]), name)
        PROVE  \E i \in 1 .. j - 1 : IsGap(SlotAt(w, P[i]))
    <3>1. P[j] # p
      BY <2>6, <2>9 DEF Called, Deleted
    <3>2. Called(SlotAt(v, P[j]), name) /\ j # k
      BY <2>2, <2>6, <2>8, <2>9, <3>1
    <3>3. j \notin 1 .. k - 1
      BY <2>2, <3>2 DEF IsFirst
    <3>4. k \in 1 .. j - 1
      <4> HIDE DEF P
      <4>1. QED
        BY <2>8, <3>2, <3>3
    <3>5. IsGap(SlotAt(w, P[k]))
      BY <2>2, <2>6 DEF IsGap, Deleted
    <3>6. QED
      BY <3>4, <3>5
  <2>10. GapFirst(w, cwd, name)
    BY <2>7, <2>9 DEF GapFirst
  <2>11. QED
    BY <2>5, <2>10
<1>4. QED
  BY <1>2, <1>3

(* Clusters taken and written are not the directory's.                     *)
LEMMA StoredGap ==
  ASSUME NEW v, NEW data, VolumeSound(v, data), DirHead(v, data, cwd),
         NEW cs \in Seq(Clusters), IsInjective(cs),
         \A i \in 1 .. Len(cs) : v.fat[cs[i]] = Free, NEW text \in Texts,
         NEW name, GapFirst(v, cwd, name)
  PROVE  GapFirst(Stored(Linked(v, cs), cs, text), cwd, name)
<1>1. v \in Volumes /\ data \subseteq Clusters
  BY DEF VolumeSound, DataApart
<1>2. CASE cs = <<>>
  BY <1>1, <1>2, NothingStored
<1>3. CASE cs # <<>>
  <2> DEFINE u == Linked(v, cs)
             w == Stored(u, cs, text)
  <2>1. FreshChain(cs)
    BY <1>3 DEF FreshChain
  <2>2. \A i \in 1 .. Len(cs) : cs[i] \in data
    BY <1>1, <2>1, LinkedFacts, FreeCluster
  <2>3. \A c \in ToSet(cs) : c \in data
    BY <2>2, LenProperties DEF ToSet
  <2>4. /\ u \in Volumes /\ u.clusters = v.clusters
        /\ \A c \in Clusters \ ToSet(cs) : u.fat[c] = v.fat[c]
    BY <1>1, <2>1, LinkedFacts
  <2> HIDE DEF u
  <2>5. /\ w \in Volumes /\ w.fat = u.fat
        /\ \A c \in Clusters \ ToSet(cs) : w.clusters[c] = u.clusters[c]
    BY <2>4, StoredFacts
  <2> HIDE DEF w
  <2>6. \A c \in Clusters \ data : w.fat[c] = v.fat[c] /\ w.clusters[c] = v.clusters[c]
    BY <2>3, <2>4, <2>5
  <2>7. Places(w, cwd) = Places(v, cwd)
    <3>1. w.fat \in Fats
      BY <2>5 DEF Volumes
    <3>2. Chain(w.fat, cwd) = Chain(v.fat, cwd)
      BY <2>6, <3>1, DirChainSame
    <3>3. QED
      BY <3>2, SamePlaces
  <2>8. ASSUME NEW i \in DOMAIN Places(v, cwd)
        PROVE  SlotAt(w, Places(v, cwd)[i]) = SlotAt(v, Places(v, cwd)[i])
    <3>1. Places(v, cwd)[i][1] \in Clusters \ data
      BY <1>1, PlacesFacts, DirChain
    <3>2. QED
      BY <2>6, <3>1 DEF SlotAt
  <2>9. GapFirst(w, cwd, name)
    BY <1>1, <2>7, <2>8, GapFirstSame
  <2>10. QED
    BY <2>9 DEF w, u
<1>4. QED
  BY <1>2, <1>3

(* The entry made is the one found.                                        *)
FoundAs(w, name, entry) == Found(w, cwd, name) /\ EntryOf(w, cwd, name) = entry

LEMMA PutFound ==
  ASSUME NEW u \in Volumes, NEW entry \in Slot, entry.kind = "entry",
         NEW k \in DOMAIN Places(u, cwd),
         \A i \in 1 .. k - 1 :
           /\ Places(u, cwd)[i] # Places(u, cwd)[k]
           /\ SlotAt(u, Places(u, cwd)[i]) # Never
           /\ ~Called(SlotAt(u, Places(u, cwd)[i]), entry.name)
  PROVE  FoundAs(SetSlot(u, Places(u, cwd)[k], entry), entry.name, entry)
<1> DEFINE P == Places(u, cwd)
           p == P[k]
           w == SetSlot(u, p, entry)
<1>1. DOMAIN P = 1 .. Len(P) /\ Len(P) \in Nat /\ \A i \in DOMAIN P : P[i] \in AllPlaces
  BY PlacesFacts
<1>2. p \in AllPlaces /\ \A i \in 1 .. k - 1 : i \in DOMAIN P
  BY <1>1
<1> HIDE DEF p
<1>3. /\ w \in Volumes /\ w.fat = u.fat /\ SlotAt(w, p) = entry
      /\ \A q \in AllPlaces : q # p => SlotAt(w, q) = SlotAt(u, q)
  BY <1>2, SetSlotFacts
<1> HIDE DEF w
<1>4. Places(w, cwd) = P
  BY <1>3, SamePlaces
<1>5. \A i \in 1 .. k - 1 : SlotAt(w, P[i]) = SlotAt(u, P[i])
  BY <1>1, <1>2, <1>3 DEF p
<1>6. Called(SlotAt(w, P[k]), entry.name)
  BY <1>3 DEF Called, p
<1>7. IsFirst(w, cwd, entry.name, k)
  BY <1>4, <1>5, <1>6 DEF IsFirst
<1>8. Found(w, cwd, entry.name) /\ FindEntry(w, cwd, entry.name) = Places(w, cwd)[k]
  <2>1. k \in DOMAIN Places(w, cwd)
    BY <1>4
  <2>2. QED
    BY <1>3, <1>7, <2>1, FindFacts
<1>9. EntryOf(w, cwd, entry.name) = entry
  BY <1>3, <1>4, <1>8 DEF EntryOf, p
<1>10. QED
  BY <1>8, <1>9 DEF FoundAs, w, p

LEMMA CreateFound ==
  ASSUME NEW v, NEW data, VolumeSound(v, data), DirHead(v, data, cwd),
         NEW entry, NewEntry(v, data, entry), GapFirst(v, cwd, entry.name),
         CreateEntry(v, cwd, entry).ok
  PROVE  FoundAs(CreateEntry(v, cwd, entry).volume, entry.name, entry)
<1> DEFINE w == CreateEntry(v, cwd, entry).volume
           ok == CreateEntry(v, cwd, entry).ok
           free == FreeClusters(v)
           name == entry.name
           P == Places(v, cwd)
<1>1. v \in Volumes /\ data \subseteq Clusters
  BY DEF VolumeSound, DataApart
<1>2. IntoGap(v, cwd, entry, w, ok) \/ IntoNewGap(v, cwd, entry, w, ok)
  BY <1>1, CreateCases DEF GrownInVain
<1>3. entry \in Slot /\ entry.kind = "entry"
  BY SlotKinds DEF NewEntry
<1>4. DOMAIN P = 1 .. Len(P) /\ Len(P) \in Nat /\ \A i \in DOMAIN P : P[i] \in AllPlaces
  BY <1>1, PlacesFacts
<1>5. IsGap(Never)
  BY DEF IsGap, Never
<1>6. CASE IntoGap(v, cwd, entry, w, ok)
  <2>1. PICK k \in DOMAIN P : FirstGap(v, cwd, k) /\ w = SetSlot(v, P[k], entry)
    BY <1>6 DEF IntoGap
  <2>2. ASSUME NEW i \in 1 .. k - 1
        PROVE  P[i] # P[k] /\ SlotAt(v, P[i]) # Never /\ ~Called(SlotAt(v, P[i]), name)
    <3>1. i \in DOMAIN P /\ \A j \in 1 .. i - 1 : j \in 1 .. k - 1
      BY <1>4
    <3>2. ~IsGap(SlotAt(v, P[i])) /\ IsGap(SlotAt(v, P[k]))
          /\ \A j \in 1 .. i - 1 : ~IsGap(SlotAt(v, P[j]))
      BY <2>1, <3>1 DEF FirstGap
    <3>3. ~Called(SlotAt(v, P[i]), name)
      BY <3>1, <3>2 DEF GapFirst
    <3>4. QED
      BY <1>5, <3>2, <3>3
  <2>3. FoundAs(SetSlot(v, P[k], entry), name, entry)
    BY <1>1, <1>3, <2>2, PutFound
  <2>4. QED
    BY <2>1, <2>3
<1>7. CASE IntoNewGap(v, cwd, entry, w, ok)
  <2>1. PICK e \in 1 .. Len(free), s \in 1 .. SlotsPerCluster :
          /\ IsGap(SlotAt(v, <<free[e], s>>))
          /\ \A t \in 1 .. s - 1 : ~IsGap(SlotAt(v, <<free[e], t>>))
          /\ \A i \in 1 .. e - 1 : \A t \in 1 .. SlotsPerCluster :
               ~IsGap(SlotAt(v, <<free[i], t>>))
          /\ w = SetSlot(GrownBy(v, cwd, SubSeq(free, 1, e)), <<free[e], s>>, entry)
    BY <1>7 DEF IntoNewGap
  <2>2. NoGap(v, cwd)
    BY <1>7 DEF IntoNewGap
  <2> DEFINE added == SubSeq(free, 1, e)
             u == GrownBy(v, cwd, added)
             p == <<free[e], s>>
             Q == Places(u, cwd)
             n == Len(Chain(v.fat, cwd))
  <2>3. e \in 0 .. Len(free) /\ e \in 1 .. e /\ e \in Nat
    BY FreeClustersFacts
  <2>4. /\ added \in Seq(Clusters) /\ IsInjective(added) /\ Len(added) = e
        /\ \A i \in 1 .. e : added[i] = free[i] /\ added[i] \in Clusters /\ v.fat[added[i]] = Free
    BY <2>3, SomeFree
  <2> HIDE DEF added
  <2>5. GrownChain(v, data, cwd, added, u)
    BY <2>4, GrownLinks
  <2>6. IsInjective(Chain(u.fat, cwd))
    <3>1. Growth(v, data, Last(Chain(v.fat, cwd)), added, u)
      BY <2>4, GrownSound
    <3>2. VolumeSound(u, data \ ToSet(added)) /\ DirHead(u, data \ ToSet(added), cwd)
      BY <3>1 DEF Growth, HeadsStay
    <3>3. QED
      BY <3>2, DirChain
  <2> HIDE DEF u
  <2>7. /\ u \in Volumes /\ u.clusters = v.clusters /\ n \in Nat
        /\ Len(Chain(u.fat, cwd)) = n + e
        /\ \A i \in 1 .. n : Chain(u.fat, cwd)[i] = Chain(v.fat, cwd)[i]
        /\ \A j \in 1 .. e : Chain(u.fat, cwd)[n + j] = added[j]
    BY <2>4, <2>5 DEF GrownChain
  <2>8. \A q : SlotAt(u, q) = SlotAt(v, q)
    BY <2>7 DEF SlotAt
  <2>9. /\ DOMAIN Q = 1 .. Len(Q) /\ Len(Q) \in Nat
        /\ \A i \in DOMAIN Q : Q[i] \in AllPlaces /\ Q[i][1] \in ToSet(Chain(u.fat, cwd))
    BY <2>7, PlacesFacts
  <2>10. PlacesInOrder(u, cwd)
    BY <2>6, <2>7, PlacesOrder
  <2>11. s \in 1 .. SlotsPerCluster /\ p \in AllPlaces /\ p[1] = free[e] /\ p[2] = s
         /\ SlotsPerCluster \in Nat
    BY <2>3, <2>4, PerCluster DEF AllPlaces
  <2> HIDE DEF n
  <2>12. PICK k \in DOMAIN Q : Q[k] = p /\ \A i \in 1 .. k - 1 : Q[i] # p
    <3> DEFINE K == {j \in DOMAIN Q : Q[j] = p}
    <3>1. n + e \in 1 .. Len(Chain(u.fat, cwd)) /\ Chain(u.fat, cwd)[n + e] = free[e]
      BY <2>3, <2>4, <2>7
    <3>2. PlaceIs(u, cwd, n + e, s)
      BY <2>7, <3>1, PlaceOf
    <3>3. K # {}
      BY <3>1, <3>2 DEF PlaceIs
    <3>4. K \subseteq Nat
      BY <2>9
    <3>5. PICK j \in K : \A i \in K : j <= i
      <4> HIDE DEF K
      <4>1. QED
        BY <3>3, <3>4, LeastNumber
    <3>6. ASSUME NEW i \in 1 .. j - 1 PROVE Q[i] # p
      <4> HIDE DEF Q, p
      <4>1. i \in DOMAIN Q /\ ~(j <= i)
        BY <2>9
      <4>2. QED
        BY <3>5, <4>1
    <3>7. QED
      BY <3>5, <3>6
  (* What comes before the new entry: the old clusters have no gap, the    *)
  (* clusters taken hold no entries, and none before it is a gap.          *)
  <2>13. ASSUME NEW i \in 1 .. k - 1
         PROVE  Q[i] # Q[k] /\ SlotAt(u, Q[i]) # Never /\ ~Called(SlotAt(u, Q[i]), name)
    <3> DEFINE q == Q[i]
    <3>1. i \in DOMAIN Q /\ i < k
      BY <2>9
    <3>2. q \in AllPlaces /\ q[1] \in ToSet(Chain(u.fat, cwd)) /\ q # p
      BY <2>9, <2>12, <3>1
    <3>3. PICK a \in 1 .. n + e : q[1] = Chain(u.fat, cwd)[a]
      <4>1. DOMAIN Chain(u.fat, cwd) = 1 .. n + e
        BY <2>7, ChainType, LenProperties DEF Volumes
      <4>2. QED
        BY <3>2, <4>1 DEF ToSet
    <3>4. q = <<q[1], q[2]>> /\ q[2] \in 1 .. SlotsPerCluster
      BY <3>2 DEF AllPlaces
    <3>5. CASE a \in 1 .. n
      <4>1. q[1] = Chain(v.fat, cwd)[a]
        BY <2>7, <3>3, <3>5
      <4>2. PlaceIs(v, cwd, a, q[2])
        BY <1>1, <3>4, <3>5, PlaceOf DEF n
      <4>3. PICK j \in DOMAIN P : P[j] = q
        BY <3>4, <4>1, <4>2 DEF PlaceIs
      <4>4. \A h \in 1 .. j - 1 : h \in DOMAIN P
        BY <1>4
      <4>5. ~Called(SlotAt(v, q), name)
        BY <2>2, <4>3, <4>4 DEF NoGap, GapFirst
      <4>6. SlotAt(v, q) # Never
        BY <1>5, <2>2, <4>3 DEF NoGap
      <4>7. QED
        BY <2>8, <2>12, <3>2, <4>5, <4>6
    <3>6. CASE a \notin 1 .. n
      <4>1. PICK b \in 1 .. e : a = n + b
        <5>1. a - n \in 1 .. e /\ a = n + (a - n)
          BY <2>3, <2>7, <3>6
        <5>2. QED
          BY <5>1
      <4>2. q[1] = free[b] /\ q[1] \in Clusters /\ v.fat[q[1]] = Free
        <5>1. q[1] = added[b]
          <6> HIDE DEF q
          <6>1. QED
            BY <2>7, <3>3, <4>1
        <5> HIDE DEF q
        <5>2. QED
          BY <2>4, <5>1
      <4>3. q[1] \in data
        BY <4>2, FreeCluster
      <4>4. ~Called(SlotAt(v, q), name)
        BY <3>2, <4>3 DEF VolumeSound, DataApart, EntryAt, Called
      <4>5. ~IsGap(SlotAt(v, q))
        <5>1. CASE b = e
          <6>1. q[2] < s
            <7> HIDE DEF p
            <7>1. Q[i][1] = Q[k][1] /\ Q[k][2] = s
              BY <2>11, <2>12, <4>2, <5>1
            <7>2. QED
              BY <2>10, <3>1, <7>1 DEF PlacesInOrder
          <6>2. q[2] \in 1 .. s - 1
            <7> HIDE DEF q
            <7>1. QED
              BY <2>11, <3>4, <6>1
          <6>3. QED
            BY <2>1, <3>4, <4>2, <5>1, <6>2
        <5>2. CASE b # e
          <6>1. b \in 1 .. e - 1
            BY <2>3, <5>2
          <6>2. QED
            BY <2>1, <3>4, <4>2, <6>1
        <5>3. QED
          BY <5>1, <5>2
      <4>6. QED
        BY <1>5, <2>8, <2>12, <3>2, <4>4, <4>5
    <3>7. QED
      BY <3>5, <3>6
  <2>14. FoundAs(SetSlot(u, Q[k], entry), name, entry)
    BY <1>3, <2>7, <2>13, PutFound
  <2>15. w = SetSlot(u, Q[k], entry)
    BY <2>1, <2>12 DEF u, added
  <2>16. QED
    BY <2>14, <2>15
<1>8. QED
  BY <1>2, <1>6, <1>7

(* It stays the one found when its size is set.                            *)
SizedEntry(w, name, entry, size) ==
  /\ Found(w, cwd, name)
  /\ EntryOf(w, cwd, name).dir = entry.dir
  /\ EntryOf(w, cwd, name).first = entry.first
  /\ EntryOf(w, cwd, name).size = size

LEMMA SetSizeFound ==
  ASSUME NEW v, NEW data, VolumeSound(v, data), DirHead(v, data, cwd), NEW name \in Names,
         NEW size \in Sizes, NEW entry, FoundAs(v, name, entry)
  PROVE  SizedEntry(SetSize(v, name, size), name, entry, size)
<1> DEFINE p == FindEntry(v, cwd, name)
           P == Places(v, cwd)
           f == [entry EXCEPT !.size = size]
<1>1. v \in Volumes /\ Found(v, cwd, name) /\ EntryOf(v, cwd, name) = entry
  BY DEF VolumeSound, FoundAs
<1>2. p # <<>> /\ SlotAt(v, p) = entry /\ entry \in Entries /\ entry.name = name
  BY <1>1, FoundEntry
<1>3. SetSize(v, name, size) = SetSlot(v, p, f)
  BY <1>2 DEF SetSize
<1>4. PICK k \in DOMAIN P : IsFirst(v, cwd, name, k) /\ p = P[k]
  BY <1>1, FindFacts
<1> HIDE DEF p
<1>5. /\ f \in Entries /\ f.name = name /\ f.first = entry.first /\ f.dir = entry.dir
      /\ f.size = size
  BY <1>2 DEF Entries
<1> HIDE DEF f
<1>6. f \in Slot /\ f.kind = "entry"
  BY <1>5, SlotKinds
<1>7. ASSUME NEW i \in 1 .. k - 1
      PROVE  P[i] # P[k] /\ SlotAt(v, P[i]) # Never /\ ~Called(SlotAt(v, P[i]), f.name)
  BY <1>4, <1>5 DEF IsFirst
<1>8. FoundAs(SetSlot(v, P[k], f), f.name, f)
  BY <1>1, <1>6, <1>7, PutFound
<1>9. QED
  BY <1>3, <1>4, <1>5, <1>8 DEF FoundAs, SizedEntry

(* The chain of the clusters taken, and what is in them.                   *)
TextStored(w, first, text, size) ==
  /\ Chain(w.fat, first) \in Seq(Clusters)
  /\ Len(Chain(w.fat, first)) = size
  /\ \A i \in 1 .. size : w.clusters[Chain(w.fat, first)[i]][1] = Text(text)

LEMMA StoredReads ==
  ASSUME NEW v, NEW data, NEW name, NEW text \in Texts, NEW size \in Sizes,
         Prepared(v, data, name, text, size), Enough(v, name, size)
  PROVE  TextStored(StoredText(v, name, text, size), FirstTaken(v, name, size), text, size)
<1> DEFINE cleared == WithoutOld(v, name)
           taken   == Taken(v, name, size)
           linked  == Linked(cleared, taken)
           stored  == StoredText(v, name, text, size)
           first   == FirstTaken(v, name, size)
<1>1. /\ VolumeSound(stored, data) /\ VolumeSound(cleared, data)
      /\ taken \in Seq(Clusters) /\ IsInjective(taken) /\ Len(taken) = size
      /\ size # 0 => taken # <<>>
  BY DEF Prepared
<1>2. stored = Stored(linked, taken, text) /\ first = IF size = 0 THEN 0 ELSE taken[1]
  BY DEF StoredText, FirstTaken
<1> HIDE DEF cleared, taken, stored, first
<1>3. stored \in Volumes /\ stored.fat \in Fats /\ FatSound(stored.fat) /\ cleared \in Volumes
  BY <1>1 DEF VolumeSound, Volumes
<1>4. CASE size = 0
  <2>1. first = 0
    BY <1>2, <1>4
  <2>2. Chain(stored.fat, first) = <<>>
    BY <1>3, <2>1, ChainEmpty, Numbers DEF Free
  <2>3. <<>> \in Seq(Clusters) /\ Len(<<>>) = 0
    OBVIOUS
  <2>4. \A i \in 1 .. 0 : stored.clusters[Chain(stored.fat, first)[i]][1] = Text(text)
    OBVIOUS
  <2>5. TextStored(stored, first, text, size)
    BY <1>4, <2>2, <2>3, <2>4 DEF TextStored
  <2>6. QED
    BY <2>5 DEF stored, first
<1>5. CASE size # 0
  <2>1. FreshChain(taken) /\ first = taken[1]
    BY <1>1, <1>2, <1>5 DEF FreshChain
  <2>2. linked \in Volumes
    BY <1>3, <2>1, LinkedFacts
  <2>3. /\ stored.fat = linked.fat
        /\ \A c \in Clusters \cap ToSet(taken) : stored.clusters[c][1] = Text(text)
    <3> HIDE DEF linked
    <3>1. QED
      BY <1>1, <1>2, <2>2, StoredFacts
  <2>4. /\ Len(Chain(linked.fat, taken[1])) = Len(taken)
        /\ \A j \in 1 .. Len(taken) : Chain(linked.fat, taken[1])[j] = taken[j]
    BY <1>3, <2>1, <2>3, LinkedChain
  <2> HIDE DEF linked
  <2>5. Chain(stored.fat, first) \in Seq(Clusters)
    BY <1>3, ChainType
  <2>6. ASSUME NEW i \in 1 .. size
        PROVE  stored.clusters[Chain(stored.fat, first)[i]][1] = Text(text)
    <3>1. Chain(stored.fat, first)[i] = taken[i]
      BY <1>1, <2>1, <2>3, <2>4
    <3>2. taken[i] \in ToSet(taken) /\ taken[i] \in Clusters
      BY <1>1, LenProperties, ElementOfSeq DEF ToSet
    <3>3. QED
      BY <2>3, <3>1, <3>2
  <2>7. TextStored(stored, first, text, size)
    BY <1>1, <2>1, <2>3, <2>4, <2>5, <2>6 DEF TextStored
  <2>8. QED
    BY <2>7 DEF stored, first
<1>6. QED
  BY <1>4, <1>5

LEMMA TextKept ==
  ASSUME NEW v, NEW w, NEW first, NEW text, NEW size \in Nat, TextStored(v, first, text, size),
         FileKept(v, w, first)
  PROVE  TextStored(w, first, text, size)
<1> DEFINE chain == Chain(v.fat, first)
<1>1. /\ chain \in Seq(Clusters) /\ Len(chain) = size /\ Chain(w.fat, first) = chain
      /\ \A i \in 1 .. size : v.clusters[chain[i]][1] = Text(text)
      /\ \A c \in ToSet(chain) : w.clusters[c] = v.clusters[c]
  BY DEF TextStored, FileKept
<1> HIDE DEF chain
<1>2. \A i \in 1 .. size : chain[i] \in ToSet(chain)
  BY <1>1, LenProperties DEF ToSet
<1>3. QED
  BY <1>1, <1>2 DEF TextStored

(***************************************************************************)
(* After a write that reports success the file is read back as the text.   *)
(***************************************************************************)
ReadsBack(w, name, text, size) ==
  /\ Found(w, cwd, name)
  /\ Len(Contents(w, cwd, name).rows) = size
  /\ \A i \in 1 .. size : Contents(w, cwd, name).rows[i][1] = Text(text)

LEMMA TextReads ==
  ASSUME NEW w, NEW name, NEW entry, NEW text, NEW size \in Nat, entry.dir = FALSE,
         SizedEntry(w, name, entry, size), TextStored(w, entry.first, text, size)
  PROVE  ReadsBack(w, name, text, size)
<1> DEFINE e == EntryOf(w, cwd, name)
           chain == Chain(w.fat, e.first)
           read == IF e.dir THEN 0 ELSE Min({e.size, Len(chain)})
           rows == [i \in 1 .. read |-> w.clusters[chain[i]]]
<1>1. e.dir = FALSE /\ e.first = entry.first /\ e.size = size /\ Found(w, cwd, name)
  BY DEF SizedEntry
<1>2. Contents(w, cwd, name).rows = rows
  BY DEF Contents
<1> HIDE DEF e
<1>3. /\ Len(chain) = size
      /\ \A i \in 1 .. size : w.clusters[chain[i]][1] = Text(text)
  BY <1>1 DEF TextStored
<1>4. read = size
  <2>1. {e.size, Len(chain)} = {size}
    BY <1>1, <1>3
  <2>2. \E n \in {size} : \A m \in {size} : n <= m
    OBVIOUS
  <2>3. Min({size}) = size
    BY <2>2 DEF Min
  <2>4. QED
    BY <1>1, <2>1, <2>3
<1> HIDE DEF chain, read
<1>5. Len(rows) = size /\ \A i \in 1 .. size : rows[i] = w.clusters[chain[i]]
  BY <1>4
<1> HIDE DEF rows
<1>6. QED
  BY <1>1, <1>2, <1>3, <1>5 DEF ReadsBack

LEMMA WrittenReads ==
  ASSUME NEW v, NEW data, VolumeSound(v, data), DirHead(v, data, cwd), NEW name \in Names,
         Found(v, cwd, name) => ~EntryOf(v, cwd, name).dir,
         NEW text \in Texts, NEW size \in Sizes, Written(v, name, text, size).ok
  PROVE  ReadsBack(Written(v, name, text, size).volume, name, text, size)
<1> DEFINE cleared == WithoutOld(v, name)
           stored == StoredText(v, name, text, size)
           first  == FirstTaken(v, name, size)
           entry  == Entry(name, FALSE, first)
           m      == Made(v, name, text, size).volume
           z      == SetSize(m, name, size)
<1>1. Prepared(v, data, name, text, size)
  BY WritePrepared
<1>2. Enough(v, name, size)
  BY WrittenIs
<1>3. Made(v, name, text, size).ok
  BY <1>2, WrittenIs
<1>4. Written(v, name, text, size).volume = z
  BY <1>2, <1>3, WrittenIs
<1>5. /\ VolumeSound(stored, data) /\ HeadsStay(v, data, stored, data)
      /\ NewEntry(stored, data, entry) /\ FileHead(stored, data, first)
  BY <1>1, <1>2 DEF Prepared
<1>6. DirHead(stored, data, cwd)
  BY <1>5 DEF HeadsStay
<1>7. GapFirst(stored, cwd, name)
  <2>1. GapFirst(cleared, cwd, name)
    BY WithoutOldGap
  <2>2. /\ VolumeSound(cleared, data) /\ DirHead(cleared, data, cwd)
        /\ Taken(v, name, size) \in Seq(Clusters) /\ IsInjective(Taken(v, name, size))
        /\ \A i \in 1 .. Len(Taken(v, name, size)) :
             cleared.fat[Taken(v, name, size)[i]] = Free
    BY <1>1, WithoutOldSound DEF Prepared, HeadsStay
  <2> HIDE DEF cleared
  <2>3. GapFirst(Stored(Linked(cleared, Taken(v, name, size)), Taken(v, name, size), text),
                 cwd, name)
    BY <2>1, <2>2, StoredGap
  <2>4. QED
    BY <2>3 DEF StoredText, cleared
<1>8. /\ m = CreateEntry(stored, cwd, entry).volume /\ CreateEntry(stored, cwd, entry).ok
      /\ entry.name = name /\ entry.first = first /\ entry.dir = FALSE
  BY <1>3 DEF Made, Entry
<1>9. TextStored(stored, first, text, size) /\ size \in Nat
  BY <1>1, <1>2, StoredReads, Fat32Assumption
<1> HIDE DEF stored, first, entry, m
<1>10. PICK eata : Kept(stored, data, m, eata, name)
  BY <1>5, <1>6, <1>8, CreateKept
<1>11. FoundAs(m, name, entry)
  BY <1>5, <1>6, <1>7, <1>8, CreateFound
<1>12. VolumeSound(m, eata) /\ DirHead(m, eata, cwd) /\ FileHead(m, eata, first)
       /\ FileKept(stored, m, first)
  BY <1>5, <1>6, <1>10 DEF Kept, HeadsStay, FilesStayHeads, FilesKept
<1>13. SizedEntry(z, name, entry, size)
  BY <1>11, <1>12, SetSizeFound
<1>14. FileKept(m, z, first)
  BY <1>12, SetSizeKept DEF Kept, FilesKept
<1> HIDE DEF z
<1>15. TextStored(z, first, text, size)
  BY <1>9, <1>12, <1>14, TextKept
<1>16. QED
  BY <1>4, <1>8, <1>9, <1>13, <1>15, TextReads

THEOREM Fat32WrittenReadsBack == CarefulSpec => WrittenReadsBack
<1>1. ASSUME Fat32Inv, NEW name \in Names, NEW text \in Texts, NEW size \in Sizes,
             NoDirectory(name), WriteFile(name, text, size),
             Written(volume, name, text, size).ok
      PROVE  ReadsBack(volume', name, text, size)
  <2>1. PICK data : VolumeSound(volume, data) /\ DirHead(volume, data, cwd)
    BY <1>1 DEF Fat32Inv
  <2>2. volume' = Written(volume, name, text, size).volume
    BY <1>1 DEF WriteFile
  <2>3. Found(volume, cwd, name) => ~EntryOf(volume, cwd, name).dir
    BY <1>1 DEF NoDirectory
  <2>4. QED
    BY <1>1, <2>1, <2>2, <2>3, WrittenReads
<1>2. Fat32Inv /\ [CarefulNext]_vars =>
        [\A name \in Names, text \in Texts, size \in Sizes :
           /\ NoDirectory(name) /\ WriteFile(name, text, size)
           /\ Written(volume, name, text, size).ok
           =>
             /\ Found(volume', cwd, name)
             /\ Len(Contents(volume', cwd, name).rows) = size
             /\ \A i \in 1 .. size :
                  Contents(volume', cwd, name).rows[i][1] = Text(text)]_vars
  BY <1>1 DEF ReadsBack
<1>3. QED
  BY <1>2, Fat32Invariant, PTL DEF CarefulSpec, WrittenReadsBack

(***************************************************************************)
(* The tree of directories.  An entry of a directory leads to a directory  *)
(* whose second slot leads back; commands leave those slots alone, and the *)
(* chains of directories only grow.                                        *)
(***************************************************************************)
DotAt(v, q) == EntryAt(v, q) /\ ~NamedAt(v, q)
DirAt(v, q) == NamedAt(v, q) /\ SlotAt(v, q).dir

DotsOf(v, c, parent) ==
  /\ DotAt(v, <<c, 1>>) /\ SlotAt(v, <<c, 1>>).name = "."
  /\ DotAt(v, <<c, 2>>) /\ SlotAt(v, <<c, 2>>).name = ".."
  /\ SlotAt(v, <<c, 2>>).first = parent

Holds(v, data, h, q) == DirHead(v, data, h) /\ q[1] \in ToSet(Chain(v.fat, h))

Hung(v, data) ==
  \A q \in AllPlaces :
    DirAt(v, q) => \E h : Holds(v, data, h, q) /\ DotsOf(v, SlotAt(v, q).first, h)

(* From v to w directories keep what they have, and get entries for the    *)
(* directories of fresh only, in the shell's.                              *)
DirsGrow(v, data, w, fresh) ==
  /\ \A h : DirHead(v, data, h) => ToSet(Chain(v.fat, h)) \subseteq ToSet(Chain(w.fat, h))
  /\ \A q \in AllPlaces : DotAt(v, q) => SlotAt(w, q) = SlotAt(v, q)
  /\ \A q \in AllPlaces : DirAt(w, q) =>
       \/ DirAt(v, q) /\ SlotAt(w, q).first = SlotAt(v, q).first
       \/ SlotAt(w, q).first \in fresh /\ q[1] \in ToSet(Chain(w.fat, cwd))

LEMMA DotsStay ==
  ASSUME NEW v, NEW data, NEW w, NEW fresh, DirsGrow(v, data, w, fresh),
         NEW c \in Clusters, NEW h, DotsOf(v, c, h)
  PROVE  DotsOf(w, c, h)
<1>1. <<c, 1>> \in AllPlaces /\ <<c, 2>> \in AllPlaces
  BY PerCluster DEF AllPlaces
<1>2. SlotAt(w, <<c, 1>>) = SlotAt(v, <<c, 1>>) /\ SlotAt(w, <<c, 2>>) = SlotAt(v, <<c, 2>>)
  BY <1>1 DEF DirsGrow, DotsOf
<1>3. QED
  BY <1>2 DEF DotsOf, DotAt, NamedAt, EntryAt

LEMMA HungStays ==
  ASSUME NEW v, NEW data, VolumeSound(v, data), Hung(v, data), NEW w, NEW eata,
         HeadsStay(v, data, w, eata), NEW fresh, DirsGrow(v, data, w, fresh),
         DirHead(v, data, cwd), \A c \in fresh : DotsOf(w, c, cwd)
  PROVE  Hung(w, eata)
<1>1. ASSUME NEW q \in AllPlaces, DirAt(w, q), DirAt(v, q),
             SlotAt(w, q).first = SlotAt(v, q).first
      PROVE  \E h : Holds(w, eata, h, q) /\ DotsOf(w, SlotAt(w, q).first, h)
  <2>1. PICK h : Holds(v, data, h, q) /\ DotsOf(v, SlotAt(v, q).first, h)
    BY <1>1 DEF Hung
  <2>2. Holds(w, eata, h, q)
    BY <2>1 DEF Holds, HeadsStay, DirsGrow
  <2>3. SlotAt(v, q).first \in Clusters
    <3>1. v \in Volumes /\ EntryAt(v, q) /\ EntryFits(v, data, SlotAt(v, q))
      BY <1>1 DEF VolumeSound, EntriesFit, DirAt, NamedAt
    <3>2. SlotAt(v, q).first = 0 \/ SlotAt(v, q).first \in Clusters
      BY <3>1, EntryFirst
    <3>3. QED
      BY <1>1, <3>1, <3>2 DEF EntryFits, DirAt
  <2>4. DotsOf(w, SlotAt(v, q).first, h)
    BY <2>1, <2>3, DotsStay
  <2>5. QED
    BY <1>1, <2>2, <2>4
<1>2. ASSUME NEW q \in AllPlaces, SlotAt(w, q).first \in fresh,
             q[1] \in ToSet(Chain(w.fat, cwd))
      PROVE  \E h : Holds(w, eata, h, q) /\ DotsOf(w, SlotAt(w, q).first, h)
  <2>1. Holds(w, eata, cwd, q)
    BY <1>2 DEF Holds, HeadsStay
  <2>2. QED
    BY <1>2, <2>1
<1>3. QED
  BY <1>1, <1>2 DEF Hung, DirsGrow

LEMMA GrowsTrans ==
  ASSUME NEW v, NEW data, NEW w, NEW eata, NEW x, NEW early, NEW late,
         DirsGrow(v, data, w, early), HeadsStay(v, data, w, eata),
         DirsGrow(w, eata, x, late), DirHead(v, data, cwd)
  PROVE  DirsGrow(v, data, x, early \cup late)
<1>1. DirHead(w, eata, cwd)
  BY DEF HeadsStay
<1>2. ASSUME NEW h, DirHead(v, data, h)
      PROVE  ToSet(Chain(v.fat, h)) \subseteq ToSet(Chain(x.fat, h))
  BY <1>2 DEF DirsGrow, HeadsStay
<1>3. ASSUME NEW q \in AllPlaces, DotAt(v, q) PROVE SlotAt(x, q) = SlotAt(v, q)
  <2>1. SlotAt(w, q) = SlotAt(v, q)
    BY <1>3 DEF DirsGrow
  <2>2. DotAt(w, q)
    BY <1>3, <2>1 DEF DotAt, NamedAt, EntryAt
  <2>3. QED
    BY <2>1, <2>2 DEF DirsGrow
<1>4. ASSUME NEW q \in AllPlaces, DirAt(x, q)
      PROVE  \/ DirAt(v, q) /\ SlotAt(x, q).first = SlotAt(v, q).first
             \/ /\ SlotAt(x, q).first \in early \cup late
                /\ q[1] \in ToSet(Chain(x.fat, cwd))
  <2>1. CASE DirAt(w, q) /\ SlotAt(x, q).first = SlotAt(w, q).first
    <3>1. \/ DirAt(v, q) /\ SlotAt(w, q).first = SlotAt(v, q).first
          \/ SlotAt(w, q).first \in early /\ q[1] \in ToSet(Chain(w.fat, cwd))
      BY <2>1 DEF DirsGrow
    <3>2. ToSet(Chain(w.fat, cwd)) \subseteq ToSet(Chain(x.fat, cwd))
      BY <1>1 DEF DirsGrow
    <3>3. QED
      BY <2>1, <3>1, <3>2
  <2>2. CASE SlotAt(x, q).first \in late /\ q[1] \in ToSet(Chain(x.fat, cwd))
    BY <2>2
  <2>3. QED
    BY <1>4, <2>1, <2>2 DEF DirsGrow
<1>5. QED
  BY <1>2, <1>3, <1>4 DEF DirsGrow

LEMMA GrowsNot ==
  ASSUME NEW v, NEW data PROVE DirsGrow(v, data, v, {})
BY DEF DirsGrow

(* What changes gaps and entries of the name only, and no entry of a       *)
(* directory except to a fresh one.                                        *)
LEMMA GrowsFrom ==
  ASSUME NEW v, NEW data, VolumeSound(v, data), DirHead(v, data, cwd), NEW w \in Volumes,
         NEW target \in Names, DirsChanged(v, data, w, target), NEW fresh,
         \A q \in AllPlaces : DirAt(w, q) =>
           \/ SlotAt(w, q) = SlotAt(v, q)
           \/ q[1] \notin data /\ DirAt(v, q) /\ SlotAt(w, q).first = SlotAt(v, q).first
           \/ q[1] \notin data /\ SlotAt(w, q).first \in fresh
  PROVE  DirsGrow(v, data, w, fresh)
<1>1. v \in Volumes /\ w.fat \in Fats
  BY DEF VolumeSound, Volumes
<1>2. \A h : DirHead(v, data, h) => Chain(w.fat, h) = Chain(v.fat, h)
  BY <1>1, DirChainSame DEF DirsChanged
<1>3. ASSUME NEW q \in AllPlaces, DotAt(v, q) PROVE SlotAt(w, q) = SlotAt(v, q)
  <2>1. q[1] \notin data
    BY <1>3 DEF VolumeSound, DataApart, DotAt
  <2>2. SlotAt(v, q) \in Slot
    BY <1>1, SlotAtType
  <2>3. ~Changed(SlotAt(v, q), SlotAt(w, q), target)
    BY <1>3, <2>2, SlotFacts DEF Changed, Called, DotAt, NamedAt, EntryAt
  <2>4. QED
    BY <2>1, <2>3 DEF DirsChanged
<1>4. ASSUME NEW q \in AllPlaces, DirAt(w, q)
      PROVE  \/ DirAt(v, q) /\ SlotAt(w, q).first = SlotAt(v, q).first
             \/ SlotAt(w, q).first \in fresh /\ q[1] \in ToSet(Chain(w.fat, cwd))
  <2>1. CASE SlotAt(w, q) = SlotAt(v, q)
    BY <1>4, <2>1 DEF DirAt, NamedAt, EntryAt
  <2>2. CASE SlotAt(w, q) # SlotAt(v, q)
    <3>1. q[1] \notin data => q[1] \in ToSet(Chain(w.fat, cwd))
      BY <1>2, <2>2 DEF DirsChanged
    <3>2. QED
      BY <1>4, <2>2, <3>1
  <2>3. QED
    BY <2>1, <2>2
<1>5. QED
  BY <1>2, <1>3, <1>4 DEF DirsGrow

(* A slot of the shell's directory.                                        *)
LEMMA PutGrows ==
  ASSUME NEW v, NEW data, VolumeSound(v, data), DirHead(v, data, cwd),
         NEW p \in AllPlaces, p[1] \in ToSet(Chain(v.fat, cwd)), NEW slot \in Slot,
         NEW target \in Names, Changed(SlotAt(v, p), slot, target), NEW fresh,
         slot.kind = "entry" /\ slot.dir =>
           \/ DirAt(v, p) /\ slot.first = SlotAt(v, p).first
           \/ slot.first \in fresh
  PROVE  DirsGrow(v, data, SetSlot(v, p, slot), fresh)
<1> DEFINE w == SetSlot(v, p, slot)
<1>1. v \in Volumes /\ p[1] \notin data
  BY DirChain DEF VolumeSound
<1>2. /\ w \in Volumes /\ w.fat = v.fat /\ SlotAt(w, p) = slot
      /\ \A q \in AllPlaces : q # p => SlotAt(w, q) = SlotAt(v, q)
  BY <1>1, SetSlotFacts
<1> HIDE DEF w
<1>3. DirsChanged(v, data, w, target)
  BY <1>2 DEF DirsChanged
<1>4. ASSUME NEW q \in AllPlaces, DirAt(w, q)
      PROVE  \/ SlotAt(w, q) = SlotAt(v, q)
             \/ q[1] \notin data /\ DirAt(v, q) /\ SlotAt(w, q).first = SlotAt(v, q).first
             \/ q[1] \notin data /\ SlotAt(w, q).first \in fresh
  <2>1. CASE q = p
    BY <1>1, <1>2, <1>4, <2>1 DEF DirAt, NamedAt, EntryAt
  <2>2. CASE q # p
    BY <1>2, <2>2
  <2>3. QED
    BY <2>1, <2>2
<1>5. DirsGrow(v, data, w, fresh)
  BY <1>2, <1>3, <1>4, GrowsFrom
<1>6. QED
  BY <1>5 DEF w

(* A directory extended by free clusters.                                  *)
LEMMA GrownGrows ==
  ASSUME NEW v, NEW data, VolumeSound(v, data), DirHead(v, data, cwd),
         NEW added \in Seq(Clusters), IsInjective(added),
         \A i \in 1 .. Len(added) : v.fat[added[i]] = Free
  PROVE  DirsGrow(v, data, GrownBy(v, cwd, added), {})
<1> DEFINE u == GrownBy(v, cwd, added)
<1>1. GrownChain(v, data, cwd, added, u)
  BY GrownLinks
<1> HIDE DEF u
<1>2. \A q : SlotAt(u, q) = SlotAt(v, q)
  BY <1>1 DEF GrownChain, SlotAt
<1>3. ASSUME NEW h, DirHead(v, data, h)
      PROVE  ToSet(Chain(v.fat, h)) \subseteq ToSet(Chain(u.fat, h))
  <2>1. CASE h # cwd
    BY <1>1, <1>3, <2>1 DEF GrownChain
  <2>2. CASE h = cwd
    <3> DEFINE old == Chain(v.fat, cwd)
               new == Chain(u.fat, cwd)
    <3>1. v.fat \in Fats /\ u.fat \in Fats
      BY <1>1 DEF VolumeSound, GrownChain, Volumes
    <3>2. old \in Seq(Clusters) /\ new \in Seq(Clusters)
      BY <3>1, ChainType
    <3>3. /\ Len(old) \in Nat /\ Len(added) \in Nat /\ Len(new) = Len(old) + Len(added)
          /\ \A i \in 1 .. Len(old) : new[i] = old[i]
      BY <1>1 DEF GrownChain
    <3> HIDE DEF old, new
    <3>4. DOMAIN old = 1 .. Len(old) /\ DOMAIN new = 1 .. Len(new)
      BY <3>2, LenProperties
    <3>5. \A i \in DOMAIN old : i \in DOMAIN new /\ new[i] = old[i]
      BY <3>3, <3>4
    <3>6. ToSet(old) \subseteq ToSet(new)
      BY <3>5 DEF ToSet
    <3>7. QED
      BY <2>2, <3>6 DEF old, new
  <2>3. QED
    BY <2>1, <2>2
<1>4. DirsGrow(v, data, u, {})
  BY <1>2, <1>3 DEF DirsGrow, DirAt, DotAt, NamedAt, EntryAt
<1>5. QED
  BY <1>4 DEF u

(* create_file_entry.                                                      *)
FreshOf(entry) == IF entry.dir THEN {entry.first} ELSE {}

LEMMA CreateGrows ==
  ASSUME NEW v, NEW data, VolumeSound(v, data), DirHead(v, data, cwd),
         NEW entry, NewEntry(v, data, entry)
  PROVE  DirsGrow(v, data, CreateEntry(v, cwd, entry).volume, FreshOf(entry))
<1> DEFINE w == CreateEntry(v, cwd, entry).volume
           ok == CreateEntry(v, cwd, entry).ok
           free == FreeClusters(v)
           fresh == FreshOf(entry)
<1>1. v \in Volumes /\ data \subseteq Clusters
  BY DEF VolumeSound, DataApart
<1>2. \/ IntoGap(v, cwd, entry, w, ok)
      \/ GrownInVain(v, cwd, w, ok)
      \/ IntoNewGap(v, cwd, entry, w, ok)
  BY <1>1, CreateCases
<1>3. /\ entry \in Slot /\ entry.kind = "entry" /\ entry.name \in Names /\ entry # Never
      /\ entry.dir => entry.first \in fresh
  BY SlotKinds DEF NewEntry, FreshOf
<1> HIDE DEF fresh, w
<1>4. CASE IntoGap(v, cwd, entry, w, ok)
  <2>1. PICK k \in DOMAIN Places(v, cwd) :
          FirstGap(v, cwd, k) /\ w = SetSlot(v, Places(v, cwd)[k], entry)
    BY <1>4 DEF IntoGap
  <2> DEFINE p == Places(v, cwd)[k]
  <2>2. p \in AllPlaces /\ p[1] \in ToSet(Chain(v.fat, cwd)) /\ IsGap(SlotAt(v, p))
    BY <1>1, <2>1, PlacesFacts DEF FirstGap
  <2> HIDE DEF p
  <2>3. Changed(SlotAt(v, p), entry, entry.name)
    BY <1>3, <2>2 DEF Changed
  <2>4. DirsGrow(v, data, SetSlot(v, p, entry), fresh)
    BY <1>3, <2>2, <2>3, PutGrows
  <2>5. QED
    BY <2>1, <2>4 DEF p, w, fresh
<1>5. CASE GrownInVain(v, cwd, w, ok)
  <2>1. w = GrownBy(v, cwd, free)
    BY <1>5 DEF GrownInVain
  <2>2. /\ free \in Seq(Clusters) /\ IsInjective(free)
        /\ \A i \in 1 .. Len(free) : v.fat[free[i]] = Free
    BY FreeClustersFacts
  <2> HIDE DEF free
  <2>3. DirsGrow(v, data, w, {})
    BY <2>1, <2>2, GrownGrows
  <2>4. QED
    BY <2>3 DEF DirsGrow, w, fresh
<1>6. CASE IntoNewGap(v, cwd, entry, w, ok)
  <2>1. PICK e \in 1 .. Len(free), s \in 1 .. SlotsPerCluster :
          /\ IsGap(SlotAt(v, <<free[e], s>>))
          /\ w = SetSlot(GrownBy(v, cwd, SubSeq(free, 1, e)), <<free[e], s>>, entry)
    BY <1>6 DEF IntoNewGap
  <2> DEFINE added == SubSeq(free, 1, e)
             u == GrownBy(v, cwd, added)
             p == <<free[e], s>>
             eata == data \ ToSet(added)
  <2>2. e \in 0 .. Len(free) /\ e \in 1 .. e /\ e \in Nat
    BY FreeClustersFacts
  <2>3. /\ added \in Seq(Clusters) /\ IsInjective(added) /\ Len(added) = e
        /\ \A i \in 1 .. e : added[i] = free[i] /\ added[i] \in Clusters /\ v.fat[added[i]] = Free
    BY <2>2, SomeFree
  <2> HIDE DEF added
  <2>4. VolumeSound(u, eata) /\ HeadsStay(v, data, u, eata)
    <3>1. Growth(v, data, Last(Chain(v.fat, cwd)), added, u)
      BY <2>3, GrownSound
    <3>2. QED
      BY <3>1 DEF Growth
  <2>5. GrownChain(v, data, cwd, added, u)
    BY <2>3, GrownLinks
  <2>6. DirsGrow(v, data, u, {})
    BY <2>3, GrownGrows
  <2>7. p \in AllPlaces /\ p[1] = free[e] /\ p[1] = added[e]
    BY <2>2, <2>3 DEF AllPlaces
  <2> HIDE DEF u, p, eata
  <2>8. p[1] \in ToSet(Chain(u.fat, cwd))
    <3> DEFINE ch == Chain(u.fat, cwd)
               n == Len(Chain(v.fat, cwd))
    <3>1. n \in Nat /\ Len(ch) = n + e /\ ch[n + e] = added[e]
      BY <2>2, <2>3, <2>5 DEF GrownChain
    <3>2. u.fat \in Fats
      BY <2>5 DEF GrownChain, Volumes
    <3>3. ch \in Seq(Clusters)
      BY <3>2, ChainType
    <3> HIDE DEF ch, n
    <3>4. DOMAIN ch = 1 .. Len(ch)
      BY <3>3, LenProperties
    <3>5. n + e \in DOMAIN ch
      BY <2>2, <3>1, <3>4
    <3>6. QED
      BY <2>7, <3>1, <3>5 DEF ToSet, ch
  <2>9. SlotAt(u, p) = SlotAt(v, p)
    BY <2>5 DEF GrownChain, SlotAt
  <2>10. Changed(SlotAt(u, p), entry, entry.name) /\ DirHead(u, eata, cwd)
    BY <1>3, <2>1, <2>4, <2>9 DEF Changed, p, HeadsStay
  <2>11. DirsGrow(u, eata, SetSlot(u, p, entry), fresh)
    BY <1>3, <2>4, <2>7, <2>8, <2>10, PutGrows
  <2>12. DirsGrow(v, data, SetSlot(u, p, entry), {} \cup fresh)
    BY <2>4, <2>6, <2>11, GrowsTrans
  <2>13. w = SetSlot(u, p, entry)
    BY <2>1 DEF u, p, added
  <2>14. {} \cup fresh = fresh
    OBVIOUS
  <2>15. QED
    BY <2>12, <2>13, <2>14 DEF w, fresh
<1>7. QED
  BY <1>2, <1>4, <1>5, <1>6

(* Free clusters taken, linked and written.                                *)
LEMMA StoreGrows ==
  ASSUME NEW v, NEW data, VolumeSound(v, data), DirHead(v, data, cwd),
         NEW cs \in Seq(Clusters), IsInjective(cs),
         \A i \in 1 .. Len(cs) : v.fat[cs[i]] = Free, NEW text \in Texts
  PROVE  DirsGrow(v, data, Stored(Linked(v, cs), cs, text), {})
<1>1. v \in Volumes
  BY DEF VolumeSound
<1>2. CASE cs = <<>>
  BY <1>1, <1>2, NothingStored, GrowsNot
<1>3. CASE cs # <<>>
  <2> DEFINE u == Linked(v, cs)
             w == Stored(u, cs, text)
  <2>1. FreshChain(cs)
    BY <1>3 DEF FreshChain
  <2>2. \A i \in 1 .. Len(cs) : cs[i] \in Clusters /\ cs[i] \in data /\ v.fat[cs[i]] = Free
    BY <1>1, <2>1, LinkedFacts, FreeCluster
  <2>3. \A c \in ToSet(cs) : c \in data
    BY <2>2, LenProperties DEF ToSet
  <2>4. /\ u \in Volumes /\ u.clusters = v.clusters
        /\ \A c \in Clusters \ ToSet(cs) : u.fat[c] = v.fat[c]
    BY <1>1, <2>1, LinkedFacts
  <2>5. VolumeSound(w, data)
    BY StoreSound
  <2> HIDE DEF u
  <2>6. /\ w \in Volumes /\ w.fat = u.fat
        /\ \A c \in Clusters \ ToSet(cs) : w.clusters[c] = u.clusters[c]
    BY <2>4, StoredFacts
  <2> HIDE DEF w
  <2>7. \A q \in AllPlaces : q[1] \notin data => SlotAt(w, q) = SlotAt(v, q)
    BY <2>3, <2>4, <2>6 DEF SlotAt, AllPlaces
  <2>8. PICK target : target \in Names
    BY Fat32Assumption
  <2>9. DirsChanged(v, data, w, target)
    BY <2>3, <2>4, <2>6, <2>7 DEF DirsChanged
  <2>10. \A q \in AllPlaces : DirAt(w, q) => SlotAt(w, q) = SlotAt(v, q)
    BY <2>5, <2>7 DEF VolumeSound, DataApart, DirAt, NamedAt
  <2>11. DirsGrow(v, data, w, {})
    BY <2>6, <2>8, <2>9, <2>10, GrowsFrom
  <2>12. QED
    BY <2>11 DEF w, u
<1>4. QED
  BY <1>2, <1>3

(* The size, last, in the entry that is found under the name.              *)
LEMMA SetSizeGrows ==
  ASSUME NEW v, NEW data, VolumeSound(v, data), DirHead(v, data, cwd), NEW name \in Names,
         NEW size \in Sizes
  PROVE  DirsGrow(v, data, SetSize(v, name, size), {})
<1> DEFINE p == FindEntry(v, cwd, name)
           e == SlotAt(v, p)
           f == [e EXCEPT !.size = size]
<1>1. CASE p = <<>>
  <2>1. SetSize(v, name, size) = v
    BY <1>1 DEF SetSize
  <2>2. QED
    BY <2>1, GrowsNot
<1>2. CASE p # <<>>
  <2>1. Found(v, cwd, name)
    BY <1>2 DEF Found
  <2>2. /\ p \in AllPlaces /\ EntryAt(v, p) /\ e \in Entries /\ e.name = name
        /\ p[1] \in ToSet(Chain(v.fat, cwd)) /\ Called(e, name)
    BY <2>1, FoundEntry, FoundHere
  <2>3. SetSize(v, name, size) = SetSlot(v, p, f)
    BY <1>2 DEF SetSize
  <2> HIDE DEF p
  <2>4. e.dir => DirAt(v, p)
    BY <2>2 DEF NamedAt, DirAt
  <2> HIDE DEF e
  <2>5. f \in Entries /\ f.name = name /\ f.first = e.first /\ f.dir = e.dir
    BY <2>2 DEF Entries
  <2> HIDE DEF f
  <2>6. f \in Slot /\ f # Never
    BY <2>5, SlotKinds
  <2>7. Changed(SlotAt(v, p), f, name)
    BY <2>2, <2>5, <2>6 DEF Changed, e
  <2>8. f.kind = "entry" /\ f.dir => DirAt(v, p) /\ f.first = SlotAt(v, p).first
    BY <2>4, <2>5 DEF e
  <2>9. DirsGrow(v, data, SetSlot(v, p, f), {})
    BY <2>2, <2>6, <2>7, <2>8, PutGrows
  <2>10. QED
    BY <2>3, <2>9
<1>3. QED
  BY <1>1, <1>2

(* delete_file.                                                            *)
LEMMA MarkDeletedGrows ==
  ASSUME NEW v, NEW data, VolumeSound(v, data), DirHead(v, data, cwd), NEW name \in Names
  PROVE  DirsGrow(v, data, MarkDeleted(v, cwd, name), {})
<1> DEFINE p == FindEntry(v, cwd, name)
<1>1. CASE ~Found(v, cwd, name)
  BY <1>1, GrowsNot DEF MarkDeleted
<1>2. CASE Found(v, cwd, name)
  <2>1. p \in AllPlaces /\ p[1] \in ToSet(Chain(v.fat, cwd)) /\ Called(SlotAt(v, p), name)
    BY <1>2, FoundEntry, FoundHere
  <2>2. MarkDeleted(v, cwd, name) = SetSlot(v, p, Deleted)
    BY <1>2 DEF MarkDeleted
  <2> HIDE DEF p
  <2>3. Deleted \in Slot /\ Deleted.kind # "entry" /\ Deleted # Never
    BY SlotKinds
  <2>4. Changed(SlotAt(v, p), Deleted, name)
    BY <2>1, <2>3 DEF Changed
  <2>5. DirsGrow(v, data, SetSlot(v, p, Deleted), {})
    BY <2>1, <2>3, <2>4, PutGrows
  <2>6. QED
    BY <2>2, <2>5
<1>3. QED
  BY <1>1, <1>2

(* write_file over an old file.                                            *)
LEMMA WithoutOldGrows ==
  ASSUME NEW v, NEW data, VolumeSound(v, data), DirHead(v, data, cwd), NEW name \in Names,
         Found(v, cwd, name) => ~EntryOf(v, cwd, name).dir
  PROVE  DirsGrow(v, data, WithoutOld(v, name), {})
<1>1. CASE ~Found(v, cwd, name)
  BY <1>1, GrowsNot DEF WithoutOld
<1>2. CASE Found(v, cwd, name)
  <2> DEFINE p == FindEntry(v, cwd, name)
             e == EntryOf(v, cwd, name)
             u == FreeChain(v, e.first)
             w == SetSlot(u, p, Deleted)
  <2>1. /\ p \in AllPlaces
        /\ p[1] \in ToSet(Chain(v.fat, cwd)) /\ Called(SlotAt(v, p), name)
    BY <1>2, FoundEntry, FoundHere
  <2>2. FileHead(v, data, e.first)
    BY <1>2, FoundFile
  <2> HIDE DEF p, e
  <2>3. e.first = 0 \/ e.first \in data
    BY <2>2 DEF FileHead
  <2>4. /\ u \in Volumes /\ u.clusters = v.clusters /\ Chain(u.fat, cwd) = Chain(v.fat, cwd)
        /\ \A c \in Clusters \ data : u.fat[c] = v.fat[c]
    BY <2>3, FreedSamePlaces
  <2> HIDE DEF u
  <2>5. WithoutOld(v, name) = w
    <3>1. WithoutOld(v, name) = MarkDeleted(u, cwd, name)
      BY <1>2 DEF WithoutOld, u, e
    <3>2. FindEntry(u, cwd, name) = p /\ Found(u, cwd, name)
      BY <1>2, <2>4, SameFind DEF p
    <3>3. QED
      BY <3>1, <3>2 DEF MarkDeleted
  <2>6. /\ w \in Volumes /\ w.fat = u.fat /\ SlotAt(w, p) = Deleted
        /\ \A q \in AllPlaces : q # p => SlotAt(w, q) = SlotAt(v, q)
    <3>1. \A q : SlotAt(u, q) = SlotAt(v, q)
      BY <2>4 DEF SlotAt
    <3>2. QED
      BY <2>1, <2>4, <3>1, SetSlotFacts, SlotKinds
  <2> HIDE DEF w
  <2>7. DirsChanged(v, data, w, name)
    <3>1. Changed(SlotAt(v, p), SlotAt(w, p), name)
      BY <2>1, <2>6, SlotKinds DEF Changed
    <3>2. QED
      BY <2>1, <2>4, <2>6, <3>1 DEF DirsChanged
  <2>8. \A q \in AllPlaces : DirAt(w, q) => SlotAt(w, q) = SlotAt(v, q)
    BY <2>6, SlotKinds DEF DirAt, NamedAt, EntryAt
  <2>9. DirsGrow(v, data, w, {})
    BY <2>6, <2>7, <2>8, GrowsFrom
  <2>10. QED
    BY <2>5, <2>9
<1>3. QED
  BY <1>1, <1>2

(* write_file.                                                             *)
LEMMA WrittenGrows ==
  ASSUME NEW v, NEW data, VolumeSound(v, data), DirHead(v, data, cwd), NEW name \in Names,
         Found(v, cwd, name) => ~EntryOf(v, cwd, name).dir,
         NEW text \in Texts, NEW size \in Sizes
  PROVE  DirsGrow(v, data, Written(v, name, text, size).volume, {})
<1> DEFINE w       == Written(v, name, text, size).volume
           cleared == WithoutOld(v, name)
           taken   == Taken(v, name, size)
           stored  == StoredText(v, name, text, size)
           entry   == Entry(name, FALSE, FirstTaken(v, name, size))
           m       == Made(v, name, text, size).volume
           z       == SetSize(m, name, size)
<1>1. Prepared(v, data, name, text, size)
  BY WritePrepared
<1>2. /\ VolumeSound(stored, data) /\ HeadsStay(v, data, stored, data)
      /\ VolumeSound(cleared, data)
      /\ taken \in Seq(Clusters) /\ IsInjective(taken)
      /\ \A i \in 1 .. Len(taken) : cleared.fat[taken[i]] = Free
      /\ Enough(v, name, size) => NewEntry(stored, data, entry)
  BY <1>1 DEF Prepared
<1>3. HeadsStay(v, data, cleared, data)
  BY WithoutOldSound
<1>4. DirHead(cleared, data, cwd) /\ DirHead(stored, data, cwd)
  BY <1>2, <1>3 DEF HeadsStay
<1>5. DirsGrow(v, data, stored, {})
  <2>1. DirsGrow(v, data, cleared, {})
    BY WithoutOldGrows
  <2>2. stored = Stored(Linked(cleared, taken), taken, text)
    BY DEF StoredText
  <2> HIDE DEF cleared, taken, stored
  <2>3. DirsGrow(cleared, data, stored, {})
    BY <1>2, <1>4, <2>2, StoreGrows
  <2>4. DirsGrow(v, data, stored, {} \cup {})
    BY <1>3, <2>1, <2>3, GrowsTrans
  <2>5. {} \cup {} = {}
    OBVIOUS
  <2>6. QED
    BY <2>4, <2>5
<1>6. CASE ~Enough(v, name, size)
  BY <1>5, <1>6, WrittenIs
<1>7. CASE Enough(v, name, size)
  <2>1. w = z \/ w = m
    BY <1>7, WrittenIs
  <2>2. m = CreateEntry(stored, cwd, entry).volume /\ entry.name = name /\ FreshOf(entry) = {}
    BY DEF Made, Entry, FreshOf
  <2> HIDE DEF stored, entry, m
  <2>3. PICK eata : Kept(stored, data, m, eata, name)
    BY <1>2, <1>4, <1>7, <2>2, CreateKept
  <2>4. /\ VolumeSound(m, eata) /\ HeadsStay(v, data, m, eata) /\ DirHead(m, eata, cwd)
    BY <1>2, <1>4, <2>3 DEF Kept, HeadsStay
  <2>5. DirsGrow(stored, data, m, {})
    BY <1>2, <1>4, <1>7, <2>2, CreateGrows
  <2>6. DirsGrow(m, eata, z, {})
    BY <2>4, SetSizeGrows
  <2> HIDE DEF z
  <2>7. {} \cup {} = {}
    OBVIOUS
  <2>8. DirsGrow(v, data, m, {})
    BY <1>2, <1>5, <2>5, <2>7, GrowsTrans
  <2>9. DirsGrow(v, data, z, {})
    BY <2>4, <2>6, <2>7, <2>8, GrowsTrans
  <2>10. QED
    BY <2>1, <2>8, <2>9
<1>8. QED
  BY <1>6, <1>7

(* create_dir up to the entry.                                             *)
LEMMA DirMadeGrows ==
  ASSUME NEW v, NEW data, VolumeSound(v, data), DirHead(v, data, cwd), NEW name \in Names,
         NEW c \in Clusters, v.fat[c] = Free
  PROVE  /\ DirsGrow(v, data, DirMade(v, c), {})
         /\ DotsOf(DirMade(v, c), c, cwd)
<1> DEFINE w == DirMade(v, c)
           row == DotRow(c)
           dot == Entry(".", TRUE, c)
           dotdot == Entry("..", TRUE, cwd)
<1>1. /\ Kept(v, data, w, data \ {c}, name)
      /\ w.clusters[c] = row
      /\ DirsChanged(v, data, w, name)
      /\ \A p \in AllPlaces : p[1] # c => SlotAt(w, p) = SlotAt(v, p)
  BY DirPrepared
<1> HIDE DEF w
<1>2. row[1] = dot /\ row[2] = dotdot /\ \A s \in 1 .. SlotsPerCluster :
        s # 1 /\ s # 2 => row[s] = Never
  <2> DEFINE pair == <<dot, dotdot>>
  <2>1. DOMAIN pair = 1 .. 2 /\ pair[1] = dot /\ pair[2] = dotdot
    OBVIOUS
  <2>2. row = [s \in 1 .. SlotsPerCluster |-> IF s \in DOMAIN pair THEN pair[s] ELSE Never]
    BY DEF DotRow, Row
  <2> HIDE DEF pair, dot, dotdot, row
  <2>3. 1 \in 1 .. SlotsPerCluster /\ 2 \in 1 .. SlotsPerCluster
    BY PerCluster
  <2>4. QED
    BY <2>1, <2>2, <2>3
<1>3. /\ dot.kind = "entry" /\ dot.name = "."
      /\ dotdot.kind = "entry" /\ dotdot.name = ".." /\ dotdot.first = cwd
  BY DEF Entry
<1>4. "." \notin Names /\ ".." \notin Names /\ Never.kind = "never"
  BY Fat32Assumption, SlotKinds
<1> HIDE DEF row, dot, dotdot
<1>5. DotsOf(w, c, cwd)
  <2>1. SlotAt(w, <<c, 1>>) = dot /\ SlotAt(w, <<c, 2>>) = dotdot
    BY <1>1, <1>2 DEF SlotAt
  <2>2. QED
    BY <1>3, <1>4, <2>1 DEF DotsOf, DotAt, EntryAt, NamedAt
<1>6. ASSUME NEW q \in AllPlaces, DirAt(w, q) PROVE SlotAt(w, q) = SlotAt(v, q)
  <2>1. CASE q[1] # c
    BY <1>1, <2>1
  <2>2. CASE q[1] = c
    <3>1. q[2] \in 1 .. SlotsPerCluster /\ SlotAt(w, q) = row[q[2]]
      BY <1>1, <2>2 DEF SlotAt, AllPlaces
    <3>2. SlotAt(w, q) \in {dot, dotdot, Never}
      BY <1>2, <3>1
    <3>3. QED
      BY <1>3, <1>4, <1>6, <3>2 DEF DirAt, NamedAt, EntryAt
  <2>3. QED
    BY <2>1, <2>2
<1>7. w \in Volumes
  BY <1>1 DEF Kept, VolumeSound
<1>8. DirsGrow(v, data, w, {})
  BY <1>1, <1>6, <1>7, GrowsFrom
<1>9. QED
  BY <1>5, <1>8 DEF w

(* A command: the directories stay, what others found is found, and the    *)
(* tree of directories hangs together.                                     *)
StepKeeps(data, eata, target) ==
  /\ VolumeSound(volume', eata)
  /\ HeadsStay(volume, data, volume', eata)
  /\ OthersKept(volume, data, volume', target)
  /\ Hung(volume', eata)

LEMMA CommandHangs ==
  ASSUME NEW data, VolumeSound(volume, data), DirHead(volume, data, cwd), Hung(volume, data),
         CarefulCommand
  PROVE  \E eata : \E target \in Names : StepKeeps(data, eata, target)
<1>1. PICK name \in Names :
        \/ /\ NoDirectory(name)
           /\ \E text \in Texts, size \in Sizes : WriteFile(name, text, size)
        \/ CreateDir(name)
        \/ DeleteFile(name)
  BY DEF CarefulCommand
<1>2. ASSUME NoDirectory(name), NEW text \in Texts, NEW size \in Sizes,
             WriteFile(name, text, size)
      PROVE  \E eata : StepKeeps(data, eata, name)
  <2>1. volume' = Written(volume, name, text, size).volume
    BY <1>2 DEF WriteFile
  <2>2. Found(volume, cwd, name) => ~EntryOf(volume, cwd, name).dir
    BY <1>2 DEF NoDirectory
  <2>3. PICK eata : /\ VolumeSound(volume', eata)
                    /\ HeadsStay(volume, data, volume', eata)
                    /\ OthersKept(volume, data, volume', name)
    BY <2>1, <2>2, WrittenKept
  <2>4. DirsGrow(volume, data, volume', {})
    BY <2>1, <2>2, WrittenGrows
  <2>5. Hung(volume', eata)
    BY <2>3, <2>4, HungStays
  <2>6. QED
    BY <2>3, <2>5 DEF StepKeeps
<1>3. ASSUME CreateDir(name) PROVE \E eata : StepKeeps(data, eata, name)
  <2> DEFINE free == FreeClusters(volume)
             c == free[1]
             w == DirMade(volume, c)
             entry == Entry(name, TRUE, c)
  <2>1. volume' = DirCreated(volume, name).volume
    BY <1>3 DEF CreateDir
  <2>2. DirCreated(volume, name) =
          IF free = <<>> THEN [ok |-> FALSE, volume |-> volume]
          ELSE CreateEntry(w, cwd, entry)
    BY DEF DirCreated, DirMade, DotRow
  <2>3. CASE free = <<>>
    <3>1. volume' = volume
      BY <2>1, <2>2, <2>3
    <3>2. Kept(volume, data, volume', data, name)
      BY <3>1, KeptSame
    <3>3. QED
      BY <3>1, <3>2 DEF Kept, StepKeeps
  <2>4. CASE free # <<>>
    <3>1. c \in Clusters /\ volume.fat[c] = Free
      BY <2>4, SomeFirstFree
    <3>2. volume' = CreateEntry(w, cwd, entry).volume
      BY <2>1, <2>2, <2>4
    <3> HIDE DEF c
    <3>3. Kept(volume, data, w, data \ {c}, name) /\ NewEntry(w, data \ {c}, entry)
      BY <3>1, DirPrepared
    <3>4. DirsGrow(volume, data, w, {}) /\ DotsOf(w, c, cwd)
      BY <3>1, DirMadeGrows
    <3>5. entry.name = name /\ FreshOf(entry) = {c}
      BY DEF Entry, FreshOf
    <3> HIDE DEF w, entry
    <3>6. VolumeSound(w, data \ {c}) /\ DirHead(w, data \ {c}, cwd) /\ Hung(w, data \ {c})
      <4>1. HeadsStay(volume, data, w, data \ {c})
        BY <3>3 DEF Kept
      <4>2. Hung(w, data \ {c})
        BY <3>4, <4>1, HungStays
      <4>3. QED
        BY <3>3, <4>1, <4>2 DEF Kept, HeadsStay
    <3>7. PICK eata : Kept(w, data \ {c}, volume', eata, entry.name)
      BY <3>2, <3>3, <3>6, CreateKept
    <3>8. Kept(volume, data, volume', eata, name)
      BY <3>3, <3>5, <3>7, KeptOnward
    <3>9. DirsGrow(w, data \ {c}, volume', {c})
      BY <3>2, <3>3, <3>5, <3>6, CreateGrows
    <3>10. DotsOf(volume', c, cwd)
      BY <3>1, <3>4, <3>9, DotsStay
    <3>11. Hung(volume', eata)
      <4>1. HeadsStay(w, data \ {c}, volume', eata)
        BY <3>7 DEF Kept
      <4>2. QED
        BY <3>6, <3>9, <3>10, <4>1, HungStays
    <3>12. QED
      BY <3>8, <3>11 DEF Kept, StepKeeps
  <2>5. QED
    BY <2>3, <2>4
<1>4. ASSUME DeleteFile(name) PROVE \E eata : StepKeeps(data, eata, name)
  <2>1. volume' = MarkDeleted(volume, cwd, name)
    BY <1>4 DEF DeleteFile
  <2>2. Kept(volume, data, volume', data, name)
    BY <2>1, MarkDeletedKept
  <2>3. DirsGrow(volume, data, volume', {})
    BY <2>1, MarkDeletedGrows
  <2>4. Hung(volume', data)
    BY <2>2, <2>3, HungStays DEF Kept
  <2>5. QED
    BY <2>2, <2>4 DEF Kept, StepKeeps
<1>5. QED
  BY <1>1, <1>2, <1>3, <1>4

(***************************************************************************)
(* The directories on the way from the root to the shell's, one for each   *)
(* name of the path.                                                       *)
(***************************************************************************)
Leads(v, g, name, e) ==
  Found(v, g, name) /\ EntryOf(v, g, name).dir /\ EntryOf(v, g, name).first = e

Trail(v, data, here, way, d) ==
  /\ way \in Seq(Names) /\ d \in [0 .. Len(way) -> Clusters]
  /\ d[0] = RootCluster /\ d[Len(way)] = here
  /\ \A i \in 0 .. Len(way) : DirHead(v, data, d[i])
  /\ \A i \in 1 .. Len(way) : Leads(v, d[i - 1], way[i], d[i])

OnTrail(v, data, here, way) == \E d : Trail(v, data, here, way, d)

(* An entry leads to a directory that leads back.                          *)
LEMMA LeadsBack ==
  ASSUME NEW v, NEW data, VolumeSound(v, data), Hung(v, data), NEW g, DirHead(v, data, g),
         NEW name \in Names, NEW e, Leads(v, g, name, e)
  PROVE  /\ e \in Clusters /\ e # 0 /\ e # RootCluster
         /\ DirHead(v, data, e) /\ DotsOf(v, e, g)
<1> DEFINE p == FindEntry(v, g, name)
<1>1. v \in Volumes
  BY DEF VolumeSound
<1>2. /\ p \in AllPlaces /\ EntryOf(v, g, name) = SlotAt(v, p) /\ EntryAt(v, p)
      /\ EntryOf(v, g, name) \in Entries /\ EntryOf(v, g, name).name = name
  BY FoundEntry DEF Leads
<1>3. p[1] \in ToSet(Chain(v.fat, g))
  <2>1. PICK k \in DOMAIN Places(v, g) : p = Places(v, g)[k]
    BY <1>1, FindFacts DEF Leads
  <2>2. QED
    BY <1>1, <2>1, PlacesFacts
<1> HIDE DEF p
<1>4. NamedAt(v, p) /\ DirAt(v, p) /\ SlotAt(v, p).first = e
  BY <1>2 DEF NamedAt, DirAt, Leads
<1>5. EntryFits(v, data, SlotAt(v, p)) /\ SlotAt(v, p).dir
  BY <1>2, <1>4 DEF VolumeSound, EntriesFit, DirAt
<1>6. e = 0 \/ e \in Clusters
  BY <1>1, <1>2, <1>4, EntryFirst
<1>7. e \in Clusters /\ e # 0 /\ e # RootCluster /\ DirHead(v, data, e)
  BY <1>4, <1>5, <1>6 DEF EntryFits, DirHead
<1>8. PICK h : Holds(v, data, h, p) /\ DotsOf(v, e, h)
  BY <1>2, <1>4 DEF Hung
<1>9. h = g
  BY <1>3, <1>8, DirsApart DEF Holds
<1>10. QED
  BY <1>7, <1>8, <1>9

LEMMA FirstTwo ==
  ASSUME NEW s \in Nat, s >= 2
  PROVE  0 \div s = 0 /\ 0 % s = 0 /\ 1 \div s = 0 /\ 1 % s = 1
<1>1. s \in Nat \ {0} /\ 1 \in 1 .. 1 * s /\ 2 \in 1 .. 1 * s /\ 1 - 1 = 0 /\ 2 - 1 = 1
  OBVIOUS
<1>2. /\ (0 \div s) + 1 \in 1 .. 1 /\ (0 % s) + 1 \in 1 .. s /\ 0 = s * (0 \div s) + (0 % s)
      /\ (1 \div s) + 1 \in 1 .. 1 /\ (1 % s) + 1 \in 1 .. s /\ 1 = s * (1 \div s) + (1 % s)
  <2>1. 1 \in Nat
    OBVIOUS
  <2>2. /\ ((1 - 1) \div s) + 1 \in 1 .. 1
        /\ ((1 - 1) % s) + 1 \in 1 .. s
        /\ 1 - 1 = s * ((1 - 1) \div s) + ((1 - 1) % s)
    BY <1>1, <2>1, DivFacts
  <2>3. /\ ((2 - 1) \div s) + 1 \in 1 .. 1
        /\ ((2 - 1) % s) + 1 \in 1 .. s
        /\ 2 - 1 = s * ((2 - 1) \div s) + ((2 - 1) % s)
    BY <1>1, <2>1, DivFacts
  <2>4. QED
    BY <1>1, <2>2, <2>3
<1> DEFINE a == 0 \div s
           b == 1 \div s
           c == 0 % s
           d == 1 % s
<1>3. /\ a + 1 \in 1 .. 1 /\ 0 = s * a + c
      /\ b + 1 \in 1 .. 1 /\ 1 = s * b + d
      /\ a \in Int /\ b \in Int /\ c \in Int /\ d \in Int
  BY <1>1, <1>2
<1> HIDE DEF a, b, c, d
<1>4. a = 0 /\ b = 0
  BY <1>3
<1>5. s * 0 = 0
  OBVIOUS
<1>6. c = 0 /\ d = 1
  BY <1>3, <1>4, <1>5
<1>7. QED
  BY <1>4, <1>6 DEF a, b, c, d

(* ".." is found in the second slot.                                       *)
LEMMA FoundDots ==
  ASSUME NEW v, NEW data, VolumeSound(v, data), NEW c, DirHead(v, data, c),
         NEW h, DotsOf(v, c, h)
  PROVE  Found(v, c, "..") /\ EntryOf(v, c, "..").first = h
<1>1. /\ v \in Volumes /\ v.fat \in Fats /\ FatSound(v.fat) /\ c \in Clusters
      /\ v.fat[c] # Free
  BY DirChain DEF VolumeSound, Volumes, DirHead
<1>2. Len(Chain(v.fat, c)) \in Nat \ {0} /\ Chain(v.fat, c)[1] = c
  BY <1>1, ChainSound
<1>3. /\ SlotsPerCluster \in Nat /\ SlotsPerCluster >= 2
      /\ 0 \div SlotsPerCluster = 0 /\ 0 % SlotsPerCluster = 0
      /\ 1 \div SlotsPerCluster = 0 /\ 1 % SlotsPerCluster = 1
  BY PerCluster, FirstTwo
<1>4. /\ 1 \in DOMAIN Places(v, c) /\ 2 \in DOMAIN Places(v, c)
      /\ Places(v, c)[1] = <<c, 1>> /\ Places(v, c)[2] = <<c, 2>>
  <2> DEFINE n == Len(Chain(v.fat, c)) * SlotsPerCluster
             ch == Chain(v.fat, c)
  <2>1. Places(v, c) = [i \in 1 .. n |->
          <<ch[((i - 1) \div SlotsPerCluster) + 1], ((i - 1) % SlotsPerCluster) + 1>>]
    BY DEF Places
  <2>2. n \in Nat /\ n >= 2
    <3> DEFINE l == Len(ch)
    <3>1. l \in Nat /\ l >= 1
      BY <1>2
    <3> HIDE DEF l, ch
    <3>2. l * SlotsPerCluster \in Nat /\ l * SlotsPerCluster >= 2
      BY <1>3, <3>1
    <3>3. QED
      BY <3>2 DEF l, ch
  <2>3. 1 \in 1 .. n /\ 2 \in 1 .. n /\ 1 - 1 = 0 /\ 2 - 1 = 1
    BY <2>2
  <2> HIDE DEF n, ch
  <2>4. /\ Places(v, c)[1] = <<ch[0 + 1], 0 + 1>>
        /\ Places(v, c)[2] = <<ch[0 + 1], 1 + 1>>
        /\ 1 \in DOMAIN Places(v, c) /\ 2 \in DOMAIN Places(v, c)
    BY ZenonT(60), <1>3, <2>1, <2>3
  <2>5. 0 + 1 = 1 /\ 1 + 1 = 2 /\ ch[1] = c
    BY <1>2 DEF ch
  <2>6. QED
    BY <2>4, <2>5
<1>5. IsFirst(v, c, "..", 2)
  <2>1. Called(SlotAt(v, <<c, 2>>), "..")
    BY DEF DotsOf, DotAt, EntryAt, Called
  <2>2. SlotAt(v, <<c, 1>>) # Never /\ ~Called(SlotAt(v, <<c, 1>>), "..")
    BY SlotKinds DEF DotsOf, DotAt, EntryAt, Called
  <2>3. \A i \in 1 .. 2 - 1 : i = 1
    OBVIOUS
  <2>4. QED
    BY <1>4, <2>1, <2>2, <2>3 DEF IsFirst
<1>6. Found(v, c, "..") /\ FindEntry(v, c, "..") = <<c, 2>>
  BY <1>1, <1>4, <1>5, FindFacts
<1>7. QED
  BY <1>6 DEF EntryOf, DotsOf

(* No directory is on the way twice.                                       *)
LEMMA TrailOnce ==
  ASSUME NEW v, NEW data, VolumeSound(v, data), Hung(v, data), NEW here, NEW way, NEW d,
         Trail(v, data, here, way, d)
  PROVE  \A i, j \in 0 .. Len(way) : i < j => d[i] # d[j]
<1> DEFINE n == Len(way)
           Good == {i \in Nat : \A j \in 0 .. n : i < j => d[i] # d[j]}
<1>1. n \in Nat /\ \A i \in 1 .. n : way[i] \in Names
  BY LenProperties DEF Trail
<1>2. \A j \in 1 .. n : d[j] # RootCluster /\ DotsOf(v, d[j], d[j - 1])
  <2>1. ASSUME NEW j \in 1 .. n PROVE d[j] # RootCluster /\ DotsOf(v, d[j], d[j - 1])
    <3>1. j - 1 \in 0 .. n /\ way[j] \in Names
      BY <1>1
    <3>2. DirHead(v, data, d[j - 1]) /\ Leads(v, d[j - 1], way[j], d[j])
      BY <3>1 DEF Trail
    <3>3. QED
      BY <3>1, <3>2, LeadsBack
  <2>2. QED
    BY <2>1
<1>3. d[0] = RootCluster
  BY DEF Trail
<1> HIDE DEF n
<1>4. 0 \in Good
  BY <1>1, <1>2, <1>3
<1>5. ASSUME NEW i \in Nat, i \in Good PROVE i + 1 \in Good
  <2>1. SUFFICES ASSUME NEW j \in 0 .. n, i + 1 < j, d[i + 1] = d[j] PROVE FALSE
    OBVIOUS
  <2>2. /\ j \in 1 .. n /\ i + 1 \in 1 .. n /\ (i + 1) - 1 = i
        /\ j - 1 \in 0 .. n /\ i < j - 1
    BY <1>1, <2>1
  <2>3. DotsOf(v, d[j], d[j - 1]) /\ DotsOf(v, d[i + 1], d[i])
    BY <1>2, <2>2
  <2>4. d[i] = d[j - 1]
    BY <2>1, <2>3 DEF DotsOf
  <2>5. QED
    BY <1>5, <2>2, <2>4
<1>6. Nat \subseteq Good
  <2> HIDE DEF Good
  <2>1. QED
    BY <1>4, <1>5, Induction
<1>7. QED
  BY <1>1, <1>6 DEF n

(* A command in the last of them leaves the others alone.                  *)
LEMMA TrailStays ==
  ASSUME NEW v, NEW data, VolumeSound(v, data), Hung(v, data), NEW way,
         OnTrail(v, data, cwd, way), NEW w, NEW eata, HeadsStay(v, data, w, eata),
         NEW target, OthersKept(v, data, w, target)
  PROVE  OnTrail(w, eata, cwd, way)
<1>1. PICK d : Trail(v, data, cwd, way, d)
  BY DEF OnTrail
<1>2. Len(way) \in Nat /\ \A i \in 1 .. Len(way) : way[i] \in Names
  BY <1>1, LenProperties DEF Trail
<1>3. ASSUME NEW i \in 1 .. Len(way) PROVE Leads(w, d[i - 1], way[i], d[i])
  <2>1. i - 1 \in 0 .. Len(way) /\ Len(way) \in 0 .. Len(way) /\ i - 1 < Len(way)
    BY <1>2
  <2>2. d[i - 1] # cwd
    BY <1>1, <2>1, TrailOnce DEF Trail
  <2>3. DirHead(v, data, d[i - 1]) /\ Leads(v, d[i - 1], way[i], d[i])
    BY <1>1, <2>1 DEF Trail
  <2>4. FindKept(v, w, d[i - 1], way[i])
    BY <1>2, <2>2, <2>3 DEF OthersKept, EntryKept
  <2>5. QED
    BY <2>3, <2>4 DEF FindKept, Leads
<1>4. \A i \in 0 .. Len(way) : DirHead(w, eata, d[i])
  BY <1>1 DEF Trail, HeadsStay
<1>5. Trail(w, eata, cwd, way, d)
  BY <1>1, <1>3, <1>4 DEF Trail
<1>6. QED
  BY <1>5 DEF OnTrail

LEMMA TrailStart ==
  ASSUME NEW v, NEW data, VolumeSound(v, data)
  PROVE  OnTrail(v, data, RootCluster, <<>>)
<1> DEFINE d == [i \in 0 .. 0 |-> RootCluster]
<1>1. <<>> \in Seq(Names) /\ Len(<<>>) = 0
  OBVIOUS
<1>2. d \in [0 .. 0 -> Clusters] /\ d[0] = RootCluster /\ \A i \in 0 .. 0 : d[i] = RootCluster
  BY Numbers
<1>3. DirHead(v, data, RootCluster)
  BY DEF VolumeSound
<1> HIDE DEF d
<1>4. Trail(v, data, RootCluster, <<>>, d)
  BY <1>1, <1>2, <1>3 DEF Trail
<1>5. QED
  BY <1>4 DEF OnTrail

(* One name further.                                                       *)
LEMMA TrailDown ==
  ASSUME NEW v, NEW data, VolumeSound(v, data), Hung(v, data), NEW here, NEW way,
         OnTrail(v, data, here, way), NEW name \in Names, NEW e, Leads(v, here, name, e)
  PROVE  OnTrail(v, data, e, Append(way, name))
<1>1. PICK d : Trail(v, data, here, way, d)
  BY DEF OnTrail
<1> DEFINE n == Len(way)
           onward == Append(way, name)
           f == [i \in 0 .. n + 1 |-> IF i <= n THEN d[i] ELSE e]
<1>2. way \in Seq(Names) /\ n \in Nat
  BY <1>1, LenProperties DEF Trail
<1>3. /\ onward \in Seq(Names) /\ Len(onward) = n + 1
      /\ \A i \in 1 .. n : onward[i] = way[i]
      /\ onward[n + 1] = name
  BY <1>2, AppendProperties
<1>4. /\ d \in [0 .. n -> Clusters] /\ d[0] = RootCluster /\ d[n] = here
      /\ \A i \in 0 .. n : DirHead(v, data, d[i])
      /\ \A i \in 1 .. n : Leads(v, d[i - 1], way[i], d[i])
  BY <1>1 DEF Trail
<1>5. e \in Clusters /\ DirHead(v, data, e)
  <2>1. n \in 0 .. n
    BY <1>2
  <2>2. DirHead(v, data, here)
    BY <1>4, <2>1
  <2>3. QED
    BY <2>2, LeadsBack
<1> HIDE DEF n, onward
<1>6. /\ f \in [0 .. n + 1 -> Clusters] /\ f[n + 1] = e
      /\ \A i \in 0 .. n : f[i] = d[i]
  BY <1>2, <1>4, <1>5
<1> HIDE DEF f
<1>7. 0 \in 0 .. n /\ n \in 0 .. n
  BY <1>2
<1>8. ASSUME NEW i \in 0 .. n + 1 PROVE DirHead(v, data, f[i])
  BY <1>2, <1>4, <1>5, <1>6
<1>9. ASSUME NEW i \in 1 .. n + 1 PROVE Leads(v, f[i - 1], onward[i], f[i])
  <2>1. CASE i <= n
    <3>1. i \in 1 .. n /\ i \in 0 .. n /\ i - 1 \in 0 .. n
      BY <1>2, <2>1
    <3>2. QED
      BY <1>3, <1>4, <1>6, <3>1
  <2>2. CASE i = n + 1
    <3>1. i - 1 = n /\ n \in 0 .. n
      BY <1>2, <2>2
    <3>2. f[i - 1] = here /\ onward[i] = name /\ f[i] = e
      BY <1>3, <1>4, <1>6, <2>2, <3>1
    <3>3. QED
      BY <3>2
  <2>3. QED
    BY <1>2, <2>1, <2>2
<1>10. Trail(v, data, e, onward, f)
  BY <1>3, <1>4, <1>6, <1>7, <1>8, <1>9 DEF Trail
<1>11. QED
  BY <1>10 DEF OnTrail, onward

(* And back.                                                               *)
LEMMA TrailUp ==
  ASSUME NEW v, NEW data, VolumeSound(v, data), Hung(v, data), NEW here, NEW way,
         OnTrail(v, data, here, way), here # RootCluster
  PROVE  /\ way # <<>> /\ Found(v, here, "..") /\ EntryOf(v, here, "..").first \in Clusters
         /\ OnTrail(v, data, EntryOf(v, here, "..").first, Front(way))
         /\ Len(Front(way)) <= Len(way)
<1>1. PICK d : Trail(v, data, here, way, d)
  BY DEF OnTrail
<1> DEFINE n == Len(way)
           less == Front(way)
           f == [i \in 0 .. n - 1 |-> d[i]]
<1>2. way \in Seq(Names) /\ n \in Nat /\ \A i \in 1 .. n : way[i] \in Names
  BY <1>1, LenProperties DEF Trail
<1>3. /\ d \in [0 .. n -> Clusters] /\ d[0] = RootCluster /\ d[n] = here
      /\ \A i \in 0 .. n : DirHead(v, data, d[i])
      /\ \A i \in 1 .. n : Leads(v, d[i - 1], way[i], d[i])
  BY <1>1 DEF Trail
<1>4. n # 0 /\ n - 1 \in Nat /\ n \in 1 .. n /\ n - 1 \in 0 .. n /\ way[n] \in Names
  BY <1>2, <1>3
<1>5. way # <<>>
  BY <1>4, EmptySeq
<1>6. DotsOf(v, here, d[n - 1]) /\ DirHead(v, data, here)
  BY <1>3, <1>4, LeadsBack
<1>7. Found(v, here, "..") /\ EntryOf(v, here, "..").first = d[n - 1] /\ d[n - 1] \in Clusters
  BY <1>3, <1>4, <1>6, FoundDots
<1>8. /\ less \in Seq(Names) /\ Len(less) = n - 1
      /\ \A i \in 1 .. n - 1 : less[i] = way[i]
  <2> DEFINE k == n - 1
  <2> HIDE DEF n
  <2>1. k \in Nat /\ (1 <= k => k - 1 + 1 = k) /\ (~(1 <= k) => k = 0)
        /\ \A i \in 1 .. k : i \in 1 .. n /\ 1 + i - 1 = i
    BY <1>4
  <2>2. \A i \in 1 .. k : way[i] \in Names
    BY <1>2, <2>1
  <2>3. less = SubSeq(way, 1, k)
    BY <1>5 DEF Front, n
  <2> HIDE DEF k, less
  <2>4. /\ SubSeq(way, 1, k) \in Seq(Names)
        /\ Len(SubSeq(way, 1, k)) = IF 1 <= k THEN k - 1 + 1 ELSE 0
        /\ \A i \in 1 .. k - 1 + 1 : SubSeq(way, 1, k)[i] = way[1 + i - 1]
    BY <2>1, <2>2, SubSeqProperties
  <2>5. \A i \in 1 .. k : i \in 1 .. k - 1 + 1
    BY <2>1
  <2>6. /\ less \in Seq(Names) /\ Len(less) = k /\ \A i \in 1 .. k : less[i] = way[i]
    BY <2>1, <2>3, <2>4, <2>5
  <2>7. QED
    BY <2>6 DEF k
<1> HIDE DEF n, less
<1>9. /\ f \in [0 .. n - 1 -> Clusters] /\ \A i \in 0 .. n - 1 : f[i] = d[i]
  BY <1>3, <1>4
<1> HIDE DEF f
<1>10. 0 \in 0 .. n - 1 /\ n - 1 \in 0 .. n - 1
  BY <1>4
<1>11. \A i \in 0 .. n - 1 : DirHead(v, data, f[i])
  BY <1>3, <1>4, <1>9
<1>12. ASSUME NEW i \in 1 .. n - 1 PROVE Leads(v, f[i - 1], less[i], f[i])
  <2>1. i \in 1 .. n /\ i \in 0 .. n - 1 /\ i - 1 \in 0 .. n - 1
    BY <1>4
  <2>2. QED
    BY <1>3, <1>8, <1>9, <2>1
<1>13. Trail(v, data, d[n - 1], less, f)
  BY <1>3, <1>8, <1>9, <1>10, <1>11, <1>12 DEF Trail
<1>14. Len(less) <= n
  BY <1>4, <1>8
<1>15. QED
  BY <1>5, <1>7, <1>13, <1>14 DEF OnTrail, less, n

(***************************************************************************)
(* cd keeps to the tree, and the path to the shell, as long as the path    *)
(* has room for the names.                                                 *)
(***************************************************************************)
LEMMA IntoTrail ==
  ASSUME NEW data, VolumeSound(volume, data), Hung(volume, data),
         NEW at \in Seats(volume, data), at.ok, OnTrail(volume, data, at.cwd, at.path),
         NEW name \in Names \cup {".."}, name \in Names => Len(at.path) < MaxDepth,
         Into(at, name).ok
  PROVE  /\ OnTrail(volume, data, Into(at, name).cwd, Into(at, name).path)
         /\ Len(Into(at, name).path) <= Len(at.path) + 1
<1> DEFINE e == EntryOf(volume, at.cwd, name)
           to == IF e.first = 0 THEN RootCluster ELSE e.first
<1>1. /\ at = [ok |-> at.ok, cwd |-> at.cwd, path |-> at.path]
      /\ DirHead(volume, data, at.cwd) /\ at.path \in Seq(Names) /\ Len(at.path) \in Nat
  BY LenProperties DEF Seats
<1>2. name # "." /\ (name = ".." \/ name \in Names) /\ ".." \notin Names
  BY Fat32Assumption
<1>3. Len(at.path) <= Len(at.path) + 1
  BY <1>1
<1>4. \A c, p : /\ [at EXCEPT !.cwd = c, !.path = p].cwd = c
                /\ [at EXCEPT !.cwd = c, !.path = p].path = p
  BY <1>1
<1>5. CASE name = ".."
  <2> DEFINE up == IF at.path = <<>> THEN at.path ELSE Front(at.path)
  <2>1. Into(at, name) =
          IF at.cwd = RootCluster \/ ~Found(volume, at.cwd, name) THEN at
          ELSE [at EXCEPT !.cwd = to, !.path = up]
    BY <1>2, <1>5 DEF Into
  <2>2. CASE at.cwd = RootCluster \/ ~Found(volume, at.cwd, name)
    BY <1>3, <2>1, <2>2
  <2>3. CASE ~(at.cwd = RootCluster \/ ~Found(volume, at.cwd, name))
    <3>1. /\ at.path # <<>> /\ e.first \in Clusters
          /\ OnTrail(volume, data, e.first, Front(at.path))
          /\ Len(Front(at.path)) <= Len(at.path)
      BY <1>5, <2>3, TrailUp
    <3>2. up = Front(at.path) /\ to = e.first
      BY <3>1, Numbers DEF Free
    <3> HIDE DEF e, to, up
    <3>3. Into(at, name).cwd = e.first /\ Into(at, name).path = Front(at.path)
      BY <1>4, <2>1, <2>3, <3>2
    <3>4. Front(at.path) \in Seq(Names)
      BY <3>1 DEF OnTrail, Trail
    <3>5. Len(Front(at.path)) \in Nat
      BY <3>4, LenProperties
    <3>6. Len(Front(at.path)) <= Len(at.path) + 1
      BY <1>1, <3>1, <3>5
    <3>7. QED
      BY <3>1, <3>3, <3>6
  <2>4. QED
    BY <2>2, <2>3
<1>6. CASE name \in Names
  <2> DEFINE down == IF Len(at.path) < MaxDepth THEN Append(at.path, name) ELSE at.path
  <2>1. Into(at, name) =
          IF Found(volume, at.cwd, name) /\ e.dir
          THEN [at EXCEPT !.cwd = to, !.path = down]
          ELSE [at EXCEPT !.ok = FALSE]
    BY <1>2, <1>6 DEF Into
  <2>2. [at EXCEPT !.ok = FALSE].ok = FALSE
    BY <1>1
  <2>3. Found(volume, at.cwd, name) /\ e.dir
    <3> HIDE DEF e, to, down
    <3>1. QED
      BY <2>1, <2>2
  <2>4. Leads(volume, at.cwd, name, e.first)
    BY <2>3 DEF Leads
  <2>5. to = e.first
    BY <1>1, <1>6, <2>4, LeadsBack
  <2>6. down = Append(at.path, name)
    BY <1>6
  <2>7. Into(at, name).cwd = e.first /\ Into(at, name).path = Append(at.path, name)
    <3> HIDE DEF e, to, down
    <3>1. QED
      BY <1>4, <2>1, <2>3, <2>5, <2>6
  <2>8. OnTrail(volume, data, e.first, Append(at.path, name))
    <3> HIDE DEF e
    <3>1. QED
      BY <1>6, <2>4, TrailDown
  <2>9. Len(Append(at.path, name)) = Len(at.path) + 1
    BY <1>1, <1>6, AppendProperties
  <2>10. QED
    BY <1>1, <2>7, <2>8, <2>9
<1>7. QED
  BY <1>2, <1>5, <1>6

(* A seat with another directory and another path.                         *)
Moved(at, c, p) == [at EXCEPT !.cwd = c, !.path = p]

LEMMA SeatPut ==
  ASSUME NEW at, NEW c0, NEW p0, at = [ok |-> TRUE, cwd |-> c0, path |-> p0], NEW c, NEW p
  PROVE  Moved(at, c, p) = [ok |-> TRUE, cwd |-> c, path |-> p]
<1> DEFINE S == [ok : {TRUE}, cwd : {c0, c}, path : {p0, p}]
           put == Moved(at, c, p)
<1>1. put \in S /\ put.cwd = c /\ put.path = p
  BY DEF Moved
<1> HIDE DEF put
<1>2. put = [ok |-> put.ok, cwd |-> put.cwd, path |-> put.path] /\ put.ok = TRUE
  BY <1>1
<1>3. put = [ok |-> TRUE, cwd |-> c, path |-> p]
  BY <1>1, <1>2
<1>4. QED
  BY <1>3 DEF put

(* The path, followed from the root.                                       *)
LEMMA TrailFollowed ==
  ASSUME NEW data, VolumeSound(volume, data), Hung(volume, data),
         OnTrail(volume, data, cwd, path), Len(path) <= MaxDepth
  PROVE  Walked([ok |-> TRUE, cwd |-> RootCluster, path |-> <<>>], path)
           = [ok |-> TRUE, cwd |-> cwd, path |-> path]
<1> DEFINE n == Len(path)
           start == [ok |-> TRUE, cwd |-> RootCluster, path |-> <<>>]
           S == Names \cup {".."}
           T == Seats(volume, data)
           Seat(c, p) == [ok |-> TRUE, cwd |-> c, path |-> p]
<1>1. PICK d : Trail(volume, data, cwd, path, d)
  BY DEF OnTrail
<1>2. path \in Seq(Names) /\ n \in Nat /\ \A i \in 1 .. n : path[i] \in Names
  BY <1>1, LenProperties DEF Trail
<1>3. path \in Seq(S)
  BY <1>2, SeqDef
<1>4. start \in T
  <2>1. <<>> \in Seq(Names) /\ Len(<<>>) = 0 /\ 0 <= MaxDepth
    BY DEF MaxDepth
  <2>2. RootCluster \in Clusters /\ DirHead(volume, data, RootCluster)
    BY DEF VolumeSound, DirHead
  <2>3. QED
    BY <2>1, <2>2 DEF Seats
<1>5. PICK f \in [0 .. n -> T] : IsWalk(start, path, f)
  <2>1. \A at \in T : at.ok => \A name \in S : Into(at, name) \in T
    BY IntoSound
  <2> HIDE DEF S, T, start
  <2>2. QED
    BY <1>3, <1>4, <2>1, WalkedIs
<1>6. /\ f[0] = Seat(RootCluster, <<>>)
      /\ \A i \in 1 .. n : f[i] = IF f[i - 1].ok THEN Into(f[i - 1], path[i]) ELSE f[i - 1]
      /\ Walked(start, path) = f[n]
  BY <1>5 DEF IsWalk
<1> DEFINE Good == {i \in Nat : i <= n => f[i] = Seat(d[i], SubSeq(path, 1, i))}
<1>7. 0 \in Good
  <2>1. d[0] = RootCluster
    BY <1>1 DEF Trail
  <2>2. SubSeq(path, 1, 0) = <<>>
    BY SubSeqEmpty
  <2> HIDE DEF Seat
  <2>3. QED
    BY <1>6, <2>1, <2>2
<1>8. ASSUME NEW i \in Nat, i \in Good PROVE i + 1 \in Good
  <2> SUFFICES ASSUME i + 1 <= n PROVE f[i + 1] = Seat(d[i + 1], SubSeq(path, 1, i + 1))
    OBVIOUS
  <2> DEFINE at == f[i]
             name == path[i + 1]
             e == EntryOf(volume, d[i], name)
             p == SubSeq(path, 1, i)
             k == i + 1
  <2>1. /\ i + 1 \in 1 .. n /\ (i + 1) - 1 = i /\ i \in 0 .. n /\ i < n /\ i < MaxDepth
        /\ 1 \in 1 .. n /\ i + 1 \in 1 .. Len(path)
    BY <1>2
  <2>2. name \in Names /\ name # "." /\ name # ".."
    BY <1>2, <2>1, Fat32Assumption
  <2>3. at = Seat(d[i], p)
    BY <1>8, <2>1
  <2>4. Leads(volume, d[i], name, d[i + 1]) /\ DirHead(volume, data, d[i])
    BY <1>1, <2>1 DEF Trail
  <2>5. Found(volume, d[i], name) /\ e.dir /\ e.first = d[i + 1] /\ d[i + 1] # 0
    BY <2>2, <2>4, LeadsBack DEF Leads
  <2>6. p \in Seq(Names) /\ Len(p) = i
    <3>1. \A j \in 1 .. i : path[j] \in Names
      BY <1>2, <2>1
    <3>2. p \in Seq(Names) /\ Len(p) = IF 1 <= i THEN i - 1 + 1 ELSE 0
      BY <3>1, SubSeqProperties
    <3>3. QED
      BY <3>2
  <2>7. Append(p, name) = SubSeq(path, 1, i + 1)
    <3>1. k \in 1 .. Len(path) /\ 1 \in 1 .. Len(path) /\ k \in 1 .. Len(path) /\ k - 1 = i
      BY <2>1
    <3> HIDE DEF k
    <3>2. SubSeq(path, 1, k) = SubSeq(path, 1, k - 1) \o <<path[k]>>
      BY <1>2, <3>1, SubSeqRecursiveSecond
    <3>3. Append(p, name) = p \o <<name>>
      BY <2>2, <2>6, AppendIsConcat
    <3>4. QED
      BY <3>1, <3>2, <3>3 DEF k
  <2>8. f[i + 1] = Into(at, name)
    <3>1. at.ok
      BY <2>3
    <3>2. QED
      BY <1>6, <2>1, <3>1
  <2> DEFINE here == d[i]
  <2> HIDE DEF p, here, Good
  <2>9. at = [ok |-> TRUE, cwd |-> here, path |-> p]
    BY <2>3 DEF here
  <2> HIDE DEF at
  <2>10. at.cwd = here /\ at.path = p /\ \A c, q : Moved(at, c, q) = Seat(c, q)
    BY <2>9, SeatPut
  <2>11. Into(at, name) = Seat(d[i + 1], Append(p, name))
    <3>1. at.cwd = d[i] /\ at.path = p /\ Len(at.path) < MaxDepth
      BY <2>1, <2>6, <2>10 DEF here
    <3>2. Into(at, name) =
            Moved(at, IF e.first = 0 THEN RootCluster ELSE e.first, Append(p, name))
      BY <2>2, <2>5, <3>1 DEF Into, Moved
    <3> HIDE DEF name, e, Seat
    <3>3. QED
      BY <2>5, <2>10, <3>2
  <2>12. QED
    BY <2>7, <2>8, <2>11
<1>9. Nat \subseteq Good
  <2> HIDE DEF Good
  <2>1. QED
    BY <1>7, <1>8, Induction
<1>10. f[n] = Seat(d[n], SubSeq(path, 1, n))
  BY <1>2, <1>9
<1>11. d[n] = cwd /\ SubSeq(path, 1, n) = path
  BY <1>1, <1>2, SubSeqFull DEF Trail
<1>12. QED
  BY <1>6, <1>10, <1>11

(***************************************************************************)
(* Users who go no deeper than the path can say: no name of a cd comes     *)
(* when the path is full.                                                  *)
(***************************************************************************)
WithinReach(absolute, components) ==
  \A i \in DOMAIN components :
    components[i] \in Names => Len(IF absolute THEN <<>> ELSE path) + i <= MaxDepth

ShallowCd ==
  \E absolute \in BOOLEAN, components \in Components :
    WithinReach(absolute, components) /\ Cd(absolute, components)

ShallowNext == CarefulCommand \/ ShallowCd \/ Mount \/ Unmount

ShallowSpec == Fat32Init /\ [][ShallowNext]_vars

(* The inductive invariant: the directories of the path are those on the   *)
(* way from the root, and each leads back to the one before.               *)
PlaceInv(data) ==
  /\ VolumeSound(volume, data)
  /\ Hung(volume, data)
  /\ OnTrail(volume, data, cwd, path)

PathInv == (\E data : PlaceInv(data)) /\ Len(path) <= MaxDepth

LEMMA PlaceFacts ==
  ASSUME NEW data, PlaceInv(data)
  PROVE  /\ DirHead(volume, data, cwd) /\ cwd \in Clusters
         /\ path \in Seq(Names) /\ Len(path) \in Nat
<1>1. PICK d : Trail(volume, data, cwd, path, d)
  BY DEF PlaceInv, OnTrail
<1>2. path \in Seq(Names) /\ Len(path) \in Nat
  BY <1>1, LenProperties DEF Trail
<1>3. Len(path) \in 0 .. Len(path)
  BY <1>2
<1>4. DirHead(volume, data, cwd)
  BY <1>1, <1>3 DEF Trail
<1>5. QED
  BY <1>2, <1>4 DEF DirHead

LEMMA ShallowCdKeeps ==
  ASSUME PathInv, ShallowCd PROVE PathInv'
<1>1. PICK data : PlaceInv(data)
  BY DEF PathInv
<1>2. PICK absolute \in BOOLEAN, components \in Components :
        WithinReach(absolute, components) /\ Cd(absolute, components)
  BY DEF ShallowCd
<1> DEFINE here == IF absolute THEN RootCluster ELSE cwd
           way == IF absolute THEN <<>> ELSE path
           start == [ok |-> TRUE, cwd |-> here, path |-> way]
           end == Walked(start, components)
           n == Len(components)
           T == Seats(volume, data)
           S == Names \cup {".."}
<1>3. /\ VolumeSound(volume, data) /\ Hung(volume, data) /\ cwd \in Clusters
      /\ DirHead(volume, data, cwd) /\ path \in Seq(Names) /\ Len(path) \in Nat
      /\ Len(path) <= MaxDepth
  BY <1>1, PlaceFacts DEF PlaceInv, PathInv
<1>4. components \in Seq(S) /\ n \in Nat /\ \A i \in 1 .. n : components[i] \in S
  <2>1. components \in Seq(S)
    BY ComponentsType
  <2> HIDE DEF S
  <2>2. QED
    BY <2>1, LenProperties
<1>5. OnTrail(volume, data, here, way) /\ Len(way) \in Nat /\ start \in T
  <2>1. <<>> \in Seq(Names) /\ Len(<<>>) = 0 /\ 0 <= MaxDepth
    BY DEF MaxDepth
  <2>2. RootCluster \in Clusters /\ DirHead(volume, data, RootCluster)
    BY <1>3 DEF VolumeSound, DirHead
  <2>3. start \in T
    BY <1>3, <2>1, <2>2 DEF Seats
  <2>4. OnTrail(volume, data, here, way)
    BY <1>1, <1>3, TrailStart DEF PlaceInv
  <2>5. QED
    BY <1>3, <2>1, <2>3, <2>4
<1>6. \A i \in 1 .. n : components[i] \in Names => Len(way) + i <= MaxDepth
  <2>1. DOMAIN components = 1 .. n
    BY <1>4, LenProperties
  <2>2. QED
    BY <1>2, <2>1 DEF WithinReach
<1>7. /\ start.ok /\ start.cwd = here /\ start.path = way
  OBVIOUS
<1>8. /\ cwd' = IF end.ok THEN end.cwd ELSE cwd
      /\ path' = IF end.ok THEN end.path ELSE path
      /\ UNCHANGED <<volume, mounted>>
  BY <1>2 DEF Cd
<1> HIDE DEF start, here, way
<1>9. PICK f \in [0 .. n -> T] : IsWalk(start, components, f)
  <2>1. \A at \in T : at.ok => \A name \in S : Into(at, name) \in T
    BY <1>3, IntoSound
  <2> HIDE DEF S, T
  <2>2. QED
    BY <1>4, <1>5, <2>1, WalkedIs
<1>10. /\ f[0] = start /\ end = f[n]
       /\ \A i \in 1 .. n :
            f[i] = IF f[i - 1].ok THEN Into(f[i - 1], components[i]) ELSE f[i - 1]
  BY <1>9 DEF IsWalk
<1> HIDE DEF end
<1> DEFINE Right(i) == f[i].ok => /\ OnTrail(volume, data, f[i].cwd, f[i].path)
                                  /\ Len(f[i].path) <= Len(way) + i
           Good == {i \in Nat : i <= n => Right(i)}
<1>11. 0 \in Good
  BY <1>5, <1>7, <1>10
<1>12. ASSUME NEW i \in Nat, i \in Good PROVE i + 1 \in Good
  <2> SUFFICES ASSUME i + 1 <= n PROVE Right(i + 1)
    OBVIOUS
  <2> SUFFICES ASSUME f[i + 1].ok
               PROVE  /\ OnTrail(volume, data, f[i + 1].cwd, f[i + 1].path)
                      /\ Len(f[i + 1].path) <= Len(way) + (i + 1)
    OBVIOUS
  <2>1. i + 1 \in 1 .. n /\ (i + 1) - 1 = i /\ i \in 0 .. n /\ i <= n
    BY <1>4
  <2> DEFINE at == f[i]
             name == components[i + 1]
  <2>2. f[i + 1] = IF at.ok THEN Into(at, name) ELSE at
    BY <1>10, <2>1
  <2>3. at.ok
    BY <2>2
  <2>4. f[i + 1] = Into(at, name) /\ Into(at, name).ok
    BY <2>2, <2>3
  <2>5. /\ OnTrail(volume, data, at.cwd, at.path) /\ Len(at.path) <= Len(way) + i
        /\ at \in T /\ name \in S
    BY <1>4, <1>9, <1>12, <2>1, <2>3
  <2>6. Len(at.path) \in Nat
    BY <2>5, LenProperties DEF Seats
  <2>7. name \in Names => Len(at.path) < MaxDepth
    <3> HIDE DEF at
    <3>1. SUFFICES ASSUME name \in Names PROVE Len(at.path) < MaxDepth
      OBVIOUS
    <3>2. Len(way) + (i + 1) <= MaxDepth
      BY <1>6, <2>1, <3>1
    <3>3. QED
      BY <1>5, <2>5, <2>6, <3>2 DEF MaxDepth
  <2> HIDE DEF at, name
  <2>8. /\ OnTrail(volume, data, Into(at, name).cwd, Into(at, name).path)
        /\ Len(Into(at, name).path) <= Len(at.path) + 1
    BY <1>3, <2>3, <2>4, <2>5, <2>7, IntoTrail
  <2>9. Into(at, name).path \in Seq(Names)
    BY <2>8 DEF OnTrail, Trail
  <2>10. Len(Into(at, name).path) \in Nat
    BY <2>9, LenProperties
  <2>11. QED
    BY <1>5, <2>4, <2>5, <2>6, <2>8, <2>10
<1>13. Nat \subseteq Good
  <2> HIDE DEF Good
  <2>1. QED
    BY <1>11, <1>12, Induction
<1>14. end.ok => OnTrail(volume, data, end.cwd, end.path) /\ Len(end.path) <= MaxDepth
  <2>1. Right(n) /\ n \in 0 .. n
    BY <1>4, <1>13
  <2>2. f[n] \in T
    BY <1>9, <2>1
  <2>3. QED
    BY <1>10, <2>1, <2>2 DEF Seats
<1>15. OnTrail(volume, data, cwd', path') /\ Len(path') <= MaxDepth
  BY <1>1, <1>3, <1>8, <1>14 DEF PlaceInv
<1>16. PlaceInv(data)'
  BY <1>3, <1>8, <1>15 DEF PlaceInv
<1>17. QED
  BY <1>15, <1>16 DEF PathInv

LEMMA PathStart == Fat32Init => PathInv
<1> SUFFICES ASSUME Fat32Init PROVE PathInv
  OBVIOUS
<1> DEFINE data == Clusters \ {RootCluster}
<1>1. volume = Formatted([c \in Clusters |-> Row(<<>>)]) /\ cwd = RootCluster /\ path = <<>>
  BY DEF Fat32Init
<1>2. VolumeSound(volume, data)
  BY <1>1, NewVolume
<1>3. \A p \in AllPlaces : ~EntryAt(volume, p)
  <2>1. Row(<<>>) = [s \in 1 .. SlotsPerCluster |-> Never]
    <3>1. DOMAIN <<>> = {}
      OBVIOUS
    <3>2. QED
      BY <3>1 DEF Row
  <2>2. volume.clusters =
          [[c \in Clusters |-> Row(<<>>)] EXCEPT ![RootCluster] = Row(<<>>)]
    BY <1>1 DEF Formatted
  <2>3. \A p \in AllPlaces : SlotAt(volume, p) = Never
    BY <2>1, <2>2 DEF SlotAt, AllPlaces
  <2>4. QED
    BY <2>3, SlotKinds DEF EntryAt
<1>4. Hung(volume, data)
  BY <1>3 DEF Hung, DirAt, NamedAt
<1> HIDE DEF data
<1>5. OnTrail(volume, data, cwd, path) /\ Len(path) <= MaxDepth
  BY <1>1, <1>2, TrailStart DEF MaxDepth
<1>6. PlaceInv(data)
  BY <1>2, <1>4, <1>5 DEF PlaceInv
<1>7. QED
  BY <1>5, <1>6 DEF PathInv

LEMMA PathStep ==
  ASSUME PathInv, [ShallowNext]_vars PROVE PathInv'
<1>1. PICK data : PlaceInv(data)
  BY DEF PathInv
<1>2. VolumeSound(volume, data) /\ Hung(volume, data) /\ DirHead(volume, data, cwd)
  BY <1>1, PlaceFacts DEF PlaceInv
<1>3. CASE CarefulCommand
  <2>1. UNCHANGED <<cwd, path>>
    BY <1>3 DEF CarefulCommand, WriteFile, CreateDir, DeleteFile
  <2>1a. PICK eata : \E target \in Names : StepKeeps(data, eata, target)
    BY <1>2, <1>3, CommandHangs
  <2>2. PICK target \in Names : StepKeeps(data, eata, target)
    BY <2>1a
  <2>3. OnTrail(volume', eata, cwd, path)
    BY <1>1, <1>2, <2>2, TrailStays DEF StepKeeps, PlaceInv
  <2>4. PlaceInv(eata)'
    BY <2>1, <2>2, <2>3 DEF PlaceInv, StepKeeps
  <2>5. QED
    BY <2>1, <2>4 DEF PathInv
<1>4. CASE ShallowCd
  BY <1>4, ShallowCdKeeps
<1>5. CASE Mount
  <2>1. volume' = volume /\ cwd' = RootCluster /\ path' = <<>>
    BY <1>5 DEF Mount
  <2>2. OnTrail(volume, data, cwd', path') /\ Len(path') <= MaxDepth
    BY <1>2, <2>1, TrailStart DEF MaxDepth
  <2>3. PlaceInv(data)'
    BY <1>2, <2>1, <2>2 DEF PlaceInv
  <2>4. QED
    BY <2>2, <2>3 DEF PathInv
<1>6. CASE Unmount
  BY <1>6 DEF Unmount, PathInv, PlaceInv
<1>7. CASE UNCHANGED vars
  BY <1>7 DEF vars, PathInv, PlaceInv
<1>8. QED
  BY <1>3, <1>4, <1>5, <1>6, <1>7 DEF ShallowNext

LEMMA PathIs == PathInv => PathLeadsHere
BY TrailFollowed DEF PathInv, PlaceInv, PathLeadsHere

(* The path in the prompt leads from the root to where the shell is, on    *)
(* every volume and through every command, as long as the user goes no     *)
(* deeper than the path can say.                                           *)
THEOREM Fat32PathLeads == ShallowSpec => []PathLeadsHere
<1>1. PathInv /\ [ShallowNext]_vars => PathInv'
  BY PathStep
<1>2. QED
  BY <1>1, PathStart, PathIs, PTL DEF ShallowSpec

(* A path has fewer names than the volume has clusters.                    *)
LEMMA PathShort ==
  ASSUME NEW data, PlaceInv(data) PROVE Len(path) < TotalClusters
<1>1. PICK d : Trail(volume, data, cwd, path, d)
  BY DEF PlaceInv, OnTrail
<1> DEFINE n == Len(path)
<1>2. n \in Nat
  BY PlaceFacts
<1>3. \A i, j \in 0 .. n : i < j => d[i] # d[j]
  BY <1>1, TrailOnce DEF PlaceInv
<1>4. d \in [0 .. n -> Clusters]
  BY <1>1 DEF Trail
<1> HIDE DEF n
<1>5. \A i, j \in 0 .. n : i # j => d[i] # d[j]
  <2>1. ASSUME NEW i \in 0 .. n, NEW j \in 0 .. n, i # j PROVE d[i] # d[j]
    <3>1. i < j \/ j < i
      BY <1>2, <2>1
    <3>2. QED
      BY <1>3, <3>1
  <2>2. QED
    BY <2>1
<1>6. d \in Injection(0 .. n, Clusters)
  BY <1>4, <1>5 DEF Injection, IsInjective
<1>7. Cardinality(0 .. n) <= TotalClusters
  BY <1>6, FS_Injection, Numbers
<1>8. Cardinality(0 .. n) = n + 1
  BY <1>2, FS_Interval
<1>9. QED
  BY <1>2, <1>7, <1>8, Numbers DEF n

(* On volumes of fewer clusters than a path has names every user is one.   *)
THEOREM Fat32PathLeadsHere ==
  ASSUME TotalClusters < MaxDepth
  PROVE  CarefulSpec => []PathLeadsHere
<1>1. PathInv /\ CdCommand => ShallowCd
  <2> SUFFICES ASSUME PathInv, CdCommand PROVE ShallowCd
    OBVIOUS
  <2>1. PICK data : PlaceInv(data)
    BY DEF PathInv
  <2>2. PICK absolute \in BOOLEAN, components \in Components : Cd(absolute, components)
    BY DEF CdCommand
  <2>3. Len(path) \in Nat /\ Len(path) < TotalClusters /\ TotalClusters \in Nat
    BY <2>1, PlaceFacts, PathShort, Numbers
  <2>4. Len(IF absolute THEN <<>> ELSE path) + 2 <= MaxDepth
        /\ Len(IF absolute THEN <<>> ELSE path) \in Nat
    BY <2>3, EmptySeq DEF MaxDepth
  <2>5. DOMAIN components \subseteq {1, 2}
    <3>1. \/ components = <<>>
          \/ \E m \in Names \cup {".."} : components = <<m>>
          \/ \E m, n \in Names : components = <<m, n>>
      BY DEF Components
    <3>2. QED
      BY <3>1
  <2>6. WithinReach(absolute, components)
    BY <2>4, <2>5 DEF WithinReach, MaxDepth
  <2>7. QED
    BY <2>2, <2>6 DEF ShallowCd
<1>2. PathInv /\ [CarefulNext]_vars => PathInv'
  BY <1>1, PathStep DEF CarefulNext, ShallowNext
<1>3. QED
  BY <1>2, PathStart, PathIs, PTL DEF CarefulSpec
=============================================================================
