----------------------------- MODULE PhysProofs -----------------------------
(***************************************************************************)
(* Proofs about Phys for every memory map, every amount of low memory and  *)
(* every set of requests.  The inductive invariant is PhysIInv; the point  *)
(* of the argument is GrantIsFree: find_free_run may carry a run over from *)
(* the last page to page 0, and only because page 0 is always used does it *)
(* return pages that are contiguous, inside memory and free.               *)
(***************************************************************************)
EXTENDS Phys, FiniteSetTheorems, TLAPS

(* Moving the pages of D out of the bitmap moves the same number from one  *)
(* counter to the other.                                                   *)
LEMMA MoveBits ==
  ASSUME NEW n \in Nat, NEW B \in SUBSET (0 .. (n - 1)), NEW D \in SUBSET B
  PROVE  LET All == 0 .. (n - 1)
         IN  /\ Cardinality(D) \in Nat
             /\ Cardinality(B) \in Nat
             /\ Cardinality(All \ B) \in Nat
             /\ Cardinality(B \ D) \in Nat
             /\ Cardinality(B \ D) = Cardinality(B) - Cardinality(D)
             /\ Cardinality(All \ (B \ D))
                  = Cardinality(All \ B) + Cardinality(D)
<1> DEFINE All == 0 .. (n - 1)
<1>1. IsFiniteSet(All)
  BY FS_Interval
<1>2. IsFiniteSet(B) /\ IsFiniteSet(All \ B) /\ IsFiniteSet(B \ D)
  BY <1>1, FS_Subset
<1>3. IsFiniteSet(D)
  BY <1>2, FS_Subset
<1>4. /\ Cardinality(D) \in Nat /\ Cardinality(B) \in Nat
      /\ Cardinality(All \ B) \in Nat /\ Cardinality(B \ D) \in Nat
  BY <1>2, <1>3, FS_CardinalityType
<1>5. Cardinality(B \ D) = Cardinality(B) - Cardinality(D)
  <2>1. B \cap D = D
    OBVIOUS
  <2>2. QED
    BY <1>2, <2>1, FS_Difference
<1>6. Cardinality(All \ (B \ D)) = Cardinality(All \ B) + Cardinality(D)
  <2>1. All \ (B \ D) = (All \ B) \cup D
    OBVIOUS
  <2>2. (All \ B) \cap D = {}
    OBVIOUS
  <2>3. Cardinality((All \ B) \cap D) = 0
    BY <2>2, FS_EmptySet
  <2>4. Cardinality((All \ B) \cup D)
          = Cardinality(All \ B) + Cardinality(D)
              - Cardinality((All \ B) \cap D)
    BY <1>2, <1>3, FS_Union
  <2>5. Cardinality((All \ B) \cup D) = Cardinality(All \ B) + Cardinality(D)
    BY <1>4, <2>3, <2>4
  <2>6. QED
    BY <2>1, <2>5, Zenon
<1>7. QED
  BY <1>4, <1>5, <1>6

(* A run has as many pages as it says. *)
LEMMA RunSize ==
  ASSUME NEW r \in Run
  PROVE  IsFiniteSet(PagesOf(r)) /\ Cardinality(PagesOf(r)) = r.count
<1>1. r.start \in Nat /\ r.count \in Nat \ {0}
  BY DEF Run
<1> DEFINE last == r.start + r.count - 1
<1>2. r.start \in Int /\ last \in Int /\ ~(r.start > last)
  BY <1>1
<1>3. last - r.start + 1 = r.count
  BY <1>1
<1> HIDE DEF last
<1>4. /\ IsFiniteSet(r.start .. last)
      /\ Cardinality(r.start .. last) = last - r.start + 1
  BY <1>2, FS_Interval
<1>5. QED
  BY <1>3, <1>4 DEF PagesOf, last

(* The entries of a memory map are records with a base and a length. *)
LEMMA MapEntries ==
  ASSUME PhysTypeOK
  PROVE  /\ Len(memmap) \in Nat
         /\ DOMAIN memmap = 1 .. Len(memmap)
         /\ Usable \subseteq DOMAIN memmap
         /\ \A i \in DOMAIN memmap :
              /\ memmap[i].base \in Nat
              /\ memmap[i].length \in Nat
              /\ End(memmap[i]) \in Nat
              /\ memmap[i].usable <=> i \in Usable
<1>1. memmap \in Seq(MemEntry)
  BY PhysAssumption DEF PhysTypeOK
<1>2. Len(memmap) \in Nat /\ DOMAIN memmap = 1 .. Len(memmap)
  BY <1>1
<1>3. \A i \in DOMAIN memmap : memmap[i] \in MemEntry
  BY <1>1
<1>4. QED
  BY <1>2, <1>3 DEF MemEntry, End, Usable

(* Rounding to pages: the pages marking clears for an entry are those that *)
(* lie wholly inside it and above low memory.                              *)
LEMMA EntryPagesExact ==
  ASSUME NEW e, e.base \in Nat, End(e) \in Nat, NEW p \in Nat
  PROVE  p \in EntryPages(e) <=> /\ LowReserved <= p * PageSize
                                 /\ e.base <= p * PageSize
                                 /\ (p + 1) * PageSize <= End(e)
<1>1. LowReserved \in Nat
  BY PhysAssumption
<1>2. /\ CeilPage(LowReserved) \in Nat
      /\ CeilPage(LowReserved) <= p <=> LowReserved <= p * PageSize
  BY <1>1 DEF CeilPage, PageSize
<1>3. CeilPage(e.base) \in Nat /\ (CeilPage(e.base) <= p <=> e.base <= p * PageSize)
  BY DEF CeilPage, PageSize
<1>4. /\ FloorPage(End(e)) \in Nat
      /\ p <= FloorPage(End(e)) - 1 <=> (p + 1) * PageSize <= End(e)
  BY DEF FloorPage, PageSize
<1>5. QED
  BY <1>2, <1>3, <1>4 DEF EntryPages

(* The pages kept for the bitmap are those it touches. *)
LEMMA BitmapPagesExact ==
  ASSUME NEW p \in Nat, bitmapPhys \in Nat, totalPages \in Nat
  PROVE  p \in BitmapPages <=>
           /\ (p + 1) * PageSize > bitmapPhys
           /\ p * PageSize < bitmapPhys + BitmapSize(totalPages)
<1>1. BitmapSize(totalPages) \in Nat
  BY DEF BitmapSize
<1>2. /\ FloorPage(bitmapPhys) \in Nat
      /\ FloorPage(bitmapPhys) <= p <=> (p + 1) * PageSize > bitmapPhys
  BY DEF FloorPage, PageSize
<1> DEFINE last == bitmapPhys + BitmapSize(totalPages)
<1>3. last \in Nat
  BY <1>1
<1>4. /\ CeilPage(last) \in Nat
      /\ p <= CeilPage(last) - 1 <=> p * PageSize < last
  BY <1>3 DEF CeilPage, PageSize
<1>5. QED
  BY <1>2, <1>4 DEF BitmapPages
-----------------------------------------------------------------------------
(* With page 0 used, the run find_free_run returns does not wrap: it is    *)
(* contiguous, inside memory, free, and clear of page 0.                   *)
LEMMA GrantIsFree ==
  ASSUME PhysTypeOK, 0 \in bitmap, NEW r \in Run, Grant(r)
  PROVE  PagesOf(r) \subseteq Pages \ bitmap
<1>1. /\ totalPages \in Nat /\ totalPages > 0
      /\ lastAllocPage \in Nat
      /\ r.start \in Nat /\ r.count \in Nat /\ r.count > 0
  BY DEF PhysTypeOK, Pages, Run
<1>2. PICK q \in 0 .. (totalPages - 1) :
        FirstFit(q, r.count) /\ r.start = ScanPage(q)
  BY DEF Grant
<1>3. /\ q + r.count <= totalPages
      /\ \A i \in 0 .. (r.count - 1) : ScanPage(q + i) \notin bitmap
  BY <1>2 DEF FirstFit, RunAt
<1>4. ScanStart \in 0 .. (totalPages - 1)
  BY <1>1 DEF ScanStart
<1>5. SUFFICES ASSUME NEW p \in PagesOf(r)
               PROVE  p \in Pages \ bitmap
  OBVIOUS
<1> DEFINE i == p - r.start
<1>6. i \in 0 .. (r.count - 1) /\ p = r.start + i
  BY <1>1, <1>5 DEF PagesOf
<1>7. CASE ScanStart + q < totalPages
  <2>1. r.start = ScanStart + q
    BY <1>2, <1>7 DEF ScanPage
  <2>2. ScanStart + q + r.count <= totalPages
    <3>1. SUFFICES ASSUME ScanStart + q + r.count > totalPages
                   PROVE  FALSE
      BY <1>1, <1>2, <1>4
    <3> DEFINE k == totalPages - (ScanStart + q)
    <3>2. k \in 0 .. (r.count - 1)
      BY <1>1, <1>2, <1>4, <1>7, <3>1
    <3>3. ScanPage(q + k) = 0
      BY <1>1, <1>2, <1>4, <3>2 DEF ScanPage
    <3>4. QED
      BY <1>3, <3>2, <3>3
  <2>3. ScanPage(q + i) = p /\ p \in 0 .. (totalPages - 1)
    BY <1>1, <1>2, <1>4, <1>6, <2>1, <2>2 DEF ScanPage
  <2>4. QED
    BY <1>3, <1>6, <2>3 DEF Pages
<1>8. CASE ScanStart + q >= totalPages
  <2>1. r.start = ScanStart + q - totalPages
    BY <1>1, <1>2, <1>4, <1>8 DEF ScanPage
  <2>2. ScanPage(q + i) = p /\ p \in 0 .. (totalPages - 1)
    BY <1>1, <1>2, <1>3, <1>4, <1>6, <1>8, <2>1 DEF ScanPage
  <2>3. QED
    BY <1>3, <1>6, <2>2 DEF Pages
<1>9. QED
  BY <1>1, <1>2, <1>4, <1>7, <1>8

(* Once init is done, page 0 is used and reserved. *)
LEMMA ReadyFacts ==
  ASSUME PhysIInv, phase = "ready"
  PROVE  0 \in bitmap /\ 0 \in Pages /\ 0 \notin OwnedPages
BY DEF PhysIInv, BitmapExact, PhysTypeOK

(* Before init has run nothing is used, counted or granted. *)
LEMMA InitInv == PhysInit => PhysIInv
<1> SUFFICES ASSUME PhysInit PROVE PhysIInv
  OBVIOUS
<1>1. Len(memmap) \in Nat
  BY PhysAssumption DEF PhysInit
<1>2. PhysTypeOK
  BY <1>1 DEF PhysInit, PhysTypeOK, Pages
<1>3. BootProgress /\ NoDoubleGrant /\ BitmapExact /\ CountersExact
  BY DEF PhysInit, BootProgress, NoDoubleGrant, BitmapExact, CountersExact
<1>4. QED
  BY <1>2, <1>3 DEF PhysIInv

(* Reserved depends only on the memory map, which no call changes. *)
LEMMA ReservedStable == UNCHANGED bootVars => Reserved' = Reserved /\ Pages' = Pages
BY DEF bootVars, Reserved, Pages, Usable, End, BitmapSize

(* alloc_pages: the pages granted were free, and the counters follow. *)
LEMMA TakeInv ==
  ASSUME PhysIInv, NEW r \in Run, Take(r)
  PROVE  PhysIInv'
<1> USE DEF PhysIInv
<1>1. phase = "ready" /\ Grant(r)
  BY DEF Take, Grant
<1>2. PagesOf(r) \subseteq Pages \ bitmap
  BY <1>1, ReadyFacts, GrantIsFree
<1>3. /\ bitmap' = bitmap \cup PagesOf(r)
      /\ freePages' = freePages - r.count
      /\ usedPages' = usedPages + r.count
      /\ lastAllocPage' = r.start + r.count
      /\ owned' = owned \cup {r}
      /\ UNCHANGED bootVars
  BY DEF Take
<1>4. /\ totalPages \in Nat /\ bitmap \subseteq Pages
      /\ r.start \in Nat /\ r.count \in Nat \ {0}
  BY DEF PhysTypeOK, Run
<1>5. r.start + r.count <= totalPages
  <2>1. r.start + r.count - 1 \in PagesOf(r)
    BY <1>4 DEF PagesOf
  <2>2. QED
    BY <1>2, <1>4, <2>1 DEF Pages
<1>6. CountersExact' /\ freePages' \in Nat /\ usedPages' \in Nat
  <2>1. bitmap' \in SUBSET (0 .. (totalPages - 1)) /\ PagesOf(r) \in SUBSET bitmap'
    BY <1>2, <1>3, <1>4 DEF Pages
  <2>2. bitmap' \ PagesOf(r) = bitmap
    BY <1>2, <1>3
  <2>3. Cardinality(PagesOf(r)) = r.count
    BY RunSize
  <2>4. /\ Cardinality(bitmap') \in Nat
        /\ Cardinality((0 .. (totalPages - 1)) \ bitmap') \in Nat
        /\ Cardinality(bitmap) = Cardinality(bitmap') - r.count
        /\ Cardinality((0 .. (totalPages - 1)) \ bitmap)
             = Cardinality((0 .. (totalPages - 1)) \ bitmap') + r.count
    BY ZenonT(60), <1>4, <2>1, <2>2, <2>3, MoveBits
  <2>5. /\ freePages = Cardinality((0 .. (totalPages - 1)) \ bitmap)
        /\ usedPages = Cardinality(bitmap)
    BY <1>1 DEF CountersExact, Pages
  <2>6. /\ usedPages' = Cardinality(bitmap')
        /\ freePages' = Cardinality((0 .. (totalPages - 1)) \ bitmap')
    BY <1>3, <1>4, <2>4, <2>5
  <2>7. totalPages' = totalPages
    BY <1>3 DEF bootVars
  <2>8. QED
    BY <2>4, <2>6, <2>7 DEF CountersExact, Pages
<1>7. PhysTypeOK'
  <2>1. bitmap' \subseteq Pages' /\ owned' \subseteq Run
    BY <1>2, <1>3, <1>4, ReservedStable DEF PhysTypeOK
  <2>2. lastAllocPage' \in 0 .. totalPages'
    BY <1>3, <1>4, <1>5 DEF bootVars
  <2>3. QED
    BY <1>3, <1>6, <2>1, <2>2 DEF PhysTypeOK, bootVars
<1>8. BootProgress'
  BY <1>1, <1>3 DEF BootProgress, Measured, bootVars, Usable, End, BitmapSize
<1>9. \A s \in owned : PagesOf(s) \subseteq bitmap
  BY <1>1 DEF BitmapExact, OwnedPages
<1>10. NoDoubleGrant'
  <2>1. \A s \in owned : PagesOf(s) \cap PagesOf(r) = {}
    BY <1>2, <1>9
  <2>2. Pages' = Pages
    BY <1>3, ReservedStable
  <2>3. QED
    BY <1>2, <1>3, <2>1, <2>2 DEF NoDoubleGrant
<1>11. BitmapExact'
  <2>1. Reserved' = Reserved
    BY <1>3, ReservedStable
  <2>2. OwnedPages' = OwnedPages \cup PagesOf(r)
    BY <1>3 DEF OwnedPages
  <2>3. Reserved \subseteq bitmap
    BY <1>1 DEF BitmapExact
  <2>4. QED
    BY <1>1, <1>2, <1>3, <2>1, <2>2, <2>3 DEF BitmapExact
<1>12. QED
  BY <1>6, <1>7, <1>8, <1>10, <1>11

(* free_pages: the pages of the run were all used, and become free. *)
LEMMA FreeInv ==
  ASSUME PhysIInv, NEW r \in owned, FreePages(r)
  PROVE  PhysIInv'
<1> USE DEF PhysIInv
<1>1. phase = "ready" /\ r \in Run
  BY DEF FreePages, PhysTypeOK
<1>2. PagesOf(r) \subseteq bitmap /\ PagesOf(r) \subseteq Pages
  BY <1>1 DEF BitmapExact, OwnedPages, PhysTypeOK
<1>3. /\ bitmap' = bitmap \ PagesOf(r)
      /\ freePages' = freePages + Cardinality(PagesOf(r))
      /\ usedPages' = usedPages - Cardinality(PagesOf(r))
      /\ owned' = owned \ {r}
      /\ UNCHANGED bootVars /\ UNCHANGED lastAllocPage
  <2>1. PagesOf(r) \cap Pages \cap bitmap = PagesOf(r)
    BY <1>2
  <2>2. QED
    BY <2>1 DEF FreePages
<1>4. totalPages \in Nat /\ bitmap \subseteq Pages
  BY DEF PhysTypeOK
<1>5. CountersExact' /\ freePages' \in Nat /\ usedPages' \in Nat
  <2>1. bitmap \in SUBSET (0 .. (totalPages - 1)) /\ PagesOf(r) \in SUBSET bitmap
    BY <1>2, <1>4 DEF Pages
  <2>2. /\ Cardinality(PagesOf(r)) \in Nat
        /\ Cardinality(bitmap) \in Nat
        /\ Cardinality(bitmap') \in Nat
        /\ Cardinality((0 .. (totalPages - 1)) \ bitmap) \in Nat
        /\ Cardinality(bitmap') = Cardinality(bitmap) - Cardinality(PagesOf(r))
        /\ Cardinality((0 .. (totalPages - 1)) \ bitmap')
             = Cardinality((0 .. (totalPages - 1)) \ bitmap)
                 + Cardinality(PagesOf(r))
    BY <1>3, <1>4, <2>1, MoveBits
  <2>3. /\ freePages = Cardinality((0 .. (totalPages - 1)) \ bitmap)
        /\ usedPages = Cardinality(bitmap)
    BY <1>1 DEF CountersExact, Pages
  <2>4. totalPages' = totalPages
    BY <1>3 DEF bootVars
  <2>5. /\ freePages' = Cardinality((0 .. (totalPages - 1)) \ bitmap')
        /\ usedPages' = Cardinality(bitmap')
        /\ freePages' \in Nat /\ usedPages' \in Nat
    BY <1>3, <2>2, <2>3
  <2>6. QED
    BY <2>4, <2>5 DEF CountersExact, Pages
<1>6. PhysTypeOK'
  BY <1>3, <1>4, <1>5 DEF PhysTypeOK, bootVars, Pages
<1>7. BootProgress'
  BY <1>1, <1>3 DEF BootProgress, Measured, bootVars, Usable, End, BitmapSize
<1>8. NoDoubleGrant'
  <2>1. Pages' = Pages
    BY <1>3, ReservedStable
  <2>2. QED
    BY <1>3, <2>1 DEF NoDoubleGrant
<1>9. BitmapExact'
  <2>1. Reserved' = Reserved
    BY <1>3, ReservedStable
  <2>2. \A s \in owned : s # r => PagesOf(s) \cap PagesOf(r) = {}
    BY DEF NoDoubleGrant
  <2>3. OwnedPages' = OwnedPages \ PagesOf(r)
    BY <1>3, <2>2 DEF OwnedPages
  <2>4. PagesOf(r) \subseteq OwnedPages
    BY DEF OwnedPages
  <2>5. QED
    BY <1>1, <1>3, <2>1, <2>3, <2>4 DEF BitmapExact
<1>10. QED
  BY <1>5, <1>6, <1>7, <1>8, <1>9
-----------------------------------------------------------------------------
(* The first half of init: memory is measured, the bitmap has a place that *)
(* ends inside it, and every page is used.                                 *)
LEMMA InitStartInv ==
  ASSUME PhysIInv, InitStart
  PROVE  PhysIInv'
<1> USE DEF PhysIInv
<1>1. /\ phase = "boot" /\ phase' = "marking"
      /\ scanned = 0 /\ owned = {} /\ lastAllocPage = 0
      /\ freePages' = 0 /\ UNCHANGED <<memmap, scanned, lastAllocPage, owned>>
  BY DEF InitStart, BootProgress
<1>2. PICK i \in DOMAIN memmap, a \in {End(memmap[j]) : j \in Usable} :
        /\ a > 0
        /\ IsMaxAddr(a)
        /\ ReserveBitmapStorage(BitmapSize(CeilPage(a)), i)
        /\ totalPages' = CeilPage(a)
        /\ bitmapPhys' = Candidate(memmap[i])
        /\ bitmap'     = 0 .. (CeilPage(a) - 1)
        /\ usedPages'  = CeilPage(a)
  BY DEF InitStart
<1>3. /\ a \in Nat /\ memmap[i].base \in Nat /\ End(memmap[i]) \in Nat
      /\ i \in Usable /\ LowReserved \in Nat \ {0}
      /\ \A j \in Usable : End(memmap[j]) \in Nat /\ End(memmap[j]) <= a
  BY <1>2, MapEntries, PhysAssumption
     DEF IsMaxAddr, ReserveBitmapStorage, HasRoom
<1>4. CeilPage(a) \in Nat /\ CeilPage(a) > 0 /\ a <= CeilPage(a) * PageSize
  BY <1>2, <1>3 DEF CeilPage, PageSize
<1>5. /\ bitmapPhys' \in Nat /\ bitmapPhys' >= LowReserved
      /\ bitmapPhys' + BitmapSize(totalPages') <= totalPages' * PageSize
  <2>1. BitmapSize(CeilPage(a)) \in Nat
    BY <1>4 DEF BitmapSize
  <2>2. Candidate(memmap[i]) \in Nat /\ Candidate(memmap[i]) >= LowReserved
    BY <1>3 DEF Candidate
  <2>3. Candidate(memmap[i]) + BitmapSize(CeilPage(a)) <= End(memmap[i])
    BY <1>2 DEF ReserveBitmapStorage, HasRoom
  <2>4. CeilPage(a) * PageSize \in Nat
    BY <1>4 DEF PageSize
  <2> HIDE DEF PhysIInv
  <2>5. QED
    BY <1>2, <1>3, <1>4, <2>1, <2>2, <2>3, <2>4
<1>6. Usable' = Usable /\ (\A j \in DOMAIN memmap : End(memmap[j])' = End(memmap[j]))
  BY <1>1 DEF Usable, End
<1>7. Measured'
  <2>1. \A j \in Usable : End(memmap[j]) <= CeilPage(a) * PageSize
    BY <1>3, <1>4 DEF PageSize
  <2>2. QED
    BY <1>1, <1>2, <1>4, <1>5, <1>6, <2>1 DEF Measured, Usable, End
<1>8. bitmap' = Pages' /\ totalPages' \in Nat
  BY <1>2, <1>4 DEF Pages
<1>9. BootProgress'
  <2>1. {j \in Usable' : j <= scanned'} = {}
    BY <1>1, <1>6, MapEntries
  <2>2. UNION {EntryPages(memmap'[j]) : j \in {k \in Usable' : k <= scanned'}} = {}
    BY <2>1
  <2>3. QED
    BY <1>1, <1>7, <1>8, <2>2 DEF BootProgress
<1>10. PhysTypeOK'
  BY <1>1, <1>2, <1>4, <1>5, <1>8 DEF PhysTypeOK
<1>11. CountersExact'
  <2>1. Cardinality(Pages' \ bitmap') = 0
    BY <1>8, FS_EmptySet
  <2>2. Cardinality(bitmap') = CeilPage(a)
    <3>1. 0 \in Int /\ CeilPage(a) - 1 \in Int /\ ~(0 > CeilPage(a) - 1)
      BY <1>4
    <3>2. Cardinality(0 .. (CeilPage(a) - 1)) = CeilPage(a) - 1 - 0 + 1
      BY <3>1, FS_Interval
    <3>3. QED
      BY <1>2, <1>4, <3>2
  <2>3. QED
    BY <1>1, <1>2, <2>1, <2>2 DEF CountersExact
<1>12. NoDoubleGrant' /\ BitmapExact'
  BY <1>1 DEF NoDoubleGrant, BitmapExact
<1>13. QED
  BY <1>9, <1>10, <1>11, <1>12

(* init gives up: no usable entry has room for the bitmap. *)
LEMMA InitFailsInv ==
  ASSUME PhysIInv, InitFails
  PROVE  PhysIInv'
<1> USE DEF PhysIInv
<1>1. /\ phase = "boot" /\ phase' = "failed" /\ bitmap = {} /\ owned = {}
      /\ lastAllocPage = 0 /\ scanned = 0
      /\ UNCHANGED <<memmap, scanned, bitmapPhys, bitmap, freePages, usedPages,
                     lastAllocPage, owned>>
  BY DEF InitFails, BootProgress
<1>2. totalPages' \in Nat
  <2>1. PICK a \in {0} \cup {End(memmap[j]) : j \in Usable} :
          totalPages' = CeilPage(a)
    BY DEF InitFails
  <2>2. a \in Nat
    BY MapEntries
  <2>3. QED
    BY <2>1, <2>2 DEF CeilPage, PageSize
<1>3. PhysTypeOK'
  BY <1>1, <1>2 DEF PhysTypeOK
<1>4. BootProgress' /\ NoDoubleGrant' /\ BitmapExact' /\ CountersExact'
  BY <1>1 DEF BootProgress, NoDoubleGrant, BitmapExact, CountersExact
<1>5. QED
  BY <1>3, <1>4

(* One round of the marking loop: usable entries do not overlap, so no page *)
(* is counted as free twice.                                                *)
LEMMA MarkUsableInv ==
  ASSUME PhysIInv, MarkUsable
  PROVE  PhysIInv'
<1> USE DEF PhysIInv
<1> DEFINE n == scanned + 1
           e == memmap[n]
           cleared == IF e.usable THEN EntryPages(e) \cap Pages ELSE {}
<1>1. /\ phase = "marking" /\ scanned < Len(memmap)
      /\ bitmap'    = bitmap \ cleared
      /\ freePages' = freePages + Cardinality(cleared)
      /\ usedPages' = usedPages - Cardinality(cleared)
      /\ scanned' = n
      /\ UNCHANGED <<memmap, phase, bitmapPhys, totalPages, lastAllocPage, owned>>
  BY DEF MarkUsable
<1>2. /\ totalPages \in Nat /\ bitmap \subseteq Pages
      /\ scanned \in Nat /\ n \in DOMAIN memmap
      /\ e.base \in Nat /\ End(e) \in Nat /\ (e.usable <=> n \in Usable)
  <2>1. totalPages \in Nat /\ bitmap \subseteq Pages /\ scanned \in 0 .. Len(memmap)
    BY DEF PhysTypeOK
  <2>2. n \in DOMAIN memmap
    BY <1>1, <2>1, MapEntries
  <2>3. QED
    BY <2>1, <2>2, MapEntries
<1>3. owned = {} /\ lastAllocPage = 0 /\ Measured
      /\ bitmap = Pages \ UNION {EntryPages(memmap[i]) :
                                   i \in {j \in Usable : j <= scanned}}
  BY <1>1 DEF BootProgress
<1>4. \A i \in Usable : i <= scanned => cleared \cap EntryPages(memmap[i]) = {}
  <2>1. SUFFICES ASSUME NEW i \in Usable, i <= scanned, NEW p \in cleared,
                        p \in EntryPages(memmap[i])
                 PROVE  FALSE
    OBVIOUS
  <2>2. p \in Nat /\ p \in EntryPages(e) /\ n \in Usable
    BY <1>2, <2>1 DEF Pages
  <2>3. /\ memmap[i].base \in Nat /\ End(memmap[i]) \in Nat
        /\ i \in DOMAIN memmap /\ i \in Nat
    BY <2>1, MapEntries
  <2>4. /\ e.base <= p * PageSize /\ (p + 1) * PageSize <= End(e)
        /\ memmap[i].base <= p * PageSize
        /\ (p + 1) * PageSize <= End(memmap[i])
    BY <1>2, <2>1, <2>2, <2>3, EntryPagesExact
  <2>5. End(memmap[i]) <= e.base \/ End(e) <= memmap[i].base
    <3>1. i # n
      BY <1>2, <2>1, <2>3
    <3>2. memmap \in MemMaps /\ memmap[i].usable /\ memmap[n].usable
      BY <2>1, <2>2 DEF PhysTypeOK, Usable
    <3>3. QED
      BY <1>2, <2>3, <3>1, <3>2, PhysAssumption
  <2> HIDE DEF e, PhysIInv
  <2>6. QED
    BY <1>2, <2>2, <2>3, <2>4, <2>5 DEF PageSize
<1>5. cleared \subseteq bitmap /\ cleared \subseteq Pages
  BY <1>3, <1>4
<1>6. CountersExact' /\ freePages' \in Nat /\ usedPages' \in Nat
  <2>1. bitmap \in SUBSET (0 .. (totalPages - 1)) /\ cleared \in SUBSET bitmap
    BY <1>2, <1>5 DEF Pages
  <2> HIDE DEF cleared
  <2>2. /\ Cardinality(cleared) \in Nat
        /\ Cardinality(bitmap) \in Nat
        /\ Cardinality(bitmap') \in Nat
        /\ Cardinality((0 .. (totalPages - 1)) \ bitmap) \in Nat
        /\ Cardinality(bitmap') = Cardinality(bitmap) - Cardinality(cleared)
        /\ Cardinality((0 .. (totalPages - 1)) \ bitmap')
             = Cardinality((0 .. (totalPages - 1)) \ bitmap) + Cardinality(cleared)
    BY <1>1, <1>2, <2>1, MoveBits
  <2>3. /\ freePages = Cardinality((0 .. (totalPages - 1)) \ bitmap)
        /\ usedPages = Cardinality(bitmap)
    BY <1>1 DEF CountersExact, Pages
  <2>4. /\ freePages' = Cardinality((0 .. (totalPages - 1)) \ bitmap')
        /\ usedPages' = Cardinality(bitmap')
        /\ freePages' \in Nat /\ usedPages' \in Nat
    BY <1>1, <2>2, <2>3
  <2>5. totalPages' = totalPages
    BY <1>1
  <2>6. QED
    BY <2>4, <2>5 DEF CountersExact, Pages
<1>7. Pages' = Pages /\ Usable' = Usable /\ memmap' = memmap /\ Measured'
  BY <1>1, <1>3 DEF Pages, Usable, Measured, BitmapSize, End
<1>8. PhysTypeOK'
  <2>1. scanned' \in 0 .. Len(memmap')
    BY <1>1, <1>2, MapEntries
  <2>2. bitmap' \subseteq Pages'
    BY <1>1, <1>2, <1>7
  <2>3. QED
    BY <1>1, <1>6, <2>1, <2>2 DEF PhysTypeOK
<1>9. BootProgress'
  <2>1. {j \in Usable : j <= n}
          = IF e.usable THEN {j \in Usable : j <= scanned} \cup {n}
                        ELSE {j \in Usable : j <= scanned}
    BY <1>2, MapEntries
  <2>2. bitmap' = Pages \ UNION {EntryPages(memmap[i]) :
                                  i \in {j \in Usable : j <= n}}
    <3> HIDE DEF n, PhysIInv
    <3>1. CASE e.usable
      BY <1>1, <1>3, <2>1, <3>1
    <3>2. CASE ~e.usable
      BY <1>1, <1>3, <2>1, <3>2
    <3>3. QED
      BY <3>1, <3>2
  <2>3. \A x : EntryPages(x)' = EntryPages(x)
    BY DEF EntryPages, CeilPage, FloorPage, PageSize, End
  <2>4. QED
    BY <1>1, <1>3, <1>7, <2>2 DEF BootProgress, EntryPages
<1>10. NoDoubleGrant' /\ BitmapExact'
  BY <1>1, <1>3 DEF NoDoubleGrant, BitmapExact
<1>11. QED
  BY <1>6, <1>8, <1>9, <1>10

(* What init leaves used is exactly what is reserved. *)
LEMMA MarkedIsReserved ==
  ASSUME PhysTypeOK, Measured,
         bitmap = Pages \ UNION {EntryPages(memmap[i]) : i \in Usable}
  PROVE  bitmap \cup (BitmapPages \cap Pages) = Reserved /\ 0 \in Reserved
<1>1. totalPages \in Nat /\ totalPages > 0 /\ bitmapPhys \in Nat
  BY DEF PhysTypeOK, Measured
<1>2. ASSUME NEW p \in Pages
      PROVE  p \in bitmap \cup (BitmapPages \cap Pages) <=> p \in Reserved
  <2>1. p \in Nat /\ LowReserved \in Nat /\ p * PageSize \in Nat
    BY <1>1, <1>2, PhysAssumption DEF Pages, PageSize
  <2>2. p \in BitmapPages <=>
          /\ (p + 1) * PageSize > bitmapPhys
          /\ p * PageSize < bitmapPhys + BitmapSize(totalPages)
    BY <1>1, <2>1, BitmapPagesExact
  <2>3. \A i \in Usable :
          p \in EntryPages(memmap[i]) <=>
            /\ LowReserved <= p * PageSize
            /\ memmap[i].base <= p * PageSize
            /\ (p + 1) * PageSize <= End(memmap[i])
    BY <2>1, MapEntries, EntryPagesExact
  <2>4. p \in bitmap <=> ~\E i \in Usable : p \in EntryPages(memmap[i])
    BY <1>2
  <2>5. ~(p * PageSize < LowReserved) <=> LowReserved <= p * PageSize
    BY <2>1
  <2>6. p \in Reserved <=>
          \/ p * PageSize < LowReserved
          \/ p \in BitmapPages
          \/ ~\E i \in Usable : /\ memmap[i].base <= p * PageSize
                                /\ (p + 1) * PageSize <= End(memmap[i])
    BY <1>2, <2>2 DEF Reserved
  <2>7. QED
    BY <1>2, <2>3, <2>4, <2>5, <2>6
<1>3. bitmap \subseteq Pages /\ Reserved \subseteq Pages
  BY DEF Reserved
<1>4. 0 \in Reserved
  <2>1. 0 \in Pages /\ 0 * PageSize < LowReserved
    BY <1>1, PhysAssumption DEF Pages, PageSize
  <2>2. QED
    BY <2>1 DEF Reserved
<1>5. QED
  BY <1>2, <1>3, <1>4

(* The last step of init: the pages under the bitmap are used again. *)
LEMMA KeepInv ==
  ASSUME PhysIInv, KeepBitmapReserved
  PROVE  PhysIInv'
<1> USE DEF PhysIInv
<1> DEFINE marked == (BitmapPages \cap Pages) \ bitmap
<1>1. /\ phase = "marking" /\ scanned = Len(memmap) /\ phase' = "ready"
      /\ bitmap'    = bitmap \cup marked
      /\ freePages' = freePages - Cardinality(marked)
      /\ usedPages' = usedPages + Cardinality(marked)
      /\ lastAllocPage' = 0
      /\ UNCHANGED <<memmap, scanned, bitmapPhys, totalPages, owned>>
  BY DEF KeepBitmapReserved
<1>2. /\ totalPages \in Nat /\ bitmap \subseteq Pages
      /\ owned = {} /\ Measured
  BY <1>1 DEF PhysTypeOK, BootProgress
<1>3. bitmap = Pages \ UNION {EntryPages(memmap[i]) : i \in Usable}
  <2>1. {j \in Usable : j <= scanned} = Usable
    BY <1>1, MapEntries
  <2>2. QED
    BY <1>1, <2>1 DEF BootProgress
<1>4. bitmap' = Reserved /\ 0 \in Reserved
  BY <1>1, <1>2, <1>3, MarkedIsReserved
<1>5. Reserved' = Reserved /\ Pages' = Pages
  BY <1>1 DEF Reserved, Pages, Usable, End, BitmapSize
<1>6. CountersExact' /\ freePages' \in Nat /\ usedPages' \in Nat
  <2>1. /\ bitmap' \in SUBSET (0 .. (totalPages - 1))
        /\ marked \in SUBSET bitmap'
        /\ bitmap' \ marked = bitmap
    BY <1>1, <1>2 DEF Pages
  <2> HIDE DEF marked
  <2>2. /\ Cardinality(marked) \in Nat
        /\ Cardinality(bitmap') \in Nat
        /\ Cardinality((0 .. (totalPages - 1)) \ bitmap') \in Nat
        /\ Cardinality(bitmap) = Cardinality(bitmap') - Cardinality(marked)
        /\ Cardinality((0 .. (totalPages - 1)) \ bitmap)
             = Cardinality((0 .. (totalPages - 1)) \ bitmap') + Cardinality(marked)
    BY <1>2, <2>1, MoveBits
  <2>3. /\ freePages = Cardinality((0 .. (totalPages - 1)) \ bitmap)
        /\ usedPages = Cardinality(bitmap)
    BY <1>1 DEF CountersExact, Pages
  <2>4. /\ freePages' = Cardinality((0 .. (totalPages - 1)) \ bitmap')
        /\ usedPages' = Cardinality(bitmap')
    BY <1>1, <2>2, <2>3
  <2>5. totalPages' = totalPages
    BY <1>1
  <2>6. QED
    BY <2>2, <2>4, <2>5 DEF CountersExact, Pages
<1>7. PhysTypeOK'
  <2>1. bitmap' \subseteq Pages'
    BY <1>1, <1>2, <1>5
  <2>2. QED
    BY <1>1, <1>2, <1>6, <2>1 DEF PhysTypeOK
<1>8. BootProgress'
  BY <1>1, <1>2 DEF BootProgress, Measured, Usable, End, BitmapSize
<1>9. NoDoubleGrant'
  BY <1>1, <1>2 DEF NoDoubleGrant
<1>10. BitmapExact'
  <2>1. OwnedPages' = {}
    BY <1>1, <1>2 DEF OwnedPages
  <2>2. QED
    BY <1>4, <1>5, <2>1 DEF BitmapExact
<1>11. QED
  BY <1>6, <1>7, <1>8, <1>9, <1>10

(* Every step of the allocator keeps the inductive invariant. *)
LEMMA NextInv == PhysIInv /\ [PhysNext]_physVars => PhysIInv'
<1> SUFFICES ASSUME PhysIInv, [PhysNext]_physVars
             PROVE  PhysIInv'
  OBVIOUS
<1>1. CASE Boot
  BY <1>1, InitStartInv, InitFailsInv, MarkUsableInv, KeepInv DEF Boot
<1>2. ASSUME NEW count \in Requests, AllocPages(count)
      PROVE  PhysIInv'
  <2>1. PICK s \in Pages : Take([start |-> s, count |-> count])
    BY <1>2 DEF AllocPages
  <2>2. [start |-> s, count |-> count] \in Run
    <3>1. s \in Nat /\ count \in Nat
      BY PhysAssumption DEF Pages, PhysIInv, PhysTypeOK
    <3>2. count > 0
      BY <2>1 DEF Take, Grant
    <3>3. QED
      BY <3>1, <3>2 DEF Run
  <2>3. QED
    BY <2>1, <2>2, TakeInv
<1>3. ASSUME NEW r \in owned, FreePages(r)
      PROVE  PhysIInv'
  BY <1>3, FreeInv
<1>4. CASE UNCHANGED physVars
  BY <1>4 DEF physVars, PhysIInv, PhysTypeOK, BootProgress, Measured,
     NoDoubleGrant, BitmapExact, CountersExact, Pages, OwnedPages, Reserved,
     Usable, End, EntryPages, CeilPage, FloorPage, PageSize, BitmapSize
<1>5. QED
  BY <1>1, <1>2, <1>3, <1>4 DEF PhysNext, AllocPagesFails
-----------------------------------------------------------------------------
(* The inductive invariant holds in every reachable state. *)
THEOREM PhysInvariant == PhysSpec => []PhysIInv
BY InitInv, NextInv, PTL DEF PhysSpec

(* Every variable of the page allocator stays in its range: phys.cpp, init, *)
(* alloc_pages and free_pages.                                              *)
THEOREM PhysTypeCorrect == PhysSpec => []PhysTypeOK
<1>1. PhysIInv => PhysTypeOK
  BY DEF PhysIInv
<1>2. QED
  BY <1>1, PhysInvariant, PTL

(* alloc_pages never hands out a page twice, nor one outside memory. *)
THEOREM PhysNoDoubleGrant == PhysSpec => []NoDoubleGrant
<1>1. PhysIInv => NoDoubleGrant
  BY DEF PhysIInv
<1>2. QED
  BY <1>1, PhysInvariant, PTL

(* After init the bitmap is the reserved pages and the pages clients hold: *)
(* free_pages leaks nothing and page 0, the failure value, is never given. *)
THEOREM PhysBitmapExact == PhysSpec => []BitmapExact
<1>1. PhysIInv => BitmapExact
  BY DEF PhysIInv
<1>2. QED
  BY <1>1, PhysInvariant, PTL

(* free_pages() and used_pages() always agree with the bitmap. *)
THEOREM PhysCountersExact == PhysSpec => []CountersExact
<1>1. PhysIInv => CountersExact
  BY DEF PhysIInv
<1>2. QED
  BY <1>1, PhysInvariant, PTL
-----------------------------------------------------------------------------
(* The initial states map to the unopened pool. *)
LEMMA PoolInit == PhysInit => Pool!PAInit
BY DEF PhysInit, Pool!PAInit

(* init opens the pool in its last step: with every page it left clear,    *)
(* none of which is page 0.                                                *)
LEMMA PoolOpens ==
  ASSUME PhysIInv, PhysIInv', KeepBitmapReserved
  PROVE  Pool!Open
<1>1. phase = "marking" /\ phase' = "ready" /\ UNCHANGED owned
  BY DEF KeepBitmapReserved
<1>2. Pages' \ bitmap' \in SUBSET (Nat \ {0})
  <2>1. 0 \in bitmap' /\ totalPages' \in Nat
    BY <1>1 DEF PhysIInv, BitmapExact, PhysTypeOK
  <2>2. QED
    BY <2>1 DEF Pages
<1>3. QED
  BY <1>1, <1>2 DEF Pool!Open

(* A grant takes a contiguous run of the pool. *)
LEMMA PoolAllocs ==
  ASSUME PhysIInv, NEW count \in Requests, AllocPages(count)
  PROVE  Pool!Alloc
<1>1. PICK s \in Pages : Take([start |-> s, count |-> count])
  BY DEF AllocPages
<1> DEFINE r == [start |-> s, count |-> count]
<1>2. /\ phase = "ready" /\ count > 0 /\ Grant(r)
      /\ bitmap' = bitmap \cup PagesOf(r) /\ owned' = owned \cup {r}
      /\ phase' = phase /\ Pages' = Pages
  BY <1>1, ReservedStable DEF Take, Grant, bootVars
<1>3. s \in Nat /\ count \in Nat /\ r \in Run
  BY <1>2, PhysAssumption DEF Pages, PhysIInv, PhysTypeOK, Run
<1>4. PagesOf(r) \subseteq Pages \ bitmap
  BY <1>2, <1>3, ReadyFacts, GrantIsFree DEF PhysIInv
<1>5. PagesOf(r) = Pool!Extent(s, count) /\ s \in PagesOf(r)
  BY <1>2, <1>3 DEF PagesOf, Pool!Extent
<1>6. Pages' \ bitmap' = (Pages \ bitmap) \ Pool!Extent(s, count)
  BY <1>2, <1>5
<1>7. count \in Requests \ {0}
  BY <1>2
<1>8. QED
  BY <1>2, <1>4, <1>5, <1>6, <1>7 DEF Pool!Alloc

(* free_pages returns to the pool exactly the run that was granted. *)
LEMMA PoolReleases ==
  ASSUME PhysIInv, NEW r \in owned, FreePages(r)
  PROVE  Pool!Release
<1>1. phase = "ready" /\ phase' = "ready" /\ Pages' = Pages
  BY ReservedStable DEF FreePages, bootVars
<1>2. PagesOf(r) \subseteq bitmap /\ PagesOf(r) \subseteq Pages
  BY <1>1 DEF PhysIInv, BitmapExact, OwnedPages, NoDoubleGrant
<1>3. bitmap' = bitmap \ PagesOf(r) /\ owned' = owned \ {r}
  <2>1. PagesOf(r) \cap Pages \cap bitmap = PagesOf(r)
    BY <1>2
  <2>2. QED
    BY <2>1 DEF FreePages
<1>4. PagesOf(r) = Pool!Extent(r.start, r.count)
  BY DEF PagesOf, Pool!Extent
<1>5. Pages' \ bitmap' = (Pages \ bitmap) \cup Pool!Extent(r.start, r.count)
  BY <1>1, <1>2, <1>3, <1>4
<1>6. QED
  BY <1>1, <1>3, <1>5 DEF Pool!Release

(* The first steps of init, and a failed request, do not touch the pool. *)
LEMMA PoolStutters ==
  ASSUME InitStart \/ InitFails \/ MarkUsable \/ UNCHANGED physVars
  PROVE  UNCHANGED Pool!paVars
BY DEF InitStart, InitFails, MarkUsable, physVars, Pool!paVars, Pages

(* Every step maps to a step of the pool or leaves it alone. *)
LEMMA PoolNext ==
  PhysIInv /\ PhysIInv' /\ [PhysNext]_physVars => [Pool!PANext]_(Pool!paVars)
<1> SUFFICES ASSUME PhysIInv, PhysIInv', [PhysNext]_physVars
             PROVE  Pool!PANext \/ UNCHANGED Pool!paVars
  OBVIOUS
<1>1. CASE Boot
  BY <1>1, PoolOpens, PoolStutters DEF Boot, Pool!PANext
<1>2. ASSUME NEW count \in Requests, AllocPages(count)
      PROVE  Pool!PANext
  BY <1>2, PoolAllocs DEF Pool!PANext
<1>3. ASSUME NEW r \in owned, FreePages(r)
      PROVE  Pool!PANext
  BY <1>3, PoolReleases DEF Pool!PANext
<1>4. CASE UNCHANGED physVars
  BY <1>4, PoolStutters
<1>5. QED
  BY <1>1, <1>2, <1>3, <1>4 DEF PhysNext, AllocPagesFails

(* The bitmap allocator with its hint implements the abstract pool: every  *)
(* alloc_pages grants a contiguous run of free pages other than page 0,    *)
(* every free_pages returns exactly one granted run.                       *)
THEOREM PhysImplementsPool == PhysSpec => ImplementsPool
BY PoolInit, PoolNext, PhysInvariant, PTL
   DEF PhysSpec, ImplementsPool, Pool!PASpec
=============================================================================
