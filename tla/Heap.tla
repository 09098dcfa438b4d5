-------------------------------- MODULE Heap --------------------------------
(***************************************************************************)
(* The kernel heap, mm/heap.cpp, and the DMA buffer allocator,             *)
(* drivers/dma.cpp, on top of the page allocator they share.  A region is  *)
(* a run of pages that starts with a RegionHeader; its blocks, each behind *)
(* a BlockHeader, form a list in address order, and what lies between them *)
(* are the holes kmalloc places new blocks in.                             *)
(***************************************************************************)
EXTENDS Phys, SequencesExt

CONSTANTS
  MinRegionPages,   \* MIN_REGION_PAGES
  MaxU32,           \* 0xFFFFFFFF, the largest payload and region size
  WordSize,         \* 2^64: size_t arithmetic is modulo this
  HeapSizes,        \* the sizes callers ask kmalloc and krealloc for
  CallocCounts,     \* the counts callers ask kcalloc for
  DmaSizes          \* the sizes drivers ask dma::alloc for

Alignment == 16
RegionHeader == 48
BlockHeader  == 48

ASSUME HeapAssumption ==
  /\ MinRegionPages \in Nat \ {0}
  /\ MaxU32 \in Nat
  /\ WordSize \in Nat \ {0} /\ WordSize % Alignment = 0
  /\ HeapSizes \subseteq 0 .. (WordSize - 1)
  /\ CallocCounts \subseteq 1 .. (WordSize - 1)
  /\ DmaSizes \subseteq Nat

VARIABLES
  regions,            \* the list from g_root: where, how full, which blocks
  best,               \* g_best: the first page of a region, 0 for nullptr
  growing,            \* the block krealloc is moving away from, 0 for none
  totalRegionBytes,   \* g_total_region_bytes
  inUseBytes,         \* g_in_use_bytes
  peakInUseBytes,     \* g_peak_in_use_bytes
  liveAllocations,    \* g_live_allocations
  dmaReady,           \* dma::g_ready
  dmaRuns             \* the runs drivers got from dma::alloc

heapVars == <<regions, best, growing, totalRegionBytes, inUseBytes,
              peakInUseBytes, liveAllocations>>
dmaVars  == <<dmaReady, dmaRuns>>
vars     == <<physVars, heapVars, dmaVars>>

CeilTo(value, unit) == ((value + unit - 1) \div unit) * unit

(* align_up adds before it masks, so the sizes next to 2^64 wrap to 0. *)
Payload(size) == CeilTo(size, Alignment) % WordSize

(* BlockHeader.req_size is a uint32_t. *)
ReqSize(size) == size % (MaxU32 + 1)

(***************************************************************************)
(* The geometry of a region: its size in bytes, the free bytes it counts,  *)
(* and hole k, which lies behind block k (behind the header if k = 0).     *)
(***************************************************************************)
SizeOf(r)    == r.run.count * PageSize
FreeBytes(r) == SizeOf(r) - r.usage

AfterBlock(b) == b.off + BlockHeader + b.size

(* Mutant: the hole behind a block is taken to reach to the region's end. *)
HoleEndOfRegion(r, k) == SizeOf(r)

HoleStart(r, k) == IF k = 0 THEN RegionHeader ELSE AfterBlock(r.blocks[k])
HoleEnd(r, k) ==
  IF k = Len(r.blocks) THEN SizeOf(r) ELSE r.blocks[k + 1].off

(* Mutant: the header is not counted in what a hole must hold. *)
FitsNoHeader(r, k, payload) ==
  r.blocks = <<>> \/ HoleEnd(r, k) - HoleStart(r, k) >= payload

(* place_block tries the holes in order; an empty region is taken unseen. *)
Fits(r, k, payload) ==
  \/ r.blocks = <<>>
  \/ HoleEnd(r, k) - HoleStart(r, k) >= BlockHeader + payload

FirstHole(r, k, payload) ==
  Fits(r, k, payload) /\ \A j \in 0 .. (k - 1) : ~Fits(r, j, payload)

HasHole(r, payload) == \E k \in 0 .. Len(r.blocks) : Fits(r, k, payload)

(* Mutant: usage grows by the request, kfree takes the payload off. *)
PlacedByRequest(r, k, req) ==
  [r EXCEPT !.blocks = InsertAt(@, k + 1, [off |-> HoleStart(r, k),
                         size |-> Payload(req), req |-> ReqSize(req)]),
            !.usage  = @ + BlockHeader + req]

Placed(r, k, req) ==
  LET block == [off |-> HoleStart(r, k), size |-> Payload(req),
                req |-> ReqSize(req)]
  IN  [r EXCEPT !.blocks = InsertAt(@, k + 1, block),
                !.usage  = @ + BlockHeader + Payload(req)]

(* The callers' pointer to a block, as a physical address. *)
PtrOf(r, b) == r.run.start * PageSize + b.off + BlockHeader

(***************************************************************************)
(* refresh_best_hint: the first region with the most free bytes, if any    *)
(* has free bytes.                                                         *)
(***************************************************************************)
IsBest(rs, page) ==
  \/ page = 0 /\ \A i \in DOMAIN rs : FreeBytes(rs[i]) <= 0
  \/ \E i \in DOMAIN rs :
       /\ page = rs[i].run.start /\ FreeBytes(rs[i]) > 0
       /\ \A j \in DOMAIN rs :
            FreeBytes(rs[j]) < FreeBytes(rs[i])
              \/ (FreeBytes(rs[j]) = FreeBytes(rs[i]) /\ i <= j)

(* Mutant: the hint is left where it was. *)
HintLeftAlone == UNCHANGED best

RefreshBestHint ==
  \E page \in {0} \cup {regions'[i].run.start : i \in DOMAIN regions'} :
    IsBest(regions', page) /\ best' = page
-----------------------------------------------------------------------------
Idle == phase \in {"ready", "failed"} /\ growing = 0

(* Mutant: place_block forgets the live counter. *)
CountedWithoutLive(req) ==
  /\ inUseBytes' = (inUseBytes + req) % WordSize
  /\ peakInUseBytes' = IF inUseBytes' > peakInUseBytes
                       THEN inUseBytes' ELSE peakInUseBytes
  /\ UNCHANGED liveAllocations

Counted(req) ==
  /\ inUseBytes' = (inUseBytes + req) % WordSize
  /\ peakInUseBytes' = IF inUseBytes' > peakInUseBytes
                       THEN inUseBytes' ELSE peakInUseBytes
  /\ liveAllocations' = liveAllocations + 1

(***************************************************************************)
(* kmalloc: the hinted region first (and then the hint is left alone), the *)
(* other regions in list order, else a new region at the end of the list.  *)
(***************************************************************************)
Chosen(i, payload) ==
  /\ HasHole(regions[i], payload)
  /\ \/ regions[i].run.start = best
     \/ \A j \in DOMAIN regions :
          j < i \/ regions[j].run.start = best => ~HasHole(regions[j], payload)

NoHole(payload) == \A i \in DOMAIN regions : ~HasHole(regions[i], payload)

Acceptable(size) == size > 0 /\ Payload(size) <= MaxU32

PlaceInRegion(size) ==
  /\ Acceptable(size)
  /\ \E i \in DOMAIN regions :
       /\ Chosen(i, Payload(size))
       /\ \E k \in 0 .. Len(regions[i].blocks) :
            /\ FirstHole(regions[i], k, Payload(size))
            /\ regions' = [regions EXCEPT ![i] = Placed(regions[i], k, size)]
       /\ IF regions[i].run.start = best THEN UNCHANGED best
                                         ELSE RefreshBestHint
  /\ Counted(size)
  /\ UNCHANGED <<physVars, totalRegionBytes>>

RegionPages(payload) ==
  LET pages == CeilPage(payload + RegionHeader + BlockHeader)
  IN  IF pages < MinRegionPages THEN MinRegionPages ELSE pages

Creatable(size) == RegionPages(Payload(size)) <= MaxU32 \div PageSize

PlaceInNewRegion(size) ==
  /\ Acceptable(size) /\ NoHole(Payload(size)) /\ Creatable(size)
  /\ \E s \in Pages :
       LET run   == [start |-> s, count |-> RegionPages(Payload(size))]
           empty == [run |-> run, usage |-> RegionHeader, blocks |-> <<>>]
       IN  /\ Take(run)
           /\ regions' = Append(regions, Placed(empty, 0, size))
           /\ totalRegionBytes' = totalRegionBytes + SizeOf(empty)
  /\ RefreshBestHint
  /\ Counted(size)

KmallocSucceeds(size) == PlaceInRegion(size) \/ PlaceInNewRegion(size)

KmallocFails(size) ==
  \/ ~Acceptable(size)
  \/ /\ NoHole(Payload(size))
     /\ ~Creatable(size) \/ ~CanGrant(RegionPages(Payload(size)))

Kmalloc(size) ==
  /\ Idle
  /\ KmallocSucceeds(size)
  /\ UNCHANGED <<growing, dmaVars>>

KmallocReturnsNull(size) ==
  /\ Idle
  /\ KmallocFails(size)
  /\ UNCHANGED vars

(* kcalloc: kmalloc of the product, unless the product overflows. *)
Kcalloc(count, size) == count * size < WordSize /\ Kmalloc(count * size)

KcallocReturnsNull(count, size) ==
  IF count * size < WordSize THEN KmallocReturnsNull(count * size)
                             ELSE Idle /\ UNCHANGED vars

(* Mutants: the pages of an empty region are kept; its last page is kept. *)
DestroyKeepsPages(i) ==
  /\ regions' = RemoveAt(regions, i)
  /\ totalRegionBytes' = totalRegionBytes - SizeOf(regions[i])
  /\ UNCHANGED physVars

DestroyKeepsLastPage(i) ==
  /\ regions' = RemoveAt(regions, i)
  /\ totalRegionBytes' = totalRegionBytes - SizeOf(regions[i])
  /\ FreePages([regions[i].run EXCEPT !.count = @ - 1])

(***************************************************************************)
(* kfree of block k of region i: unlink it; a region left without a block  *)
(* is unlinked too and its pages go back.  The hint is recomputed.         *)
(***************************************************************************)
DestroyRegion(i) ==
  /\ regions' = RemoveAt(regions, i)
  /\ totalRegionBytes' = totalRegionBytes - SizeOf(regions[i])
  /\ FreePages(regions[i].run)

UnlinkBlock(i, k) ==
  /\ regions' = [regions EXCEPT
                   ![i].blocks = RemoveAt(@, k),
                   ![i].usage  = @ - (BlockHeader + regions[i].blocks[k].size)]
  /\ UNCHANGED <<physVars, totalRegionBytes>>

Release(i, k) ==
  /\ inUseBytes' = (inUseBytes - regions[i].blocks[k].req) % WordSize
  /\ liveAllocations' = liveAllocations - 1
  /\ IF Len(regions[i].blocks) = 1 THEN DestroyRegion(i) ELSE UnlinkBlock(i, k)
  /\ RefreshBestHint
  /\ UNCHANGED <<peakInUseBytes, dmaVars>>

Kfree(i, k) == Idle /\ Release(i, k) /\ UNCHANGED growing

(***************************************************************************)
(* krealloc: 0 frees the block, a size not above the requested one is      *)
(* recorded in place, anything larger is kmalloc, copy, kfree of the old   *)
(* block.  The last case takes two steps here, one per allocator call; in  *)
(* between nothing but the second is enabled.                              *)
(***************************************************************************)
KreallocInPlace(i, k, size) ==
  LET b == regions[i].blocks[k]
  IN  /\ Idle /\ size > 0 /\ size <= b.req
      /\ inUseBytes' = (inUseBytes - b.req + size) % WordSize
      /\ regions' = [regions EXCEPT ![i].blocks[k].req = size]
      /\ UNCHANGED <<physVars, dmaVars, best, growing, totalRegionBytes,
                     peakInUseBytes, liveAllocations>>

KreallocGrow(i, k, size) ==
  LET b == regions[i].blocks[k]
  IN  /\ Idle /\ size > b.req
      /\ KmallocSucceeds(size)
      /\ growing' = PtrOf(regions[i], b)
      /\ UNCHANGED dmaVars

KreallocReturnsNull(i, k, size) ==
  /\ Idle /\ size > regions[i].blocks[k].req
  /\ KmallocFails(size)
  /\ UNCHANGED vars

KreallocFreeOld ==
  /\ growing # 0
  /\ \E i \in DOMAIN regions : \E k \in DOMAIN regions[i].blocks :
       /\ PtrOf(regions[i], regions[i].blocks[k]) = growing
       /\ Release(i, k)
  /\ growing' = 0

Krealloc(i, k, size) ==
  \/ size = 0 /\ Kfree(i, k)
  \/ KreallocInPlace(i, k, size)
  \/ KreallocGrow(i, k, size)
  \/ KreallocReturnsNull(i, k, size)
-----------------------------------------------------------------------------
(***************************************************************************)
(* dma::alloc rounds up to pages and has no counterpart that frees; after  *)
(* dma::stop, on the way to power off, it refuses.                         *)
(***************************************************************************)
DmaAlloc(size) ==
  /\ Idle /\ dmaReady
  /\ \E s \in Pages :
       LET run == [start |-> s, count |-> CeilPage(size)]
       IN  Take(run) /\ dmaRuns' = dmaRuns \cup {run}
  /\ UNCHANGED <<heapVars, dmaReady>>

DmaAllocReturnsNull(size) ==
  /\ Idle
  /\ ~dmaReady \/ ~CanGrant(CeilPage(size))
  /\ UNCHANGED vars

DmaStop ==
  /\ Idle /\ dmaReady
  /\ dmaReady' = FALSE
  /\ UNCHANGED <<physVars, heapVars, dmaRuns>>

(* dma::init runs phys::init to its end before it declares itself ready. *)
DmaInit ==
  /\ Boot
  /\ dmaReady' = (phase' = "ready")
  /\ UNCHANGED <<heapVars, dmaRuns>>
-----------------------------------------------------------------------------
HeapInit ==
  /\ PhysInit
  /\ regions = <<>>
  /\ best = 0
  /\ growing = 0
  /\ totalRegionBytes = 0
  /\ inUseBytes = 0
  /\ peakInUseBytes = 0
  /\ liveAllocations = 0
  /\ dmaReady = FALSE
  /\ dmaRuns = {}

HeapNext ==
  \/ DmaInit
  \/ \E size \in HeapSizes :
       \/ Kmalloc(size) \/ KmallocReturnsNull(size)
       \/ \E count \in CallocCounts :
            Kcalloc(count, size) \/ KcallocReturnsNull(count, size)
  \/ \E i \in DOMAIN regions : \E k \in DOMAIN regions[i].blocks :
       \/ Kfree(i, k)
       \/ \E size \in HeapSizes : Krealloc(i, k, size)
  \/ KreallocFreeOld
  \/ \E size \in DmaSizes : DmaAlloc(size) \/ DmaAllocReturnsNull(size)
  \/ DmaStop

HeapSpec == HeapInit /\ [][HeapNext]_vars
-----------------------------------------------------------------------------
Block  == [off : Nat, size : Nat, req : Nat]
Region == [run : Run, usage : Nat, blocks : Seq(Block)]

(* Every variable stays in its range. *)
HeapTypeOK ==
  /\ regions \in Seq(Region)
  /\ best \in Nat
  /\ growing \in Nat
  /\ totalRegionBytes \in Nat
  /\ inUseBytes \in 0 .. (WordSize - 1)
  /\ peakInUseBytes \in 0 .. (WordSize - 1)
  /\ liveAllocations \in Nat
  /\ dmaReady \in BOOLEAN
  /\ dmaRuns \subseteq Run

(* The block list of a region is in address order, starts behind the       *)
(* region's header, and no header or payload reaches into the next block   *)
(* or past the region, whichever holes were reused: place_block, kfree.    *)
WellLaidOut(r) ==
  /\ \A k \in DOMAIN r.blocks : r.blocks[k].off % Alignment = 0
  /\ \A k \in 0 .. Len(r.blocks) : HoleStart(r, k) <= HoleEnd(r, k)

BlocksWellLaidOut == \A i \in DOMAIN regions : WellLaidOut(regions[i])

(* Between calls every region holds a block and the pages clients of the   *)
(* page allocator hold are exactly those of the regions and of the DMA     *)
(* buffers: an emptied region gives its pages back, none is given back     *)
(* while a block lies in it, and no page is forgotten.  kfree,             *)
(* destroy_region, create_region.                                          *)
PagesAccounted ==
  /\ owned = {regions[i].run : i \in DOMAIN regions} \cup dmaRuns
  /\ \A i \in DOMAIN regions :
       /\ regions[i].blocks # <<>> /\ regions[i].run \notin dmaRuns
       /\ \A j \in DOMAIN regions : regions[i].run = regions[j].run => i = j

(* kmalloc follows the hint without a look at the list, so it must never   *)
(* be left on a region that kfree destroyed; and while regions exist there *)
(* is a hint or all of them are full.  refresh_best_hint, destroy_region.  *)
HintValid ==
  IF best = 0 THEN \A i \in DOMAIN regions : FreeBytes(regions[i]) = 0
              ELSE \E i \in DOMAIN regions : regions[i].run.start = best

sumOf[seq \in Seq(Int)] == IF seq = <<>> THEN 0 ELSE Head(seq) + sumOf[Tail(seq)]

TakenBy(r)      == [k \in DOMAIN r.blocks |-> BlockHeader + r.blocks[k].size]
RequestedIn(r)  == [k \in DOMAIN r.blocks |-> r.blocks[k].req]
Requested(rs)   == [i \in DOMAIN rs |-> sumOf[RequestedIn(rs[i])]]
BlockCounts(rs) == [i \in DOMAIN rs |-> Len(rs[i].blocks)]
RegionSizes(rs) == [i \in DOMAIN rs |-> SizeOf(rs[i])]

(* The statistics of the shell and of print_stats are the truth, and a     *)
(* region's usage - from which the hint is computed - is the sum of its    *)
(* blocks: every path of place_block, kfree and krealloc keeps them.       *)
StatisticsExact ==
  /\ \A i \in DOMAIN regions :
       regions[i].usage = RegionHeader + sumOf[TakenBy(regions[i])]
  /\ inUseBytes = sumOf[Requested(regions)]
  /\ liveAllocations = sumOf[BlockCounts(regions)]
  /\ totalRegionBytes = sumOf[RegionSizes(regions)]
  /\ peakInUseBytes >= inUseBytes

(***************************************************************************)
(* What callers are promised: blocks that stay where they are and apart.   *)
(***************************************************************************)
LiveSet ==
  UNION {{[ptr  |-> PtrOf(regions[i], regions[i].blocks[k]),
           size |-> regions[i].blocks[k].req] : k \in DOMAIN regions[i].blocks}
         : i \in DOMAIN regions}

Callers == INSTANCE LiveBlocks WITH Align <- Alignment, live <- LiveSet

(* Every pointer kmalloc, kcalloc and krealloc return is aligned and apart *)
(* from every block still live, in any region, and no call moves, shrinks  *)
(* or frees a block but the one it is made for.                            *)
ImplementsLiveBlocks == Callers!LBSpec

(* Heap and DMA together are a lawful client of the page allocator: they   *)
(* return only runs they hold, whole, and only once - so everything proved *)
(* of PhysSpec holds with these clients on top.                            *)
LawfulClient == PhysSpec
=============================================================================
