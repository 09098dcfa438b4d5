-------------------------------- MODULE Phys --------------------------------
(***************************************************************************)
(* The physical page frame allocator, mm/phys.cpp: one bit per 4 KiB page, *)
(* a count of free and of used pages, and a hint where the next scan       *)
(* starts.  dma::alloc and the kernel heap are its clients; they give back *)
(* exactly the runs they were given, and `owned' records who still holds   *)
(* what (it is the only variable the code does not have).                  *)
(***************************************************************************)
EXTENDS Integers, Sequences, FiniteSets

CONSTANTS
  MemMaps,       \* the memory maps the boot loader may hand over
  LowReserved,   \* LOW_RESERVED: bytes of low memory never handed out
  Requests       \* the page counts clients ask alloc_pages for

PageSize == 4096

(***************************************************************************)
(* A memory map is a sequence of entries; usable ones do not overlap (the  *)
(* Limine protocol promises it, and phys::init counts on it).              *)
(***************************************************************************)
MemEntry == [base : Nat, length : Nat, usable : BOOLEAN]

End(e) == e.base + e.length

ASSUME PhysAssumption ==
  /\ LowReserved \in Nat \ {0}
  /\ Requests \subseteq Nat
  /\ \A m \in MemMaps :
       /\ m \in Seq(MemEntry)
       /\ \A i, j \in DOMAIN m :
            m[i].usable /\ m[j].usable /\ i # j =>
              End(m[i]) <= m[j].base \/ End(m[j]) <= m[i].base

VARIABLES
  memmap,          \* the memory map of this boot
  phase,           \* "boot", "marking" inside init's loop, "ready", "failed"
  scanned,         \* entries of memmap the marking loop is done with
  bitmapPhys,      \* address of the bitmap itself
  totalPages,      \* g_total_pages
  bitmap,          \* g_bitmap: the pages whose bit is 1 (used)
  freePages,       \* g_free_pages
  usedPages,       \* g_used_pages
  lastAllocPage,   \* g_last_alloc_page
  owned            \* the runs of pages clients hold

physVars == <<memmap, phase, scanned, bitmapPhys, totalPages, bitmap,
              freePages, usedPages, lastAllocPage, owned>>

bootVars == <<memmap, phase, scanned, bitmapPhys, totalPages>>

Run == [start : Nat, count : Nat \ {0}]

PagesOf(r) == r.start .. (r.start + r.count - 1)

Pages == 0 .. (totalPages - 1)

CeilPage(addr)  == (addr + PageSize - 1) \div PageSize
FloorPage(addr) == addr \div PageSize
-----------------------------------------------------------------------------
(***************************************************************************)
(* init: the size of memory, the place of the bitmap, every page used; then*)
(* the usable pages are cleared entry by entry; then the bitmap's own pages*)
(* are marked again.                                                       *)
(***************************************************************************)
Usable == {i \in DOMAIN memmap : memmap[i].usable}

IsMaxAddr(a) ==
  /\ \A i \in Usable : End(memmap[i]) <= a
  /\ a = 0 \/ \E i \in Usable : End(memmap[i]) = a

BitmapSize(total) == (total + 7) \div 8

Candidate(e) == IF e.base < LowReserved THEN LowReserved ELSE e.base

HasRoom(i, size) ==
  i \in Usable /\ Candidate(memmap[i]) + size <= End(memmap[i])

ReserveBitmapStorage(size, i) ==
  /\ HasRoom(i, size)
  /\ \A j \in 1 .. (i - 1) : ~HasRoom(j, size)

(* Mutant: low memory is not skipped. *)
EntryPagesFromBase(e) == CeilPage(e.base) .. (FloorPage(End(e)) - 1)

EntryPages(e) ==
  LET lowSkipPage == CeilPage(LowReserved)
      first       == CeilPage(e.base)
  IN  (IF first < lowSkipPage THEN lowSkipPage ELSE first)
        .. (FloorPage(End(e)) - 1)

BitmapPages ==
  FloorPage(bitmapPhys) ..
    (CeilPage(bitmapPhys + BitmapSize(totalPages)) - 1)

InitStart ==
  /\ phase = "boot"
  /\ \E i \in DOMAIN memmap : \E a \in {End(memmap[j]) : j \in Usable} :
       /\ a > 0
       /\ IsMaxAddr(a)
       /\ ReserveBitmapStorage(BitmapSize(CeilPage(a)), i)
       /\ totalPages' = CeilPage(a)
       /\ bitmapPhys' = Candidate(memmap[i])
       /\ bitmap'     = 0 .. (CeilPage(a) - 1)
       /\ usedPages'  = CeilPage(a)
  /\ freePages' = 0
  /\ phase' = "marking"
  /\ UNCHANGED <<memmap, scanned, lastAllocPage, owned>>

InitFails ==
  /\ phase = "boot"
  /\ \E a \in {0} \cup {End(memmap[j]) : j \in Usable} :
       /\ IsMaxAddr(a)
       /\ \A i \in DOMAIN memmap : ~HasRoom(i, BitmapSize(CeilPage(a)))
       /\ totalPages' = CeilPage(a)
  /\ phase' = "failed"
  /\ UNCHANGED <<memmap, scanned, bitmapPhys, bitmap, freePages, usedPages,
                 lastAllocPage, owned>>

MarkUsable ==
  /\ phase = "marking" /\ scanned < Len(memmap)
  /\ LET e       == memmap[scanned + 1]
         cleared == IF e.usable THEN EntryPages(e) \cap Pages ELSE {}
     IN  /\ bitmap'    = bitmap \ cleared
         /\ freePages' = freePages + Cardinality(cleared)
         /\ usedPages' = usedPages - Cardinality(cleared)
  /\ scanned' = scanned + 1
  /\ UNCHANGED <<memmap, phase, bitmapPhys, totalPages, lastAllocPage, owned>>

(* Mutant: pages that were used already are counted again. *)
KeepCountsTwice ==
  /\ phase = "marking" /\ scanned = Len(memmap)
  /\ LET marked == BitmapPages \cap Pages
     IN  /\ bitmap'    = bitmap \cup marked
         /\ freePages' = freePages - Cardinality(marked)
         /\ usedPages' = usedPages + Cardinality(marked)
  /\ lastAllocPage' = 0
  /\ phase' = "ready"
  /\ UNCHANGED <<memmap, scanned, bitmapPhys, totalPages, owned>>

KeepBitmapReserved ==
  /\ phase = "marking" /\ scanned = Len(memmap)
  /\ LET marked == (BitmapPages \cap Pages) \ bitmap
     IN  /\ bitmap'    = bitmap \cup marked
         /\ freePages' = freePages - Cardinality(marked)
         /\ usedPages' = usedPages + Cardinality(marked)
  /\ lastAllocPage' = 0
  /\ phase' = "ready"
  /\ UNCHANGED <<memmap, scanned, bitmapPhys, totalPages, owned>>
-----------------------------------------------------------------------------
(***************************************************************************)
(* find_free_run: both loops together visit the pages in circular order    *)
(* from the hint, and the length of the run found so far is carried from   *)
(* the last page over to page 0.  The result is the first position of the  *)
(* scan from which `count' pages are free before the scan ends.            *)
(***************************************************************************)
ScanStart == IF lastAllocPage >= totalPages THEN 0 ELSE lastAllocPage

ScanPage(q) ==
  IF ScanStart + q < totalPages THEN ScanStart + q
                                ELSE ScanStart + q - totalPages

RunAt(q, count) ==
  /\ q + count <= totalPages
  /\ \A i \in 0 .. (count - 1) : ScanPage(q + i) \notin bitmap

FirstFit(q, count) ==
  RunAt(q, count) /\ \A r \in 0 .. (q - 1) : ~RunAt(r, count)

(***************************************************************************)
(* The pages alloc_pages returns for a request, as a run; no run at all is *)
(* its return value 0.                                                     *)
(***************************************************************************)
Grant(r) ==
  /\ phase = "ready" /\ r.count > 0 /\ r.count <= freePages
  /\ \E q \in 0 .. (totalPages - 1) :
       FirstFit(q, r.count) /\ r.start = ScanPage(q)

CanGrant(count) ==
  /\ phase = "ready" /\ count > 0 /\ count <= freePages
  /\ \E q \in 0 .. (totalPages - 1) : RunAt(q, count)

(* Mutants: the hint goes one page too far; the last page of the run is    *)
(* not marked.                                                             *)
TakeHintPastEnd(r) ==
  /\ Grant(r)
  /\ bitmap'        = bitmap \cup PagesOf(r)
  /\ freePages'     = freePages - r.count
  /\ usedPages'     = usedPages + r.count
  /\ lastAllocPage' = r.start + r.count + 1
  /\ owned'         = owned \cup {r}
  /\ UNCHANGED bootVars

TakeNotLast(r) ==
  /\ Grant(r)
  /\ bitmap'        = bitmap \cup (PagesOf(r) \ {r.start + r.count - 1})
  /\ freePages'     = freePages - r.count
  /\ usedPages'     = usedPages + r.count
  /\ lastAllocPage' = r.start + r.count
  /\ owned'         = owned \cup {r}
  /\ UNCHANGED bootVars

Take(r) ==
  /\ Grant(r)
  /\ bitmap'        = bitmap \cup PagesOf(r)
  /\ freePages'     = freePages - r.count
  /\ usedPages'     = usedPages + r.count
  /\ lastAllocPage' = r.start + r.count
  /\ owned'         = owned \cup {r}
  /\ UNCHANGED bootVars

AllocPages(count) ==
  \E s \in Pages : Take([start |-> s, count |-> count])

AllocPagesFails(count) ==
  /\ phase \in {"ready", "failed"}
  /\ ~CanGrant(count)
  /\ UNCHANGED physVars

(* Mutant: the last page of the run stays marked. *)
FreePagesNotLast(r) ==
  /\ phase = "ready"
  /\ LET cleared == (PagesOf(r) \ {r.start + r.count - 1}) \cap bitmap
     IN  /\ bitmap'    = bitmap \ cleared
         /\ freePages' = freePages + Cardinality(cleared)
         /\ usedPages' = usedPages - Cardinality(cleared)
  /\ owned' = owned \ {r}
  /\ UNCHANGED <<bootVars, lastAllocPage>>

(***************************************************************************)
(* free_pages: every page of the run that exists and is used is cleared.   *)
(***************************************************************************)
FreePages(r) ==
  /\ phase = "ready"
  /\ LET cleared == PagesOf(r) \cap Pages \cap bitmap
     IN  /\ bitmap'    = bitmap \ cleared
         /\ freePages' = freePages + Cardinality(cleared)
         /\ usedPages' = usedPages - Cardinality(cleared)
  /\ owned' = owned \ {r}
  /\ UNCHANGED <<bootVars, lastAllocPage>>
-----------------------------------------------------------------------------
PhysInit ==
  /\ memmap \in MemMaps
  /\ phase = "boot"
  /\ scanned = 0
  /\ bitmapPhys = 0
  /\ totalPages = 0
  /\ bitmap = {}
  /\ freePages = 0
  /\ usedPages = 0
  /\ lastAllocPage = 0
  /\ owned = {}

Boot == InitStart \/ InitFails \/ MarkUsable \/ KeepBitmapReserved

PhysNext ==
  \/ Boot
  \/ \E count \in Requests : AllocPages(count) \/ AllocPagesFails(count)
  \/ \E r \in owned : FreePages(r)

PhysSpec == PhysInit /\ [][PhysNext]_physVars
-----------------------------------------------------------------------------
(* Every variable stays in its range. *)
PhysTypeOK ==
  /\ memmap \in MemMaps
  /\ phase \in {"boot", "marking", "ready", "failed"}
  /\ scanned \in 0 .. Len(memmap)
  /\ bitmapPhys \in Nat
  /\ totalPages \in Nat
  /\ bitmap \subseteq Pages
  /\ freePages \in Nat
  /\ usedPages \in Nat
  /\ lastAllocPage \in 0 .. totalPages
  /\ owned \subseteq Run

OwnedPages == UNION {PagesOf(r) : r \in owned}

(***************************************************************************)
(* The pages no client may ever be given: low memory, what is not wholly   *)
(* inside a usable entry, and the pages under the bitmap.                  *)
(***************************************************************************)
Reserved ==
  {p \in Pages :
     \/ p * PageSize < LowReserved
     \/ (p + 1) * PageSize > bitmapPhys
          /\ p * PageSize < bitmapPhys + BitmapSize(totalPages)
     \/ ~\E i \in Usable : /\ memmap[i].base <= p * PageSize
                           /\ (p + 1) * PageSize <= End(memmap[i])}

(* No page is handed out twice: two runs that clients hold share no page, *)
(* and a run lies wholly inside memory (a scan that wraps from the last    *)
(* page to page 0 would break both).  alloc_pages, find_free_run.          *)
NoDoubleGrant ==
  /\ \A r \in owned : PagesOf(r) \subseteq Pages
  /\ \A r, s \in owned : r # s => PagesOf(r) \cap PagesOf(s) = {}

(* The bitmap says exactly what is reserved and what clients hold: nothing *)
(* leaks when runs are freed in any order, nothing reserved is handed out, *)
(* and page 0 - the failure value - is never granted.                      *)
BitmapExact ==
  phase = "ready" =>
    /\ bitmap = Reserved \cup OwnedPages
    /\ Reserved \cap OwnedPages = {}
    /\ 0 \in Reserved

(* free_pages() and used_pages(), which alloc_pages trusts to refuse a     *)
(* request early, agree with the bitmap.                                   *)
CountersExact ==
  phase \in {"marking", "ready"} =>
    /\ freePages = Cardinality(Pages \ bitmap)
    /\ usedPages = Cardinality(bitmap)

(***************************************************************************)
(* What makes the above inductive: how far init's loop has got, and that   *)
(* the memory it measured covers every usable entry and the bitmap.        *)
(***************************************************************************)
Measured ==
  /\ totalPages > 0
  /\ bitmapPhys >= LowReserved
  /\ bitmapPhys + BitmapSize(totalPages) <= totalPages * PageSize
  /\ \A i \in Usable : End(memmap[i]) <= totalPages * PageSize

BootProgress ==
  /\ phase = "boot" => scanned = 0 /\ bitmap = {}
  /\ phase # "ready" => owned = {} /\ lastAllocPage = 0
  /\ phase \in {"marking", "ready"} => Measured
  /\ phase = "marking" =>
       bitmap = Pages \ UNION {EntryPages(memmap[i]) :
                                 i \in {j \in Usable : j <= scanned}}

PhysIInv ==
  PhysTypeOK /\ BootProgress /\ NoDoubleGrant /\ BitmapExact /\ CountersExact

(***************************************************************************)
(* The allocator implements the pool of PageAllocator: until init is done  *)
(* there is no pool, afterwards it holds the pages whose bit is clear.     *)
(***************************************************************************)
Pool == INSTANCE PageAllocator WITH
          Counts <- Requests,
          open   <- phase = "ready",
          avail  <- IF phase = "ready" THEN Pages \ bitmap ELSE {},
          runs   <- owned

(* Every grant is a contiguous run of pages that were free, every release *)
(* returns exactly the run granted, and page 0 is never in the pool: what  *)
(* mm/phys.hpp promises of alloc_pages and free_pages.                     *)
ImplementsPool == Pool!PASpec
=============================================================================
