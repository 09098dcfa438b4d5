---------------------------- MODULE PageAllocator ----------------------------
(***************************************************************************)
(* What mm/phys.hpp promises its callers, without a bitmap, counters or a  *)
(* hint: a pool of pages opened once at boot, from which contiguous runs   *)
(* are granted and to which they are returned.  0 is the failure value of  *)
(* alloc_pages, so page 0 is never in the pool.                            *)
(***************************************************************************)
EXTENDS Integers

CONSTANT Counts   \* the sizes of the runs clients ask for

VARIABLES
  open,    \* the pool has been filled
  avail,   \* the pages in the pool
  runs     \* the runs granted and not yet released

paVars == <<open, avail, runs>>

Extent(start, count) == start .. (start + count - 1)

PAInit ==
  /\ open = FALSE
  /\ avail = {}
  /\ runs = {}

Open ==
  /\ ~open
  /\ open' = TRUE
  /\ avail' \in SUBSET (Nat \ {0})
  /\ UNCHANGED runs

Alloc ==
  /\ open
  /\ \E start \in avail, count \in Counts \ {0} :
       /\ Extent(start, count) \subseteq avail
       /\ avail' = avail \ Extent(start, count)
       /\ runs'  = runs \cup {[start |-> start, count |-> count]}
  /\ UNCHANGED open

Release ==
  /\ open
  /\ \E r \in runs :
       /\ avail' = avail \cup Extent(r.start, r.count)
       /\ runs'  = runs \ {r}
  /\ UNCHANGED open

PANext == Open \/ Alloc \/ Release

PASpec == PAInit /\ [][PANext]_paVars
=============================================================================
