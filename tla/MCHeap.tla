------------------------------- MODULE MCHeap -------------------------------
(***************************************************************************)
(* Heap and DMA on four free pages: room for two regions of the minimal    *)
(* size of two pages.  The sizes let three blocks share a region (1996), a *)
(* fourth one missing by its header; fill one to the last byte (8096);     *)
(* need one of three pages (kcalloc of five times 1996); and exceed what   *)
(* there is.  2^32 is scaled to 2^16 and 2^64 to 2^18.                     *)
(***************************************************************************)
EXTENDS Heap

P == PageSize

Entry(base, length, usable) ==
  [base |-> base, length |-> length, usable |-> usable]

MCMemMaps == {<<Entry(P, 5 * P, TRUE)>>, <<Entry(0, P, TRUE)>>}

MCRequests == 0 .. 10

(* 8096: a region of two pages filled to the last byte. *)
MCHeapSizes == {0, 1996, 8096, 65500}
=============================================================================
