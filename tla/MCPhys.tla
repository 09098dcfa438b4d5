------------------------------- MODULE MCPhys -------------------------------
(***************************************************************************)
(* Phys on small memories: 64 KiB at most, two pages of low memory.  The   *)
(* maps are one plain bank of RAM; two banks around a hole whose edges are *)
(* not on page boundaries; a bank that starts in low memory, listed after  *)
(* one too small for the bitmap; and two maps init gives up on.            *)
(***************************************************************************)
EXTENDS Phys

Entry(base, length, usable) ==
  [base |-> base, length |-> length, usable |-> usable]

P == PageSize

Plain == <<Entry(0, P, FALSE), Entry(P, 8 * P, TRUE)>>

Hole == <<Entry(2 * P, 3 * P + 100, TRUE),
          Entry(5 * P + 100, P, FALSE),
          Entry(6 * P + 100, 4 * P - 100, TRUE)>>

LowBank == <<Entry(9 * P - 1, 1, TRUE), Entry(0, 8 * P, TRUE)>>

NoRam == <<Entry(0, 8 * P, FALSE)>>

OnlyLow == <<Entry(0, 2 * P + 1, TRUE)>>

MCMemMaps == {Plain, Hole, LowBank, NoRam, <<Entry(0, 2 * P, TRUE)>>, OnlyLow}

MCRequests == 0 .. 4
=============================================================================
