------------------------------- MODULE MCMbr -------------------------------
(***************************************************************************)
(* The partition table of a disk of 8 MB with sizes that fit it in several *)
(* ways, one that does not, and none at all.  2^32 is scaled to 64 MB:     *)
(* the size 64 wraps to a length of 0, and a partition of 63 from any      *)
(* boundary on wraps the sum with its start.                               *)
(***************************************************************************)
EXTENDS Mbr

MCSizes == {-1, 0, 1, 2, 3, 9, 63, 64}
=============================================================================
