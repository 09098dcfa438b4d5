------------------------------ MODULE MCMounts ------------------------------
(***************************************************************************)
(* A disk with room for two partitions of 4 MB, the least ext2 accepts,    *)
(* and users who work with two slots of the table.                         *)
(***************************************************************************)
EXTENDS Mounts
=============================================================================
