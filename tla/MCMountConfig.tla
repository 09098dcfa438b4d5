--------------------------- MODULE MCMountConfig ---------------------------
(***************************************************************************)
(* All four partitions and two letters, so that letters must be shared;    *)
(* the file system and the sector an entry carries are data here.          *)
(***************************************************************************)
EXTENDS MountConfig
=============================================================================
