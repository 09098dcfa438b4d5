-------------------------------- MODULE Mbr --------------------------------
(***************************************************************************)
(* The partition table: fs/mbr.cpp and the fdisk command that drives it    *)
(* (shell/commands.cpp).  A slot is its first sector and its length; the   *)
(* type byte is not kept, because the code sets it together with a length  *)
(* that is not 0 and clears it together with the length.                   *)
(***************************************************************************)
EXTENDS Integers

CONSTANTS
  DiskSectors,   \* disk::info.sectors
  Word,          \* 2^32: sector numbers are uint32_t
  SizesMb        \* the sizes users give to fdisk create

SectorsPerMb == 2048   \* also the alignment and the first usable sector

ASSUME MbrAssumption ==
  /\ DiskSectors \in Nat
  /\ Word \in Nat \ {0} /\ DiskSectors < Word /\ SectorsPerMb < Word
  /\ Word % SectorsPerMb = 0
  /\ SizesMb \subseteq Int

VARIABLES
  table,      \* the four entries of the partition table on disk
  signature   \* whether sector 0 ends in 0xAA55

mbrVars == <<table, signature>>

Slots == 0 .. 3

Unused == [start |-> 0, count |-> 0]

PartEnd(p) == (p.start + p.count) % Word

(***************************************************************************)
(* find_free_lba: one pass over the slots in slot order; a candidate that  *)
(* lies in a slot's partition moves behind it.  0 is "no free space".      *)
(***************************************************************************)
NextBoundary(lba) ==
  IF lba % SectorsPerMb = 0
  THEN lba ELSE ((lba \div SectorsPerMb + 1) * SectorsPerMb) % Word

Behind(candidate, p) ==
  IF p # Unused /\ candidate >= p.start /\ candidate < PartEnd(p)
  THEN NextBoundary(PartEnd(p)) ELSE candidate

Candidate4(t) ==
  Behind(Behind(Behind(Behind(SectorsPerMb, t[0]), t[1]), t[2]), t[3])

(* Mutant: the size of the disk is not looked at. *)
FindFreeLbaAnywhere(t, needed) == Candidate4(t)

FindFreeLba(t, needed) ==
  IF (Candidate4(t) + needed) % Word > DiskSectors THEN 0 ELSE Candidate4(t)

Sectors(mb) == (mb * SectorsPerMb) % Word

(* Mutant: an empty partition is accepted. *)
CreateEvenEmpty(n, start, sectors) ==
  /\ start >= SectorsPerMb
  /\ table' = [table EXCEPT ![n] = [start |-> start, count |-> sectors]]
  /\ signature' = TRUE

(***************************************************************************)
(* create_partition overwrites the slot it is given, used or not.          *)
(***************************************************************************)
CreatePartition(n, start, sectors) ==
  /\ start >= SectorsPerMb /\ sectors # 0
  /\ table' = [table EXCEPT ![n] = [start |-> start, count |-> sectors]]
  /\ signature' = TRUE

DeletePartition(n) ==
  /\ table' = [table EXCEPT ![n] = Unused]
  /\ signature' = TRUE

(***************************************************************************)
(* The fdisk command.                                                      *)
(***************************************************************************)
FdiskInit ==
  /\ table' = [n \in Slots |-> Unused]
  /\ signature' = TRUE

FdiskCreate(n, mb) ==
  /\ mb > 0
  /\ CreatePartition(n, FindFreeLba(table, Sectors(mb)), Sectors(mb))

FdiskDelete(n) == DeletePartition(n)

(* No such slot, no size, no free space, or the disk fails a transfer. *)
FdiskFails == UNCHANGED mbrVars

(* A blank disk, signed or not. *)
MbrInit ==
  /\ table = [n \in Slots |-> Unused]
  /\ signature \in BOOLEAN

MbrNext ==
  \/ FdiskInit
  \/ \E n \in Slots : FdiskDelete(n) \/ \E mb \in SizesMb : FdiskCreate(n, mb)
  \/ FdiskFails

MbrSpec == MbrInit /\ [][MbrNext]_mbrVars
-----------------------------------------------------------------------------
(* Every variable stays in its range; a slot in use is never empty, which  *)
(* is what lets the model leave the type byte out.                         *)
MbrTypeOK ==
  /\ table \in [Slots -> {Unused} \cup
                          [start : 1 .. (Word - 1), count : 1 .. (Word - 1)]]
  /\ signature \in BOOLEAN

(* The partition whose size made the sum of mbr.cpp:82 wrap: it is let     *)
(* through although it reaches over the end of the disk.                   *)
Wraps(p) == p.start + p.count \in Word .. Word + DiskSectors

(* Every partition starts behind the sectors that hold the MBR and the     *)
(* mount configuration, on a boundary, at most one behind the end of the   *)
(* disk, and ends on the disk, in whatever order slots are created,        *)
(* overwritten and deleted, although partitions may overlap: except that   *)
(* one with start + size of 2^32 or more ends wherever it was asked to.    *)
(* Such a partition never drives a later one off the disk.                 *)
(* mbr::find_free_lba, mbr::create_partition.                              *)
PartitionsOnDisk ==
  \A n \in Slots :
    table[n] # Unused =>
      /\ table[n].start \in SectorsPerMb .. DiskSectors + SectorsPerMb
      /\ table[n].start % SectorsPerMb = 0
      /\ table[n].start + table[n].count <= DiskSectors \/ Wraps(table[n])
=============================================================================
