------------------------------- MODULE Mounts -------------------------------
(***************************************************************************)
(* Drives, from the shell's commands (shell/commands.cpp: mount, unmount,  *)
(* switch, format, fdisk) down to the mount entry points of ext2 and       *)
(* FAT32, over the partition table and the saved mounts, and the boot that *)
(* restores a saved mount (main.cpp).  One command runs at a time; power   *)
(* may go between any two.  Of a file system only what mount looks at is   *)
(* kept: ext2's magic in the third sector of the partition, FAT32's        *)
(* parameter block in the first.                                           *)
(***************************************************************************)
EXTENDS Mbr, MountConfig

CONSTANTS
  UserSlots,   \* the partitions users name in commands
  Overrides,   \* the sizes in MB users give to format, 0 for none
  Outcomes,    \* of reading a partition and its table: BOOLEAN, or {TRUE}
  SaveOutcomes \* of transfers of the saved mounts' sector: likewise

VARIABLES
  phase,     \* "off", or "shell" once kmain has reached the shell
  ext2Fs,    \* ext2::fs: the drive mounted, or NoDrive
  fatFs,     \* fat32::fs: likewise
  magic,     \* the sectors lba + 2 that hold an ext2 superblock, by lba
  bpb        \* the sectors lba that hold a FAT32 parameter block

fsVars   == <<ext2Fs, fatFs>>
diskVars == <<magic, bpb>>
vars     == <<mbrVars, cfgVars, phase, fsVars, diskVars>>

Drive   == [letter : Letters, lba : Lbas]
NoDrive == [letter |-> "none", lba |-> 0]

Ext2  == "ext2"
Fat32 == "fat32"

ASSUME MountsAssumption ==
  /\ FsTypes = {Ext2, Fat32} /\ "none" \notin Letters
  /\ UserSlots \subseteq Slots /\ Lbas \subseteq Nat \ {0}
  /\ Overrides \subseteq Nat /\ Outcomes \subseteq BOOLEAN
  /\ SaveOutcomes \subseteq BOOLEAN

(***************************************************************************)
(* get_active_fs looks at ext2 first; find_partition_by_lba gives the      *)
(* first slot in use that starts there, or -1.                             *)
(***************************************************************************)
Active == IF ext2Fs # NoDrive THEN ext2Fs ELSE fatFs

InUse(n) == table[n] # Unused

ActivePart(mbrOk) ==
  LET at == {n \in Slots : InUse(n) /\ table[n].start = Active.lba}
  IN  IF Active = NoDrive \/ ~mbrOk \/ ~signature \/ at = {} THEN -1
      ELSE Lowest(at)

Resolves(n, mbrOk) == mbrOk /\ signature /\ InUse(n)

(***************************************************************************)
(* ext2::mount and fat32::mount of a sector: they succeed if their marker  *)
(* is there and can be read.  Nothing is mounted when they are called.     *)
(***************************************************************************)
MountEnds(ext2Drive, fatDrive) == ext2Fs' = ext2Drive /\ fatFs' = fatDrive

(* Mutant: a mounted FAT32 file system is not unmounted first. *)
MountAsOverFat(fs, drive, readOk) ==
  IF readOk /\ fs = Ext2 /\ drive.lba \in magic THEN MountEnds(drive, fatFs)
  ELSE IF readOk /\ fs = Fat32 /\ drive.lba \in bpb THEN MountEnds(NoDrive, drive)
  ELSE MountEnds(NoDrive, fatFs)

MountAs(fs, drive, readOk) ==
  IF readOk /\ fs = Ext2 /\ drive.lba \in magic THEN MountEnds(drive, NoDrive)
  ELSE IF readOk /\ fs = Fat32 /\ drive.lba \in bpb THEN MountEnds(NoDrive, drive)
  ELSE MountEnds(NoDrive, NoDrive)

Mounted == ext2Fs' # NoDrive \/ fatFs' # NoDrive

(* Mutant: the mount is noted in memory and not saved. *)
SaveMountInMemory(entry) ==
  /\ cfg' = Added(Loaded(TRUE), entry)
  /\ loaded' = TRUE
  /\ UNCHANGED <<sector, faulty>>

SaveMount(entry) ==
  \E readOk, writeOk \in SaveOutcomes : Add(entry, readOk, writeOk)
-----------------------------------------------------------------------------
(***************************************************************************)
(* mount <letter>: <part>: unmount what is mounted, try ext2, then FAT32,  *)
(* save the drive if one of them accepts the partition.                    *)
(***************************************************************************)
Recognised(lba, ext2Ok, fatOk) ==
  IF ext2Ok /\ lba \in magic THEN Ext2
  ELSE IF fatOk /\ lba \in bpb THEN Fat32 ELSE "none"

MountCmd(letter, n, ext2Ok, fatOk) ==
  LET drive == [letter |-> letter, lba |-> table[n].start]
      fs    == Recognised(drive.lba, ext2Ok, fatOk)
  IN  /\ phase = "shell"
      /\ Resolves(n, TRUE)
      /\ MountAs(fs, drive, TRUE)
      /\ IF fs = "none"
         THEN UNCHANGED cfgVars
         ELSE SaveMount([letter |-> letter, fs |-> fs, part |-> n,
                         lba |-> drive.lba])
      /\ UNCHANGED <<mbrVars, phase, diskVars>>

(***************************************************************************)
(* unmount: everything; or the partition given, by its number or as the    *)
(* first entry with a letter.  The active file system is unmounted only if *)
(* it is found to be on that partition.                                    *)
(***************************************************************************)
UnmountActive ==
  IF ext2Fs # NoDrive THEN MountEnds(NoDrive, fatFs) ELSE MountEnds(ext2Fs, NoDrive)

UnmountAll ==
  /\ phase = "shell"
  /\ UnmountActive
  /\ \E readOk, writeOk \in SaveOutcomes : Clear(readOk, writeOk)
  /\ UNCHANGED <<mbrVars, phase, diskVars>>

Unmount(n, mbrOk) ==
  IF ActivePart(mbrOk) = n THEN UnmountActive ELSE UNCHANGED fsVars

UnmountPart(n, mbrOk) ==
  /\ phase = "shell"
  /\ Unmount(n, mbrOk)
  /\ \E readOk, writeOk \in SaveOutcomes : RemoveByPart(n, readOk, writeOk)
  /\ UNCHANGED <<mbrVars, phase, diskVars>>

UnmountLetter(letter, mbrOk) ==
  /\ phase = "shell"
  /\ \E readOk, writeOk \in SaveOutcomes :
       LET found == SameLetter(Loaded(readOk), letter)
           n     == Loaded(readOk)[Lowest(found)].part
       IN  IF found = {} THEN Load(readOk) /\ UNCHANGED fsVars
           ELSE Unmount(n, mbrOk) /\ RemoveByPart(n, readOk, writeOk)
  /\ UNCHANGED <<mbrVars, phase, diskVars>>

(***************************************************************************)
(* switch: the first entry with that letter, or that partition number; if  *)
(* the active file system is not on its partition, mount it and save it    *)
(* again.  The read of the entries comes first, as in the code.            *)
(***************************************************************************)
Switch(Wanted(_), mbrOk, mountOk) ==
  /\ phase = "shell"
  /\ \E readOk, writeOk \in SaveOutcomes :
       LET entries == Loaded(readOk)
           found   == Wanted(entries)
           target  == entries[Lowest(found)]
           drive   == [letter |-> target.letter, lba |-> target.lba]
       IN  IF found = {} \/ ActivePart(mbrOk) = target.part
           THEN Load(readOk) /\ UNCHANGED fsVars
           ELSE /\ MountAs(target.fs, drive, mountOk)
                /\ IF Mounted THEN Add(target, readOk, writeOk) ELSE Load(readOk)
  /\ UNCHANGED <<mbrVars, phase, diskVars>>

SwitchLetter(letter, mbrOk, mountOk) ==
  Switch(LAMBDA entries : SameLetter(entries, letter), mbrOk, mountOk)

SwitchPart(n, mbrOk, mountOk) ==
  Switch(LAMBDA entries : SamePart(entries, n), mbrOk, mountOk)
-----------------------------------------------------------------------------
(***************************************************************************)
(* format of a partition, mounted or not, possibly for a part of its size. *)
(* ext2 writes its superblock (lba + 2) first and leaves the first sector  *)
(* alone; FAT32 writes the first sector first and leaves lba + 2 alone.    *)
(* Each refuses a size below its minimum and may stop at a later failed    *)
(* write, so what else starts inside the range may or may not be lost.     *)
(***************************************************************************)
MinSectors(fs) == IF fs = Ext2 THEN 8192 ELSE 2048

FormatSectors(n, mb) ==
  IF mb > 0 /\ mb < table[n].count \div SectorsPerMb
  THEN mb * SectorsPerMb ELSE table[n].count

WriteMarker(fs, n, mb) ==
  LET lba    == table[n].start
      inside == {l \in Lbas : lba < l /\ l < lba + FormatSectors(n, mb)}
  IN  \E lostMagic \in SUBSET inside : \E lostBpb \in SUBSET inside :
        /\ magic' = (IF fs = Ext2 THEN magic \cup {lba} ELSE magic) \ lostMagic
        /\ bpb' = (IF fs = Fat32 THEN bpb \cup {lba} ELSE bpb) \ lostBpb

CanFormat(fs, n, mb) ==
  phase = "shell" /\ Resolves(n, TRUE) /\ FormatSectors(n, mb) >= MinSectors(fs)

FormatCmd(fs, n, mb) ==
  /\ CanFormat(fs, n, mb)
  /\ WriteMarker(fs, n, mb)
  /\ UNCHANGED <<mbrVars, cfgVars, phase, fsVars>>

(***************************************************************************)
(* fdisk leaves the file systems alone; only delete touches the entries.   *)
(***************************************************************************)
FdiskInitCmd ==
  /\ phase = "shell" /\ FdiskInit
  /\ UNCHANGED <<cfgVars, phase, fsVars, diskVars>>

FdiskCreateCmd(n, mb) ==
  /\ phase = "shell" /\ FdiskCreate(n, mb)
  /\ UNCHANGED <<cfgVars, phase, fsVars, diskVars>>

FdiskDeleteCmd(n) ==
  /\ phase = "shell" /\ FdiskDelete(n)
  /\ \E readOk, writeOk \in SaveOutcomes : RemoveByPart(n, readOk, writeOk)
  /\ UNCHANGED <<phase, fsVars, diskVars>>
-----------------------------------------------------------------------------
(***************************************************************************)
(* kmain: with a signed MBR, mount what get_last gives; if that fails,     *)
(* forget all saved mounts.                                                *)
(***************************************************************************)
Boot(mbrOk, mountOk) ==
  /\ phase = "off"
  /\ phase' = "shell"
  /\ IF ~mbrOk \/ ~signature THEN UNCHANGED <<cfgVars, fsVars>>
     ELSE \E readOk, writeOk \in SaveOutcomes :
            LET entries == Loaded(readOk)
                last    == GetLast(entries)
                drive   == [letter |-> last.letter, lba |-> last.lba]
            IN  IF entries = <<>> THEN Load(readOk) /\ UNCHANGED fsVars
                ELSE /\ MountAs(last.fs, drive, mountOk)
                     /\ IF Mounted THEN Load(readOk) ELSE Clear(readOk, writeOk)
  /\ UNCHANGED <<mbrVars, diskVars>>

(* Mutant: a mounted file system survives the reset. *)
PowerOffKeepsDrive ==
  /\ phase = "shell"
  /\ phase' = "off"
  /\ PowerCycle
  /\ UNCHANGED <<mbrVars, diskVars, fsVars>>

(* reboot, shutdown, or the power goes: nothing in memory survives. *)
PowerOff ==
  /\ phase = "shell"
  /\ phase' = "off"
  /\ PowerCycle
  /\ MountEnds(NoDrive, NoDrive)
  /\ UNCHANGED <<mbrVars, diskVars>>
-----------------------------------------------------------------------------
MountsInit ==
  /\ MbrInit
  /\ ConfigInit
  /\ phase = "off"
  /\ ext2Fs = NoDrive
  /\ fatFs = NoDrive
  /\ magic = {}
  /\ bpb = {}

DriveCmd(mbrOk, mountOk) ==
  \/ Boot(mbrOk, mountOk)
  \/ \E letter \in Letters :
       UnmountLetter(letter, mbrOk) \/ SwitchLetter(letter, mbrOk, mountOk)
  \/ \E n \in UserSlots : UnmountPart(n, mbrOk) \/ SwitchPart(n, mbrOk, mountOk)
  \/ \E n \in UserSlots, letter \in Letters : MountCmd(letter, n, mbrOk, mountOk)

DiskCmd ==
  \/ \E n \in UserSlots, fs \in FsTypes, mb \in Overrides : FormatCmd(fs, n, mb)
  \/ FdiskInitCmd
  \/ \E n \in UserSlots : FdiskDeleteCmd(n) \/ \E mb \in SizesMb : FdiskCreateCmd(n, mb)

MountsNext ==
  \/ \E mbrOk, mountOk \in Outcomes : DriveCmd(mbrOk, mountOk)
  \/ DiskCmd
  \/ UnmountAll
  \/ PowerOff

MountsSpec == MountsInit /\ [][MountsNext]_vars
-----------------------------------------------------------------------------
(* Every variable stays in its range, and nothing volatile outlives power. *)
MountsTypeOK ==
  /\ phase \in {"off", "shell"}
  /\ ext2Fs \in Drive \cup {NoDrive}
  /\ fatFs \in Drive \cup {NoDrive}
  /\ magic \subseteq Lbas /\ bpb \subseteq Lbas
  /\ phase = "off" => Active = NoDrive /\ ~loaded

(* get_active_fs, unmount and teardown look at FAT32 only if ext2 is not   *)
(* mounted: that is right because the two are never mounted together,      *)
(* whichever of mount, switch and boot mounted the last one.               *)
AtMostOneMounted == ext2Fs = NoDrive \/ fatFs = NoDrive

(* The commands and the boot use the saved mounts only through the         *)
(* operations of mount_config: what holds of ConfigSpec holds here.        *)
LawfulConfig == ConfigSpec

(* switch saves the drive it mounts, but leaves the list of saved drives   *)
(* as it was: it adds none, drops none and renames none - even if two      *)
(* share a letter, for then the entry found by letter is the one saved.    *)
SwitchKeepsEntries ==
  [][\A mbrOk, mountOk \in Outcomes :
       (\/ \E letter \in Letters : SwitchLetter(letter, mbrOk, mountOk)
        \/ \E n \in UserSlots : SwitchPart(n, mbrOk, mountOk))
       => \E readOk \in ReadOutcomes : cfg' = Loaded(readOk)]_vars
=============================================================================
