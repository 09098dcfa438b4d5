---------------------------- MODULE MountConfig ----------------------------
(***************************************************************************)
(* The saved mounts, fs/mount_config.cpp: a list of at most four entries   *)
(* in memory and its copy in sector 1 of the disk.  The copy is read once, *)
(* on first use; every change writes the whole list back.  Either transfer *)
(* may fail, and then the memory goes on with what it has.                 *)
(***************************************************************************)
EXTENDS Integers, SequencesExt

CONSTANTS
  Letters,   \* drive letters
  FsTypes,   \* FS_EXT2 and FS_FAT32
  Parts,     \* partition numbers: an MBR has four
  Lbas       \* where partitions may start

MaxEntries == 4

ASSUME MountConfigAssumption == Parts = {0, 1, 2, 3}

VARIABLES
  cfg,      \* g_cfg: the entries, oldest first
  loaded,   \* g_loaded
  sector,   \* the entries load finds in sector 1: none, too, if the magic,
            \* the version, the checksum or the count is wrong
  faulty    \* a transfer of sector 1 has failed since power on

cfgVars == <<cfg, loaded, sector, faulty>>

SavedEntry == [letter : Letters, fs : FsTypes, part : Parts, lba : Lbas]

(***************************************************************************)
(* load, with which every operation starts: only the first one since power *)
(* on reads the sector, and a sector that cannot be read counts as empty   *)
(* from then on.                                                           *)
(***************************************************************************)
ReadOutcomes == IF loaded THEN {TRUE} ELSE BOOLEAN

Loaded(readOk) ==
  IF loaded THEN cfg ELSE IF readOk THEN sector ELSE <<>>

Load(readOk) ==
  /\ readOk \in ReadOutcomes
  /\ cfg' = Loaded(readOk)
  /\ loaded' = TRUE
  /\ faulty' = (faulty \/ ~readOk)
  /\ UNCHANGED sector

(* save: the new list is in memory whether or not the write works. *)
Save(entries, readOk, writeOk) ==
  /\ readOk \in ReadOutcomes
  /\ cfg' = entries
  /\ loaded' = TRUE
  /\ sector' = IF writeOk THEN entries ELSE sector
  /\ faulty' = (faulty \/ ~readOk \/ ~writeOk)

(***************************************************************************)
(* add: an entry for the same partition is overwritten in place, else one  *)
(* with the same letter, else the new one goes to the end - for which the  *)
(* oldest one goes if there are four.                                      *)
(***************************************************************************)
SamePart(entries, p)   == {i \in DOMAIN entries : entries[i].part = p}
SameLetter(entries, l) == {i \in DOMAIN entries : entries[i].letter = l}

Lowest(S) == CHOOSE i \in S : \A j \in S : i <= j

(* Mutant: the oldest entry goes one add too early. *)
WithRoomEarly(entries) ==
  IF Len(entries) >= MaxEntries - 1 THEN Tail(entries) ELSE entries

WithRoom(entries) == IF Len(entries) >= MaxEntries THEN Tail(entries) ELSE entries

(* Mutants: every entry goes to the end; only the letter is looked for. *)
AddedAtEnd(entries, e) == Append(entries, e)

AddedByLetter(entries, e) ==
  IF SameLetter(entries, e.letter) # {}
  THEN [entries EXCEPT ![Lowest(SameLetter(entries, e.letter))] = e]
  ELSE Append(WithRoom(entries), e)

Added(entries, e) ==
  IF SamePart(entries, e.part) # {}
  THEN [entries EXCEPT ![Lowest(SamePart(entries, e.part))] = e]
  ELSE IF SameLetter(entries, e.letter) # {}
  THEN [entries EXCEPT ![Lowest(SameLetter(entries, e.letter))] = e]
  ELSE Append(WithRoom(entries), e)

Add(e, readOk, writeOk) == Save(Added(Loaded(readOk), e), readOk, writeOk)

(* remove_by_part and remove_by_letter: the first entry that matches. *)
WithoutFirst(entries, S) ==
  IF S = {} THEN entries ELSE RemoveAt(entries, Lowest(S))

RemoveByPart(p, readOk, writeOk) ==
  LET entries == Loaded(readOk)
  IN  Save(WithoutFirst(entries, SamePart(entries, p)), readOk, writeOk)

RemoveByLetter(l, readOk, writeOk) ==
  LET entries == Loaded(readOk)
  IN  Save(WithoutFirst(entries, SameLetter(entries, l)), readOk, writeOk)

(* Mutant: the list is cleared in memory only. *)
ClearInMemory(readOk, writeOk) ==
  cfg' = <<>> /\ loaded' = TRUE /\ UNCHANGED <<sector, faulty>>

Clear(readOk, writeOk) == Save(<<>>, readOk, writeOk)

(* get_last: for boot, the most recent, although an entry that add changed *)
(* in place keeps its rank.                                                *)
GetLast(entries) == entries[Len(entries)]

(* Power is lost or the machine resets: the disk is what is left. *)
PowerCycle ==
  /\ cfg' = <<>>
  /\ loaded' = FALSE
  /\ faulty' = FALSE
  /\ UNCHANGED sector
-----------------------------------------------------------------------------
ConfigInit ==
  /\ cfg = <<>>
  /\ loaded = FALSE
  /\ sector = <<>>
  /\ faulty = FALSE

ConfigNext ==
  \/ \E readOk \in BOOLEAN :
       \/ Load(readOk)
       \/ \E writeOk \in BOOLEAN :
            \/ \E e \in SavedEntry : Add(e, readOk, writeOk)
            \/ \E p \in Parts : RemoveByPart(p, readOk, writeOk)
            \/ \E l \in Letters : RemoveByLetter(l, readOk, writeOk)
            \/ Clear(readOk, writeOk)
  \/ PowerCycle

ConfigSpec == ConfigInit /\ [][ConfigNext]_cfgVars
-----------------------------------------------------------------------------
(* Every variable stays in its range; get is never out of its array. *)
ConfigTypeOK ==
  /\ cfg \in Seq(SavedEntry) /\ Len(cfg) <= MaxEntries
  /\ loaded \in BOOLEAN
  /\ sector \in Seq(SavedEntry) /\ Len(sector) <= MaxEntries
  /\ faulty \in BOOLEAN

OnePerPart(entries) ==
  \A i, j \in DOMAIN entries : entries[i].part = entries[j].part => i = j

(* A partition is saved at most once, in memory and on disk, whichever of  *)
(* add's three cases put its entry there: remove_by_part, which removes    *)
(* the first match only, leaves nothing of it behind.                      *)
OneEntryPerPartition == OnePerPart(cfg) /\ OnePerPart(sector)

(* What `drives' lists is what the next boot will find, unless a transfer  *)
(* of the sector has failed since power on.                                *)
MemoryMatchesDisk == loaded /\ ~faulty => cfg = sector

Listed(e, entries) == \E i \in DOMAIN entries : entries[i] = e

(* e of the old list is in the new one, or a new entry took its partition  *)
(* or its letter.                                                          *)
KeptOrReplaced(e, old, new) ==
  \/ Listed(e, new)
  \/ \E i \in DOMAIN new :
       ~Listed(new[i], old) /\ (new[i].part = e.part \/ new[i].letter = e.letter)

(* "MBR allows at most 4 primary partitions, so we never need more slots"  *)
(* (fs/mount_config.hpp): saving a mount never pushes out the entry of     *)
(* another drive on another partition, however the list came about.        *)
AddKeepsOthers ==
  [][loaded /\ loaded' /\ Len(cfg') >= Len(cfg) =>
       \A i \in DOMAIN cfg : KeptOrReplaced(cfg[i], cfg, cfg')]_cfgVars
=============================================================================
