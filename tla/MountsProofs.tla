---------------------------- MODULE MountsProofs ----------------------------
(***************************************************************************)
(* Proofs about the partition table, the saved mounts, and the drives that *)
(* use both.  Mbr and MountConfig by themselves come first; then Mounts:   *)
(* ext2 and FAT32 are never mounted together, and whatever the commands    *)
(* and the boot do, to the table it is a step of Mbr and to the saved      *)
(* mounts a step of MountConfig - so everything proved of MbrSpec and      *)
(* ConfigSpec holds of a running system.                                   *)
(***************************************************************************)
EXTENDS Mounts, SequenceTheorems, TLAPS

(***************************************************************************)
(* Proofs about Mbr for every size of disk and every sizes users ask for,  *)
(* those included that make the sum in find_free_lba wrap.                 *)
(***************************************************************************)

Boundaries == {lba \in SectorsPerMb .. (Word - 1) : lba % SectorsPerMb = 0}

(* What find_free_lba may move a candidate to. *)
Candidates == {0} \cup Boundaries

Partition == [start : Boundaries, count : 1 .. (Word - 1)]

(* The table after any sequence of commands, whatever sizes wrap. *)
MbrIInv ==
  /\ table \in [Slots -> {Unused} \cup Partition]
  /\ signature \in BOOLEAN

(* The end of a partition, rounded up, is a boundary again, or wraps to 0. *)
LEMMA NextBoundaryIsCandidate ==
  ASSUME NEW lba \in 0 .. (Word - 1)
  PROVE  NextBoundary(lba) \in Candidates
<1>1. /\ Word \in Nat /\ SectorsPerMb = 2048 /\ Word % 2048 = 0
      /\ lba \in Nat /\ lba < Word
  BY MbrAssumption DEF SectorsPerMb
<1>2. CASE lba % 2048 = 0
  <2>1. lba = 0 \/ lba >= 2048
    BY <1>1, <1>2
  <2>2. QED
    BY <1>1, <1>2, <2>1 DEF NextBoundary, Candidates, Boundaries
<1>3. CASE lba % 2048 # 0
  <2> DEFINE up == (lba \div 2048 + 1) * 2048
  <2>1. up \in Nat /\ up % 2048 = 0 /\ up >= 2048 /\ up <= Word
    BY <1>1
  <2>2. NextBoundary(lba) = up % Word
    BY <1>1, <1>3 DEF NextBoundary
  <2> HIDE DEF up
  <2>3. up % Word = IF up = Word THEN 0 ELSE up
    BY <1>1, <2>1
  <2>4. QED
    BY <1>1, <2>1, <2>2, <2>3 DEF Candidates, Boundaries
<1>4. QED
  BY <1>1, <1>2, <1>3

(* So every slot moves a candidate to a candidate. *)
LEMMA BehindIsCandidate ==
  ASSUME NEW c \in Candidates, NEW p \in {Unused} \cup Partition
  PROVE  Behind(c, p) \in Candidates
<1>1. CASE p = Unused
  BY <1>1 DEF Behind
<1>2. CASE p \in Partition
  <2>1. Word \in Nat \ {0} /\ p.start \in Nat /\ p.count \in Nat
    BY <1>2, MbrAssumption DEF Boundaries, SectorsPerMb, Partition
  <2>2. PartEnd(p) \in 0 .. (Word - 1)
    BY <2>1 DEF PartEnd
  <2>3. QED
    BY <2>2, NextBoundaryIsCandidate DEF Behind
<1>3. QED
  BY <1>1, <1>2

(* And find_free_lba returns one. *)
LEMMA FreeLbaIsCandidate ==
  ASSUME MbrIInv, NEW needed
  PROVE  Candidate4(table) \in Candidates
           /\ FindFreeLba(table, needed) \in Candidates
<1>1. 0 \in Slots /\ 1 \in Slots /\ 2 \in Slots /\ 3 \in Slots
  BY DEF Slots
<1>2. SectorsPerMb \in Candidates
  BY MbrAssumption DEF Candidates, Boundaries, SectorsPerMb
<1>3. Candidate4(table) \in Candidates
  BY <1>1, <1>2, BehindIsCandidate DEF Candidate4, MbrIInv
<1>4. QED
  BY <1>3 DEF FindFreeLba, Candidates

(* What fdisk create puts into a slot. *)
LEMMA Created ==
  ASSUME MbrIInv, NEW n \in Slots, NEW mb \in SizesMb, FdiskCreate(n, mb)
  PROVE  LET start == Candidate4(table)
         IN  /\ table' = [table EXCEPT ![n] =
                            [start |-> start, count |-> Sectors(mb)]]
             /\ start \in Boundaries
             /\ Sectors(mb) \in 1 .. (Word - 1)
             /\ (start + Sectors(mb)) % Word <= DiskSectors
             /\ mb > 0 /\ signature' = TRUE
<1> DEFINE start == FindFreeLba(table, Sectors(mb))
<1>1. /\ mb > 0 /\ start >= SectorsPerMb /\ Sectors(mb) # 0
      /\ table' = [table EXCEPT ![n] = [start |-> start, count |-> Sectors(mb)]]
      /\ signature' = TRUE
  BY DEF FdiskCreate, CreatePartition
<1>2. Word \in Nat \ {0} /\ mb \in Int /\ SectorsPerMb = 2048
  BY MbrAssumption DEF SectorsPerMb
<1>3. Sectors(mb) \in 0 .. (Word - 1)
  BY <1>2 DEF Sectors
<1>4. start \in Candidates /\ start # 0
  BY <1>1, <1>2, FreeLbaIsCandidate
<1>5. /\ start = Candidate4(table)
      /\ ~((Candidate4(table) + Sectors(mb)) % Word > DiskSectors)
  BY <1>4 DEF FindFreeLba
<1>6. Candidate4(table) \in Nat /\ DiskSectors \in Nat
  BY <1>4, <1>5, <1>2, MbrAssumption DEF Candidates, Boundaries
<1>7. (Candidate4(table) + Sectors(mb)) % Word \in Nat
  BY <1>2, <1>3, <1>6
<1> HIDE DEF start
<1>8. QED
  BY <1>1, <1>3, <1>4, <1>5, <1>6, <1>7 DEF Candidates

(* Every command keeps the table sound. *)
LEMMA MbrStep == MbrIInv /\ [MbrNext]_mbrVars => MbrIInv'
<1> SUFFICES ASSUME MbrIInv, [MbrNext]_mbrVars
             PROVE  MbrIInv'
  OBVIOUS
<1>1. CASE FdiskInit
  BY <1>1 DEF FdiskInit, MbrIInv
<1>2. ASSUME NEW n \in Slots, FdiskDelete(n)
      PROVE  MbrIInv'
  BY <1>2 DEF FdiskDelete, DeletePartition, MbrIInv
<1>3. ASSUME NEW n \in Slots, NEW mb \in SizesMb, FdiskCreate(n, mb)
      PROVE  MbrIInv'
  <2> DEFINE new == [start |-> Candidate4(table), count |-> Sectors(mb)]
  <2>1. /\ table' = [table EXCEPT ![n] = new] /\ signature' = TRUE
        /\ new \in Partition
    BY <1>3, Created DEF Partition
  <2> HIDE DEF new
  <2>2. QED
    BY <2>1 DEF MbrIInv, Partition
<1>4. CASE UNCHANGED mbrVars
  BY <1>4 DEF mbrVars, MbrIInv
<1>5. QED
  BY <1>1, <1>2, <1>3, <1>4 DEF MbrNext, FdiskFails

(* A blank disk is sound. *)
LEMMA MbrStart == MbrInit => MbrIInv
BY DEF MbrInit, MbrIInv

(* The table is sound in every reachable state. *)
THEOREM MbrInvariant == MbrSpec => []MbrIInv
BY MbrStart, MbrStep, PTL DEF MbrSpec

(* The table never holds a partition without sectors, or one outside the   *)
(* range of sector numbers: create_partition, delete_partition.            *)
THEOREM MbrTypeCorrect == MbrSpec => []MbrTypeOK
<1>1. MbrIInv => MbrTypeOK
  <2>1. SUFFICES ASSUME MbrIInv PROVE MbrTypeOK
    OBVIOUS
  <2>2. Boundaries \subseteq 1 .. (Word - 1)
    BY DEF Boundaries, SectorsPerMb
  <2>3. \A n \in Slots :
          table[n] \in {Unused} \cup
                      [start : 1 .. (Word - 1), count : 1 .. (Word - 1)]
    <3>1. SUFFICES ASSUME NEW n \in Slots, table[n] # Unused
                   PROVE  table[n] \in
                            [start : 1 .. (Word - 1), count : 1 .. (Word - 1)]
      OBVIOUS
    <3>2. QED
      BY <2>1, <2>2, <3>1 DEF MbrIInv, Partition
  <2>4. QED
    BY <2>1, <2>3 DEF MbrIInv, MbrTypeOK
<1>2. QED
  BY <1>1, MbrInvariant, PTL
-----------------------------------------------------------------------------
(* Where every partition ends on the disk, as 32 bits see it, no candidate *)
(* is further than one boundary behind the end of the disk.                *)
OnDisk(p) == p = Unused \/ p.start + p.count <= DiskSectors \/ Wraps(p)

Near(c) == c <= DiskSectors + SectorsPerMb

(* Rounding up moves a number by less than a boundary. *)
LEMMA BoundaryIsNear ==
  ASSUME NEW lba \in 0 .. (Word - 1), lba <= DiskSectors
  PROVE  Near(NextBoundary(lba))
<1>1. /\ Word \in Nat \ {0} /\ SectorsPerMb = 2048 /\ DiskSectors \in Nat
      /\ lba \in Nat
  BY MbrAssumption DEF SectorsPerMb
<1> DEFINE up == (lba \div 2048 + 1) * 2048
<1>2. up \in Nat /\ up <= lba + 2048
  BY <1>1
<1>3. up % Word \in Nat /\ up % Word <= up
  <2> HIDE DEF up
  <2>1. up % Word \in 0 .. (Word - 1) /\ (up < Word => up % Word = up)
    BY <1>1, <1>2
  <2>2. QED
    BY <1>1, <1>2, <2>1
<1>4. NextBoundary(lba) = lba \/ NextBoundary(lba) = up % Word
  BY <1>1 DEF NextBoundary
<1> HIDE DEF up
<1>5. QED
  BY <1>1, <1>2, <1>3, <1>4 DEF Near

(* A slot moves a near candidate to a near candidate. *)
LEMMA BehindIsNear ==
  ASSUME NEW c \in Candidates, Near(c), NEW p \in {Unused} \cup Partition,
         OnDisk(p)
  PROVE  Near(Behind(c, p))
<1>1. CASE p = Unused
  BY <1>1 DEF Behind
<1>2. CASE p \in Partition /\ p # Unused
  <2>1. /\ Word \in Nat \ {0} /\ p.start \in Nat /\ p.count \in Nat
        /\ DiskSectors \in Nat /\ DiskSectors < Word
        /\ p.start + p.count <= DiskSectors \/ p.start + p.count \in Word .. Word + DiskSectors
    BY <1>2, MbrAssumption DEF Boundaries, SectorsPerMb, Partition, OnDisk, Wraps
  <2>2. PartEnd(p) <= DiskSectors /\ PartEnd(p) \in 0 .. (Word - 1)
    <3> DEFINE end == p.start + p.count
    <3>1. end \in Nat /\ (end <= DiskSectors \/ end \in Word .. Word + DiskSectors)
      BY <2>1
    <3>2. PartEnd(p) = end % Word
      BY DEF PartEnd
    <3> HIDE DEF end
    <3>3. CASE end <= DiskSectors
      BY <2>1, <3>1, <3>2, <3>3
    <3>4. CASE end \in Word .. Word + DiskSectors
      <4>1. end % Word = end - Word
        BY <2>1, <3>4
      <4>2. QED
        BY <2>1, <3>2, <3>4, <4>1
    <3>5. QED
      BY <3>1, <3>3, <3>4
  <2>3. QED
    BY <2>1, <2>2, BoundaryIsNear DEF Behind
<1>3. QED
  BY <1>1, <1>2

(* What find_free_lba compares with the size of the disk is the end of the *)
(* new partition, or what 32 bits leave of it.                             *)
LEMMA CreatedOnDisk ==
  ASSUME MbrIInv, PartitionsOnDisk,
         NEW n \in Slots, NEW mb \in SizesMb, FdiskCreate(n, mb)
  PROVE  /\ Near(Candidate4(table))
         /\ \/ Candidate4(table) + Sectors(mb) <= DiskSectors
            \/ Candidate4(table) + Sectors(mb) \in Word .. Word + DiskSectors
<1>1. /\ Candidate4(table) \in Boundaries /\ Sectors(mb) \in 1 .. (Word - 1)
      /\ (Candidate4(table) + Sectors(mb)) % Word <= DiskSectors /\ mb > 0
  BY Created
<1>2. Near(Candidate4(table))
  <2>1. 0 \in Slots /\ 1 \in Slots /\ 2 \in Slots /\ 3 \in Slots
    BY DEF Slots
  <2>2. \A m \in Slots : /\ table[m] \in {Unused} \cup Partition
                         /\ OnDisk(table[m])
    BY DEF MbrIInv, PartitionsOnDisk, OnDisk
  <2>3. SectorsPerMb \in Candidates /\ Near(SectorsPerMb)
    BY MbrAssumption DEF Candidates, Boundaries, SectorsPerMb, Near
  <2>4. QED
    BY <2>1, <2>2, <2>3, BehindIsCandidate, BehindIsNear DEF Candidate4
<1> DEFINE end == Candidate4(table) + Sectors(mb)
<1>3. /\ Word \in Nat \ {0} /\ DiskSectors \in Nat /\ DiskSectors < Word
      /\ end \in Nat /\ end < 2 * Word /\ end % Word <= DiskSectors
  BY <1>1, MbrAssumption DEF Boundaries, SectorsPerMb
<1> HIDE DEF end
<1>4. end < Word => end % Word = end
  BY <1>3
<1>5. end >= Word => end % Word = end - Word
  BY <1>3
<1>6. end <= DiskSectors \/ end \in Word .. Word + DiskSectors
  BY <1>3, <1>4, <1>5
<1>7. QED
  BY <1>2, <1>6 DEF end

(* Every command keeps every partition on the disk. *)
LEMMA OnDiskStep == MbrIInv /\ PartitionsOnDisk /\ [MbrNext]_mbrVars => PartitionsOnDisk'
<1> SUFFICES ASSUME MbrIInv, PartitionsOnDisk, [MbrNext]_mbrVars
             PROVE  PartitionsOnDisk'
  OBVIOUS
<1>1. CASE FdiskInit
  BY <1>1 DEF FdiskInit, PartitionsOnDisk
<1>2. ASSUME NEW n \in Slots, FdiskDelete(n)
      PROVE  PartitionsOnDisk'
  BY <1>2 DEF FdiskDelete, DeletePartition, MbrIInv, PartitionsOnDisk
<1>3. ASSUME NEW n \in Slots, NEW mb \in SizesMb, FdiskCreate(n, mb)
      PROVE  PartitionsOnDisk'
  <2> DEFINE new == [start |-> Candidate4(table), count |-> Sectors(mb)]
  <2>1. /\ table' = [table EXCEPT ![n] = new]
        /\ new.start \in SectorsPerMb .. DiskSectors + SectorsPerMb
        /\ new.start % SectorsPerMb = 0
    <3>1. table' = [table EXCEPT ![n] = new] /\ new.start \in Boundaries
      BY <1>3, Created
    <3>2. \A b \in Boundaries :
            b \in Int /\ b >= SectorsPerMb /\ b % SectorsPerMb = 0
      BY MbrAssumption DEF Boundaries, SectorsPerMb
    <3>3. new.start <= DiskSectors + SectorsPerMb
      BY <1>3, CreatedOnDisk DEF Near
    <3>4. SectorsPerMb \in Int /\ DiskSectors \in Int
      BY MbrAssumption DEF SectorsPerMb
    <3>5. QED
      BY <3>1, <3>2, <3>3, <3>4
  <2>2. new.start + new.count <= DiskSectors \/ Wraps(new)
    BY <1>3, CreatedOnDisk DEF Wraps
  <2> HIDE DEF new
  <2>3. QED
    BY <2>1, <2>2 DEF MbrIInv, PartitionsOnDisk, Wraps
<1>4. CASE UNCHANGED mbrVars
  BY <1>4 DEF mbrVars, PartitionsOnDisk
<1>5. QED
  BY <1>1, <1>2, <1>3, <1>4 DEF MbrNext, FdiskFails

(* For every disk and all sizes, every partition starts on a boundary      *)
(* behind the sectors of the MBR and of the saved mounts and at most one   *)
(* boundary behind the end of the disk, and ends on the disk unless start  *)
(* and size together reach 2^32: find_free_lba, create_partition.          *)
THEOREM MbrPartitionsOnDisk == MbrSpec => []PartitionsOnDisk
<1>1. MbrInit => PartitionsOnDisk
  BY DEF MbrInit, PartitionsOnDisk
<1>2. MbrIInv /\ PartitionsOnDisk /\ [MbrNext]_mbrVars => PartitionsOnDisk'
  BY OnDiskStep
<1>3. QED
  BY <1>1, <1>2, MbrInvariant, PTL DEF MbrSpec
-----------------------------------------------------------------------------
(***************************************************************************)
(* Proofs about MountConfig for every set of letters, file systems and     *)
(* sectors.  The invariant proved is inductive as it stands; the work is   *)
(* in what add and the removals do to a list in which no two entries share *)
(* a partition - letters may be shared, and then the first match counts.   *)
(***************************************************************************)

(* The lists the code can hold. *)
Listing == {entries \in Seq(SavedEntry) : Len(entries) <= MaxEntries}

ConfigIInv ==
  /\ cfg \in Listing /\ OnePerPart(cfg)
  /\ sector \in Listing /\ OnePerPart(sector)
  /\ loaded \in BOOLEAN /\ faulty \in BOOLEAN
  /\ MemoryMatchesDisk

(* A list has at most four entries. *)
LEMMA ListingFacts ==
  ASSUME NEW entries \in Listing
  PROVE  /\ entries \in Seq(SavedEntry)
         /\ Len(entries) \in 0 .. 4
         /\ DOMAIN entries = 1 .. Len(entries)
<1>1. entries \in Seq(SavedEntry) /\ Len(entries) <= 4
  BY DEF Listing, MaxEntries
<1>2. Len(entries) \in Nat /\ DOMAIN entries = 1 .. Len(entries)
  BY <1>1
<1>3. QED
  BY <1>1, <1>2

(* Of the entries that match there is a first one. *)
LEMMA LowestIsFirst ==
  ASSUME NEW entries \in Listing, NEW S \in SUBSET DOMAIN entries, S # {}
  PROVE  Lowest(S) \in S /\ \A j \in S : Lowest(S) <= j
<1>1. Len(entries) \in 0 .. 4 /\ DOMAIN entries = 1 .. Len(entries)
  BY ListingFacts
<1>2. S \subseteq {1, 2, 3, 4}
  BY <1>1
<1>3. \E i \in S : \A j \in S : i <= j
  <2>1. CASE 1 \in S
    BY <1>2, <2>1
  <2>2. CASE 1 \notin S /\ 2 \in S
    BY <1>2, <2>2
  <2>3. CASE 1 \notin S /\ 2 \notin S /\ 3 \in S
    BY <1>2, <2>3
  <2>4. CASE 1 \notin S /\ 2 \notin S /\ 3 \notin S
    BY <1>2, <2>4
  <2>5. QED
    BY <2>1, <2>2, <2>3, <2>4
<1>4. QED
  BY <1>3 DEF Lowest

(* Overwriting an entry keeps the length of the list. *)
LEMMA Overwritten ==
  ASSUME NEW entries \in Listing, NEW i \in DOMAIN entries,
         NEW e \in SavedEntry
  PROVE  /\ [entries EXCEPT ![i] = e] \in Listing
         /\ DOMAIN [entries EXCEPT ![i] = e] = DOMAIN entries
         /\ \A j \in DOMAIN entries :
              [entries EXCEPT ![i] = e][j] = IF j = i THEN e ELSE entries[j]
BY DEF Listing

(* A list stays free of duplicates if no other entry than the overwritten  *)
(* one has the partition of the new one.                                   *)
LEMMA OverwrittenOnce ==
  ASSUME NEW entries \in Listing, OnePerPart(entries),
         NEW i \in DOMAIN entries, NEW e \in SavedEntry,
         \A j \in DOMAIN entries : entries[j].part = e.part => j = i
  PROVE  OnePerPart([entries EXCEPT ![i] = e])
<1> DEFINE new == [entries EXCEPT ![i] = e]
<1>1. /\ DOMAIN new = DOMAIN entries
      /\ \A j \in DOMAIN entries : new[j] = IF j = i THEN e ELSE entries[j]
  BY Overwritten
<1> HIDE DEF new
<1>2. ASSUME NEW j \in DOMAIN new, NEW k \in DOMAIN new,
             new[j].part = new[k].part
      PROVE  j = k
  BY <1>1, <1>2 DEF OnePerPart
<1>3. OnePerPart(new)
  BY <1>2 DEF OnePerPart
<1>4. QED
  BY <1>3 DEF new

(* Dropping the oldest entry, or any one, shifts those behind it. *)
LEMMA Dropped ==
  ASSUME NEW entries \in Listing, NEW i \in DOMAIN entries
  PROVE  /\ RemoveAt(entries, i) \in Listing
         /\ Len(RemoveAt(entries, i)) = Len(entries) - 1
         /\ \A j \in 1 .. (Len(entries) - 1) :
              RemoveAt(entries, i)[j]
                = IF j < i THEN entries[j] ELSE entries[j + 1]
<1> DEFINE before == SubSeq(entries, 1, i - 1)
           behind == SubSeq(entries, i + 1, Len(entries))
<1>1. /\ entries \in Seq(SavedEntry) /\ Len(entries) \in Nat
      /\ i \in 1 .. Len(entries) /\ Len(entries) <= MaxEntries
  BY DEF Listing
<1>2. /\ before \in Seq(SavedEntry) /\ Len(before) = i - 1
      /\ \A j \in 1 .. (i - 1) : before[j] = entries[j]
  BY <1>1
<1>3. /\ behind \in Seq(SavedEntry) /\ Len(behind) = Len(entries) - i
      /\ \A j \in 1 .. (Len(entries) - i) : behind[j] = entries[i + j]
  BY <1>1
<1> HIDE DEF before, behind
<1>4. /\ before \o behind \in Seq(SavedEntry)
      /\ Len(before \o behind) = Len(entries) - 1
      /\ \A j \in 1 .. (Len(entries) - 1) :
           (before \o behind)[j] = IF j < i THEN entries[j] ELSE entries[j + 1]
  BY <1>1, <1>2, <1>3
<1>5. RemoveAt(entries, i) = before \o behind
  BY DEF RemoveAt, before, behind
<1>6. RemoveAt(entries, i) \in Listing
  <2>1. Len(before \o behind) <= MaxEntries
    BY <1>1, <1>4 DEF MaxEntries
  <2>2. QED
    BY <1>4, <1>5, <2>1 DEF Listing
<1>7. QED
  BY <1>4, <1>5, <1>6

(* Before an entry is appended there is room for it, and what stays are    *)
(* entries of the list, none twice.                                        *)
LEMMA RoomMade ==
  ASSUME NEW entries \in Listing, OnePerPart(entries)
  PROVE  /\ WithRoom(entries) \in Seq(SavedEntry)
         /\ Len(WithRoom(entries)) < MaxEntries
         /\ OnePerPart(WithRoom(entries))
         /\ \A j \in DOMAIN WithRoom(entries) :
              \E k \in DOMAIN entries : WithRoom(entries)[j] = entries[k]
<1>1. /\ entries \in Seq(SavedEntry) /\ Len(entries) \in 0 .. 4
      /\ DOMAIN entries = 1 .. Len(entries)
  BY ListingFacts
<1>2. CASE Len(entries) < MaxEntries
  BY <1>1, <1>2 DEF WithRoom, MaxEntries
<1>3. CASE Len(entries) >= MaxEntries
  <2>1. Len(entries) = 4 /\ WithRoom(entries) = Tail(entries)
    BY <1>1, <1>3 DEF WithRoom, MaxEntries
  <2>2. /\ Tail(entries) \in Seq(SavedEntry) /\ Len(Tail(entries)) = 3
        /\ DOMAIN Tail(entries) = 1 .. 3
        /\ \A j \in 1 .. 3 : Tail(entries)[j] = entries[j + 1]
    <3>1. entries # <<>> /\ Len(entries) = 4
      BY <1>1, <2>1
    <3>2. Tail(entries) \in Seq(SavedEntry) /\ Len(Tail(entries)) = 3
      BY <1>1, <3>1
    <3>3. \A j \in 1 .. 3 : Tail(entries)[j] = entries[j + 1]
      BY <1>1, <3>1, <3>2, HeadTailProperties
    <3>4. \A t \in Seq(SavedEntry) : Len(t) = 3 => DOMAIN t = 1 .. 3
      OBVIOUS
    <3>5. QED
      BY <3>2, <3>3, <3>4, Zenon
  <2>3. \A j \in 1 .. 3 : j + 1 \in DOMAIN entries
    BY <1>1, <2>1
  <2>4. OnePerPart(Tail(entries))
    BY <1>1, <2>2, <2>3 DEF OnePerPart
  <2>5. QED
    BY <2>1, <2>2, <2>3, <2>4 DEF MaxEntries
<1>4. QED
  BY <1>1, <1>2, <1>3 DEF MaxEntries

(* add keeps a list in which every partition occurs once.  Where no entry  *)
(* has the partition, overwriting one with the letter cannot duplicate it. *)
LEMMA AddedOnce ==
  ASSUME NEW entries \in Listing, OnePerPart(entries), NEW e \in SavedEntry
  PROVE  Added(entries, e) \in Listing /\ OnePerPart(Added(entries, e))
<1>1. CASE SamePart(entries, e.part) # {}
  <2> DEFINE i == Lowest(SamePart(entries, e.part))
  <2>1. i \in DOMAIN entries /\ entries[i].part = e.part
    BY <1>1, LowestIsFirst DEF SamePart
  <2>2. Added(entries, e) = [entries EXCEPT ![i] = e]
    BY <1>1 DEF Added
  <2> HIDE DEF i
  <2>3. \A j \in DOMAIN entries : entries[j].part = e.part => j = i
    BY <2>1 DEF OnePerPart
  <2>4. [entries EXCEPT ![i] = e] \in Listing
    BY <2>1, Overwritten
  <2>5. OnePerPart([entries EXCEPT ![i] = e])
    BY <2>1, <2>3, OverwrittenOnce
  <2>6. QED
    BY <2>2, <2>4, <2>5
<1>2. CASE SamePart(entries, e.part) = {} /\ SameLetter(entries, e.letter) # {}
  <2> DEFINE i == Lowest(SameLetter(entries, e.letter))
  <2>1. i \in DOMAIN entries
    BY <1>2, LowestIsFirst DEF SameLetter
  <2>2. Added(entries, e) = [entries EXCEPT ![i] = e]
    BY <1>2 DEF Added
  <2>3. \A j \in DOMAIN entries : entries[j].part # e.part
    BY <1>2 DEF SamePart
  <2> HIDE DEF i
  <2>4. [entries EXCEPT ![i] = e] \in Listing
    BY <2>1, Overwritten
  <2>5. OnePerPart([entries EXCEPT ![i] = e])
    BY <2>1, <2>3, OverwrittenOnce
  <2>6. QED
    BY <2>2, <2>4, <2>5
<1>3. CASE SamePart(entries, e.part) = {} /\ SameLetter(entries, e.letter) = {}
  <2> DEFINE kept == WithRoom(entries)
  <2>1. Added(entries, e) = Append(kept, e)
    BY <1>3 DEF Added
  <2>2. /\ kept \in Seq(SavedEntry) /\ Len(kept) < MaxEntries
        /\ OnePerPart(kept)
        /\ \A j \in DOMAIN kept : \E k \in DOMAIN entries : kept[j] = entries[k]
    BY RoomMade
  <2>3. \A j \in DOMAIN kept : kept[j].part # e.part
    BY <1>3, <2>2 DEF SamePart
  <2> HIDE DEF kept
  <2>4. /\ Append(kept, e) \in Seq(SavedEntry)
        /\ Len(Append(kept, e)) = Len(kept) + 1 /\ Len(kept) \in Nat
        /\ DOMAIN Append(kept, e) = 1 .. (Len(kept) + 1)
        /\ DOMAIN kept = 1 .. Len(kept)
        /\ Append(kept, e)[Len(kept) + 1] = e
        /\ \A j \in 1 .. Len(kept) : Append(kept, e)[j] = kept[j]
    BY <2>2
  <2>5. OnePerPart(Append(kept, e))
    BY <2>2, <2>3, <2>4 DEF OnePerPart
  <2>6. QED
    BY <2>1, <2>2, <2>4, <2>5 DEF Listing, MaxEntries
<1>4. QED
  BY <1>1, <1>2, <1>3

(* So do remove_by_part and remove_by_letter. *)
LEMMA RemovedOnce ==
  ASSUME NEW entries \in Listing, OnePerPart(entries),
         NEW S \in SUBSET DOMAIN entries
  PROVE  WithoutFirst(entries, S) \in Listing
           /\ OnePerPart(WithoutFirst(entries, S))
<1>1. CASE S = {}
  BY <1>1 DEF WithoutFirst
<1>2. CASE S # {}
  <2> DEFINE i == Lowest(S)
  <2>1. i \in DOMAIN entries
    BY <1>2, LowestIsFirst
  <2>2. WithoutFirst(entries, S) = RemoveAt(entries, i)
    BY <1>2 DEF WithoutFirst
  <2> HIDE DEF i
  <2>3. Len(entries) \in Nat /\ DOMAIN entries = 1 .. Len(entries)
    BY DEF Listing
  <2>4. /\ RemoveAt(entries, i) \in Listing
        /\ Len(RemoveAt(entries, i)) = Len(entries) - 1
        /\ \A j \in 1 .. (Len(entries) - 1) :
             RemoveAt(entries, i)[j]
               = IF j < i THEN entries[j] ELSE entries[j + 1]
    BY <2>1, Dropped
  <2>5. DOMAIN RemoveAt(entries, i) = 1 .. (Len(entries) - 1)
    BY <2>4 DEF Listing
  <2> DEFINE new  == RemoveAt(entries, i)
             was(j) == IF j < i THEN j ELSE j + 1
  <2>6. /\ \A j \in DOMAIN new : was(j) \in DOMAIN entries
        /\ \A j \in DOMAIN new : new[j] = entries[was(j)]
        /\ \A j, k \in DOMAIN new : was(j) = was(k) => j = k
    BY <2>1, <2>3, <2>4, <2>5
  <2> HIDE DEF new, was
  <2>7. OnePerPart(new)
    BY <2>6 DEF OnePerPart
  <2>8. QED
    BY <2>2, <2>4, <2>7 DEF new
<1>3. QED
  BY <1>1, <1>2
-----------------------------------------------------------------------------
(* The empty list. *)
LEMMA EmptyList == <<>> \in Listing /\ OnePerPart(<<>>)
BY DEF Listing, OnePerPart, MaxEntries

(* What load leaves in memory. *)
LEMMA LoadedList ==
  ASSUME ConfigIInv, NEW readOk \in BOOLEAN
  PROVE  Loaded(readOk) \in Listing /\ OnePerPart(Loaded(readOk))
BY EmptyList DEF ConfigIInv, Loaded

(* Every operation that saves a sound list keeps the invariant. *)
LEMMA SaveInv ==
  ASSUME ConfigIInv, NEW entries \in Listing, OnePerPart(entries),
         NEW readOk \in BOOLEAN, NEW writeOk \in BOOLEAN,
         Save(entries, readOk, writeOk)
  PROVE  ConfigIInv'
BY DEF Save, ConfigIInv, MemoryMatchesDisk, OnePerPart

(* Every operation keeps the invariant. *)
LEMMA ConfigStep == ConfigIInv /\ [ConfigNext]_cfgVars => ConfigIInv'
<1> SUFFICES ASSUME ConfigIInv, [ConfigNext]_cfgVars
             PROVE  ConfigIInv'
  OBVIOUS
<1>1. ASSUME NEW readOk \in BOOLEAN, Load(readOk)
      PROVE  ConfigIInv'
  <2>1. Loaded(readOk) \in Listing /\ OnePerPart(Loaded(readOk))
    BY LoadedList
  <2>2. ~faulty' => Loaded(readOk) = IF loaded THEN cfg ELSE sector
    BY <1>1 DEF Load, Loaded, ConfigIInv
  <2>3. QED
    BY <1>1, <2>1, <2>2
       DEF Load, ConfigIInv, MemoryMatchesDisk, OnePerPart
<1>2. ASSUME NEW readOk \in BOOLEAN, NEW writeOk \in BOOLEAN,
             NEW e \in SavedEntry, Add(e, readOk, writeOk)
      PROVE  ConfigIInv'
  BY <1>2, LoadedList, AddedOnce, SaveInv DEF Add
<1>3. ASSUME NEW readOk \in BOOLEAN, NEW writeOk \in BOOLEAN,
             NEW p \in Parts, RemoveByPart(p, readOk, writeOk)
      PROVE  ConfigIInv'
  <2>1. SamePart(Loaded(readOk), p) \subseteq DOMAIN Loaded(readOk)
    BY DEF SamePart
  <2>2. QED
    BY <1>3, <2>1, LoadedList, RemovedOnce, SaveInv DEF RemoveByPart
<1>4. ASSUME NEW readOk \in BOOLEAN, NEW writeOk \in BOOLEAN,
             NEW l \in Letters, RemoveByLetter(l, readOk, writeOk)
      PROVE  ConfigIInv'
  <2>1. SameLetter(Loaded(readOk), l) \subseteq DOMAIN Loaded(readOk)
    BY DEF SameLetter
  <2>2. QED
    BY <1>4, <2>1, LoadedList, RemovedOnce, SaveInv DEF RemoveByLetter
<1>5. ASSUME NEW readOk \in BOOLEAN, NEW writeOk \in BOOLEAN,
             Clear(readOk, writeOk)
      PROVE  ConfigIInv'
  BY <1>5, EmptyList, SaveInv DEF Clear
<1>6. CASE PowerCycle
  <2>1. /\ cfg' = <<>> /\ loaded' = FALSE /\ faulty' = FALSE
        /\ sector' = sector
    BY <1>6 DEF PowerCycle
  <2>2. OnePerPart(cfg') /\ cfg' \in Listing
    BY <2>1, EmptyList
  <2>3. QED
    BY <2>1, <2>2 DEF ConfigIInv, MemoryMatchesDisk, OnePerPart
<1>7. CASE UNCHANGED cfgVars
  BY <1>7 DEF cfgVars, ConfigIInv, MemoryMatchesDisk, OnePerPart
<1>8. QED
  BY <1>1, <1>2, <1>3, <1>4, <1>5, <1>6, <1>7 DEF ConfigNext

(* The invariant holds in every reachable state. *)
THEOREM ConfigInvariant == ConfigSpec => []ConfigIInv
<1>1. ConfigInit => ConfigIInv
  BY EmptyList DEF ConfigInit, ConfigIInv, MemoryMatchesDisk
<1>2. QED
  BY <1>1, ConfigStep, PTL DEF ConfigSpec

-----------------------------------------------------------------------------
(* The lists never outgrow the four entries there is room for: load and    *)
(* add of fs/mount_config.cpp.                                             *)
THEOREM ConfigTypeCorrect == ConfigSpec => []ConfigTypeOK
<1>1. ConfigIInv => ConfigTypeOK
  BY DEF ConfigIInv, ConfigTypeOK, Listing
<1>2. QED
  BY <1>1, ConfigInvariant, PTL

(* A partition is saved at most once, in memory and on disk: add,          *)
(* remove_by_part and remove_by_letter.                                    *)
THEOREM ConfigOneEntryPerPartition == ConfigSpec => []OneEntryPerPartition
<1>1. ConfigIInv => OneEntryPerPartition
  BY DEF ConfigIInv, OneEntryPerPartition
<1>2. QED
  BY <1>1, ConfigInvariant, PTL

(* Unless a transfer of the sector failed, memory is what the disk holds:  *)
(* every operation saves what it changes.                                  *)
THEOREM ConfigMemoryMatchesDisk == ConfigSpec => []MemoryMatchesDisk
<1>1. ConfigIInv => MemoryMatchesDisk
  BY DEF ConfigIInv
<1>2. QED
  BY <1>1, ConfigInvariant, PTL
-----------------------------------------------------------------------------
(* Four entries with no partition twice cover all four partitions, so a    *)
(* list that lacks one has room: WithRoom then drops nothing.              *)
LEMMA RoomForMissing ==
  ASSUME NEW entries \in Listing, OnePerPart(entries), NEW p \in Parts,
         SamePart(entries, p) = {}
  PROVE  WithRoom(entries) = entries
<1>1. Len(entries) \in 0 .. 4 /\ DOMAIN entries = 1 .. Len(entries)
  BY ListingFacts
<1>2. \A i \in DOMAIN entries : entries[i].part \in {0, 1, 2, 3} \ {p}
  <2>1. \A i \in DOMAIN entries : entries[i] \in SavedEntry
    BY ListingFacts
  <2>2. QED
    BY <2>1, MountConfigAssumption DEF SavedEntry, SamePart
<1>3. Len(entries) # 4
  <2>1. SUFFICES ASSUME Len(entries) = 4 PROVE FALSE
    OBVIOUS
  <2>2. 1 \in DOMAIN entries /\ 2 \in DOMAIN entries
          /\ 3 \in DOMAIN entries /\ 4 \in DOMAIN entries
    BY <1>1, <2>1
  <2> DEFINE a == entries[1].part
             b == entries[2].part
             c == entries[3].part
             d == entries[4].part
  <2>3. a # b /\ a # c /\ a # d /\ b # c /\ b # d /\ c # d
    BY <2>2 DEF OnePerPart
  <2>4. /\ a \in {0, 1, 2, 3} \ {p} /\ b \in {0, 1, 2, 3} \ {p}
        /\ c \in {0, 1, 2, 3} \ {p} /\ d \in {0, 1, 2, 3} \ {p}
    BY <1>2, <2>2
  <2> HIDE DEF a, b, c, d
  <2>5. QED
    BY <2>3, <2>4, MountConfigAssumption
<1>4. ~(Len(entries) >= MaxEntries)
  BY <1>1, <1>3 DEF MaxEntries
<1>5. QED
  BY <1>4 DEF WithRoom

(* add keeps every entry, or has one of its partition or letter instead.   *)
LEMMA AddedReplaces ==
  ASSUME NEW entries \in Listing, OnePerPart(entries), NEW e \in SavedEntry,
         NEW i \in DOMAIN entries
  PROVE  KeptOrReplaced(entries[i], entries, Added(entries, e))
<1>1. CASE SamePart(entries, e.part) # {}
  <2> DEFINE k == Lowest(SamePart(entries, e.part))
  <2>1. k \in DOMAIN entries /\ entries[k].part = e.part
    BY <1>1, LowestIsFirst DEF SamePart
  <2>2. Added(entries, e) = [entries EXCEPT ![k] = e]
    BY <1>1 DEF Added
  <2> HIDE DEF k
  <2>3. /\ DOMAIN Added(entries, e) = DOMAIN entries
        /\ \A j \in DOMAIN entries :
             Added(entries, e)[j] = IF j = k THEN e ELSE entries[j]
    BY <2>1, <2>2, Overwritten
  <2>4. Listed(e, entries) => entries[k] = e
    BY <2>1 DEF Listed, OnePerPart
  <2>5. QED
    BY <2>1, <2>3, <2>4 DEF KeptOrReplaced, Listed
<1>2. CASE SamePart(entries, e.part) = {} /\ SameLetter(entries, e.letter) # {}
  <2> DEFINE k == Lowest(SameLetter(entries, e.letter))
  <2>1. k \in DOMAIN entries /\ entries[k].letter = e.letter
    BY <1>2, LowestIsFirst DEF SameLetter
  <2>2. Added(entries, e) = [entries EXCEPT ![k] = e]
    BY <1>2 DEF Added
  <2> HIDE DEF k
  <2>3. /\ DOMAIN Added(entries, e) = DOMAIN entries
        /\ \A j \in DOMAIN entries :
             Added(entries, e)[j] = IF j = k THEN e ELSE entries[j]
    BY <2>1, <2>2, Overwritten
  <2>4. ~Listed(e, entries)
    BY <1>2 DEF Listed, SamePart
  <2>5. QED
    BY <2>1, <2>3, <2>4 DEF KeptOrReplaced, Listed
<1>3. CASE SamePart(entries, e.part) = {} /\ SameLetter(entries, e.letter) = {}
  <2>1. e.part \in Parts
    BY DEF SavedEntry
  <2>2. Added(entries, e) = Append(entries, e)
    BY <1>3, <2>1, RoomForMissing DEF Added
  <2>3. /\ entries \in Seq(SavedEntry) /\ Len(entries) \in Nat
        /\ i \in 1 .. Len(entries)
    BY ListingFacts
  <2>4. /\ Append(entries, e)[i] = entries[i]
        /\ i \in DOMAIN Append(entries, e)
    BY <2>3, AppendProperties
  <2>5. QED
    BY <2>2, <2>4 DEF KeptOrReplaced, Listed
<1>4. QED
  BY <1>1, <1>2, <1>3

(* Removing nothing, or shortening the list, satisfies the property. *)
LEMMA RemovedReplaces ==
  ASSUME NEW entries \in Listing, NEW S \in SUBSET DOMAIN entries,
         Len(WithoutFirst(entries, S)) >= Len(entries)
  PROVE  WithoutFirst(entries, S) = entries
<1>1. CASE S = {}
  BY <1>1 DEF WithoutFirst
<1>2. CASE S # {}
  <2>1. Lowest(S) \in DOMAIN entries
    BY <1>2, LowestIsFirst
  <2>2. Len(WithoutFirst(entries, S)) = Len(entries) - 1
    BY <1>2, <2>1, Dropped DEF WithoutFirst
  <2>3. QED
    BY <2>2, ListingFacts
<1>3. QED
  BY <1>1, <1>2

(* Every step but a power cycle, which forgets the memory anyway.  *)
LEMMA KeepsOthersStep ==
  ConfigIInv /\ [ConfigNext]_cfgVars =>
    (loaded /\ loaded' /\ Len(cfg') >= Len(cfg) =>
       \A i \in DOMAIN cfg : KeptOrReplaced(cfg[i], cfg, cfg'))
<1> SUFFICES ASSUME ConfigIInv, [ConfigNext]_cfgVars,
                    loaded, loaded', Len(cfg') >= Len(cfg),
                    NEW i \in DOMAIN cfg
             PROVE  KeptOrReplaced(cfg[i], cfg, cfg')
  OBVIOUS
<1>1. /\ cfg \in Listing /\ OnePerPart(cfg)
      /\ \A readOk \in BOOLEAN : Loaded(readOk) = cfg
  BY DEF ConfigIInv, Loaded
<1>2. cfg' = cfg => KeptOrReplaced(cfg[i], cfg, cfg')
  BY DEF KeptOrReplaced, Listed
<1>3. ASSUME NEW readOk \in BOOLEAN, NEW writeOk \in BOOLEAN,
             NEW e \in SavedEntry, Add(e, readOk, writeOk)
      PROVE  KeptOrReplaced(cfg[i], cfg, cfg')
  <2>1. cfg' = Added(cfg, e)
    BY <1>1, <1>3 DEF Add, Save
  <2>2. QED
    BY <1>1, <2>1, AddedReplaces
<1>4. ASSUME NEW readOk \in BOOLEAN, NEW writeOk \in BOOLEAN,
             NEW p \in Parts, RemoveByPart(p, readOk, writeOk)
      PROVE  KeptOrReplaced(cfg[i], cfg, cfg')
  <2>1. cfg' = WithoutFirst(cfg, SamePart(cfg, p))
    BY <1>1, <1>4 DEF RemoveByPart, Save
  <2>2. SamePart(cfg, p) \in SUBSET DOMAIN cfg
    BY DEF SamePart
  <2>3. QED
    BY <1>1, <1>2, <2>1, <2>2, RemovedReplaces
<1>5. ASSUME NEW readOk \in BOOLEAN, NEW writeOk \in BOOLEAN,
             NEW l \in Letters, RemoveByLetter(l, readOk, writeOk)
      PROVE  KeptOrReplaced(cfg[i], cfg, cfg')
  <2>1. cfg' = WithoutFirst(cfg, SameLetter(cfg, l))
    BY <1>1, <1>5 DEF RemoveByLetter, Save
  <2>2. SameLetter(cfg, l) \in SUBSET DOMAIN cfg
    BY DEF SameLetter
  <2>3. QED
    BY <1>1, <1>2, <2>1, <2>2, RemovedReplaces
<1>6. ASSUME NEW readOk \in BOOLEAN, NEW writeOk \in BOOLEAN,
             Clear(readOk, writeOk)
      PROVE  FALSE
  <2>1. Len(cfg') = 0
    BY <1>6 DEF Clear, Save
  <2>2. Len(cfg) \in Nat /\ Len(cfg) # 0
    BY <1>1, ListingFacts
  <2>3. QED
    BY <2>1, <2>2
<1>7. ASSUME NEW readOk \in BOOLEAN, Load(readOk)
      PROVE  cfg' = cfg
  BY <1>1, <1>7 DEF Load
<1>8. CASE PowerCycle
  BY <1>8 DEF PowerCycle
<1>9. CASE UNCHANGED cfgVars
  BY <1>2, <1>9 DEF cfgVars
<1>10. QED
  BY <1>2, <1>3, <1>4, <1>5, <1>6, <1>7, <1>8, <1>9 DEF ConfigNext

(* "MBR allows at most 4 primary partitions, so we never need more slots"  *)
(* (fs/mount_config.hpp:17): add never pushes out another drive.           *)
THEOREM ConfigAddKeepsOthers == ConfigSpec => AddKeepsOthers
<1>1. ConfigIInv /\ [ConfigNext]_cfgVars =>
        [loaded /\ loaded' /\ Len(cfg') >= Len(cfg) =>
           \A i \in DOMAIN cfg : KeptOrReplaced(cfg[i], cfg, cfg')]_cfgVars
  BY KeepsOthersStep
<1>2. QED
  BY <1>1, ConfigInvariant, PTL DEF ConfigSpec, AddKeepsOthers
-----------------------------------------------------------------------------
(* Every sector a partition may start at is one an entry may carry. *)
StartsCovered == Boundaries \subseteq Lbas

(* fdisk drives the table as in Mbr; no other command writes it.  *)
LEMMA TableStep == [MountsNext]_vars => [MbrNext]_mbrVars
<1> SUFFICES ASSUME [MountsNext]_vars
             PROVE  MbrNext \/ UNCHANGED mbrVars
  OBVIOUS
<1>1. CASE DiskCmd
  <2>1. UserSlots \subseteq Slots
    BY MountsAssumption
  <2>2. ASSUME NEW n \in UserSlots, NEW fs \in FsTypes, NEW mb \in Overrides,
               FormatCmd(fs, n, mb)
        PROVE  UNCHANGED mbrVars
    BY <2>2 DEF FormatCmd
  <2>3. FdiskInitCmd => MbrNext
    BY DEF FdiskInitCmd, MbrNext
  <2>4. ASSUME NEW n \in UserSlots, FdiskDeleteCmd(n)
        PROVE  MbrNext
    BY <2>1, <2>4 DEF FdiskDeleteCmd, MbrNext
  <2>5. ASSUME NEW n \in UserSlots, NEW mb \in SizesMb, FdiskCreateCmd(n, mb)
        PROVE  MbrNext
    BY <2>1, <2>5 DEF FdiskCreateCmd, MbrNext
  <2>6. QED
    BY <1>1, <2>2, <2>3, <2>4, <2>5 DEF DiskCmd
<1>2. ASSUME NEW mbrOk \in Outcomes, NEW mountOk \in Outcomes,
             DriveCmd(mbrOk, mountOk)
      PROVE  UNCHANGED mbrVars
  BY <1>2 DEF DriveCmd, Boot, UnmountLetter, SwitchLetter, SwitchPart, Switch,
     UnmountPart, MountCmd
<1>3. CASE UnmountAll \/ PowerOff
  BY <1>3 DEF UnmountAll, PowerOff
<1>4. CASE UNCHANGED vars
  BY <1>4 DEF vars, mbrVars
<1>5. QED
  BY <1>1, <1>2, <1>3, <1>4 DEF MountsNext

(* The table is as sound as fdisk leaves it. *)
LEMMA TableInvariant == MountsSpec => []MbrIInv
<1>1. MountsInit => MbrIInv
  BY MbrStart DEF MountsInit
<1>2. MbrIInv /\ [MountsNext]_vars => MbrIInv'
  BY TableStep, MbrStep
<1>3. QED
  BY <1>1, <1>2, PTL DEF MountsSpec
-----------------------------------------------------------------------------
(* mount saves a well-formed entry. *)
LEMMA MountSaves ==
  ASSUME StartsCovered, MbrIInv, NEW letter \in Letters, NEW n \in UserSlots,
         NEW ext2Ok \in Outcomes, NEW fatOk \in Outcomes,
         MountCmd(letter, n, ext2Ok, fatOk)
  PROVE  ConfigNext \/ UNCHANGED cfgVars
<1> DEFINE fs == Recognised(table[n].start, ext2Ok, fatOk)
           e  == [letter |-> letter, fs |-> fs, part |-> n,
                  lba |-> table[n].start]
<1>1. Resolves(n, TRUE) /\ IF fs = "none" THEN UNCHANGED cfgVars ELSE SaveMount(e)
  BY DEF MountCmd
<1>2. CASE fs = "none"
  BY <1>1, <1>2
<1>3. CASE fs # "none"
  <2>1. fs \in FsTypes
    BY <1>3, MountsAssumption DEF Recognised, Ext2, Fat32
  <2>2. n \in Slots /\ n \in Parts
    BY MountsAssumption, MountConfigAssumption DEF Slots
  <2>3. table[n].start \in Lbas
    BY <1>1, <2>2 DEF Resolves, InUse, MbrIInv, Partition, StartsCovered
  <2> HIDE DEF fs
  <2>4. e \in SavedEntry
    BY <2>1, <2>2, <2>3 DEF SavedEntry
  <2> HIDE DEF e
  <2>5. PICK readOk, writeOk \in SaveOutcomes : Add(e, readOk, writeOk)
    BY <1>1, <1>3 DEF SaveMount
  <2>6. readOk \in BOOLEAN /\ writeOk \in BOOLEAN
    BY MountsAssumption
  <2>7. QED
    BY <2>4, <2>5, <2>6 DEF ConfigNext
<1>4. QED
  BY <1>2, <1>3

(* What a command picks from the list it has read is a well-formed entry. *)
LEMMA EntryPicked ==
  ASSUME ConfigIInv, NEW readOk \in BOOLEAN,
         NEW S \in SUBSET DOMAIN Loaded(readOk), S # {}
  PROVE  Loaded(readOk)[Lowest(S)] \in SavedEntry
<1> DEFINE entries == Loaded(readOk)
<1>1. entries \in Listing
  BY LoadedList
<1> HIDE DEF entries
<1>2. Lowest(S) \in DOMAIN entries
  BY <1>1, LowestIsFirst DEF entries
<1>3. entries \in Seq(SavedEntry)
  BY <1>1, ListingFacts
<1>4. entries[Lowest(S)] \in SavedEntry
  BY <1>2, <1>3
<1>5. QED
  BY <1>4 DEF entries

(* unmount removes entries, or only reads them. *)
LEMMA UnmountSaves ==
  ASSUME ConfigIInv, NEW mbrOk \in Outcomes,
         \/ UnmountAll
         \/ \E letter \in Letters : UnmountLetter(letter, mbrOk)
         \/ \E n \in UserSlots : UnmountPart(n, mbrOk)
  PROVE  ConfigNext
<1>1. SaveOutcomes \subseteq BOOLEAN /\ UserSlots \subseteq Parts
  BY MountsAssumption, MountConfigAssumption DEF Slots
<1>2. CASE UnmountAll
  BY <1>1, <1>2 DEF UnmountAll, ConfigNext
<1>3. ASSUME NEW n \in UserSlots, UnmountPart(n, mbrOk)
      PROVE  ConfigNext
  BY <1>1, <1>3 DEF UnmountPart, ConfigNext
<1>4. ASSUME NEW letter \in Letters, UnmountLetter(letter, mbrOk)
      PROVE  ConfigNext
  <2>1. PICK readOk, writeOk \in SaveOutcomes :
          LET found == SameLetter(Loaded(readOk), letter)
              n     == Loaded(readOk)[Lowest(found)].part
          IN  IF found = {} THEN Load(readOk) /\ UNCHANGED fsVars
              ELSE Unmount(n, mbrOk) /\ RemoveByPart(n, readOk, writeOk)
    BY <1>4 DEF UnmountLetter
  <2> DEFINE found == SameLetter(Loaded(readOk), letter)
             n     == Loaded(readOk)[Lowest(found)].part
  <2>2. readOk \in BOOLEAN /\ writeOk \in BOOLEAN
    BY <1>1
  <2>3. CASE found = {}
    BY <2>1, <2>2, <2>3 DEF ConfigNext
  <2>4. CASE found # {}
    <3>1. found \in SUBSET DOMAIN Loaded(readOk)
      BY DEF SameLetter
    <3>2. Loaded(readOk)[Lowest(found)] \in SavedEntry
      BY <2>2, <2>4, <3>1, EntryPicked
    <3>3. n \in Parts
      BY <3>2 DEF SavedEntry
    <3>4. RemoveByPart(n, readOk, writeOk)
      BY <2>1, <2>4
    <3>5. QED
      BY <2>2, <3>3, <3>4 DEF ConfigNext
  <2>5. QED
    BY <2>3, <2>4
<1>5. QED
  BY <1>2, <1>3, <1>4

(* switch saves the entry it found, or only reads the entries. *)
LEMMA SwitchSaves ==
  ASSUME ConfigIInv, NEW mbrOk \in Outcomes, NEW mountOk \in Outcomes,
         \/ \E letter \in Letters : SwitchLetter(letter, mbrOk, mountOk)
         \/ \E n \in UserSlots : SwitchPart(n, mbrOk, mountOk)
  PROVE  ConfigNext
<1>1. SaveOutcomes \subseteq BOOLEAN
  BY MountsAssumption
<1>2. ASSUME NEW readOk \in SaveOutcomes, NEW writeOk \in SaveOutcomes,
             NEW found \in SUBSET DOMAIN Loaded(readOk),
             \/ Load(readOk)
             \/ /\ found # {}
                /\ Add(Loaded(readOk)[Lowest(found)], readOk, writeOk)
      PROVE  ConfigNext
  <2>1. readOk \in BOOLEAN /\ writeOk \in BOOLEAN
    BY <1>1
  <2>2. CASE Load(readOk)
    BY <2>1, <2>2 DEF ConfigNext
  <2>3. CASE found # {} /\ Add(Loaded(readOk)[Lowest(found)], readOk, writeOk)
    <3>1. Loaded(readOk)[Lowest(found)] \in SavedEntry
      BY <2>1, <2>3, EntryPicked
    <3>2. QED
      BY <2>1, <2>3, <3>1 DEF ConfigNext
  <2>4. QED
    BY <1>2, <2>2, <2>3
<1>3. ASSUME NEW letter \in Letters, SwitchLetter(letter, mbrOk, mountOk)
      PROVE  ConfigNext
  <2>1. PICK readOk, writeOk \in SaveOutcomes :
          LET found == SameLetter(Loaded(readOk), letter)
          IN  \/ Load(readOk)
              \/ found # {} /\ Add(Loaded(readOk)[Lowest(found)], readOk, writeOk)
    BY <1>3 DEF SwitchLetter, Switch
  <2>2. SameLetter(Loaded(readOk), letter) \in SUBSET DOMAIN Loaded(readOk)
    BY DEF SameLetter
  <2>3. QED
    BY <1>2, <2>1, <2>2
<1>4. ASSUME NEW n \in UserSlots, SwitchPart(n, mbrOk, mountOk)
      PROVE  ConfigNext
  <2>1. PICK readOk, writeOk \in SaveOutcomes :
          LET found == SamePart(Loaded(readOk), n)
          IN  \/ Load(readOk)
              \/ found # {} /\ Add(Loaded(readOk)[Lowest(found)], readOk, writeOk)
    BY <1>4 DEF SwitchPart, Switch
  <2>2. SamePart(Loaded(readOk), n) \in SUBSET DOMAIN Loaded(readOk)
    BY DEF SamePart
  <2>3. QED
    BY <1>2, <2>1, <2>2
<1>5. QED
  BY <1>3, <1>4

(* The boot reads the entries or forgets them all. *)
LEMMA BootSaves ==
  ASSUME NEW mbrOk \in Outcomes, NEW mountOk \in Outcomes, Boot(mbrOk, mountOk)
  PROVE  ConfigNext \/ UNCHANGED cfgVars
<1>1. \/ UNCHANGED cfgVars
      \/ \E readOk, writeOk \in SaveOutcomes :
           Load(readOk) \/ Clear(readOk, writeOk)
  BY DEF Boot
<1>2. SaveOutcomes \subseteq BOOLEAN
  BY MountsAssumption
<1>3. QED
  BY <1>1, <1>2 DEF ConfigNext
-----------------------------------------------------------------------------
(* Every step of the system is one of MountConfig or leaves it alone. *)
LEMMA LawfulStep ==
  StartsCovered /\ MbrIInv /\ ConfigIInv /\ [MountsNext]_vars
    => [ConfigNext]_cfgVars
<1> SUFFICES ASSUME StartsCovered, MbrIInv, ConfigIInv, [MountsNext]_vars
             PROVE  ConfigNext \/ UNCHANGED cfgVars
  OBVIOUS
<1>1. ASSUME NEW mbrOk \in Outcomes, NEW mountOk \in Outcomes,
             DriveCmd(mbrOk, mountOk)
      PROVE  ConfigNext \/ UNCHANGED cfgVars
  BY <1>1, BootSaves, UnmountSaves, SwitchSaves, MountSaves DEF DriveCmd
<1>2. CASE DiskCmd
  <2>1. SaveOutcomes \subseteq BOOLEAN /\ UserSlots \subseteq Parts
    BY MountsAssumption, MountConfigAssumption DEF Slots
  <2>2. ASSUME NEW n \in UserSlots, FdiskDeleteCmd(n)
        PROVE  ConfigNext
    BY <2>1, <2>2 DEF FdiskDeleteCmd, ConfigNext
  <2>3. QED
    BY <1>2, <2>2 DEF DiskCmd, FormatCmd, FdiskInitCmd, FdiskCreateCmd
<1>3. CASE UnmountAll
  <2>1. SaveOutcomes \subseteq BOOLEAN
    BY MountsAssumption
  <2>2. QED
    BY <1>3, <2>1 DEF UnmountAll, ConfigNext
<1>4. CASE PowerOff
  BY <1>4 DEF PowerOff, ConfigNext
<1>5. CASE UNCHANGED vars
  BY <1>5 DEF vars, cfgVars
<1>6. QED
  BY <1>1, <1>2, <1>3, <1>4, <1>5 DEF MountsNext

(* The commands and the boot, refining MountConfig: whatever they do to    *)
(* the saved mounts is an operation of mount_config on well-formed         *)
(* entries.  Found by induction together with the two invariants the       *)
(* entries take their good form from.                                      *)
THEOREM MountsLawfulConfig == ASSUME StartsCovered PROVE MountsSpec => LawfulConfig
<1>1. MountsInit => ConfigIInv /\ ConfigInit
  <2>1. MountsInit => ConfigInit
    BY DEF MountsInit
  <2>2. ConfigInit => ConfigIInv
    BY EmptyList DEF ConfigInit, ConfigIInv, MemoryMatchesDisk
  <2>3. QED
    BY <2>1, <2>2
<1>2. MbrIInv /\ ConfigIInv /\ [MountsNext]_vars => [ConfigNext]_cfgVars
  BY LawfulStep
<1>3. MbrIInv /\ ConfigIInv /\ [MountsNext]_vars => ConfigIInv'
  BY <1>2, ConfigStep
<1>4. QED
  BY <1>1, <1>2, <1>3, TableInvariant, PTL DEF MountsSpec, LawfulConfig, ConfigSpec

(* ext2 and FAT32 are never mounted together, whichever of mount, switch   *)
(* and boot mounted last: each unmounts both before it mounts one.         *)
THEOREM MountsAtMostOne == MountsSpec => []AtMostOneMounted
<1>1. MountsInit => AtMostOneMounted
  BY DEF MountsInit, AtMostOneMounted
<1>2. AtMostOneMounted /\ [MountsNext]_vars => AtMostOneMounted'
  <2> SUFFICES ASSUME AtMostOneMounted, [MountsNext]_vars
               PROVE  AtMostOneMounted'
    OBVIOUS
  <2>1. ASSUME NEW fs, NEW drive, NEW readOk, MountAs(fs, drive, readOk)
        PROVE  AtMostOneMounted'
    BY <2>1 DEF MountAs, MountEnds, AtMostOneMounted
  <2>2. CASE UnmountActive
    BY <2>2 DEF UnmountActive, MountEnds, AtMostOneMounted
  <2>3. CASE UNCHANGED fsVars
    BY <2>3 DEF fsVars, AtMostOneMounted
  <2>4. ASSUME NEW mbrOk \in Outcomes, NEW mountOk \in Outcomes,
               DriveCmd(mbrOk, mountOk)
        PROVE  AtMostOneMounted'
    <3>1. ASSUME Boot(mbrOk, mountOk)
          PROVE  AtMostOneMounted'
      BY <3>1, <2>1, <2>3 DEF Boot
    <3>2. ASSUME NEW letter \in Letters, UnmountLetter(letter, mbrOk)
          PROVE  AtMostOneMounted'
      BY <3>2, <2>2, <2>3 DEF UnmountLetter, Unmount
    <3>3. ASSUME NEW letter \in Letters, SwitchLetter(letter, mbrOk, mountOk)
          PROVE  AtMostOneMounted'
      BY <3>3, <2>1, <2>3 DEF SwitchLetter, Switch
    <3>4. ASSUME NEW n \in UserSlots, UnmountPart(n, mbrOk)
          PROVE  AtMostOneMounted'
      BY <3>4, <2>2, <2>3 DEF UnmountPart, Unmount
    <3>5. ASSUME NEW n \in UserSlots, SwitchPart(n, mbrOk, mountOk)
          PROVE  AtMostOneMounted'
      BY <3>5, <2>1, <2>3 DEF SwitchPart, Switch
    <3>6. ASSUME NEW n \in UserSlots, NEW letter \in Letters,
                 MountCmd(letter, n, mbrOk, mountOk)
          PROVE  AtMostOneMounted'
      BY <3>6, <2>1 DEF MountCmd
    <3>7. QED
      BY <2>4, <3>1, <3>2, <3>3, <3>4, <3>5, <3>6 DEF DriveCmd
  <2>5. CASE DiskCmd
    BY <2>5, <2>3 DEF DiskCmd, FormatCmd, FdiskInitCmd, FdiskCreateCmd,
       FdiskDeleteCmd
  <2>6. CASE UnmountAll
    BY <2>6, <2>2 DEF UnmountAll
  <2>7. CASE PowerOff
    BY <2>7 DEF PowerOff, MountEnds, AtMostOneMounted
  <2>8. CASE UNCHANGED vars
    BY <2>8, <2>3 DEF vars, fsVars
  <2>9. QED
    BY <2>4, <2>5, <2>6, <2>7, <2>8 DEF MountsNext
<1>3. QED
  BY <1>1, <1>2, PTL DEF MountsSpec
-----------------------------------------------------------------------------
(* What the saved mounts' own proofs establish holds of a running system.  *)
LEMMA SavedMountsInvariant ==
  ASSUME StartsCovered
  PROVE  MountsSpec => [](MbrIInv /\ ConfigIInv)
<1>1. MountsInit => ConfigIInv
  BY EmptyList DEF MountsInit, ConfigInit, ConfigIInv, MemoryMatchesDisk
<1>2. MbrIInv /\ ConfigIInv /\ [MountsNext]_vars => ConfigIInv'
  BY LawfulStep, ConfigStep
<1>3. QED
  BY <1>1, <1>2, TableInvariant, PTL DEF MountsSpec

(* To save an entry of the list again changes nothing: no other has its    *)
(* partition, so it overwrites itself.                                     *)
LEMMA SavedAgain ==
  ASSUME NEW entries \in Listing, OnePerPart(entries), NEW k \in DOMAIN entries
  PROVE  Added(entries, entries[k]) = entries
<1>1. k \in SamePart(entries, entries[k].part)
  BY DEF SamePart
<1>2. PICK i : i = Lowest(SamePart(entries, entries[k].part))
  OBVIOUS
<1>3. i \in SamePart(entries, entries[k].part)
  BY <1>1, <1>2, LowestIsFirst DEF SamePart
<1>4. i = k
  BY <1>3 DEF SamePart, OnePerPart
<1>5. Added(entries, entries[k]) = [entries EXCEPT ![k] = entries[k]]
  BY <1>1, <1>2, <1>4 DEF Added
<1>6. entries \in Seq(SavedEntry)
  BY ListingFacts
<1>7. [entries EXCEPT ![k] = entries[k]] = entries
  BY <1>6
<1>8. QED
  BY <1>5, <1>7

(* Whichever entry switch picked, the list it leaves is the one it read.   *)
LEMMA SwitchLeaves ==
  ASSUME ConfigIInv, NEW readOk \in SaveOutcomes, NEW writeOk \in SaveOutcomes,
         NEW found \in SUBSET DOMAIN Loaded(readOk),
         \/ Load(readOk)
         \/ found # {} /\ Add(Loaded(readOk)[Lowest(found)], readOk, writeOk)
  PROVE  \E r \in ReadOutcomes : cfg' = Loaded(r)
<1>1. CASE Load(readOk)
  BY <1>1 DEF Load
<1>2. CASE found # {} /\ Add(Loaded(readOk)[Lowest(found)], readOk, writeOk)
  <2>1. PICK entries : entries = Loaded(readOk)
    OBVIOUS
  <2>2. readOk \in BOOLEAN
    BY MountsAssumption
  <2>3. entries \in Listing /\ OnePerPart(entries)
    BY <2>1, <2>2, LoadedList
  <2>4. PICK k : k = Lowest(found)
    OBVIOUS
  <2>5. k \in DOMAIN entries
    BY <1>2, <2>1, <2>3, <2>4, LowestIsFirst
  <2>6. cfg' = Added(entries, entries[k]) /\ readOk \in ReadOutcomes
    BY <1>2, <2>1, <2>4 DEF Add, Save
  <2>7. cfg' = entries
    BY <2>3, <2>5, <2>6, SavedAgain
  <2>8. QED
    BY <2>1, <2>6, <2>7
<1>3. QED
  BY <1>1, <1>2

(* switch saves the drive it mounts and leaves the saved drives as they    *)
(* were: cmd_switch hands add an entry it has just found in the list, and  *)
(* as no partition is listed twice add overwrites that one with itself,    *)
(* even where two entries share the letter switch was given.               *)
THEOREM MountsSwitchKeepsEntries ==
  ASSUME StartsCovered
  PROVE  MountsSpec => SwitchKeepsEntries
<1> DEFINE Switches ==
      \A mbrOk, mountOk \in Outcomes :
        (\/ \E letter \in Letters : SwitchLetter(letter, mbrOk, mountOk)
         \/ \E n \in UserSlots : SwitchPart(n, mbrOk, mountOk))
        => \E readOk \in ReadOutcomes : cfg' = Loaded(readOk)
<1>1. ASSUME ConfigIInv PROVE Switches
  <2>1. ASSUME NEW mbrOk \in Outcomes, NEW mountOk \in Outcomes,
               NEW letter \in Letters, SwitchLetter(letter, mbrOk, mountOk)
        PROVE  \E r \in ReadOutcomes : cfg' = Loaded(r)
    <3>1. PICK readOk, writeOk \in SaveOutcomes :
            LET found == SameLetter(Loaded(readOk), letter)
            IN  \/ Load(readOk)
                \/ found # {} /\ Add(Loaded(readOk)[Lowest(found)], readOk, writeOk)
      BY <2>1 DEF SwitchLetter, Switch
    <3>2. SameLetter(Loaded(readOk), letter) \in SUBSET DOMAIN Loaded(readOk)
      BY DEF SameLetter
    <3>3. QED
      BY <1>1, <3>1, <3>2, SwitchLeaves
  <2>2. ASSUME NEW mbrOk \in Outcomes, NEW mountOk \in Outcomes,
               NEW n \in UserSlots, SwitchPart(n, mbrOk, mountOk)
        PROVE  \E r \in ReadOutcomes : cfg' = Loaded(r)
    <3>1. PICK readOk, writeOk \in SaveOutcomes :
            LET found == SamePart(Loaded(readOk), n)
            IN  \/ Load(readOk)
                \/ found # {} /\ Add(Loaded(readOk)[Lowest(found)], readOk, writeOk)
      BY <2>2 DEF SwitchPart, Switch
    <3>2. SamePart(Loaded(readOk), n) \in SUBSET DOMAIN Loaded(readOk)
      BY DEF SamePart
    <3>3. QED
      BY <1>1, <3>1, <3>2, SwitchLeaves
  <2>3. QED
    BY <2>1, <2>2
<1>2. ConfigIInv => [Switches]_vars
  BY <1>1
<1> HIDE DEF Switches
<1>3. MountsSpec => [][Switches]_vars
  BY <1>2, SavedMountsInvariant, PTL DEF MountsSpec
<1>4. QED
  BY <1>3 DEF Switches, SwitchKeepsEntries
-----------------------------------------------------------------------------
(* What a command may mount: a drive of the table or of the list, or none. *)
MayMount(fs, drive) == fs \in FsTypes => drive \in Drive

(* Mounting such a drive leaves both file systems with drives or none.     *)
LEMMA MountTyped ==
  ASSUME MountsTypeOK, NEW fs, NEW drive, NEW readOk, MayMount(fs, drive),
         MountAs(fs, drive, readOk)
  PROVE  ext2Fs' \in Drive \cup {NoDrive} /\ fatFs' \in Drive \cup {NoDrive}
BY MountsAssumption DEF MountAs, MountEnds, MayMount, Ext2, Fat32

(* So does unmounting.                                                     *)
LEMMA UnmountTyped ==
  ASSUME MountsTypeOK, UnmountActive \/ UNCHANGED fsVars
  PROVE  ext2Fs' \in Drive \cup {NoDrive} /\ fatFs' \in Drive \cup {NoDrive}
BY DEF MountsTypeOK, UnmountActive, MountEnds, fsVars

(* A well-formed entry names a drive.                                      *)
LEMMA EntryMounts ==
  ASSUME NEW e \in SavedEntry
  PROVE  MayMount(e.fs, [letter |-> e.letter, lba |-> e.lba])
BY DEF SavedEntry, MayMount, Drive

(* The commands on drives, and the boot.                                   *)
LEMMA DriveCmdTyped ==
  ASSUME StartsCovered, MbrIInv, ConfigIInv, MountsTypeOK,
         NEW mbrOk \in Outcomes, NEW mountOk \in Outcomes,
         DriveCmd(mbrOk, mountOk)
  PROVE  /\ phase' = "shell" /\ UNCHANGED diskVars
         /\ ext2Fs' \in Drive \cup {NoDrive} /\ fatFs' \in Drive \cup {NoDrive}
<1> DEFINE Good == /\ phase' = "shell" /\ UNCHANGED diskVars
                   /\ ext2Fs' \in Drive \cup {NoDrive}
                   /\ fatFs' \in Drive \cup {NoDrive}
<1>1. SaveOutcomes \subseteq BOOLEAN
  BY MountsAssumption
<1>2. ASSUME Boot(mbrOk, mountOk)
      PROVE  Good
  <2>1. phase' = "shell" /\ UNCHANGED diskVars
    BY <1>2 DEF Boot
  <2>2. CASE UNCHANGED fsVars
    BY <2>1, <2>2, UnmountTyped
  <2>3. CASE ~ UNCHANGED fsVars
    <3>1. PICK readOk \in SaveOutcomes :
            LET last == GetLast(Loaded(readOk))
            IN  /\ Loaded(readOk) # <<>>
                /\ MountAs(last.fs, [letter |-> last.letter, lba |-> last.lba],
                           mountOk)
      BY <1>2, <2>3 DEF Boot
    <3>2. PICK entries : entries = Loaded(readOk)
      OBVIOUS
    <3>3. entries \in Listing
      BY <1>1, <3>2, LoadedList
    <3>4. entries \in Seq(SavedEntry) /\ entries # <<>>
      BY <3>1, <3>2, <3>3, ListingFacts
    <3>5. PICK last : last = GetLast(entries)
      OBVIOUS
    <3>6. last \in SavedEntry
      <4>1. Len(entries) \in 1 .. Len(entries)
        BY <3>4
      <4>2. QED
        BY <3>4, <3>5, <4>1 DEF GetLast
    <3>7. MayMount(last.fs, [letter |-> last.letter, lba |-> last.lba])
      BY <3>6, EntryMounts
    <3>8. QED
      BY <2>1, <3>1, <3>2, <3>5, <3>7, MountTyped
  <2>4. QED
    BY <2>2, <2>3
<1>3. ASSUME NEW readOk \in SaveOutcomes,
             NEW found \in SUBSET DOMAIN Loaded(readOk), found # {},
             LET target == Loaded(readOk)[Lowest(found)]
             IN  MountAs(target.fs, [letter |-> target.letter,
                                     lba |-> target.lba], mountOk)
      PROVE  ext2Fs' \in Drive \cup {NoDrive} /\ fatFs' \in Drive \cup {NoDrive}
  <2>1. PICK target : target = Loaded(readOk)[Lowest(found)]
    OBVIOUS
  <2>2. target \in SavedEntry
    BY <1>1, <1>3, <2>1, EntryPicked
  <2>3. MayMount(target.fs, [letter |-> target.letter, lba |-> target.lba])
    BY <2>2, EntryMounts
  <2>4. QED
    BY <1>3, <2>1, <2>3, MountTyped
<1>4. ASSUME NEW letter \in Letters, SwitchLetter(letter, mbrOk, mountOk)
      PROVE  Good
  <2>1. /\ phase' = "shell" /\ UNCHANGED diskVars
        /\ \E readOk \in SaveOutcomes :
              LET found  == SameLetter(Loaded(readOk), letter)
                  target == Loaded(readOk)[Lowest(found)]
              IN  \/ UNCHANGED fsVars
                  \/ /\ found # {}
                     /\ MountAs(target.fs, [letter |-> target.letter,
                                            lba |-> target.lba], mountOk)
    BY <1>4, MountsAssumption DEF SwitchLetter, Switch
  <2>2. \A readOk \in SaveOutcomes :
          SameLetter(Loaded(readOk), letter) \in SUBSET DOMAIN Loaded(readOk)
    BY DEF SameLetter
  <2>3. QED
    BY <1>3, <2>1, <2>2, UnmountTyped
<1>5. ASSUME NEW n \in UserSlots, SwitchPart(n, mbrOk, mountOk)
      PROVE  Good
  <2>1. /\ phase' = "shell" /\ UNCHANGED diskVars
        /\ \E readOk \in SaveOutcomes :
              LET found  == SamePart(Loaded(readOk), n)
                  target == Loaded(readOk)[Lowest(found)]
              IN  \/ UNCHANGED fsVars
                  \/ /\ found # {}
                     /\ MountAs(target.fs, [letter |-> target.letter,
                                            lba |-> target.lba], mountOk)
    BY <1>5, MountsAssumption DEF SwitchPart, Switch
  <2>2. \A readOk \in SaveOutcomes :
          SamePart(Loaded(readOk), n) \in SUBSET DOMAIN Loaded(readOk)
    BY DEF SamePart
  <2>3. QED
    BY <1>3, <2>1, <2>2, UnmountTyped
<1>6. ASSUME NEW n, Unmount(n, mbrOk) \/ UNCHANGED fsVars
      PROVE  ext2Fs' \in Drive \cup {NoDrive} /\ fatFs' \in Drive \cup {NoDrive}
  BY <1>6, UnmountTyped DEF Unmount
<1>7. ASSUME NEW letter \in Letters, UnmountLetter(letter, mbrOk)
      PROVE  Good
  BY <1>6, <1>7 DEF UnmountLetter
<1>8. ASSUME NEW n \in UserSlots, UnmountPart(n, mbrOk)
      PROVE  Good
  BY <1>6, <1>8 DEF UnmountPart
<1>9. ASSUME NEW n \in UserSlots, NEW letter \in Letters,
             MountCmd(letter, n, mbrOk, mountOk)
      PROVE  Good
  <2> DEFINE drive == [letter |-> letter, lba |-> table[n].start]
             fs    == Recognised(table[n].start, mbrOk, mountOk)
  <2>1. /\ phase' = "shell" /\ UNCHANGED diskVars /\ Resolves(n, TRUE)
        /\ MountAs(fs, drive, TRUE)
    BY <1>9 DEF MountCmd
  <2>2. n \in Slots
    BY MountsAssumption
  <2>3. table[n].start \in Lbas
    BY <2>1, <2>2 DEF Resolves, InUse, MbrIInv, Partition, StartsCovered
  <2>4. MayMount(fs, drive)
    BY <2>3 DEF MayMount, Drive
  <2> HIDE DEF fs, drive
  <2>5. QED
    BY <2>1, <2>4, MountTyped
<1>10. QED
  BY <1>2, <1>4, <1>5, <1>7, <1>8, <1>9 DEF DriveCmd

(* format marks the start of a partition of the table.                     *)
LEMMA FormatTyped ==
  ASSUME StartsCovered, MbrIInv, MountsTypeOK,
         NEW n \in UserSlots, NEW fs \in FsTypes, NEW mb \in Overrides,
         FormatCmd(fs, n, mb)
  PROVE  magic' \subseteq Lbas /\ bpb' \subseteq Lbas
<1>1. n \in Slots /\ Resolves(n, TRUE) /\ WriteMarker(fs, n, mb)
  BY MountsAssumption DEF FormatCmd, CanFormat
<1>2. table[n].start \in Lbas
  BY <1>1 DEF Resolves, InUse, MbrIInv, Partition, StartsCovered
<1>3. /\ magic' \subseteq magic \cup {table[n].start}
      /\ bpb' \subseteq bpb \cup {table[n].start}
  BY <1>1 DEF WriteMarker
<1>4. QED
  BY <1>2, <1>3 DEF MountsTypeOK

(* What is mounted is a drive with a known letter at a sector a partition  *)
(* may start at, and while the power is off nothing is mounted and no      *)
(* saved mount is in memory: kmain, cmd_mount, cmd_switch, cmd_unmount and *)
(* cmd_format over the table and the list of saved mounts.                 *)
THEOREM MountsTypeCorrect ==
  ASSUME StartsCovered
  PROVE  MountsSpec => []MountsTypeOK
<1>1. MountsInit => MountsTypeOK
  BY DEF MountsInit, ConfigInit, MountsTypeOK, Active
<1>2. ASSUME MbrIInv, ConfigIInv, MountsTypeOK, [MountsNext]_vars
      PROVE  MountsTypeOK'
  <2>1. CASE \E mbrOk, mountOk \in Outcomes : DriveCmd(mbrOk, mountOk)
    <3>1. /\ phase' = "shell" /\ UNCHANGED diskVars
          /\ ext2Fs' \in Drive \cup {NoDrive} /\ fatFs' \in Drive \cup {NoDrive}
      BY <1>2, <2>1, DriveCmdTyped
    <3>2. QED
      BY <1>2, <3>1 DEF MountsTypeOK, diskVars
  <2>2. CASE DiskCmd
    <3>1. phase' = "shell" /\ UNCHANGED fsVars
      BY <2>2 DEF DiskCmd, FormatCmd, CanFormat, FdiskInitCmd, FdiskCreateCmd,
         FdiskDeleteCmd
    <3>2. magic' \subseteq Lbas /\ bpb' \subseteq Lbas
      <4>1. ASSUME UNCHANGED diskVars
            PROVE  magic' \subseteq Lbas /\ bpb' \subseteq Lbas
        BY <1>2, <4>1 DEF MountsTypeOK, diskVars
      <4>2. \/ UNCHANGED diskVars
            \/ \E n \in UserSlots, fs \in FsTypes, mb \in Overrides :
                 FormatCmd(fs, n, mb)
        BY <2>2 DEF DiskCmd, FdiskInitCmd, FdiskCreateCmd, FdiskDeleteCmd
      <4>3. QED
        BY <1>2, <4>1, <4>2, FormatTyped
    <3>3. QED
      BY <1>2, <3>1, <3>2 DEF MountsTypeOK, fsVars
  <2>3. CASE UnmountAll
    <3>1. phase' = "shell" /\ UnmountActive /\ UNCHANGED diskVars
      BY <2>3 DEF UnmountAll
    <3>2. QED
      BY <1>2, <3>1, UnmountTyped DEF MountsTypeOK, diskVars
  <2>4. CASE PowerOff
    BY <1>2, <2>4 DEF PowerOff, PowerCycle, MountEnds, MountsTypeOK, Active,
       diskVars
  <2>5. CASE UNCHANGED vars
    BY <1>2, <2>5 DEF vars, fsVars, diskVars, cfgVars, MountsTypeOK, Active
  <2>6. QED
    BY <1>2, <2>1, <2>2, <2>3, <2>4, <2>5 DEF MountsNext
<1>3. QED
  BY <1>1, <1>2, SavedMountsInvariant, PTL DEF MountsSpec
=============================================================================
