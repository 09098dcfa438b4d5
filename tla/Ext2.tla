--------------------------------- MODULE Ext2 ---------------------------------
(***************************************************************************)
(* ext2, fs/ext2.cpp: what format lays out, the two bitmaps with their     *)
(* counters, inodes with direct and indirect blocks, directories as        *)
(* records that split and merge, and the commands over them, on a disk     *)
(* that does not fail.  Sizes are in blocks.  All names take one unit of a *)
(* directory block, as "." and ".." do: 12 bytes, names of up to four      *)
(* characters.  Triple indirection, one more loop of the same shape, and   *)
(* the fields nothing reads (links, i_blocks, times) are left out.         *)
(***************************************************************************)
EXTENDS Integers, SequencesExt, FiniteSetsExt

CONSTANTS
  FirstDataBlock,     \* 1 when blocks are 1 KiB, else 0
  BlocksPerGroup,     \* 8192, 16384, 32768: the bits of a block
  InodesPerGroup,     \* 2048
  InodeTableBlocks,   \* 256, 128, 64
  DescsPerBlock,      \* group descriptors to a block
  ReservedInodes,     \* 10
  DirectBlocks,       \* 12
  PtrsPerBlock,       \* block pointers to a block
  DirUnits,           \* names to a directory block
  Totals,             \* the sizes of the partitions that are formatted
  Names,              \* names users type
  Texts,              \* what users write to files
  Sizes,              \* how many blocks a text takes
  Careless            \* what users do that the code is not prepared for

RootInode == 2
Single    == DirectBlocks
Double    == DirectBlocks + 1
MaxDepth  == 32
Word16    == 65536

VARIABLES
  volume,    \* the disk, superblock included: fs.sb is written as it changes
  memory,    \* the counters of fs.sb, once a format leaves others on the disk
  mounted,   \* fs.mounted
  cwd,       \* fs.current_inode
  path       \* fs.names, as deep as fs.depth

vars == <<volume, memory, mounted, cwd, path>>
-----------------------------------------------------------------------------
(***************************************************************************)
(* The layout format computes for a partition of total blocks.  Each group *)
(* begins with its metadata: in group 0 the superblock and the group       *)
(* descriptors, then in every group two bitmaps and the inode table.       *)
(***************************************************************************)
CeilDiv(a, b) == (a + b - 1) \div b
Smaller(a, b) == IF a < b THEN a ELSE b

DataBlocks(total)  == total - FirstDataBlock
GroupsCount(total) == CeilDiv(DataBlocks(total), BlocksPerGroup)
BgdBlocks(total)   == CeilDiv(GroupsCount(total), DescsPerBlock)
Groups(total)      == 0 .. (GroupsCount(total) - 1)
Inodes(total)      == 1 .. (GroupsCount(total) * InodesPerGroup)
Blocks(total)      == FirstDataBlock .. (total - 1)

GroupStart(g)       == FirstDataBlock + g * BlocksPerGroup
GroupSize(total, g) == Smaller(BlocksPerGroup, DataBlocks(total) - g * BlocksPerGroup)
BitmapsStart(total, g) == GroupStart(g) + IF g = 0 THEN 1 + BgdBlocks(total) ELSE 0

Overhead(total, g) == BitmapsStart(total, g) - GroupStart(g) + 2 + InodeTableBlocks

RootBlock(total) == FirstDataBlock + Overhead(total, 0)

Metadata(total) ==
  UNION {GroupStart(g) .. (GroupStart(g) + Overhead(total, g) - 1) : g \in Groups(total)}

BeyondEnd(total) ==
  total .. (GroupStart(GroupsCount(total)) - 1)

(***************************************************************************)
(* A partition format takes, and one whose last group has room for its own *)
(* metadata and group 0 for the root: format writes them wherever they     *)
(* fall.                                                                   *)
(***************************************************************************)
CanFormat(total) ==
  /\ total >= FirstDataBlock + 8
  /\ Overhead(total, 0) + 1 < BlocksPerGroup

LastGroupFits(total) ==
  LET last == GroupsCount(total) - 1
  IN  GroupSize(total, last) >= Overhead(total, last) /\ RootBlock(total) < total

ASSUME Ext2Assumption ==
  /\ FirstDataBlock \in {0, 1}
  /\ {BlocksPerGroup, InodesPerGroup, InodeTableBlocks, DescsPerBlock,
      ReservedInodes, DirectBlocks, PtrsPerBlock} \subseteq Nat \ {0}
  /\ BlocksPerGroup < Word16
  /\ RootInode <= ReservedInodes /\ ReservedInodes <= InodesPerGroup
  /\ DirUnits \in Nat /\ DirUnits >= 2
  /\ \A total \in Totals : total \in Nat /\ CanFormat(total) /\ LastGroupFits(total)
  /\ "." \notin Names /\ ".." \notin Names
  /\ Careless \subseteq {"large", "full", "kinds", "inhabited", "reformat"}
  /\ Sizes \subseteq 0 .. (DirectBlocks + PtrsPerBlock + PtrsPerBlock * PtrsPerBlock)

(***************************************************************************)
(* What a block holds: nothing yet, text, pointers, or directory records.  *)
(* A record whose inode is 0 is a gap.                                     *)
(***************************************************************************)
Nothing == [kind |-> "nothing"]
Text(t) == [kind |-> "text", text |-> t]
Ptrs(f) == [kind |-> "ptrs", to |-> f]
Dir(rs) == [kind |-> "dir", records |-> rs]

NoPtrs  == [i \in 0 .. (PtrsPerBlock - 1) |-> 0]

Record(inode, name, units) == [inode |-> inode, name |-> name, units |-> units]

DotRecords(self, parent) ==
  <<Record(self, ".", 1), Record(parent, "..", DirUnits - 1)>>

NewInode(type) ==
  [type |-> type, size |-> 0, block |-> [i \in 0 .. Double |-> 0]]

DirInode(block) ==
  [NewInode("dir") EXCEPT !.size = 1, !.block[0] = block]

Put(v, block, content) == [v EXCEPT !.data[block] = content]
-----------------------------------------------------------------------------
(***************************************************************************)
(* format: the counters of a group are 16 bits wide; those of group 0 are  *)
(* short of the reserved inodes and of the root's block.                   *)
(***************************************************************************)
GroupCounters(total, g) ==
  LET free == (GroupSize(total, g) - Overhead(total, g)) % Word16
  IN  [blocks |-> IF g = 0 /\ free > 0 THEN free - 1 ELSE free,
       inodes |-> IF g = 0 THEN InodesPerGroup - ReservedInodes ELSE InodesPerGroup,
       dirs   |-> IF g = 0 THEN 1 ELSE 0]

Sum(total, f) ==
  LET sum[k \in 0 .. GroupsCount(total)] == IF k = 0 THEN 0 ELSE sum[k - 1] + f[k - 1]
  IN  sum[GroupsCount(total)]

FreeAtFormat(total) ==
  LET Room(g) == GroupSize(total, g) - Overhead(total, g)
      free    == Sum(total, [g \in Groups(total) |-> IF Room(g) > 0 THEN Room(g) ELSE 0])
  IN  IF free > 0 THEN free - 1 ELSE 0

UsedAtFormat(total) == Metadata(total) \cup BeyondEnd(total) \cup {RootBlock(total)}

Formatted(total) ==
  [total     |-> total,
   blockBits |-> UsedAtFormat(total),
   inodeBits |-> {<<0, i>> : i \in 0 .. (ReservedInodes - 1)},
   groups    |-> [g \in Groups(total) |-> GroupCounters(total, g)],
   sb        |-> [blocks |-> FreeAtFormat(total),
                  inodes |-> Cardinality(Inodes(total)) - ReservedInodes],
   inode     |-> [n \in Inodes(total) |->
                    IF n = RootInode THEN DirInode(RootBlock(total))
                    ELSE NewInode("none")],
   data      |-> [b \in Blocks(total) |->
                    IF b = RootBlock(total) THEN Dir(DotRecords(RootInode, RootInode))
                    ELSE Nothing]]
-----------------------------------------------------------------------------
(***************************************************************************)
(* alloc_block_internal and free_block.  A group whose counter is 0 is     *)
(* passed over; the lowest clear bit is taken.  free_block clears a bit    *)
(* whether it was set or not, and counts it.  What a free block or inode   *)
(* holds is forgotten here: while OneOwner holds nothing reads it before   *)
(* it is written.                                                          *)
(***************************************************************************)
GroupOf(b) == (b - FirstDataBlock) \div BlocksPerGroup

GroupBlocks(g) == GroupStart(g) .. (GroupStart(g) + BlocksPerGroup - 1)

OneLess(n) == IF n > 0 THEN n - 1 ELSE n

ClearBlocks(v) ==
  (UNION {GroupBlocks(g) : g \in {h \in Groups(v.total) : v.groups[h].blocks > 0}})
    \ v.blockBits

TakeBlock(v, b) ==
  [v EXCEPT !.blockBits = @ \cup {b},
            !.groups[GroupOf(b)].blocks = OneLess(@),
            !.sb.blocks = OneLess(@)]

(* The result 0 is the failure. *)
AllocBlock(v) ==
  IF ClearBlocks(v) = {} THEN [volume |-> v, block |-> 0]
  ELSE LET b == Min(ClearBlocks(v)) IN [volume |-> TakeBlock(v, b), block |-> b]

Freeable(v, b) == b # 0 /\ b >= FirstDataBlock /\ GroupOf(b) \in Groups(v.total)

FreeBlock(v, b) ==
  IF ~Freeable(v, b) THEN v
  ELSE [v EXCEPT !.blockBits = @ \ {b},
                 !.data[b] = Nothing,
                 !.groups[GroupOf(b)].blocks = (@ + 1) % Word16,
                 !.sb.blocks = @ + 1]

(***************************************************************************)
(* alloc_inode and free_inode.  The search for a clear bit goes on behind  *)
(* the inodes of the group, to the end of the bitmap's block: only the     *)
(* counter keeps it from there.                                            *)
(***************************************************************************)
InodeBit(n)    == <<(n - 1) \div InodesPerGroup, (n - 1) % InodesPerGroup>>
InodeAt(bit)   == bit[1] * InodesPerGroup + bit[2] + 1
IsLower(p, q)  == p[1] < q[1] \/ (p[1] = q[1] /\ p[2] < q[2])
First(S)       == CHOOSE p \in S : \A q \in S : p = q \/ IsLower(p, q)

OneInodeLess(counts, isDir) ==
  [counts EXCEPT !.inodes = OneLess(@), !.dirs = IF isDir THEN @ + 1 ELSE @]

OneInodeMore(counts, isDir) ==
  [counts EXCEPT !.inodes = @ + 1, !.dirs = IF isDir THEN OneLess(@) ELSE @]

(* Mutant: the counter is not looked at. *)
ClearInodesUncounted(v) ==
  {bit \in Groups(v.total) \X (0 .. BlocksPerGroup - 1) :
     bit \notin v.inodeBits /\ InodeAt(bit) > ReservedInodes}

ClearInodes(v) ==
  {bit \in {g \in Groups(v.total) : v.groups[g].inodes > 0} \X (0 .. BlocksPerGroup - 1) :
     bit \notin v.inodeBits /\ InodeAt(bit) > ReservedInodes}

AllocInode(v, isDir) ==
  IF ClearInodes(v) = {} THEN [volume |-> v, inode |-> 0]
  ELSE LET bit == First(ClearInodes(v))
       IN  [volume |-> [v EXCEPT !.inodeBits = @ \cup {bit},
                                 !.groups[bit[1]] = OneInodeLess(@, isDir),
                                 !.sb.inodes = OneLess(@)],
            inode  |-> InodeAt(bit)]

(* Mutant: the superblock's counter is forgotten. *)
FreeInodeUncounted(v, n, isDir) ==
  LET bit == InodeBit(n)
  IN  IF n <= ReservedInodes \/ bit[1] \notin Groups(v.total) THEN v
      ELSE [v EXCEPT !.inodeBits = @ \ {bit},
                     !.inode[n] = NewInode("none"),
                     !.groups[bit[1]] = OneInodeMore(@, isDir)]

FreeInode(v, n, isDir) ==
  LET bit == InodeBit(n)
  IN  IF n <= ReservedInodes \/ bit[1] \notin Groups(v.total) THEN v
      ELSE [v EXCEPT !.inodeBits = @ \ {bit},
                     !.inode[n] = NewInode("none"),
                     !.groups[bit[1]] = OneInodeMore(@, isDir),
                     !.sb.inodes = @ + 1]
-----------------------------------------------------------------------------
(***************************************************************************)
(* get_inode_block and set_inode_block: direct blocks, then those behind   *)
(* one block of pointers, then those behind two.  Where those end a file   *)
(* ends, as it does in the code behind three.                              *)
(***************************************************************************)
Pointers(v, b) == IF v.data[b].kind = "ptrs" THEN v.data[b].to ELSE NoPtrs

PointerAt(v, b, i) == IF b = 0 THEN 0 ELSE Pointers(v, b)[i]

BlockOf(v, in, i) ==
  LET one == i - DirectBlocks
      two == one - PtrsPerBlock
  IN  IF one < 0 THEN in.block[i]
      ELSE IF two < 0 THEN PointerAt(v, in.block[Single], one)
      ELSE IF two >= PtrsPerBlock * PtrsPerBlock THEN 0
      ELSE PointerAt(v, PointerAt(v, in.block[Double], two \div PtrsPerBlock),
                     two % PtrsPerBlock)

(* A block of pointers that is missing is allocated and cleared. *)
Cleared(a) ==
  IF a.block = 0 THEN a ELSE [a EXCEPT !.volume = Put(@, a.block, Ptrs(NoPtrs))]

Ensured(v, b) == IF b # 0 THEN [volume |-> v, block |-> b] ELSE Cleared(AllocBlock(v))

Point(v, b, i, to) == Put(v, b, Ptrs([Pointers(v, b) EXCEPT ![i] = to]))

BelowSingle(top, in, i, b) ==
  [ok |-> top.block # 0,
   volume |-> IF top.block = 0 THEN top.volume ELSE Point(top.volume, top.block, i, b),
   inode |-> [in EXCEPT !.block[Single] = top.block]]

BelowMiddle(top, mid, in, i, b) ==
  [ok |-> mid.block # 0,
   volume |-> IF mid.block = 0 THEN mid.volume
              ELSE Point(Point(mid.volume, top.block, i \div PtrsPerBlock, mid.block),
                         mid.block, i % PtrsPerBlock, b),
   inode |-> [in EXCEPT !.block[Double] = top.block]]

BelowDouble(top, in, i, b) ==
  IF top.block = 0 THEN [ok |-> FALSE, volume |-> top.volume, inode |-> in]
  ELSE BelowMiddle(top, Ensured(top.volume,
                                PointerAt(top.volume, top.block, i \div PtrsPerBlock)),
                   in, i, b)

SetBlock(v, in, i, b) ==
  LET one == i - DirectBlocks
      two == one - PtrsPerBlock
  IN  IF one < 0 THEN [ok |-> TRUE, volume |-> v, inode |-> [in EXCEPT !.block[i] = b]]
      ELSE IF two < 0 THEN BelowSingle(Ensured(v, in.block[Single]), in, one, b)
      ELSE IF two >= PtrsPerBlock * PtrsPerBlock THEN [ok |-> FALSE, volume |-> v, inode |-> in]
      ELSE BelowDouble(Ensured(v, in.block[Double]), in, two, b)

(***************************************************************************)
(* free_inode_blocks.  The walk over a block of pointers reads them from   *)
(* g_buf, where free_block leaves the block of group descriptors it has    *)
(* updated: after the first pointer the walk goes on over those words.     *)
(* The outer walk of a double indirect block has a buffer of its own.      *)
(***************************************************************************)
DescWord(v, g, k) ==
  LET bitmaps == BitmapsStart(v.total, g)
      c       == v.groups[g]
  IN  IF g \notin Groups(v.total) THEN 0
      ELSE <<bitmaps, bitmaps + 1, bitmaps + 2, c.blocks + Word16 * c.inodes,
             c.dirs, 0, 0, 0>>[k + 1]

BgdWords(v, g) ==
  LET first == (g \div DescsPerBlock) * DescsPerBlock
  IN  [i \in 0 .. (PtrsPerBlock - 1) |-> DescWord(v, first + i \div 8, i % 8)]

Indices == [i \in 1 .. PtrsPerBlock |-> i - 1]

FreeStep(walk, i) ==
  LET b     == walk.buf[i]
      freed == FreeBlock(walk.volume, b)
  IN  IF ~Freeable(walk.volume, b) THEN walk
      ELSE [volume |-> freed, buf |-> BgdWords(freed, GroupOf(b))]

FreeSingle(v, b) ==
  IF b = 0 THEN v
  ELSE FreeBlock(FoldLeft(FreeStep, [volume |-> v, buf |-> Pointers(v, b)],
                          Indices).volume, b)

FreeDouble(v, b) ==
  IF b = 0 THEN v
  ELSE FreeBlock(FoldLeft(LAMBDA w, i : FreeSingle(w, Pointers(v, b)[i]), v, Indices), b)

FreeDirect(v, in) ==
  LET freed[i \in 0 .. DirectBlocks] ==
        IF i = 0 THEN v ELSE FreeBlock(freed[i - 1], in.block[i - 1])
  IN  freed[DirectBlocks]

FreeInodeBlocks(v, in) ==
  FreeDouble(FreeSingle(FreeDirect(v, in), in.block[Single]), in.block[Double])
-----------------------------------------------------------------------------
(***************************************************************************)
(* Directories: the records of the blocks of an inode, in order, by place. *)
(***************************************************************************)
Records(v, b) == IF b # 0 /\ v.data[b].kind = "dir" THEN v.data[b].records ELSE <<>>

DirBlock(v, d, place) == BlockOf(v, v.inode[d], place[1])
RecordAt(v, d, place) == Records(v, DirBlock(v, d, place))[place[2]]

Places(v, d) ==
  UNION {{i} \X DOMAIN Records(v, BlockOf(v, v.inode[d], i)) : i \in 0 .. (v.inode[d].size - 1)}

(* The first record with the property, if there is one. *)
FirstPlace(S) == IF S = {} THEN <<>> ELSE First(S)

Called(v, d, name) ==
  {p \in Places(v, d) : RecordAt(v, d, p).inode # 0 /\ RecordAt(v, d, p).name = name}

PlaceOf(v, d, name) == FirstPlace(Called(v, d, name))

IsDir(v, n) == v.inode[n].type = "dir"

(* find_dir_entry; 0 if there is none. *)
Find(v, d, name) ==
  IF ~IsDir(v, d) \/ PlaceOf(v, d, name) = <<>> THEN 0
  ELSE RecordAt(v, d, PlaceOf(v, d, name)).inode

(***************************************************************************)
(* add_dir_entry: the first gap, or the first record with room to spare,   *)
(* which is split; otherwise the directory grows by a block.               *)
(***************************************************************************)
HasRoom(r) == IF r.inode = 0 THEN r.units >= 1 ELSE r.units >= 2

WithRecord(records, k, inode, name) ==
  IF records[k].inode = 0 THEN [records EXCEPT ![k] = Record(inode, name, @.units)]
  ELSE InsertAt([records EXCEPT ![k].units = 1], k + 1,
                Record(inode, name, records[k].units - 1))

Grown(set, d, b) ==
  IF ~set.ok THEN [ok |-> FALSE, volume |-> FreeBlock(set.volume, b)]
  ELSE [ok |-> TRUE,
        volume |-> [set.volume EXCEPT !.inode[d] = [set.inode EXCEPT !.size = @ + 1]]]

GrowDir(v, d, inode, name) ==
  LET a == AllocBlock(v)
      new == Dir(<<Record(inode, name, DirUnits)>>)
  IN  IF a.block = 0 THEN [ok |-> FALSE, volume |-> v]
      ELSE Grown(SetBlock(Put(a.volume, a.block, new), v.inode[d], v.inode[d].size, a.block),
                 d, a.block)

SetRecords(v, b, records) == Put(v, b, Dir(records))

AddEntry(v, d, inode, name) ==
  LET place == FirstPlace({p \in Places(v, d) : HasRoom(RecordAt(v, d, p))})
      b     == DirBlock(v, d, place)
  IN  IF place = <<>> THEN GrowDir(v, d, inode, name)
      ELSE [ok |-> TRUE,
            volume |-> SetRecords(v, b, WithRecord(Records(v, b), place[2], inode, name))]

(* remove_dir_entry: the record before takes over the room; the first of   *)
(* a block becomes a gap.                                                  *)
WithoutRecord(records, k) ==
  IF k = 1 THEN [records EXCEPT ![1].inode = 0]
  ELSE RemoveAt([records EXCEPT ![k - 1].units = @ + records[k].units], k)

RemoveEntry(v, d, place) ==
  LET b == DirBlock(v, d, place)
  IN  SetRecords(v, b, WithoutRecord(Records(v, b), place[2]))
-----------------------------------------------------------------------------
(***************************************************************************)
(* resolve_relative, from a directory along the components; 0 if one is    *)
(* not there.  ".." of the root is the root.                               *)
(***************************************************************************)
DotDot(v, d) == FirstPlace({p \in Places(v, d) : RecordAt(v, d, p).name = ".."})

ResolveStep(v, d, name) ==
  IF d = 0 THEN 0
  ELSE IF name = ".." THEN
    IF d = RootInode \/ DotDot(v, d) = <<>> THEN d ELSE RecordAt(v, d, DotDot(v, d)).inode
  ELSE Find(v, d, name)

Resolve(v, start, names) ==
  LET at[i \in 0 .. Len(names)] ==
        IF i = 0 THEN start ELSE ResolveStep(v, at[i - 1], names[i])
  IN  at[Len(names)]

(***************************************************************************)
(* What a command leaves of the volume.  It counts with the counters in    *)
(* memory, and as soon as it has taken or given back anything these are on *)
(* the disk.  A command that undoes all it did may have written them too.  *)
(***************************************************************************)
Counted == IF memory = <<>> THEN volume ELSE [volume EXCEPT !.sb = memory[1]]

Leaves(w) ==
  \E written \in {TRUE, w # Counted} :
    /\ volume' = IF written THEN w ELSE volume
    /\ memory' = IF written THEN <<>> ELSE memory

(* split_path drops the slash an absolute path begins with, so the parent  *)
(* of any name that is written, made or removed is looked for from cwd.    *)
Parent(names) == Resolve(volume, cwd, Front(names))

(***************************************************************************)
(* write_file: an old file gives back its blocks, a new one takes an       *)
(* inode; then block by block, and at the end the inode is written and a   *)
(* new file entered into its directory.  What fails half-way undoes part   *)
(* of it: the inode is not written, so an old file keeps the pointers to   *)
(* the blocks it gave back.                                                *)
(***************************************************************************)
Attached(set, b) ==
  IF set.ok THEN [state |-> "going", volume |-> set.volume, inode |-> set.inode]
  ELSE [state |-> "stuck", volume |-> FreeBlock(set.volume, b), inode |-> set.inode]

StoredAt(a, text, st, i) ==
  IF a.block = 0 THEN [st EXCEPT !.state = "full"]
  ELSE Attached(SetBlock(Put(a.volume, a.block, Text(text)), st.inode, i, a.block), a.block)

StoreStep(text, st, i) ==
  IF st.state # "going" THEN st ELSE StoredAt(AllocBlock(st.volume), text, st, i)

Stored(v, in, text, size) ==
  LET st[i \in 0 .. size] ==
        IF i = 0 THEN [state |-> "going", volume |-> v, inode |-> in]
        ELSE StoreStep(text, st[i - 1], i - 1)
  IN  st[size]

Abandoned(v, n, in) == FreeInode(FreeInodeBlocks(v, in), n, FALSE)

EnteredOr(added, n, in) ==
  IF added.ok THEN added ELSE [ok |-> FALSE, volume |-> Abandoned(added.volume, n, in)]

Entered(st, parent, n, name, size) ==
  CASE st.state = "full"  -> [ok |-> FALSE, volume |-> Abandoned(st.volume, n, st.inode)]
    [] st.state = "stuck" -> [ok |-> FALSE, volume |-> st.volume]
    [] st.state = "going" ->
         LET in == [st.inode EXCEPT !.size = size]
         IN  EnteredOr(AddEntry([st.volume EXCEPT !.inode[n] = in], parent, n, name), n, in)

WrittenNew(v, parent, name, text, size) ==
  LET a == AllocInode(v, FALSE)
  IN  IF a.inode = 0 THEN [ok |-> FALSE, volume |-> v]
      ELSE Entered(Stored(a.volume, NewInode("file"), text, size), parent, a.inode, name, size)

Rewritten(st, n, size) ==
  IF st.state # "going" THEN [ok |-> FALSE, volume |-> st.volume]
  ELSE [ok |-> TRUE,
        volume |-> [st.volume EXCEPT !.inode[n] = [st.inode EXCEPT !.size = size]]]

(* Mutants: the old blocks are not given back; a file never gets shorter.  *)
WrittenOverKeepingBlocks(v, n, text, size) ==
  Rewritten(Stored(v, NewInode(v.inode[n].type), text, size), n, size)

WrittenOverKeepingSize(v, n, text, size) ==
  Rewritten(Stored(FreeInodeBlocks(v, v.inode[n]), NewInode(v.inode[n].type), text, size),
            n, IF size < v.inode[n].size THEN v.inode[n].size ELSE size)

WrittenOver(v, n, text, size) ==
  Rewritten(Stored(FreeInodeBlocks(v, v.inode[n]), NewInode(v.inode[n].type), text, size),
            n, size)

Written(v, parent, name, text, size) ==
  IF Find(v, parent, name) = 0 THEN WrittenNew(v, parent, name, text, size)
  ELSE WrittenOver(v, Find(v, parent, name), text, size)

WriteFile(names, text, size) ==
  /\ mounted
  /\ Parent(names) # 0
  /\ IsDir(volume, Parent(names))
  /\ Leaves(Written(Counted, Parent(names), Last(names), text, size).volume)
  /\ UNCHANGED <<mounted, cwd, path>>

(***************************************************************************)
(* create_dir takes the inode, the block, writes both and enters the name. *)
(***************************************************************************)
DirEntered(added, n, b) ==
  IF added.ok THEN added.volume ELSE FreeInode(FreeBlock(added.volume, b), n, TRUE)

DirMade(v, parent, name) ==
  LET i     == AllocInode(v, TRUE)
      b     == AllocBlock(i.volume)
      ready == [Put(b.volume, b.block, Dir(DotRecords(i.inode, parent)))
                  EXCEPT !.inode[i.inode] = DirInode(b.block)]
  IN  IF i.inode = 0 THEN v
      ELSE IF b.block = 0 THEN FreeInode(i.volume, i.inode, TRUE)
      ELSE DirEntered(AddEntry(ready, parent, i.inode, name), i.inode, b.block)

CreateDir(names) ==
  /\ mounted
  /\ Parent(names) # 0
  /\ Find(volume, Parent(names), Last(names)) = 0
  /\ Leaves(DirMade(Counted, Parent(names), Last(names)))
  /\ UNCHANGED <<mounted, cwd, path>>

(* delete_file takes directories as well, with anything in them. *)
Deleted(v, d, place) ==
  LET n == RecordAt(v, d, place).inode
  IN  FreeInode(FreeInodeBlocks(RemoveEntry(v, d, place), v.inode[n]), n, IsDir(v, n))

DeleteFile(names) ==
  /\ mounted
  /\ Parent(names) # 0
  /\ PlaceOf(volume, Parent(names), Last(names)) # <<>>
  /\ Leaves(Deleted(Counted, Parent(names), PlaceOf(volume, Parent(names), Last(names))))
  /\ UNCHANGED <<mounted, cwd, path>>

(***************************************************************************)
(* cd: all components or none. *)
(***************************************************************************)
Up(at) ==
  LET place == DotDot(volume, at.cwd)
  IN  IF at.cwd = RootInode THEN at
      ELSE [at EXCEPT !.cwd = IF place = <<>> THEN RootInode
                              ELSE RecordAt(volume, at.cwd, place).inode,
                      !.path = IF @ = <<>> THEN @ ELSE Front(@)]

Into(at, name) ==
  LET next == Find(volume, at.cwd, name)
  IN  IF next = 0 \/ ~IsDir(volume, next) THEN [at EXCEPT !.ok = FALSE]
      ELSE [at EXCEPT !.cwd = next,
                      !.path = IF Len(@) < MaxDepth THEN Append(@, name) ELSE @]

CdStep(at, name) ==
  IF ~at.ok THEN at ELSE IF name = ".." THEN Up(at) ELSE Into(at, name)

Walked(at, names) ==
  LET walk[i \in 0 .. Len(names)] == IF i = 0 THEN at ELSE CdStep(walk[i - 1], names[i])
  IN  walk[Len(names)]

CdFrom(absolute) ==
  [ok |-> TRUE, cwd |-> IF absolute THEN RootInode ELSE cwd,
   path |-> IF absolute THEN <<>> ELSE path]

(* Mutant: the path is not put back. *)
CdForgetsPath(absolute, names) ==
  LET end == Walked(CdFrom(absolute), names)
  IN  /\ mounted
      /\ cwd' = IF end.ok THEN end.cwd ELSE cwd
      /\ path' = end.path
      /\ UNCHANGED <<volume, memory, mounted>>

Cd(absolute, names) ==
  LET end == Walked(CdFrom(absolute), names)
  IN  /\ mounted
      /\ cwd' = IF end.ok THEN end.cwd ELSE cwd
      /\ path' = IF end.ok THEN end.path ELSE path
      /\ UNCHANGED <<volume, memory, mounted>>

(***************************************************************************)
(* mount reads the superblock, unmount forgets it.  format writes the disk *)
(* and nothing in memory, of a mounted partition too: the counters, the    *)
(* directory and the path stay those of the file system it has erased.     *)
(***************************************************************************)
Mount ==
  /\ ~mounted
  /\ mounted' = TRUE
  /\ cwd' = RootInode
  /\ path' = <<>>
  /\ UNCHANGED <<volume, memory>>

Unmount ==
  /\ mounted
  /\ mounted' = FALSE
  /\ memory' = <<>>
  /\ UNCHANGED <<volume, cwd, path>>

(* A partition in use keeps its size. *)
Format(total) ==
  /\ mounted => total = volume.total
  /\ volume' = Formatted(total)
  /\ memory' = IF mounted THEN <<Counted.sb>> ELSE <<>>
  /\ UNCHANGED <<mounted, cwd, path>>
-----------------------------------------------------------------------------
Ext2Init ==
  /\ volume \in {Formatted(total) : total \in Totals}
  /\ memory = <<>>
  /\ mounted = FALSE
  /\ cwd = RootInode
  /\ path = <<>>

(***************************************************************************)
(* The code takes for granted that no file with indirect blocks is removed *)
(* or written over, that there is room where it cannot undo what it did,   *)
(* that files are not taken for directories or directories for files, that *)
(* a directory is empty when it is removed, and that a partition formatted *)
(* while it is mounted is mounted again before anything else is done.      *)
(* Users do all of it, but what then holds is another question: Careless   *)
(* says which of the five.                                                 *)
(***************************************************************************)
HasIndirect(n) ==
  volume.inode[n].block[Single] # 0 \/ volume.inode[n].block[Double] # 0

Keeps(n) == "large" \in Careless \/ ~HasIndirect(n)

(* A write that fails is undone only if the file is new and small. *)
RoomToWrite(names, text, size) ==
  \/ "full" \in Careless
  \/ size <= DirectBlocks /\ Find(volume, Parent(names), Last(names)) = 0
  \/ Written(volume, Parent(names), Last(names), text, size).ok

IsEmpty(n) ==
  \A p \in Places(volume, n) :
    RecordAt(volume, n, p).inode = 0 \/ RecordAt(volume, n, p).name \notin Names

Named(names) ==
  IF Parent(names) = 0 THEN 0 ELSE Find(volume, Parent(names), Last(names))

MayWrite(names, text, size) ==
  LET n == Named(names)
  IN  /\ n # 0 => Keeps(n) /\ ("kinds" \in Careless \/ ~IsDir(volume, n))
      /\ Parent(names) # 0 => RoomToWrite(names, text, size)

(* The directory the shell is in may be none since a format. *)
MayCreate(names) ==
  Parent(names) # 0 =>
    "kinds" \in Careless \/ memory # <<>> \/ IsDir(volume, Parent(names))

MayDelete(names) ==
  LET n == Named(names)
  IN  /\ MayCreate(names)
      /\ n # 0 => Keeps(n) /\ ("inhabited" \in Careless \/ ~IsDir(volume, n) \/ IsEmpty(n))

Below == {<<n>> : n \in Names} \cup {<<m, n>> : m, n \in Names}

MayGoOn == "reformat" \in Careless \/ memory = <<>>

Write(names, text, size) ==
  MayGoOn /\ MayWrite(names, text, size) /\ WriteFile(names, text, size)

MakeDir(names) == MayGoOn /\ MayCreate(names) /\ CreateDir(names)

Delete(names) == MayGoOn /\ MayDelete(names) /\ DeleteFile(names)

FileCommand ==
  \E names \in Below :
    \/ \E text \in Texts, size \in Sizes : Write(names, text, size)
    \/ MakeDir(names)
    \/ Delete(names)

CdCommand ==
  \E absolute \in BOOLEAN, names \in Below \cup {<<>>, <<"..">>} :
    MayGoOn /\ Cd(absolute, names)

DriveCommand == Mount \/ Unmount \/ \E total \in Totals : Format(total)

Ext2Next == FileCommand \/ CdCommand \/ DriveCommand

Ext2Spec == Ext2Init /\ [][Ext2Next]_vars
-----------------------------------------------------------------------------
BlockNumbers == {0} \cup Blocks(volume.total)

(* Every variable stays in its range. *)
Ext2TypeOK ==
  LET total == volume.total
  IN  /\ total \in Totals
      /\ volume.blockBits \subseteq FirstDataBlock .. (GroupStart(GroupsCount(total)) - 1)
      /\ volume.inodeBits \subseteq Groups(total) \X (0 .. InodesPerGroup - 1)
      /\ \A n \in Inodes(total) :
           /\ volume.inode[n].type \in {"none", "file", "dir"}
           /\ volume.inode[n].block \in [0 .. Double -> BlockNumbers]
      /\ \A b \in Blocks(total) :
           /\ volume.data[b].kind = "ptrs" => \A i \in DOMAIN volume.data[b].to :
                volume.data[b].to[i] \in BlockNumbers
           /\ volume.data[b].kind = "dir" => \A k \in DOMAIN volume.data[b].records :
                volume.data[b].records[k].inode \in {0} \cup Inodes(total)
      /\ memory \in Seq([blocks : Nat, inodes : Nat]) /\ Len(memory) <= 1
      /\ mounted \in BOOLEAN
      /\ mounted => cwd \in Inodes(total)
      /\ path \in Seq(Names) /\ Len(path) <= MaxDepth

(***************************************************************************)
(* The tree that can be reached from the root: paths with their inodes.    *)
(***************************************************************************)
NamedRecords(v, d) ==
  {r \in {RecordAt(v, d, p) : p \in Places(v, d)} : r.inode # 0 /\ r.name \in Names}

Children(v, node) ==
  IF ~IsDir(v, node.inode) THEN {}
  ELSE {[path |-> Append(node.path, r.name), inode |-> r.inode] :
          r \in NamedRecords(v, node.inode)}

Nodes(v) ==
  LET down[k \in 0 .. Cardinality(Inodes(v.total))] ==
        IF k = 0 THEN {[path |-> <<>>, inode |-> RootInode]}
        ELSE UNION {Children(v, node) : node \in down[k - 1]}
  IN  UNION {down[k] : k \in DOMAIN down}

(* The blocks of an inode, those of pointers included. *)
PointedBy(v, b) ==
  IF b = 0 THEN <<>> ELSE <<b>> \o [i \in 1 .. PtrsPerBlock |-> Pointers(v, b)[i - 1]]

BlocksOf(v, in) ==
  LET direct == [i \in 1 .. DirectBlocks |-> in.block[i - 1]]
      middle == PointedBy(v, in.block[Double])
      double == FlattenSeq([i \in 1 .. Len(middle) |->
                  IF i = 1 THEN <<middle[1]>> ELSE PointedBy(v, middle[i])])
  IN  SelectSeq(direct \o PointedBy(v, in.block[Single]) \o double, LAMBDA b : b # 0)

(***************************************************************************)
(* Every block in use belongs to one owner only, the file system itself or *)
(* one inode, and every inode in use has one name; and nothing else is in  *)
(* use.  Allocation, the undoing of commands that fail, directories that   *)
(* grow and removal must agree for this: a block freed too many is given   *)
(* to two files, one too few is lost.  Of users as careful as Careless     *)
(* says, who mount again a partition they formatted while it was mounted.  *)
(***************************************************************************)
OneOwner ==
  LET total  == volume.total
      nodes  == Nodes(volume)
      inodes == {node.inode : node \in nodes}
      Owned(n) == BlocksOf(volume, volume.inode[n])
      blocks == UNION {ToSet(Owned(n)) : n \in inodes}
  IN  /\ volume.blockBits = Metadata(total) \cup BeyondEnd(total) \cup blocks
      /\ Metadata(total) \cap blocks = {}
      /\ Cardinality(blocks) = MapThenSumSet(LAMBDA n : Len(Owned(n)), inodes)
      /\ Cardinality(nodes) = Cardinality(inodes)
      /\ {InodeAt(bit) : bit \in volume.inodeBits} = (1 .. ReservedInodes) \cup inodes

(***************************************************************************)
(* The counters of the groups and of the superblock on the disk count the  *)
(* clear bits: they alone say when a group is full, and the search for an  *)
(* inode goes astray if they count too many.  Of the same users: those who *)
(* go on after such a format write the old counters over the new.          *)
(***************************************************************************)
CountersExact ==
  LET total == volume.total
      Used(g) == Cardinality(volume.blockBits \cap GroupBlocks(g))
      Taken(g) == Cardinality({bit \in volume.inodeBits : bit[1] = g})
  IN  /\ \A g \in Groups(total) :
           /\ volume.groups[g].blocks = BlocksPerGroup - Used(g)
           /\ volume.groups[g].inodes = InodesPerGroup - Taken(g)
      /\ volume.sb.blocks = Sum(total, [g \in Groups(total) |-> volume.groups[g].blocks])
      /\ volume.sb.inodes = Sum(total, [g \in Groups(total) |-> volume.groups[g].inodes])

(* The path in the prompt leads from the root to the directory the shell   *)
(* is in, after any cd that failed half-way and any command in between,    *)
(* unless the partition it leads through has been formatted since.         *)
PathLeadsHere ==
  mounted /\ memory = <<>> =>
    Walked([ok |-> TRUE, cwd |-> RootInode, path |-> <<>>], path)
      = [ok |-> TRUE, cwd |-> cwd, path |-> path]

(***************************************************************************)
(* The tree as a user sees it: with ls, cat and cd.  read_file takes a     *)
(* block that is missing for zeros.                                        *)
(***************************************************************************)
HeldBy(v, in) ==
  [i \in 1 .. in.size |->
     LET b == BlockOf(v, in, i - 1) IN IF b = 0 THEN Nothing ELSE v.data[b]]

SeenAt(v, n) ==
  IF IsDir(v, n) THEN [dir |-> TRUE] ELSE [dir |-> FALSE, holds |-> HeldBy(v, v.inode[n])]

SeenTree(v) ==
  LET nodes == Nodes(v)
  IN  [p \in {node.path : node \in nodes} |->
         SeenAt(v, (CHOOSE node \in nodes : node.path = p).inode)]
=============================================================================
