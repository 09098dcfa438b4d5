# PodumatOS: a TLA+ model of its memory, disks, file systems and keyboard

PodumatOS is a hobby operating system for x86_64: one kernel, one shell, no
user programs, no threads and no interrupts that do work.  This directory
models the parts of it that keep state whose consistency matters, checks the
models with TLC on small instances and proves what matters most with TLAPS.
All paths below are relative to `src/kernel/src/`.

## The system

| Component | State it keeps | Operations | Hard part | Modelled in |
|---|---|---|---|---|
| `mm/phys.cpp` physical pages | bitmap, two counters, a hint | init, alloc_page(s), free_page(s) | circular scan, rounding at region edges, counters | `Phys`, `PageAllocator` |
| `mm/heap.cpp` kernel heap | list of regions, list of blocks in each, best hint, statistics | kmalloc, kcalloc, krealloc, kfree | holes, dangling hint, wrap of sizes | `Heap`, `LiveBlocks` |
| `drivers/dma.cpp` DMA buffers | ready flag | init, alloc, stop | same page pool as the heap | `Heap` |
| `fs/mbr.cpp`, `fdisk` | sector 0 | create, delete, init | finding free space | `Mbr` |
| `fs/mount_config.cpp` | list in memory, sector 1 | load, add, remove, clear | two copies, failed transfers, power cycles | `MountConfig` |
| `shell/commands.cpp`, `main.cpp`: drives | which file system is mounted | mount, unmount, switch, format, fdisk, boot | three views of "the drive" that age differently | `Mounts` |
| `fs/fat32.cpp` | cluster chains, directories | files and directories, cd, format | stale clusters, half-done updates | `Fat32` |
| `fs/ext2.cpp` | bitmaps, counters, inodes, blocks | files and directories, cd, format | shared buffers, undoing half of a command | `Ext2`, `FileTree`, `Ext2Tree` |
| `drivers/disk.cpp`, `ahci.cpp`, `ata.cpp` | the chosen driver, a command slot, a buffer | init, read, write, flush, stop | timeouts, commands that stay in their slot, the drive's cache | `Disk`, `Ahci`, `Ata`, `Drive`, `SectorStore` |
| `drivers/usb/xhci.cpp` | rings with cycle bits | commands, control transfers, reports | one ring for all events, late completions | `Xhci`, `ReportPipe` |
| `drivers/usb/ehci.cpp` | queue heads | control transfers, reports | words set one by one while the controller runs | `Ehci`, `ReportPipe` |
| `drivers/usb/usb.cpp`, `input.cpp` | whether enumeration is over | enumerate, choose a controller | failures on the way, the fallback | `UsbRequests`, `Usb` |
| `drivers/usb/usb_hid.cpp`, `ps2.cpp`, `shell/shell.cpp` | last report, key held, Caps Lock, a buffer of one key, the line | poll, get_char, edit a line | which keys are new, what repeats | `Keyboard`, `Typing` |

How they interact.  Everything runs on one processor, in one thread, to
completion: a shell command calls down through a file system to a disk driver
and returns.  So above the drivers nothing interleaves; what is hard there is
*sequences*: a long series of legal commands, failed transfers between them,
and power that goes at any moment, against state kept twice (memory and disk, a
list and a hint, a table and what was once read from it).  Interleaving begins
at the devices: the drive with its cache, the host controllers and the keyboard
act by themselves on memory the drivers poll.  In `Disk`, `Usb` and `Keyboard`
a step of the driver is one test of a wait or what is done between two waits,
and the devices step in between.

## The modules

Memory.

* **`PageAllocator`** is the promise of `mm/phys.hpp`: a pool of pages, runs
  taken from it and returned.
* **`Phys`** is the code: one bit per page, counters, the hint, and `init` in
  its four steps (`InitStart`, `MarkUsable` once per entry of the memory map,
  `KeepBitmapReserved`, or `InitFails`).  `find_free_run`'s two loops are one
  circular scan (`FirstFit`) that carries the length of a run from the last page
  over to page 0, as the code does.  `owned` is a history variable: the runs
  clients hold.  Clients return exactly what they were given, which is what
  `Heap` and DMA do (checked there as `LawfulClient`).
* **`LiveBlocks`** is the promise of `mm/heap.hpp`: aligned blocks that stay
  apart and stay put.
* **`Heap`** extends `Phys` with regions, blocks, the best hint, the statistics
  and `dma::alloc`/`stop`.  A hole is the space behind block *k*; `place_block`
  takes the first that fits, `kmalloc` the hinted region first.  `krealloc` that
  moves a block takes two steps (its kmalloc and its kfree), so that both
  promises can be stated step by step; nothing else runs between them.  The
  contents of blocks are left out.

Drives.

* **`SectorStore`** is the promise of `drivers/disk.hpp`: reads give what is
  stored, a call that failed left each sector old or new, and what a flush that
  succeeded has stored outlives the power.  `since` is what a sector may fall
  back to when power goes.
* **`Drive`** is the drive the drivers use and the call they serve: a write
  cache, a status, an order; it may refuse, hang, answer late or lose a sector,
  as `Faults` says.
* **`Ahci`** is `ahci_transfer`, one action per exit of a wait (`NotBusy`,
  `SlotFree`, `PollError`, `PollDone`, `GiveUp`) and the adapter that completes
  the command in the slot.  **`Ata`** is the programmed input and output of
  `ata.cpp`, a step per wait, with its 28 bits of address and its flush whose
  status is not read.
* **`Disk`** puts the two behind `disk.cpp`: which is chosen at start, the calls,
  `system_teardown` with its flush and stop, `reboot`, and loss of power.
* **`Mbr`** is the table of four partitions and `fdisk`.  `FindFreeLba` is the
  code's single pass over the slots with its 32-bit sums.
* **`MountConfig`** is the list of saved drives and its sector, with transfers
  that may fail and power cycles.
* **`Mounts`** extends both with what is mounted and what a mount would find on
  disk, and has one action per command (`MountCmd`, `UnmountLetter`,
  `SwitchPart`, `FormatCmd`, `FdiskDeleteCmd`, ...), `Boot` and `PowerOff`.  Of a
  file system it keeps only its marker: the ext2 magic in the third sector of
  the partition, the FAT32 parameter block in the first.

File systems.

* **`Fat32`** is one volume: the FAT, and each cluster as a row of directory
  slots, because a directory grows into clusters that are not cleared and takes
  their old contents for entries.  `WriteFile`, `CreateDir`, `DeleteFile` and
  `Cd` are the shell's commands, each run to its end; `FindEntry` and
  `CreateEntry` are the two walks over a directory.  `Fat32Spec` has every
  command; `CarefulSpec` leaves out writing over a directory and formatting a
  volume already in use, the two ways old entries get into free clusters.
* **`FileTree`** is what a file system promises the shell: a tree, where a
  command changes the name it is given or, if it fails, nothing.  `told` is what
  the user typed last: `Write`, `MakeDirectory` and `Remove` act on the path of
  that very name, and a write that said it was done left the very text typed.
* **`Ext2`** is one volume: the layout `format` computes, both bitmaps, the
  counters of groups and superblock, inodes, blocks that hold text, pointers or
  directory records.  The helpers keep the code's names in TLA+ style
  (`AllocBlock` is `alloc_block_internal`, `SetBlock` is `set_inode_block`,
  `AddEntry` is `add_dir_entry`) and take and return the volume, because a
  command calls many of them and each may fail half-way.  `memory` stands for the
  counters of `fs.sb` while they are not those on disk: `Format` of the partition
  that is mounted (nothing asks for an unmount) writes the disk and leaves the
  counters, `cwd` and `path` as they were; the next command counts on from the old
  ones (`Counted`) and writes them back (`Leaves`).  `Careless` switches on what
  users do that the code is not prepared for (below).
  **`Ext2Tree`** adds the tree that `ls`, `cat` and `cd` show and what the user
  typed last, and states that `Ext2` implements `FileTree`.

Keyboard.

* **`ReportPipe`** is what `usb_hid` needs of a host controller: reports come
  through once each, in order, until the endpoint breaks; one that is not `exact`,
  which is EHCI's, may lose a report or hand over a blank one.
* **`UsbRequests`** is the sequence of commands and requests that `xhci::init`,
  `usb::enumerate_device` and `usb_hid::init` make, with what `input::init` does
  when one fails.  **`Xhci`** is how they are carried out over rings: both ends of
  each ring with cycle bits, and `owed` and `posted`, which say what the bits
  should show.  **`Ehci`** is how they are over queue heads; `toggle` is the
  keyboard's data toggle, and as the driver has the controller expect DATA0 each
  time, a report sent as DATA1 is acknowledged and dropped (`Discard`).  **`Usb`**
  puts the two together with the keyboard.
* **`Typing`** is what a user expects of keys and a line.  **`Keyboard`** is the
  code from a report (through `ReportPipe`, which `Usb` implements) or a
  scancode to the line: `Heard` compares two reports, `CheckRepeat` is the
  repeat, `ps2GetChar` follows scancodes, `Accept` edits the line.

**`MC*`** give the constants values for TLC; **`*Proofs`** hold the theorems.
PROJECT.json's `map` names the lines each definition stands for.

## The runs

| Run | Instance | Shows |
|---|---|---|
| `phys` | six memory maps up to 64 KiB, with holes that are not on page boundaries, low memory, a bank too small for the bitmap, and two that init refuses; requests of 0 to 4 pages | no page granted twice, none leaked, counters exact, the pool implemented |
| `heap` | four free pages, regions of two; sizes that share a region, fill one exactly, need a larger one, or exceed memory; kcalloc that overflows | layout, page accounting, hint and statistics, `LiveBlocks` implemented, the page allocator used lawfully |
| `mbr` | a disk of 8 MB, 2^32 scaled to 64 MB; sizes that fit, do not fit, are negative, wrap to no sectors, or wrap together with their start | partitions on boundaries, and on the disk unless start and size wrap |
| `mount_config` | all four partitions, two letters | one entry per partition, memory and disk agree, no entry of another drive lost |
| `mounts` | room for two partitions of 4 MB, two slots, two letters; reads of the disk that fail at any time | never two file systems mounted, `switch` keeps the list, `MountConfig` used lawfully |
| `fat32` | four clusters of two slots, two names, texts of no cluster and of one (a line of the shell fits one); a user who gives `write` no name of a directory | no cluster in two files, the path leads to the current directory, a command touches only the file it names, what was written reads back |
| `ext2` | two groups of eight blocks, the second cut short; one direct block, two pointers to a block, three names to a directory block; two sizes of partition, two names, texts of none to four blocks, a second text of one block; a mounted partition that is formatted is mounted again | every block and inode has one owner and nothing else is in use, the counters count, the path leads to the current directory, `FileTree` implemented: each command changes the name it was given, and the text written is the text read |
| `disk` | three sectors, two values, calls of one and two sectors; drives behind AHCI, behind the legacy ports, none, and floating ports with and without AHCI; a drive that refuses commands, sectors and flushes, and hangs | `SectorStore` implemented through resets and loss of power, a write's last sector and a flush over ATA unless refused; after a failed call AHCI changes nothing on the drive; every call returns |
| `usb` | rings of two commands, six control transfers and two reports, three events; machines with EHCI and with both controllers; requests refused or not answered, reports in error, a port change | the two ends of each ring agree and no completion is taken for another's, `ReportPipe` implemented, the start ends and reports come through, over EHCI those that the controller stores |
| `keyboard` | one letter besides Enter, Backspace, Caps Lock and two Shift keys, two keys at a time, two reports or scancodes on their way, a line of one character; xHCI, EHCI, PS/2; one Shift key over USB, and one report on its way once one was blank or lost | `Typing` implemented, a key that was lifted stops repeating, over EHCI unless the report of it was lost |

Why the bounds are enough.  The allocator's decisions depend on how a free run
lies with respect to the hint, the end of memory and reserved pages: eight pages
around a hole show all of these.  Two regions are the least for which the hint
can point to the wrong one, and four pages let either be destroyed and created
again, or one larger region or a DMA buffer take its place.  An MBR has exactly
four slots, and three partitions are enough to be out of order on the disk.  The
list of saved mounts has exactly four places, and two letters force sharing; the
saved file system and sector are only carried, so one value each will do.  In
`mounts` two partitions and two slots are the least for which a slot, a letter
and a sector can disagree.  That transfers of the saved mounts' sector fail is
left to `mount_config`; `LawfulConfig` says that both models agree on what the
commands do to it.  In `fat32` a directory is full with its dot entries, so
every entry below the root makes it grow; four clusters hold a directory within
a directory and the cluster it grew by, or a directory that grows into a cluster
that held text, and let the disk run full in the middle of a command.

In `ext2` the smaller volume runs full in every command, and its second group
ends at the partition's end; a file of two blocks and a directory of two names
need a block of pointers; on the larger volume there is room for a file of four
blocks, which needs double indirection, and users keep to one name there.
The second text tells whether a file holds what was typed or what some other file
or an earlier write left; one file of one block with it is enough, as every text
goes through the same steps.  What was typed last is left out of what tells states
apart (`View`): it matters to the step that it tells of.  In
`disk` two sectors show a call half-done and the third a call that overlaps
another; two values tell old from new.  In `usb` each ring wraps several times
during one enumeration, which the code's rings of 255 never do; the control ring
holds two requests, as many as can be left in it when one was refused.  In
`keyboard` two reports on their way are enough for one to be overtaken or
blanked behind the other, two keys at a time for the buffer of one to be
overwritten, and delays of one tick for a repeat to be due or not; a report holds
only whether Shift is down, so one Shift key will do there, and of what comes
after a blank or lost report `Typing` promises little.

Fairness, and why the code justifies it.  `disk`: weak fairness of the driver
(one thread that is always runnable polls in bounded loops) and of the drive (it
answers or hangs; hanging is a step).  `usb`: the same of the driver and the
controllers, where the driver goes on polling because the shell waits for a key
all the time; and strong fairness of `Received`: a keyboard's reports are not in
error for ever; over EHCI whether one is stored or, for its toggle, dropped.
`keyboard`: strong fairness of `poll` and `ps2GetChar`, as the
shell asks again and again between commands, though commands come in between;
and weak fairness of the end of a command.  The memory and file system modules
wait for nothing and have no fairness.

Deadlock is checked except in `usb` and `keyboard`, which may stop: no USB
keyboard was found and the machine falls back on PS/2, or the endpoint halted
and nothing is left to do.

These runs end in a violation, each of something a command's message says:

| Run | What the code does |
|---|---|
| `ext2_large` | `free_inode_blocks` reads an indirect block from a buffer that `free_block` overwrites at the first pointer, with the bitmap and then the group descriptors: removing a file with indirect blocks frees whatever blocks those words name.  In the run, of a file of two blocks, the second word read is 4, the inode bitmap of group 0, which is free after that and may be given to a file |
| `disk_lba28` | `ata.cpp` sends 28 bits of the sector: on a larger drive, a write goes to another sector and answers true |

More follows from the models that has no run of its own.

* Memory.  A free run that begins before the hint and ends behind it is not
  found, and `alloc_pages` fails although the pages are free (`mm/phys.cpp:56`).
  A size within 15 of 2^64 is rounded up to 0 and `kmalloc` returns a block
  without payload (`mm/heap.cpp:307`).
* Drives.  With partitions out of order `find_free_lba` returns sectors in use
  (`fs/mbr.cpp:72`), and with a size that makes its sum wrap
  (`fs/mbr.cpp:82`), sectors beyond the end of the disk: the run `mbr` creates such
  partitions, and `PartitionsOnDisk` excepts them by name (`Wraps`).  An entry of the
  saved mounts updated in place is not the last one, so boot restores another
  drive (`fs/mount_config.cpp:134`), and two entries may come to share a letter.
  After partitions are recreated, `switch` takes a saved drive for the mounted
  one although it starts elsewhere (`shell/commands.cpp:1348`).  A partition
  formatted as ext2 and then as FAT32 is mounted as ext2 (`fs/fat32.cpp:631`).
  `fdisk delete` of the mounted partition drops its entry, so the active drive is
  no longer listed by `drives` (`shell/commands.cpp:993`).
* FAT32.  After a directory was written over, a directory grows into its old
  cluster, where an old entry of the same name hides the file just written
  (`fs/fat32.cpp:255`); two entries may share a cluster, and `cd ..` may enter the
  middle of a directory: under `Fat32Spec` none of `NoCrossLinks`,
  `OthersSurvive`, `WrittenReadsBack` and `PathLeadsHere` holds.  `delete_file`
  never frees clusters (`fs/fat32.cpp:385`).
* ext2, with what `Careless` switches on.  "full": a write over an old file that
  runs out of room has given back the old blocks and leaves the inode pointing at
  them (`fs/ext2.cpp:685`).  "kinds": `mkdir` below a file enters the name into
  the file's blocks, and `write` over a directory takes it for a file
  (`fs/ext2.cpp:741`).  "inhabited": `rm` of a directory with something in it
  loses all of it, and `rm` of the current directory leaves the shell in a
  directory that is gone (`fs/ext2.cpp:797`).  "reformat": whoever formats the
  partition that is mounted and goes on without mounting it again has the old
  counters written over the new ones, and a new directory or file is made in a
  directory, or under a path, that is gone (`fs/ext2.cpp:1042`): `OneOwner`,
  `CountersExact`, `PathLeadsHere` and `ImplementsFileTree` all fail, `OneOwner`
  after `mkdir A`, `cd A`, `format`, `mkdir A`.  With none of these: when a
  directory grows behind two blocks of pointers and the volume fills up between
  them, `set_inode_block` has taken the first (`fs/ext2.cpp:190`) and
  `add_dir_entry` gives up without writing the inode (`fs/ext2.cpp:490`), so a block
  stays in use that no inode has; the instance of the run `ext2` is too small for
  a directory of that length.  An absolute path given to `write`,
  `mkdir` or `rm` loses its leading slash (`fs/ext2.cpp:537`) and is looked for
  from the current directory.
* Disks.  A drive that answers after the driver gave up ("late") stores a sector
  after its call has failed.  The ATA driver asks for no status after the last
  sector of a write nor after FLUSH CACHE (`drivers/ata.cpp:151`, `:203`): when the
  drive refuses the one or the other the call answers true.  The model has these
  refusals; the ghost `unheeded` marks them, and `SectorStore` says what true is
  then worth.  A machine with AHCI whose drive is not identified goes on to the
  legacy ports (`drivers/disk.cpp:24`), and where those float it stops there
  (`drivers/ata.cpp:63`): "ahci_floating".
* USB.  Over xHCI a completion that comes after its command timed out ("late") is
  taken for the answer of the next, as the code tells them apart by their ring
  only (`drivers/usb/xhci.cpp:509`): the third part of `RingsAgree` fails after
  the no-op command timed out, and enumeration goes on one answer behind.
* Keyboard.  Over EHCI a report that comes while the descriptor is set up again
  is read as blank (`drivers/usb/ehci.cpp:1005`): every key counts as lifted and
  with the next report as pressed again.  And every second report does not come at
  all: `td_init` and `intr_read` write the toggle 0 each time
  (`drivers/usb/ehci.cpp:342`, `:1005`), so the controller takes a report sent as
  DATA1 for one it already has.  A press may go unheard, and a key whose lift was
  lost repeats until the next report (`LiftUnseen`).  On PS/2 a keyboard repeats
  Caps Lock's make code while it is held, and each one turns `caps_lock`
  (`drivers/ps2.cpp:91`).  Over xHCI a report in error is the last one: nothing is enqueued
  after it (`drivers/usb/xhci.cpp:1311`), and a key held at that moment repeats
  until another machine start.  Of several keys in one report only the last has
  effect (`drivers/usb/usb_hid.cpp:328`).  On PS/2, lifting either Shift key ends
  Shift (`drivers/ps2.cpp:87`).

## The proofs

`tlapm` checks every theorem to the last leaf.  Each follows the same pattern:
an inductive invariant, one lemma per group of actions, and the property as a
consequence.

* **`PhysProofs`**, for every memory map, every amount of reserved low memory
  and every set of requests (`PhysAssumption`; that usable entries do not overlap
  is what the Limine protocol promises).  The invariant `PhysIInv` adds to the
  four checked invariants how far `init` has come and that the memory measured
  covers every usable entry.  The point is `GrantIsFree`: the scan may carry a
  run over from the last page to page 0, and it returns pages that are
  contiguous and inside memory only because page 0 is always used.  Theorems:
  `PhysTypeCorrect`, `PhysNoDoubleGrant`, `PhysBitmapExact`,
  `PhysCountersExact`, `PhysImplementsPool` (refinement of `PageAllocator`).
* **`MountsProofs`**, on the partition table, the saved mounts and the drives.
  Of `Mbr`, for every size of disk: `MbrIInv` says that every partition starts on
  a boundary; it holds whatever sizes wrap.  From it `MbrPartitionsOnDisk`,
  for all sizes: 32 bits of the end of every partition lie on the disk, so no
  candidate is further than one boundary behind its end.
  Of `MountConfig`, for every set of letters, file systems and sectors:
  `ConfigIInv` says that list and sector hold at most four entries and no
  partition twice, and agree unless a transfer failed.  `ConfigAddKeepsOthers`
  is a counting argument: four entries with no partition twice cover all four
  partitions, so whenever an entry for a new partition is added there is room.
  Of `Mounts`: whatever the commands and the boot do to the saved mounts
  is a step of `MountConfig` (`MountsLawfulConfig`), so the theorems above hold of
  the running system; ext2 and FAT32 are never mounted together
  (`MountsAtMostOne`); and `switch` finds the saved drives as it leaves them
  (`MountsSwitchKeepsEntries`), because no partition is listed twice and so the
  entry it saves overwrites itself.  `StartsCovered` ties two constants: the
  sectors the model knows include those where a partition may start.
* **`HeapProofs`**, for every memory map and all sizes.  `HeapInv` is the
  invariant of `Phys` and besides: each region's blocks are in order, aligned
  and apart (`ListOK`); the runs clients hold are those of the regions and the
  DMA buffers (`OwnersOK`); the two counters that `kfree` subtracts from are
  the numbers of live blocks and of the regions' bytes, counted as sets
  (`CountsOK`); and the hint points into a region that exists (`HintValid`).
  Theorems: the five invariants, that the page allocator is used lawfully
  (`HeapLawfulClient`, so the theorems about `Phys` carry over; `KnownRequests`
  says that the constant `Requests` covers what the sizes ask for) and the
  refinement of `LiveBlocks` (`HeapImplementsLiveBlocks`).  The latter needs
  `NoWrap`: a size within 15 of 2^64 is rounded up to 0, and the block that is
  returned is no block of that size (above).
  `HeapStatisticsExact` is about sums over lists of any length, that is, about
  the recursive function `sumOf`.  `Induction` comes from the library's theorem
  on minimal elements (`LeastNumber`), and with it `SumEquation`, that `sumOf`
  obeys its definition, and `SumOneMore` and `SumChanged`, what it is of a
  sequence with one element more or another.  The counter of bytes in use is
  modulo 2^64; that it nevertheless is the sum follows from a bound: requests fit
  into blocks, blocks into regions, and regions into memory
  (`RequestedBelowSizes`, `HeapFits`), which a `size_t` can count (`MemoryFits`).
  The instance that TLC checks satisfies `NoWrap`, `MemoryFits` and
  `KnownRequests`.
* **`DiskProofs`**, for every number of sectors, set of values and sizes of
  transfer.  `DiskInv` says, for each point of a call of either driver, what the
  command slot, the status, the buffer and the drive's cache may be.  With it the
  drivers implement `SectorStore` (`DriversKeepPromise`), and a call that failed
  over AHCI is the last that changes anything (`FailedDriveKept`), as the failed
  command keeps the only slot.  `Lawful` names what each needs: of AHCI that no
  drive answers after the driver gave up (`NeverLate`), of ATA that the drive has
  at most 2^28 sectors (`WithinLba28`).  Without them the promise is broken (above, and the run
  `disk_lba28`).
* **`UsbProofs`**, for rings and event rings of every size of two and more, any
  number of port changes and every set of reports.  What TLC sees on rings of
  two and six is proved here of the code's 255.
  The argument about cycle bits is `RingOK(r, size, n)`: the slots before the
  driver's end carry its cycle bit and the others the opposite one, and the
  controller's end is *n* slots behind, on the same turn or the one before.
  `RingTakes` and `RingPasses` keep it, and `RingAgrees` says that then exactly
  *n* transfers are visible; `EventsOK` is the same of the event ring.
  `PipeInv` is what reports rest on and holds whatever goes wrong, late answers
  included: the one transfer for reports is on its ring, or its event is on its
  way, or it has been taken, never two of these.  From it follows that `Usb`
  implements `ReportPipe`, over EHCI with reports lost to the toggle or blanked
  (`UsbImplementsReportPipe`).
  `AgreeInv` adds commands and requests: a ring that runs holds what is left of
  the request waited for, an answer on its way is to that request and there is one
  at most, and what requests that were given up left on a ring that stopped is
  counted, step by step of the enumeration, so that the next one fits
  (`CommandsLeft`, `RequestsLeft`).  `UsbRingsAgree` follows from it under
  `NeverLate`, without which it fails (above), and `RoomForTwo`: six slots for
  control transfers, where the code has 255.

* **`Fat32Proofs`**, for volumes and clusters of every size, every set of names,
  texts and sizes of text.  `VolumeSound(v, data)` is the invariant: `data` is a
  set of clusters, which holds every free one; no link leads from it or into it,
  no slot in it is an entry, and the root is outside (`DataApart`); an entry that
  has a first cluster has one in use that no link leads to, in `data` exactly if
  it is a file (`EntriesFit`); no two entries have the same one (`FirstsDiffer`);
  and the FAT is a set of chains that end and do not meet (`FatSound`, which says
  that no set of clusters is closed under the links).  None of it mentions the
  tree, so it need not be shown again which entries can be reached.  The point
  is the set `data`: `create_file_entry` links a free cluster to a directory
  without clearing it, and only because nothing that was ever in `data` is an
  entry do no old entries come back.  `Fat32Inv` adds that the shell is in a
  directory.  `Fat32TypeCorrect` and `Fat32ChainsApart` follow from it.
  `Fat32OthersSurvive` is a frame argument: `Kept` says what a step inside a
  command for one name keeps, namely the chain and the rows that any file is read
  from (`FilesKept`), and the first slot of every other name in any directory
  (`OthersKept`, of slots that change only from a gap or the name to something
  that is neither another name nor a slot never used, and of directories that
  only grow at their end); the steps of a command are put together with
  `KeptOnward`.  `WithoutOldKept` is where it matters that chains do not meet:
  what is freed is nobody else's.  `Fat32WrittenReadsBack` adds `GapFirst`: once the
  old entry is marked deleted, whatever slot is still called by the name has a
  gap before it, so the entry made in the first gap is the one found by
  `set_size` and by every later read.
  `PathLeadsHere` needs the tree after all.  `Hung` says that an entry of a
  directory leads to a directory whose second slot leads back to the one the entry
  is in, and `Trail` that the names of `path` lead from the root to `cwd` through
  such directories; with `FirstsDiffer` they are all different (`TrailOnce`), so
  `cd ..` takes the shell to the one before and no further.  Commands may only
  hang a new directory, on a cluster that was nobody's, below the shell
  (`DirsGrow`, `CommandHangs`), and a directory on the way is never the one the
  name of a command is replaced in (`TrailStays`).  `Fat32PathLeads` has it for
  users who give no name to `cd` when the path is full (`ShallowSpec`).  A path
  has fewer names than the volume has clusters (`PathShort`), so on volumes of
  fewer than `MaxDepth` clusters, the run's among them, every careful user is one
  (`Fat32PathLeadsHere`).
  All of this is of `CarefulSpec`; under `Fat32Spec` it is false (above).
  `Fat32Assumption` asks that there are names at all.

* **`KeyboardProofs`**, for every set of letters, lines and queues of every length
  and whatever the times of repetition.  The invariant `KeyboardInv` says that,
  as long as nothing was spoilt or lost, there is a host state after each report or
  scancode on its way (`Follows`), from what the host now knows of Caps Lock,
  Shift and the keys (`Now`) to what the user knows (`Agrees`), and that what is
  due for each entry is what the host will make of it (`Tells` of a report,
  `Scans` of a scancode).  A user's action adds an entry behind (`Sent`), and the
  host takes the first one away (`Taken`); `HeardFacts` is about `poll`, that of the
  keys newly down one is heard if there is one, in the case that Caps Lock in the
  same report may give it.  That Caps Lock held on PS/2 turns with each repetition
  is one of the user's actions (`TypematicSends`).  `KeyboardImplementsTyping`
  (refinement of `Typing`)
  follows step by step.

* **`Ext2Proofs`**, for every size of block, group, inode table and directory
  block, every number of direct blocks, any volumes `format` takes and any names
  and texts.  `Solid(v)` says of a volume that the bits of metadata and reserved
  inodes are set and a free block holds nothing (`Kept`), that the counters of each
  group are what the bitmaps have free and those of the superblock their sums
  (`BlocksCounted`, `InodesCounted`), and that an inode has one name at most and is
  in use while it has it (`NamedOnce`).  `Apart(v, ino)` is about places that
  point to blocks, those of inodes and those of blocks of pointers: what they point
  to is in use and no metadata, and no two point to the same.  It takes the table
  of inodes as a parameter, because commands work on a copy of an inode that
  they write at the end or never.  Every helper has a lemma that says what it
  keeps whichever way it ends: `AllocFacts`, `FreeFacts`, `SetBlockFacts` (a block
  of pointers may be taken on the way), `FreeInodeBlocksFacts`, `AddEntryFacts`,
  `RemoveEntryFacts`, `StoreStepFacts`; the commands put them together.  Three
  points.  `alloc_inode` searches on behind the inodes of its group, and only the
  exact counter keeps it from there (`FreeInodeFound`).  `FreeBlock` is given only
  blocks that are in use (`FreeFacts`, `CounterFits`): of a block already free it
  would count again.  And what is undone after a failure is what was taken
  (`AbandonedFacts`, `DirMadeFacts`).  `Ext2TypeCorrect` and `Ext2CountersExact`
  follow.  `Careful` says whose commands this is about: users who write over or
  remove small files only, have room for what cannot be undone and do not take
  files for directories, and mount again a partition they formatted while it was
  mounted; they may remove directories with files in them.  `GoingOn` is where
  the last matters: while `memory` holds old counters nothing but drive commands
  happens.  The runs `ext2` and `ext2_large` show what happens with and without.

Only model-checked.  `PathLeadsHere` does not hold for all constants: behind
`MaxDepth` directories the path stops growing and leads elsewhere
(`fs/fat32.cpp:449`), which no instance TLC can check reaches.  For `Fat32` it is
proved for users who stay within reach of the path, for `Ext2` it is not.
`OneOwner` of `Ext2` does not hold for all constants either, because of the block a
directory loses on a full volume (above); its other half, that no block has two
owners, is part of `Ext2Invariant`.
`ImplementsFileTree` of `Ext2` rests on the tree of names, which is gathered by a
recursive function over sets of paths; its proof needs besides what is proved here
that this tree has no cycles.  The liveness properties
(`CallsReturn`, `ReportsComeThrough`, `RepeatEnds`) stay with TLC: they rest on
fairness, which the prover does not reach.  The library's induction theorems take
an operator, which no installed prover can instantiate; `Induction` of
`HeapProofs`, `Fat32Proofs` and `Ext2Proofs` takes a set instead, and what a
recursive function computes is proved with it step by step (`SumEquation`,
`FollowedFacts`, `StoredFacts`).

## Assumptions and what is left out

* The direct map is set (`hhdm` is not 0) before the heap is used; callers of
  `kfree` and `krealloc` pass pointers to live blocks.
* In `Mounts`, what the disk holds besides markers, the table and the saved
  mounts.  FAT32's `format` of a partition that overlaps another may or may not
  destroy the other's marker; the model lets it do either.  A machine without a
  disk is in `Disk` (every call is refused) and not in `Mounts`.
* In `Fat32` and `Ext2`, transfers that fail and power that goes within a
  command.  In `Fat32`, names are 8.3 names as the user types them, text never
  looks like an entry of such a name, and only `cd` is given `.` and `..`
  (`write ..` would free the parent's clusters).  In `Ext2`, all names take the
  room of `..` in a directory block (four characters), only `cd` is given `.`
  and `..`, sizes are counted in blocks and are below 4 GiB (the size in bytes is
  32 bits wide, `fs/ext2.cpp:1046`), and triple indirection, one more loop of the
  same shape, is left out: a file ends where double indirection does
  (`Ext2Assumption`).  Volumes are such that the metadata of the last group and the
  root's block lie on them (`LastGroupFits`): `format` writes them wherever they
  fall.  Runs reach no tree deeper than the 32 names of a path.
* `ext2::format` takes a DMA buffer on each call that nothing returns
  (`fs/ext2.cpp:1115`).
* In `Disk`, the registers and descriptors behind a command, more than one drive
  and hot plugging.  The drive stores sectors whole.
* In `Usb`, the reset, hand-off and port registers, the contents of contexts and
  descriptors (a device is a keyboard or is not), the bytes of a control buffer
  that a short transfer leaves from the one before (`drivers/usb/xhci.cpp:1216`),
  the toggles of EHCI's control transfers, and stopping: `intr_close` and `stop` run when the
  machine goes down.  A completion that comes after the timeout of seconds is in
  the model ("late") and not in `usb`.
* In `Keyboard`, keys without a character, six-key rollover and the error
  reports keyboards send beyond it, `ps2::init`, whose waits have no bound
  (`drivers/ps2.cpp:49`), and scancodes with the prefix E0.

Not modelled at all, because they keep no state worth a model or only program
registers and lay out text: `kernel/` (PIC, PIT, IDT), `console/`,
`drivers/pci.cpp`, `lib/` (string, memory, DMI, driver registry), and the
informational commands of the shell.

## The plan

1. Done: pages, heap and DMA; partition table, saved mounts, drives; FAT32 and
   ext2 on a disk that does not fail; both disk drivers; both USB controllers;
   keyboard and line.
   Proved: the invariants of pages, heap, partition table, saved mounts and
   drives; the drivers' promises; the rings of USB; FAT32's chains, and that a
   command touches only the file it names, what is written reads back and the path
   leads to where the shell is; ext2's
   counters, blocks and names; that the keyboard types what is meant.
2. Proofs next.  `Ext2`: that the tree of names has no cycles and that every
   inode in use has a name, and from it `ImplementsFileTree`.
3. `Ext2` and `Fat32` over `SectorStore`, with transfers that fail and power that
   goes within a command; the teardown of USB.
