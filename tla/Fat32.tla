-------------------------------- MODULE Fat32 --------------------------------
(***************************************************************************)
(* FAT32, fs/fat32.cpp: the cluster chains of one volume, the directories  *)
(* kept in them, and the shell's place in the tree.  A cluster is seen as  *)
(* a row of directory slots, for a directory that is extended by a cluster *)
(* takes what the cluster last held for slots: a slot of a file's cluster  *)
(* is Text, which no name a user types matches.  Of the FAT's two copies   *)
(* only the first is ever read.  Names are 8.3 names; users give commands  *)
(* no name "." or ".." except to cd.                                       *)
(***************************************************************************)
EXTENDS Integers, SequencesExt, FiniteSetsExt

CONSTANTS
  TotalClusters,      \* fs.total_clusters
  SlotsPerCluster,    \* 16 directory entries per sector, times sectors
  Names,              \* names users type
  Texts,              \* what users write to files
  Sizes               \* how many clusters a text takes

Clusters    == 2 .. (TotalClusters + 1)
Free        == 0
EndOfChain  == TotalClusters + 2
RootCluster == 2
MaxDepth    == 32

ASSUME Fat32Assumption ==
  /\ TotalClusters \in Nat \ {0}
  /\ SlotsPerCluster \in Nat /\ SlotsPerCluster >= 2
  /\ Names # {} /\ "." \notin Names /\ ".." \notin Names
  /\ Sizes \subseteq Nat

VARIABLES
  volume,    \* the disk: the FAT and what the clusters hold
  mounted,   \* fs.mounted
  cwd,       \* fs.current_cluster
  path       \* fs.path: names and clusters of the directories on the way

vars == <<volume, mounted, cwd, path>>

(***************************************************************************)
(* A slot: never used (first byte 0), deleted (0xE5), text, or an entry.   *)
(***************************************************************************)
Never   == [kind |-> "never"]
Deleted == [kind |-> "deleted"]
Text(t) == [kind |-> "text", text |-> t]

Entry(name, dir, first) ==
  [kind |-> "entry", name |-> name, dir |-> dir, first |-> first, size |-> 0]

IsGap(slot) == slot.kind \in {"never", "deleted"}

Row(slots) ==
  [s \in 1 .. SlotsPerCluster |-> IF s \in DOMAIN slots THEN slots[s] ELSE Never]

(***************************************************************************)
(* next_cluster, followed until it leaves the data area.  A chain that     *)
(* closed on itself would be followed forever; here it repeats.            *)
(***************************************************************************)
Followed(fat, first) ==
  LET at[i \in 0 .. TotalClusters] ==
        IF i = 0 THEN first
        ELSE IF at[i - 1] \in Clusters THEN fat[at[i - 1]] ELSE EndOfChain
  IN  at

InData(at) ==
  [i \in 1 .. Cardinality({j \in 0 .. (TotalClusters - 1) : at[j] \in Clusters}) |->
     at[i - 1]]

Chain(fat, first) == InData(Followed(fat, first))

FreeChain(v, first) ==
  [v EXCEPT !.fat = [c \in Clusters |->
     IF c \in ToSet(Chain(v.fat, first)) THEN Free ELSE v.fat[c]]]

(* alloc_cluster takes the lowest free cluster each time it is called.     *)
FreeClusters(v) ==
  LET free == {c \in Clusters : v.fat[c] = Free}
  IN  [i \in 1 .. Cardinality(free) |->
         CHOOSE c \in free : Cardinality({d \in free : d < c}) = i - 1]

(* set_cluster of each cluster of cs to the next one, of the last to end.  *)
Linked(v, cs) ==
  [v EXCEPT !.fat = [c \in Clusters |->
     IF c \notin ToSet(cs) THEN v.fat[c]
     ELSE LET i == CHOOSE j \in DOMAIN cs : cs[j] = c
          IN  IF i < Len(cs) THEN cs[i + 1] ELSE EndOfChain]]
-----------------------------------------------------------------------------
(***************************************************************************)
(* find_entry: the first slot of the directory that holds the name, unless *)
(* a slot never used comes first; none is 0.                               *)
(***************************************************************************)
Places(v, dir) ==
  LET chain == Chain(v.fat, dir)
  IN  [i \in 1 .. (Len(chain) * SlotsPerCluster) |->
        <<chain[((i - 1) \div SlotsPerCluster) + 1], ((i - 1) % SlotsPerCluster) + 1>>]

SlotAt(v, place) == v.clusters[place[1]][place[2]]

SetSlot(v, place, slot) == [v EXCEPT !.clusters[place[1]][place[2]] = slot]

FirstOf(S) == IF S = {} THEN 0 ELSE Min(S)

FindEntry(v, dir, name) ==
  LET places == Places(v, dir)
      Slot(i) == SlotAt(v, places[i])
      found  == FirstOf({i \in DOMAIN places :
                           Slot(i).kind = "entry" /\ Slot(i).name = name})
      never  == FirstOf({i \in DOMAIN places : Slot(i) = Never})
  IN  IF found = 0 \/ (never # 0 /\ never < found) THEN <<>> ELSE places[found]

Found(v, dir, name) == FindEntry(v, dir, name) # <<>>

EntryOf(v, dir, name) == SlotAt(v, FindEntry(v, dir, name))

(* Mutant: a deleted slot looks as if it had never been used. *)
MarkUnused(v, dir, name) ==
  IF Found(v, dir, name) THEN SetSlot(v, FindEntry(v, dir, name), Never) ELSE v

MarkDeleted(v, dir, name) ==
  IF Found(v, dir, name) THEN SetSlot(v, FindEntry(v, dir, name), Deleted) ELSE v

(***************************************************************************)
(* create_file_entry: the first gap takes the entry; a directory without   *)
(* one is extended by a cluster at a time, as it is found, until there is  *)
(* a gap or no cluster is left.                                            *)
(***************************************************************************)
CreateEntry(v, dir, entry) ==
  LET chain  == Chain(v.fat, dir)
      places == Places(v, dir)
      gap    == FirstOf({i \in DOMAIN places : IsGap(SlotAt(v, places[i]))})
      free   == FreeClusters(v)
      Gaps(c) == {s \in 1 .. SlotsPerCluster : IsGap(v.clusters[c][s])}
      enough == FirstOf({i \in DOMAIN free : Gaps(free[i]) # {}})
      added  == IF enough = 0 THEN free ELSE SubSeq(free, 1, enough)
      grown  == Linked(v, <<Last(chain)>> \o added)
  IN  IF gap # 0 THEN [ok |-> TRUE, volume |-> SetSlot(v, places[gap], entry)]
      ELSE IF enough = 0 THEN [ok |-> FALSE, volume |-> grown]
      ELSE [ok |-> TRUE,
            volume |-> SetSlot(grown, <<free[enough], Min(Gaps(free[enough]))>>,
                               entry)]
-----------------------------------------------------------------------------
(***************************************************************************)
(* write_file: an old file of that name gives back its clusters and its    *)
(* slot, then clusters are taken, linked and written one at a time, then   *)
(* the entry is made, with size 0, and last the size is set in the entry   *)
(* that is found under the name.                                           *)
(***************************************************************************)
Stored(v, cs, text) ==
  [v EXCEPT !.clusters = [c \in Clusters |->
     IF c \in ToSet(cs)
     THEN IF c = Last(cs) THEN Row(<<Text(text)>>)
          ELSE [s \in 1 .. SlotsPerCluster |-> Text(text)]
     ELSE v.clusters[c]]]

(* Mutants: the old entry stays; the size is not set, or counts the zero   *)
(* at the end of the text.                                                 *)
WithoutOldKeepsEntry(v, name) ==
  IF Found(v, cwd, name) THEN FreeChain(v, EntryOf(v, cwd, name).first) ELSE v

WithoutOld(v, name) ==
  IF Found(v, cwd, name)
  THEN MarkDeleted(FreeChain(v, EntryOf(v, cwd, name).first), cwd, name)
  ELSE v

SetSizeNever(v, name, size) == v

SetSizeWithTerminator(v, name, size) ==
  LET place == FindEntry(v, cwd, name)
  IN  IF place = <<>> THEN v
      ELSE SetSlot(v, place, [SlotAt(v, place) EXCEPT !.size = size + 1])

SetSize(v, name, size) ==
  LET place == FindEntry(v, cwd, name)
  IN  IF place = <<>> THEN v
      ELSE SetSlot(v, place, [SlotAt(v, place) EXCEPT !.size = size])

Written(v, name, text, size) ==
  LET cleared == WithoutOld(v, name)
      free    == FreeClusters(cleared)
      taken   == SubSeq(free, 1, IF size < Len(free) THEN size ELSE Len(free))
      stored  == Stored(Linked(cleared, taken), taken, text)
      first   == IF size = 0 THEN 0 ELSE taken[1]
      made    == CreateEntry(stored, cwd, Entry(name, FALSE, first))
  IN  IF Len(free) < size THEN [ok |-> FALSE, volume |-> stored]
      ELSE [made EXCEPT !.volume = IF made.ok THEN SetSize(@, name, size) ELSE @]

WriteFile(name, text, size) ==
  /\ mounted
  /\ volume' = Written(volume, name, text, size).volume
  /\ UNCHANGED <<mounted, cwd, path>>

(***************************************************************************)
(* create_dir does not look whether the name is taken.                     *)
(***************************************************************************)
DirCreated(v, name) ==
  LET free == FreeClusters(v)
      c    == free[1]
      rows == Row(<<Entry(".", TRUE, c), Entry("..", TRUE, cwd)>>)
  IN  IF free = <<>> THEN [ok |-> FALSE, volume |-> v]
      ELSE CreateEntry([Linked(v, <<c>>) EXCEPT !.clusters[c] = rows],
                       cwd, Entry(name, TRUE, c))

CreateDir(name) ==
  /\ mounted
  /\ volume' = DirCreated(volume, name).volume
  /\ UNCHANGED <<mounted, cwd, path>>

(* delete_file marks the entry and leaves the chain as it is. *)
DeleteFile(name) ==
  /\ mounted
  /\ Found(volume, cwd, name)
  /\ volume' = MarkDeleted(volume, cwd, name)
  /\ UNCHANGED <<mounted, cwd, path>>
-----------------------------------------------------------------------------
(***************************************************************************)
(* cd walks its components one by one; a component that is no directory    *)
(* puts everything back.                                                   *)
(***************************************************************************)
Into(at, name) ==
  LET first == EntryOf(volume, at.cwd, name).first
      to    == IF first = 0 THEN RootCluster ELSE first
  IN  IF name = "."
      THEN at
      ELSE IF name = ".."
      THEN IF at.cwd = RootCluster \/ ~Found(volume, at.cwd, name) THEN at
           ELSE [at EXCEPT !.cwd = to,
                           !.path = IF @ = <<>> THEN @ ELSE Front(@)]
      ELSE IF Found(volume, at.cwd, name) /\ EntryOf(volume, at.cwd, name).dir
      THEN [at EXCEPT !.cwd = to,
                      !.path = IF Len(@) < MaxDepth THEN Append(@, name) ELSE @]
      ELSE [at EXCEPT !.ok = FALSE]

Walked(start, components) ==
  LET at[i \in 0 .. Len(components)] ==
        IF i = 0 THEN start
        ELSE IF at[i - 1].ok THEN Into(at[i - 1], components[i]) ELSE at[i - 1]
  IN  at[Len(components)]

(* Mutant: the path is not put back. *)
CdForgetsPath(absolute, components) ==
  LET start == [ok   |-> TRUE,
                cwd  |-> IF absolute THEN RootCluster ELSE cwd,
                path |-> IF absolute THEN <<>> ELSE path]
      end   == Walked(start, components)
  IN  /\ mounted
      /\ cwd' = IF end.ok THEN end.cwd ELSE cwd
      /\ path' = end.path
      /\ UNCHANGED <<volume, mounted>>

Cd(absolute, components) ==
  LET start == [ok   |-> TRUE,
                cwd  |-> IF absolute THEN RootCluster ELSE cwd,
                path |-> IF absolute THEN <<>> ELSE path]
      end   == Walked(start, components)
  IN  /\ mounted
      /\ cwd' = IF end.ok THEN end.cwd ELSE cwd
      /\ path' = IF end.ok THEN end.path ELSE path
      /\ UNCHANGED <<volume, mounted>>

(* mount and unmount; what is mounted is what format made. *)
Mount ==
  /\ ~mounted
  /\ mounted' = TRUE
  /\ cwd' = RootCluster
  /\ path' = <<>>
  /\ UNCHANGED volume

Unmount ==
  /\ mounted
  /\ mounted' = FALSE
  /\ UNCHANGED <<volume, cwd, path>>

(* format clears the FAT and the root; the other clusters keep what they   *)
(* hold.                                                                   *)
Formatted(clusters) ==
  [fat      |-> [c \in Clusters |-> IF c = RootCluster THEN EndOfChain ELSE Free],
   clusters |-> [clusters EXCEPT ![RootCluster] = Row(<<>>)]]

Format ==
  /\ ~mounted
  /\ volume' = Formatted(volume.clusters)
  /\ UNCHANGED <<mounted, cwd, path>>
-----------------------------------------------------------------------------
Fat32Init ==
  /\ volume = Formatted([c \in Clusters |-> Row(<<>>)])
  /\ mounted = FALSE
  /\ cwd = RootCluster
  /\ path = <<>>

Components == {<<>>} \cup {<<m>> : m \in Names \cup {".."}}
              \cup {<<m, n>> : m, n \in Names}

FileCommand ==
  \E name \in Names :
    \/ \E text \in Texts, size \in Sizes : WriteFile(name, text, size)
    \/ CreateDir(name)
    \/ DeleteFile(name)

CdCommand ==
  \E absolute \in BOOLEAN, components \in Components : Cd(absolute, components)

Fat32Next == FileCommand \/ CdCommand \/ Mount \/ Unmount \/ Format

Fat32Spec == Fat32Init /\ [][Fat32Next]_vars

(***************************************************************************)
(* What write_file does to a directory of that name, and format to a disk  *)
(* that was in use, leaves clusters full of entries among the free ones:   *)
(* Fat32Spec has both.  CarefulSpec is the life of a volume whose user     *)
(* gives write no name of a directory.                                     *)
(***************************************************************************)
NoDirectory(name) ==
  Found(volume, cwd, name) => ~EntryOf(volume, cwd, name).dir

CarefulCommand ==
  \E name \in Names :
    \/ /\ NoDirectory(name)
       /\ \E text \in Texts, size \in Sizes : WriteFile(name, text, size)
    \/ CreateDir(name)
    \/ DeleteFile(name)

CarefulNext == CarefulCommand \/ CdCommand \/ Mount \/ Unmount

CarefulSpec == Fat32Init /\ [][CarefulNext]_vars
-----------------------------------------------------------------------------
Slot ==
  {Never, Deleted} \cup {Text(t) : t \in Texts}
    \cup [kind : {"entry"}, name : Names \cup {".", ".."}, dir : BOOLEAN,
          first : {0} \cup Clusters, size : {0} \cup Sizes]

(* Every variable stays in its range. *)
Fat32TypeOK ==
  /\ volume.fat \in [Clusters -> {Free, EndOfChain} \cup Clusters]
  /\ \A c \in Clusters : \A s \in 1 .. SlotsPerCluster :
       volume.clusters[c][s] \in Slot
  /\ mounted \in BOOLEAN
  /\ cwd \in Clusters
  /\ path \in Seq(Names) /\ Len(path) <= MaxDepth

(***************************************************************************)
(* The tree of a volume: the places of its entries, dot entries aside, and *)
(* the directories that can be reached.                                    *)
(***************************************************************************)
EntryPlaces(v, dir) ==
  LET places == Places(v, dir)
      never  == FirstOf({i \in DOMAIN places : SlotAt(v, places[i]) = Never})
  IN  {places[i] : i \in {j \in DOMAIN places :
         /\ never = 0 \/ j < never
         /\ SlotAt(v, places[j]).kind = "entry"
         /\ SlotAt(v, places[j]).name \in Names}}

Below(v, dirs) ==
  {SlotAt(v, p).first : p \in {q \in UNION {EntryPlaces(v, d) : d \in dirs} :
                                 SlotAt(v, q).dir}}

Dirs(v) ==
  LET reached[n \in 0 .. TotalClusters] ==
        IF n = 0 THEN {RootCluster}
        ELSE reached[n - 1] \cup Below(v, reached[n - 1])
  IN  reached[TotalClusters]

Tree(v) == UNION {EntryPlaces(v, d) : d \in Dirs(v)}

(* The chain an entry starts ends properly, so that every loop over it     *)
(* ends, and holds no free cluster.                                        *)
SoundChain(v, first) ==
  LET chain == Chain(v.fat, first)
  IN  /\ IsInjective(chain)
      /\ chain # <<>> => v.fat[Last(chain)] = EndOfChain

(* Whatever is written, deleted, overwritten or created, in whatever       *)
(* directory, no cluster comes to belong to two files or directories, and  *)
(* none in use is free: alloc_cluster, free_chain and create_file_entry    *)
(* together.                                                               *)
NoCrossLinks ==
  LET tree == Tree(volume)
      First(p) == SlotAt(volume, p).first
      Own(p)   == ToSet(Chain(volume.fat, First(p)))
      root     == ToSet(Chain(volume.fat, RootCluster))
  IN  /\ SoundChain(volume, RootCluster)
      /\ \A p \in tree :
           /\ SoundChain(volume, First(p))
           /\ Own(p) \cap root = {}
           /\ \A q \in tree : p # q => Own(p) \cap Own(q) = {}

(* What read_file returns: as many clusters as the size says. *)
Contents(v, dir, name) ==
  LET e     == EntryOf(v, dir, name)
      chain == Chain(v.fat, e.first)
      read  == IF e.dir THEN 0 ELSE Min({e.size, Len(chain)})
  IN  [dir  |-> IF e.dir THEN e.first ELSE 0,
       rows |-> [i \in 1 .. read |-> v.clusters[chain[i]]]]

(* A command changes or loses at most the one file it names, in the        *)
(* directory the shell is in: whatever else could be read before it, in    *)
(* any directory that is still there, reads the same afterwards.           *)
OthersSurvive ==
  [][mounted /\ mounted' =>
       \E target \in Names : \A dir \in Dirs(volume) \cap Dirs(volume') :
         \A name \in Names :
           Found(volume, dir, name) /\ <<dir, name>> # <<cwd, target>> =>
             /\ Found(volume', dir, name)
             /\ Contents(volume', dir, name) = Contents(volume, dir, name)]_vars

(* "[ OK ] File written" (shell/commands.cpp): after a write that reports  *)
(* success the file reads back as the text, although mkdir may have made a *)
(* second entry of that name and the entry may stand in a cluster that     *)
(* held something else.                                                    *)
WrittenReadsBack ==
  [][\A name \in Names, text \in Texts, size \in Sizes :
       /\ NoDirectory(name) /\ WriteFile(name, text, size)
       /\ Written(volume, name, text, size).ok
       =>
         /\ Found(volume', cwd, name)
         /\ Len(Contents(volume', cwd, name).rows) = size
         /\ \A i \in 1 .. size :
              Contents(volume', cwd, name).rows[i][1] = Text(text)]_vars

(* The path in the prompt leads from the root to the directory the shell   *)
(* is in, after any cd that failed half-way and any command in between:    *)
(* the directory is never freed or taken away under the shell.             *)
PathLeadsHere ==
  mounted =>
    Walked([ok |-> TRUE, cwd |-> RootCluster, path |-> <<>>], path)
      = [ok |-> TRUE, cwd |-> cwd, path |-> path]
=============================================================================
