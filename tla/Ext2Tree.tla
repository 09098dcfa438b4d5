------------------------------- MODULE Ext2Tree -------------------------------
(***************************************************************************)
(* ext2 as the file tree it promises to be.  The tree is what ls, cat and  *)
(* cd show of the volume, and changes as the volume does; told is what the *)
(* user typed last, and what the shell said of a write.                    *)
(***************************************************************************)
EXTENDS Ext2

VARIABLES tree, told

FileText(text, size) == [i \in 1 .. size |-> Text(text)]

WriteTold(names, text, size) ==
  [verb |-> "write", names |-> names, text |-> FileText(text, size),
   done |-> Written(Counted, Parent(names), Last(names), text, size).ok]

Tell(command) == told' = command

TreeInit ==
  /\ Ext2Init
  /\ tree = SeenTree(volume)
  /\ told = [verb |-> "none"]

TreeNext ==
  /\ \/ \E names \in Below :
          \/ \E text \in Texts, size \in Sizes :
               Write(names, text, size) /\ Tell(WriteTold(names, text, size))
          \/ MakeDir(names) /\ Tell([verb |-> "mkdir", names |-> names])
          \/ Delete(names) /\ Tell([verb |-> "rm", names |-> names])
     \/ CdCommand /\ Tell([verb |-> "cd"])
     \/ Mount /\ Tell([verb |-> "mount"])
     \/ Unmount /\ Tell([verb |-> "unmount"])
     \/ (\E total \in Totals : Format(total)) /\ Tell([verb |-> "format"])
  /\ tree' = SeenTree(volume')

TreeSpec == TreeInit /\ [][TreeNext]_<<vars, tree, told>>

Promised == INSTANCE FileTree WITH here <- path

(* ext2 is a file tree: a command changes the one name it was given or     *)
(* nothing, and a file that was written, by a command that said so, holds  *)
(* the text it was given, through every way blocks, inodes and records are *)
(* taken, given back and taken again, for users as careful as Careless     *)
(* says: who, among others, mount again after formatting while mounted.    *)
ImplementsFileTree == Promised!FTSpec
=============================================================================
