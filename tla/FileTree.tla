------------------------------- MODULE FileTree -------------------------------
(***************************************************************************)
(* What a file system promises the shell, fs/ext2.hpp: a tree of           *)
(* directories and files, each file holding what was last written to it.   *)
(* A command changes the one name it is given or, if it fails, nothing.    *)
(***************************************************************************)
EXTENDS Sequences, FiniteSets, Functions, TLC

Directory == [dir |-> TRUE]
File(c)   == [dir |-> FALSE, holds |-> c]

VARIABLES
  tree,       \* from paths, sequences of names, to Directory or a file
  here,       \* the directory the shell is in
  told        \* the last command: its verb, the names and the text typed

ftVars == <<tree, here, told>>

Empty == (<<>> :> Directory)

IsDir(t, p) == p \in DOMAIN t /\ t[p] = Directory
Under(t, p) == {q \in DOMAIN t : Len(q) > Len(p) /\ SubSeq(q, 1, Len(p)) = p}
Above(p)    == SubSeq(p, 1, Len(p) - 1)

(* The path a command names: the names typed are looked up from here.      *)
Target == here \o told'.names
-----------------------------------------------------------------------------
FTInit ==
  /\ tree = Empty
  /\ here = <<>>
  /\ told = [verb |-> "none"]

(* A write that says it is done has put the text typed where it was told.  *)
Write ==
  /\ told'.verb = "write"
  /\ IF told'.done
     THEN /\ IsDir(tree, Above(Target)) /\ ~IsDir(tree, Target)
          /\ tree' = (Target :> File(told'.text)) @@ tree
     ELSE tree' = tree
  /\ UNCHANGED here

MakeDirectory ==
  /\ told'.verb = "mkdir"
  /\ \/ /\ IsDir(tree, Above(Target)) /\ Target \notin DOMAIN tree
        /\ tree' = (Target :> Directory) @@ tree
     \/ tree' = tree
  /\ UNCHANGED here

(* A file or an empty directory is removed.                                *)
Remove ==
  /\ told'.verb = "rm"
  /\ Target \in DOMAIN tree
  /\ Under(tree, Target) = {}
  /\ tree' = Restrict(tree, DOMAIN tree \ {Target})
  /\ UNCHANGED here

(* After a format the shell may be in a directory that is gone.            *)
Erase ==
  /\ told'.verb = "format"
  /\ tree' = Empty
  /\ UNCHANGED here

Go ==
  /\ told'.verb \in {"cd", "mount"}
  /\ LET there == here' IN IsDir(tree, there)
  /\ UNCHANGED tree

Leave ==
  /\ told'.verb = "unmount"
  /\ UNCHANGED <<tree, here>>

FTNext == Write \/ MakeDirectory \/ Remove \/ Erase \/ Go \/ Leave

FTSpec == FTInit /\ [][FTNext]_ftVars
=============================================================================
