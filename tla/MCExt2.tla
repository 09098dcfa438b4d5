------------------------------- MODULE MCExt2 -------------------------------
(***************************************************************************)
(* Two groups of eight blocks, the second cut short by the partition's     *)
(* end; one direct block and two pointers to a block, so that a file of    *)
(* two blocks and a directory of two names need indirection, and a file of *)
(* four blocks, for which only the larger volume has room, needs it twice. *)
(* On the larger volume users keep to one name.                            *)
(***************************************************************************)
EXTENDS Ext2Tree

CONSTANTS A, B

MCNames == {A, B}

Symmetry == Permutations(MCNames)

(* What was told last matters to the step that it tells of only. *)
View == vars

OneNameOnLarge ==
  volume.total > 14 =>
    \E name \in Names : \A p \in DOMAIN tree : \A i \in DOMAIN p : p[i] = name

(* The second text is written to one file of one block at a time. *)
SecondTextShort ==
  LET second == {p \in DOMAIN tree : ~tree[p].dir /\ Text("u") \in ToSet(tree[p].holds)}
  IN  /\ Cardinality(second) <= 1
      /\ \A p \in second : volume.total = 14 /\ Len(tree[p].holds) = 1
=============================================================================
