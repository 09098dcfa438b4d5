------------------------------ MODULE MCFat32 ------------------------------
(***************************************************************************)
(* A volume of four clusters of two slots each: a directory below the      *)
(* root is full with its dot entries, and grows with its first entry.      *)
(***************************************************************************)
EXTENDS Fat32

CONSTANTS A, B

MCNames == {A, B}

Symmetry == Permutations(MCNames)
=============================================================================
