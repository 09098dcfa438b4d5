----------------------------- MODULE LiveBlocks -----------------------------
(***************************************************************************)
(* What mm/heap.hpp promises its callers: a set of live blocks, each at an *)
(* aligned address, that never overlap and never change but by the call    *)
(* made for them.  krealloc that has to move a block is a Malloc of the    *)
(* new one followed by a Free of the old one.                              *)
(***************************************************************************)
EXTENDS Integers

CONSTANT Align

VARIABLE live   \* the blocks callers hold: address and requested size

Apart(a, b) == a.ptr + a.size <= b.ptr \/ b.ptr + b.size <= a.ptr

LBInit == live = {}

Malloc ==
  \E b \in live' \ live :
    /\ b.size > 0 /\ b.ptr > 0 /\ b.ptr % Align = 0
    /\ \A c \in live : Apart(b, c)
    /\ live' = live \cup {b}

Free == \E b \in live : live' = live \ {b}

Shrink ==
  \E b \in live, c \in live' :
    /\ c.ptr = b.ptr /\ c.size \in 1 .. b.size
    /\ live' = (live \ {b}) \cup {c}

LBNext == Malloc \/ Free \/ Shrink

LBSpec == LBInit /\ [][LBNext]_live
=============================================================================
