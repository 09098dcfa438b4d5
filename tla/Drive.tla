-------------------------------- MODULE Drive --------------------------------
(***************************************************************************)
(* The drive as the two drivers use it, and the call they are serving.     *)
(* The drive has a write cache: what it accepts is read back at once but   *)
(* is lost with the power until it is on the platter.  It may refuse a     *)
(* command, or stop answering.                                             *)
(***************************************************************************)
EXTENDS Integers, Sequences, FiniteSets, Functions, TLC

CONSTANTS
  NumSectors, \* size of the drive
  Values,     \* what a sector may hold
  Counts,     \* how many sectors a call reads or writes
  Faults,     \* what the drive may do: a subset of AllFaults
  NoCall, NoAnswer, Failed

(* "error": refuse a command or a sector; "hang": stop answering; "late":  *)
(* answer after all.                                                       *)
AllFaults == {"error", "hang", "late"}

ASSUME DriveAssumption ==
  /\ NumSectors \in Nat \ {0}
  /\ Counts \subseteq Nat \ {0}
  /\ Faults \subseteq AllFaults

Sectors == 0 .. NumSectors - 1

VARIABLES
  platter,    \* what outlives the power
  cache,      \* sectors accepted and not yet on the platter
  status,     \* "ready", "busy", "data" (DRQ), "error" (ERR), "hung"
  order,      \* the command the drive was given
  call,       \* the call of disk.hpp in progress
  pc,         \* where in the driver it is
  done,       \* how many of its sectors are done
  got,        \* what it has read
  answer,     \* what the last call answered
  failed      \* whether a call has failed since the drivers were started

driveVars  == <<platter, cache, status, order>>
callVars   == <<call, pc, done, got, answer, failed>>

Identity == [identity |-> TRUE]
NoOrder == [op |-> "none", lba |-> 0]
Stored  == [s \in Sectors |-> IF s \in DOMAIN cache THEN cache[s] ELSE platter[s]]
Busy    == status \in {"busy", "hung"}

(* A call of n sectors at lba; the data is what a write is given.          *)
RunsOf(n) == {s \in Sectors : s + n - 1 \in Sectors}
Calls ==
  (UNION {[op : {"read"}, lba : RunsOf(n), data : {<<>>}, count : {n}]
            \cup [op : {"write"}, lba : RunsOf(n), data : [1 .. n -> Values], count : {n}]
          : n \in Counts})
    \cup {[op |-> "flush", lba |-> 0, data |-> <<>>, count |-> 0]}

Accept(s, v) ==
  cache' = [t \in DOMAIN cache \cup {s} |-> IF t = s THEN v ELSE cache[t]]

(* The marks for no call and for a call that failed are neither.           *)
Answers == UNION {[1 .. n -> Values] : n \in 0 .. NumSectors}
ASSUME MarksAssumption == NoCall \notin Calls /\ Failed \notin Answers

FlushCache == platter' = Stored /\ cache' = <<>>

(* The call returns true, having read d, or false.                         *)
Return(d) ==
  /\ answer' = d
  /\ failed' = (failed \/ d = Failed)
  /\ call' = NoCall
  /\ pc' = "idle"
  /\ done' = 0
  /\ got' = <<>>
-----------------------------------------------------------------------------
(* The drive writes a cached sector to the platter in its own time.        *)
Destage ==
  /\ \E s \in DOMAIN cache :
       /\ platter' = [platter EXCEPT ![s] = cache[s]]
       /\ cache' = Restrict(cache, DOMAIN cache \ {s})
  /\ UNCHANGED <<status, order>>

Hang ==
  /\ "hang" \in Faults
  /\ status = "busy"
  /\ status' = "hung"
  /\ UNCHANGED <<platter, cache, order>>

Revive ==
  /\ "late" \in Faults
  /\ status = "hung"
  /\ status' = "busy"
  /\ UNCHANGED <<platter, cache, order>>

Refuse ==
  /\ "error" \in Faults
  /\ status = "busy"
  /\ status' = "error"
  /\ UNCHANGED <<platter, cache, order>>
=============================================================================
