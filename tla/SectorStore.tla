----------------------------- MODULE SectorStore -----------------------------
(***************************************************************************)
(* What drivers/disk.hpp promises the file systems: a store of sectors.  A *)
(* read that answers true gave what the sectors hold; a write that answers *)
(* true wrote all of its sectors, one that answers false wrote some of     *)
(* them whole and the others not; and after a flush that answers true a    *)
(* loss of power changes nothing.  A drive may refuse the last sector of a *)
(* write, or the flush, unheeded: then true says nothing of the one or the *)
(* other.                                                                  *)
(***************************************************************************)
EXTENDS Naturals, Sequences

CONSTANTS
  Sectors,
  Values,     \* what a sector may hold
  Calls,      \* [op, lba, data, count] records
  NoCall, NoAnswer, Failed

VARIABLES
  stored,     \* what a read of each sector gives
  since,      \* what each sector may hold after a loss of power
  call,       \* the call in progress
  answer,     \* the answer to the last call: Failed or what was read
  unheeded    \* whether the drive refused and the driver did not look: given

ssVars == <<stored, since, call, answer>>

SSInit ==
  /\ stored \in [Sectors -> Values]
  /\ since = [s \in Sectors |-> {stored[s]}]
  /\ call = NoCall
  /\ answer = NoAnswer

Begin ==
  /\ call = NoCall
  /\ call' \in Calls
  /\ answer' = NoAnswer
  /\ UNCHANGED <<stored, since>>

(* The drive moves sectors to where they outlive a loss of power, and they *)
(* have fewer contents left to fall back to than the bound says.           *)
MaySettle(bound) ==
  \A s \in Sectors : stored'[s] \in since'[s] /\ since'[s] \subseteq bound[s]

(* One sector of the write in progress reaches the drive.                  *)
Land ==
  LET old == stored
  IN  /\ call # NoCall
      /\ call.op = "write"
      /\ \E i \in 1 .. call.count :
           /\ stored' = [old EXCEPT ![call.lba + i - 1] = call.data[i]]
           /\ MaySettle([since EXCEPT ![call.lba + i - 1] = @ \cup {call.data[i]}])
      /\ UNCHANGED <<call, answer>>

Settle ==
  /\ MaySettle(since)
  /\ UNCHANGED <<stored, call, answer>>

Succeed ==
  /\ call # NoCall
  /\ call.op = "read" =>
       answer' = [i \in 1 .. call.count |-> stored[call.lba + i - 1]]
  /\ call.op = "write" =>
       \A i \in 1 .. call.count :
         stored[call.lba + i - 1] = call.data[i] \/ (unheeded /\ i = call.count)
  /\ call.op = "flush" => unheeded \/ \A s \in Sectors : since[s] = {stored[s]}
  /\ answer' # Failed
  /\ call' = NoCall
  /\ UNCHANGED <<stored, since>>

Fail ==
  /\ call # NoCall
  /\ call' = NoCall
  /\ answer' = Failed
  /\ UNCHANGED <<stored, since>>

(* The machine is reset, or loses power and with it what had not settled.  *)
Restart ==
  /\ MaySettle(since)
  /\ call' = NoCall
  /\ answer' = NoAnswer

SSNext == Begin \/ Land \/ Settle \/ Succeed \/ Fail \/ Restart

SSSpec == SSInit /\ [][SSNext]_ssVars
=============================================================================
