--------------------------------- MODULE Ata ---------------------------------
(***************************************************************************)
(* drivers/ata.cpp: programmed input and output on the legacy ports.  The  *)
(* driver waits for BSY to clear without a bound, and moves each sector's  *)
(* words itself when the drive raises DRQ.                                 *)
(***************************************************************************)
EXTENDS Drive

CONSTANT AtaSectors   \* how many sectors the 28 address bits reach
ASSUME AtaAssumption == AtaSectors \in Nat \ {0}

VARIABLES
  words,      \* the sector the drive was given last, or <<>>
  unheeded    \* whether it refused what the driver asks no status of (a ghost)

ataVars == <<words, unheeded>>

Addressed(lba) == lba % AtaSectors

(* flush() sends its command at once, the others wait for the drive.       *)
AtaStart(c) ==
  /\ call' = c
  /\ pc' = IF c.op = "flush" THEN "cache_flush" ELSE "wait_bsy"
  /\ answer' = NoAnswer
  /\ UNCHANGED <<done, got, failed>>

(* Drive, count, address and command registers.                            *)
WaitBsy ==
  /\ pc = "wait_bsy"
  /\ ~Busy
  /\ order' = [op |-> call.op, lba |-> Addressed(call.lba)]
  /\ status' = "busy"
  /\ pc' = "wait_drq"
  /\ UNCHANGED <<platter, cache, call, done, got, answer, failed, ataVars>>

NoDrq ==
  /\ pc = "wait_drq"
  /\ ~Busy
  /\ status # "data"
  /\ Return(Failed)
  /\ UNCHANGED <<driveVars, ataVars>>

(* The words of one sector are read; after the last the drive is done.     *)
DataIn ==
  LET offered == IF call.op = "identify" THEN Identity
                                         ELSE Stored[Addressed(call.lba + done)]
      read == Append(got, offered)
  IN  /\ pc = "wait_drq"
      /\ status = "data"
      /\ call.op # "write"
      /\ IF done + 1 = call.count
         THEN Return(read) /\ status' = "ready"
         ELSE /\ got' = read
              /\ done' = done + 1
              /\ status' = "busy"
              /\ UNCHANGED <<call, pc, answer, failed>>
      /\ UNCHANGED <<platter, cache, order, ataVars>>

(* The words of one sector are written; after the last comes the command   *)
(* to flush, whether or not the drive is still busy with the sector.       *)
DataOut ==
  /\ pc = "wait_drq"
  /\ status = "data"
  /\ call.op = "write"
  /\ words' = <<call.data[done + 1]>>
  /\ order' = [order EXCEPT !.lba = Addressed(call.lba + done)]
  /\ status' = "busy"
  /\ done' = done + 1
  /\ pc' = IF done + 1 = call.count THEN "cache_flush" ELSE "wait_drq"
  /\ UNCHANGED <<platter, cache, call, got, answer, failed, unheeded>>

(* 0xE7: an idle drive starts to flush, a busy one may not see it.         *)
SendFlush ==
  /\ pc = "cache_flush"
  /\ IF Busy THEN UNCHANGED <<order, status>>
             ELSE order' = [op |-> "flush", lba |-> 0] /\ status' = "busy"
  /\ pc' = "last_bsy"
  /\ UNCHANGED <<platter, cache, call, done, got, answer, failed, ataVars>>

(* The call succeeds: ERR is not looked at.                                *)
LastBsy ==
  /\ pc = "last_bsy"
  /\ ~Busy
  /\ Return(<<>>)
  /\ unheeded' = FALSE
  /\ UNCHANGED <<driveVars, words>>

AtaStep == WaitBsy \/ NoDrq \/ DataIn \/ DataOut \/ SendFlush \/ LastBsy
-----------------------------------------------------------------------------
(* The drive stores the sector it was given, then asks for the next one if *)
(* there is one, or offers the sector to be read.                          *)
Store ==
  /\ status = "busy"
  /\ words # <<>>
  /\ Accept(order.lba, words[1])
  /\ words' = <<>>
  /\ status' = IF done < call.count THEN "data" ELSE "ready"
  /\ UNCHANGED <<platter, order, unheeded>>

Offer ==
  /\ status = "busy"
  /\ words = <<>>
  /\ order.op \in {"read", "write", "identify"}
  /\ status' = "data"
  /\ UNCHANGED <<platter, cache, order, ataVars>>

Flush ==
  /\ status = "busy"
  /\ order.op = "flush"
  /\ FlushCache
  /\ status' = "ready"
  /\ UNCHANGED <<order, ataVars>>

(* The drive refuses a command or a sector.  The driver sees that DRQ is   *)
(* missing; after the last sector, and of FLUSH CACHE, it sees nothing.    *)
RefuseSector ==
  /\ Refuse
  /\ words' = <<>>
  /\ unheeded' = (unheeded \/ pc \in {"cache_flush", "last_bsy"})

AtaDevice ==
  /\ Store \/ Offer \/ Flush \/ RefuseSector \/ ((Hang \/ Revive) /\ UNCHANGED ataVars)
  /\ UNCHANGED callVars
=============================================================================
