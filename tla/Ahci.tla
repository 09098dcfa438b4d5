-------------------------------- MODULE Ahci ---------------------------------
(***************************************************************************)
(* drivers/ahci.cpp: one command slot, one buffer, and waits with a bound. *)
(* A step is one test of a wait or what is done between two waits; the     *)
(* host adapter completes the command on its own.                          *)
(***************************************************************************)
EXTENDS Drive

VARIABLES
  ci,         \* bit 0 of PxCI: the slot is with the adapter
  g_buf,      \* the buffer every transfer goes through
  g_ready     \* g_ready and g_port >= 0

ahciVars == <<ci, g_buf, g_ready>>

PrepareFirst(c, i) ==
  g_buf' = IF c.op = "write" THEN c.data[1] ELSE g_buf

(* The first or next sector of the call: a write copies it to the buffer   *)
(* before anything is waited for.                                          *)
Prepare(c, i) ==
  g_buf' = IF c.op = "write" THEN c.data[i] ELSE g_buf

AhciStart(c) ==
  /\ call' = c
  /\ pc' = "not_busy"
  /\ answer' = NoAnswer
  /\ Prepare(c, 1)
  /\ UNCHANGED <<done, got, failed, ci, g_ready>>

NotBusy ==
  /\ pc = "not_busy"
  /\ ~Busy
  /\ pc' = "slot"
  /\ UNCHANGED <<driveVars, call, done, got, answer, failed, ahciVars>>

SlotTaken ==
  /\ pc = "slot"
  /\ order' = [op |-> call.op, lba |-> call.lba + done]
  /\ ci' = TRUE
  /\ status' = "busy"
  /\ pc' = "poll"
  /\ UNCHANGED <<platter, cache, call, done, got, answer, failed, g_buf, g_ready>>

SlotFree ==
  /\ pc = "slot"
  /\ ~ci
  /\ order' = [op |-> call.op, lba |-> call.lba + done]
  /\ ci' = TRUE
  /\ status' = "busy"
  /\ pc' = "poll"
  /\ UNCHANGED <<platter, cache, call, done, got, answer, failed, g_buf, g_ready>>

(* TFD is looked at before CI: an error wins.                              *)
PollError ==
  /\ pc = "poll"
  /\ status = "error"
  /\ Return(Failed)
  /\ UNCHANGED <<driveVars, ahciVars>>

PollDone ==
  LET read == IF call.op = "read" THEN Append(got, g_buf) ELSE got
  IN  /\ pc = "poll"
      /\ status # "error"
      /\ ~ci
      /\ IF done + 1 >= call.count
         THEN Return(read) /\ UNCHANGED g_buf
         ELSE /\ got' = read
              /\ done' = done + 1
              /\ pc' = "not_busy"
              /\ Prepare(call, done + 2)
              /\ UNCHANGED <<call, answer, failed>>
      /\ UNCHANGED <<driveVars, ci, g_ready>>

GiveUpPolling ==
  /\ pc = "poll" /\ ci /\ status = "hung"
  /\ Return(Failed)
  /\ UNCHANGED <<driveVars, ahciVars>>

(* A wait runs out: the drive does not answer, or what is waited for will  *)
(* not happen since the failed command stays in its slot.                  *)
GiveUp ==
  /\ \/ pc = "not_busy" /\ status = "hung"
     \/ pc = "slot" /\ ci /\ status # "busy"
     \/ pc = "poll" /\ ci /\ status = "hung"
  /\ Return(Failed)
  /\ UNCHANGED <<driveVars, ahciVars>>

AhciStep == NotBusy \/ SlotFree \/ PollError \/ PollDone \/ GiveUp
-----------------------------------------------------------------------------
(* The adapter moves the data of the command in the slot and frees it.     *)
Complete ==
  /\ ci
  /\ status = "busy"
  /\ \/ /\ order.op = "read"
        /\ g_buf' = Stored[order.lba]
        /\ UNCHANGED <<platter, cache>>
     \/ /\ order.op = "write"
        /\ Accept(order.lba, g_buf)
        /\ UNCHANGED <<platter, g_buf>>
     \/ /\ order.op = "flush"
        /\ FlushCache
        /\ UNCHANGED g_buf
     \/ /\ order.op = "identify"
        /\ g_buf' = Identity
        /\ UNCHANGED <<platter, cache>>
  /\ ci' = FALSE
  /\ status' = "ready"
  /\ UNCHANGED <<order, g_ready>>

AhciDevice ==
  /\ ci
  /\ \/ Complete
     \/ (Refuse \/ Hang \/ Revive) /\ UNCHANGED ahciVars
  /\ UNCHANGED callVars
=============================================================================
