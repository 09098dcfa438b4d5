-------------------------------- MODULE Ehci ----------------------------------
(***************************************************************************)
(* drivers/usb/ehci.cpp: a control request is a chain of two or three      *)
(* descriptors under one queue head, set up while the asynchronous         *)
(* schedule is stopped; the keyboard's reports come through one descriptor *)
(* that is set up again, word by word, while the periodic schedule runs.   *)
(***************************************************************************)
EXTENDS UsbRequests

VARIABLES
  active,     \* stages of the control request still marked active
  token,      \* of the interrupt queue head: "off", "active", "done", "error"
  aimed,      \* whether its buffer pointers are at the start of the buffer
  toggle      \* the data toggle of the keyboard's next report, 0 or 1

ehciVars == <<active, token, aimed, toggle>>

EhciInit ==
  /\ active = 0
  /\ token = "off"
  /\ aimed = FALSE
  /\ toggle = 0
-----------------------------------------------------------------------------
(* control writes the queue head anew, whatever became of the last one.    *)
EhciStart ==
  /\ host = "ehci"
  /\ pc = "start"
  /\ active' = StagesOf(Now)
  /\ endpoint' = [endpoint EXCEPT !["ep0"] = "running"]
  /\ pc' = "wait"
  /\ UNCHANGED <<start, g_intr_open, g_intr_buf, waiting, report, token, aimed>>

EhciProceed(ok) ==
  \/ Advance(ok) /\ UNCHANGED <<token, aimed>>
  \/ Fail(ok) /\ UNCHANGED <<token, aimed>>
  \/ OpenInterrupt(ok) /\ token' = "active" /\ aimed' = TRUE
  \/ /\ step = LastStep
     /\ "hang" \in Faults    \* the periodic schedule does not start
     /\ NextController
     /\ UNCHANGED <<token, aimed>>

(* The status stage is inactive, or the queue head halted, or neither in   *)
(* XFER_TIMEOUT.                                                           *)
EhciWait ==
  /\ host = "ehci"
  /\ pc = "wait"
  /\ active = 0 \/ endpoint["ep0"] # "running"
  /\ EhciProceed(active = 0)
  /\ UNCHANGED <<active, endpoint, g_intr_buf, waiting, report>>

(* intr_read: a report is copied, one in error is not; either way the      *)
(* descriptor is made active again, and after that aimed at the buffer.    *)
(* The word that makes it active holds the toggle as well: always 0.       *)
EhciRead_ErrorIgnored ==
  /\ host = "ehci"
  /\ pc = "idle"
  /\ token = "done"
  /\ report' = g_intr_buf
  /\ g_intr_buf' = NoReport
  /\ token' = "active"
  /\ aimed' = FALSE
  /\ pc' = "aim"
  /\ UNCHANGED <<start, endpoint, g_intr_open, waiting, active>>

EhciRead ==
  /\ host = "ehci"
  /\ pc = "idle"
  /\ token \in {"done", "error"}
  /\ report' = IF token = "done" THEN g_intr_buf ELSE report
  /\ g_intr_buf' = NoReport
  /\ token' = "active"
  /\ aimed' = FALSE
  /\ pc' = "aim"
  /\ UNCHANGED <<start, endpoint, g_intr_open, waiting, active>>

Aim ==
  /\ pc = "aim"
  /\ aimed' = TRUE
  /\ pc' = "idle"
  /\ UNCHANGED <<start, endpoint, g_intr_open, g_intr_buf, waiting, report, active, token>>

EhciDriver == (EhciStart \/ EhciWait \/ EhciRead \/ Aim) /\ UNCHANGED toggle
-----------------------------------------------------------------------------
(* The controller works on the schedules without being told to.  Between   *)
(* the stages of a control request it keeps the toggle itself.             *)
Runs == host = "ehci" /\ pc = "wait" /\ active > 0 /\ endpoint["ep0"] = "running"

Stage ==
  /\ Runs
  /\ active' = active - 1
  /\ UNCHANGED <<endpoint, g_intr_buf, waiting, token, toggle>>

NoStage ==
  /\ Runs
  /\ \/ "stall" \in Faults /\ endpoint' = [endpoint EXCEPT !["ep0"] = "halted"]
     \/ "hang" \in Faults /\ endpoint' = [endpoint EXCEPT !["ep0"] = "hung"]
  /\ UNCHANGED <<active, g_intr_buf, waiting, token, toggle>>

(* A report that comes before the pointers are set goes behind the one     *)
(* read last, and the place intr_read looks at keeps its zeros.            *)
Receive ==
  /\ token = "active"
  /\ waiting # NoReport
  /\ toggle = 0
  /\ g_intr_buf' = IF aimed THEN waiting ELSE Blank
  /\ waiting' = NoReport
  /\ token' = "done"
  /\ toggle' = 1
  /\ UNCHANGED <<endpoint, active>>

(* A report with the other toggle is taken for one that came before: the   *)
(* controller acknowledges it, drops it, and the transfer stays active.    *)
Discard ==
  /\ token = "active"
  /\ waiting # NoReport
  /\ toggle = 1
  /\ waiting' = NoReport
  /\ toggle' = 0
  /\ UNCHANGED <<endpoint, active, g_intr_buf, token>>

NotReceived ==
  /\ "error" \in Faults
  /\ token = "active"
  /\ waiting # NoReport
  /\ token' = "error"
  /\ UNCHANGED <<endpoint, active, g_intr_buf, waiting, toggle>>

EhciController ==
  /\ Stage \/ NoStage \/ Receive \/ Discard \/ NotReceived
  /\ UNCHANGED <<start, pc, g_intr_open, report, aimed>>
=============================================================================
