----------------------------- MODULE UsbRequests ------------------------------
(***************************************************************************)
(* What the two host controller drivers have in common: the keyboard, the  *)
(* requests that drivers/usb/usb.cpp and usb_hid.cpp make of it one after  *)
(* another, and the order in which drivers/input.cpp tries the             *)
(* controllers.                                                            *)
(***************************************************************************)
EXTENDS Integers, Sequences, FiniteSets

CONSTANTS
  Reports,    \* what the keyboard may report
  NoReport,
  Blank,      \* a report of zeros: no key is down
  Faults      \* what may go wrong: a subset of AllFaults

(* "stall": the device refuses a request or a command fails; "hang": no    *)
(* answer comes; "error": a report is not received; "late": the answer     *)
(* comes after all, to an xHCI driver that has given up on it.             *)
AllFaults == {"stall", "hang", "error", "late"}

ASSUME UsbAssumption ==
  /\ Faults \subseteq AllFaults
  /\ NoReport \notin Reports /\ Blank \notin Reports /\ NoReport # Blank

VARIABLES
  host,       \* the controller requests go to, "xhci" or "ehci"
  untried,    \* those input::init has not come to yet
  g_enumerated,
  step,       \* the request made or to be made, an index of Steps[host]
  pc,         \* "start", "wait", "idle", "copy", "aim" or "failed"
  endpoint,   \* for each ring, "running", "halted" or "hung"
  g_intr_open,
  g_intr_buf,
  waiting,    \* the report the keyboard has for the controller
  report      \* the one intr_read gave last

start   == <<host, untried, g_enumerated, step>>
usbVars == <<start, pc, endpoint, g_intr_open, g_intr_buf, waiting, report>>
-----------------------------------------------------------------------------
(* A command to the xHCI controller is one transfer, a control request its *)
(* two or three stages; those of three stages fetch a descriptor.  The     *)
(* no-op, SET_PROTOCOL and SET_IDLE need not succeed.  Over xHCI the       *)
(* address is set by a command.                                            *)
Commands == {"noop", "enable_slot", "address_device_bsr", "evaluate_context",
             "address_device", "configure_endpoint"}
NoData   == {"set_address", "set_configuration", "set_protocol", "set_idle"}
MayFail  == {"noop", "set_protocol", "set_idle"}

RingOf(s)   == IF s \in Commands THEN "cmd" ELSE "ep0"
StagesOf(s) == IF s \in Commands THEN 1 ELSE IF s \in NoData THEN 2 ELSE 3

Steps ==
  [xhci |-> <<"noop", "enable_slot", "address_device_bsr",
              "device8", "evaluate_context", "address_device",
              "device18", "config9", "config", "set_configuration",
              "hid_config9", "hid_config", "set_protocol", "set_idle",
              "configure_endpoint">>,
   ehci |-> <<"device8", "set_address",
              "device18", "config9", "config", "set_configuration",
              "hid_config9", "hid_config", "set_protocol", "set_idle">>]

Now          == Steps[host][step]
LastStep     == Len(Steps[host])
FirstRequest == CHOOSE k \in DOMAIN Steps[host] : Steps[host][k] = "device8"

UsbInit(machine) ==
  /\ host = IF "xhci" \in machine THEN "xhci" ELSE "ehci"
  /\ untried = machine \ {host}
  /\ g_enumerated = FALSE
  /\ step = 1
  /\ pc = "start"
  /\ endpoint = [r \in {"cmd", "ep0", "intr"} |-> "running"]
  /\ g_intr_open = FALSE
  /\ g_intr_buf = NoReport
  /\ waiting = NoReport
  /\ report = NoReport

(* The next request.  EvaluateContext is made only of a device that states *)
(* another packet size.                                                    *)
Advance(ok) ==
  /\ ok \/ Now \in MayFail
  /\ step < LastStep
  /\ \/ step' = step + 1
     \/ host = "xhci" /\ Now = "device8" /\ step' = step + 2
  /\ g_enumerated' = (g_enumerated \/ Now = "set_configuration")
  /\ pc' = "start"
  /\ UNCHANGED <<host, untried, g_intr_open>>

(* The controller after this one.  xhci::is_present goes on holding when   *)
(* only the keyboard failed, and requests go on to it; a device that was   *)
(* enumerated is not enumerated again.                                     *)
NextController ==
  /\ untried' = {}
  /\ \/ /\ untried # {}
        /\ step < FirstRequest
        /\ host' \in untried
        /\ step' = 1
        /\ pc' = "start"
     \/ /\ untried # {}
        /\ step >= FirstRequest
        /\ ~g_enumerated
        /\ step' = FirstRequest
        /\ pc' = "start"
        /\ UNCHANGED host
     \/ /\ untried = {} \/ g_enumerated
        /\ pc' = "failed"
        /\ UNCHANGED <<host, step>>
  /\ UNCHANGED <<g_enumerated, g_intr_open>>

(* A request failed, or the descriptor is not a keyboard's.                *)
Fail(ok) ==
  /\ Now \notin MayFail
  /\ ~ok \/ StagesOf(Now) = 3
  /\ NextController

OpenInterrupt(ok) ==
  /\ ok \/ Now \in MayFail
  /\ step = LastStep
  /\ g_intr_open' = TRUE
  /\ pc' = "idle"
  /\ UNCHANGED start

(* A keyboard that is configured has a report when its keys change.        *)
KeyboardReports ==
  /\ g_intr_open
  /\ waiting = NoReport
  /\ waiting' \in Reports
  /\ UNCHANGED <<start, pc, endpoint, g_intr_open, g_intr_buf, report>>
=============================================================================
