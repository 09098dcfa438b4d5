--------------------------------- MODULE Usb ----------------------------------
(***************************************************************************)
(* The USB keyboard from input::init on: xHCI is tried first, then EHCI,   *)
(* each request goes to xHCI if that is present, and the reports come      *)
(* through the controller the keyboard was found on.                       *)
(***************************************************************************)
EXTENDS Xhci, Ehci

CONSTANT Machines   \* sets of controllers: a machine has one of these

ASSUME MachinesAssumption ==
  Machines \subseteq (SUBSET {"xhci", "ehci"}) \ {{}}

vars == <<usbVars, xhciVars, ehciVars>>

Init ==
  /\ \E machine \in Machines : UsbInit(machine)
  /\ XhciInit
  /\ EhciInit

DriverStep ==
  \/ XhciDriver /\ UNCHANGED ehciVars
  \/ EhciDriver /\ UNCHANGED xhciVars

ControllerStep ==
  \/ XhciController /\ UNCHANGED ehciVars
  \/ EhciController /\ UNCHANGED xhciVars

Environment ==
  \/ PortChange /\ UNCHANGED ehciVars
  \/ KeyboardReports /\ UNCHANGED <<xhciVars, ehciVars>>

Next == DriverStep \/ ControllerStep \/ Environment

(* usb_hid polls as long as the shell waits for a key, the controllers     *)
(* carry out what they are told to, and no report is in error for ever.    *)
Received == EhciController /\ toggle' # toggle /\ UNCHANGED xhciVars

Spec ==
  /\ Init /\ [][Next]_vars
  /\ WF_vars(DriverStep) /\ WF_vars(ControllerStep)
  /\ SF_vars(Received)
-----------------------------------------------------------------------------
(* Whatever has wrapped how often, the cycle bits show the controller the  *)
(* transfers enqueued and not carried out, all of them and none that is    *)
(* stale; and the driver the events posted and not taken.  The event a     *)
(* request takes for its own, which the code tells by its ring only, is    *)
(* its own and not an earlier one's.                                       *)
RingsAgree ==
  /\ \A r \in Rings : Visible(rings[r]) = Len(owed[r])
  /\ VisibleEvents = Len(posted)
  /\ host = "xhci" /\ pc = "wait" =>
       \A i \in DOMAIN posted : Mine(posted[i]) => posted[i].step = step

(* The buffer holds a report from the moment it was received until         *)
(* intr_read has copied it.                                                *)
Unread ==
  \/ host = "xhci" /\ (pc = "copy" \/ \E i \in DOMAIN posted :
                                        posted[i].ring = "intr" /\ posted[i].ok)
  \/ host = "ehci" /\ token = "done"
Queue  == (IF Unread THEN <<g_intr_buf>> ELSE <<>>)
            \o (IF waiting # NoReport THEN <<waiting>> ELSE <<>>)
Broken == endpoint["intr"] # "running"

Promised == INSTANCE ReportPipe WITH
  exact <- host = "xhci", open <- g_intr_open, broken <- Broken, queue <- Queue

(* No report is repeated, overtaken or overwritten in the buffer; over     *)
(* xHCI none is lost or blanked, over EHCI it may be.                      *)
ImplementsReportPipe == Promised!RPSpec

(* Whether the first report on its way is one the controller stores: EHCI  *)
(* expects the same toggle each time, and the keyboard turns its own.      *)
Expected == host = "xhci" \/ Unread \/ toggle = 0

(* The start comes to an end, whatever the controllers do, and from then   *)
(* on each report that is stored is read, or a blank one for it, unless    *)
(* the endpoint breaks.  Over EHCI every second one is not stored: it is   *)
(* dropped, and the one after it comes through again.                      *)
ReportsComeThrough ==
  /\ <>(pc = "failed" \/ g_intr_open)
  /\ \A r \in Reports :
       (g_intr_open /\ Queue # <<>> /\ Head(Queue) = r /\ Expected)
          ~> (report \in {r, Blank} \/ Broken)
  /\ (waiting # NoReport /\ ~Expected) ~> (waiting = NoReport /\ Expected)
=============================================================================
