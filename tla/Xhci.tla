-------------------------------- MODULE Xhci ---------------------------------
(***************************************************************************)
(* drivers/usb/xhci.cpp: three transfer rings and one event ring shared    *)
(* with the controller through cycle bits, commands and control transfers  *)
(* that wait for an event, and the one transfer the keyboard's reports go  *)
(* through.  The controller acts on its own.                               *)
(***************************************************************************)
EXTENDS UsbRequests

CONSTANTS
  Usable,     \* for each ring, the transfers it holds: USABLE_TRBS for all
  EventTrbs,  \* events the event ring holds, RING_TRBS
  PortChanges \* how often a port may change: a bound

ASSUME XhciAssumption ==
  /\ Usable \in [{"cmd", "ep0", "intr"} -> Nat \ {0, 1}]
  /\ EventTrbs \in Nat \ {0, 1}
  /\ PortChanges \in Nat

VARIABLES
  rings,      \* the transfer rings, both ends
  events,     \* the event ring, both ends
  owed,       \* for each ring, what was enqueued and not yet carried out
  posted,     \* the events posted and not yet taken
  bell,       \* for each ring, whether the controller was told to look
  changes     \* of the ports, so far

xhciVars == <<rings, events, owed, posted, bell, changes>>
-----------------------------------------------------------------------------
(* Rings: a slot belongs to whoever its cycle bit says.  The driver turns  *)
(* its cycle at the link that closes the ring, the controller when it      *)
(* follows that link.  What stands in a slot that is the controller's is   *)
(* in owed, or in posted.                                                  *)
Rings == {"cmd", "ep0", "intr"}
Flip(c) == 1 - c

ring_init(size) ==
  [size |-> size, bits |-> [i \in 0 .. size |-> 0], enq |-> 0, cycle |-> 1, deq |-> 0, ccs |-> 1]

ring_enqueue_WithoutToggle(r) ==
  IF r.enq + 1 < r.size
  THEN [r EXCEPT !.bits[r.enq] = r.cycle, !.enq = @ + 1]
  ELSE [r EXCEPT !.bits[r.enq] = r.cycle, !.bits[r.size] = r.cycle, !.enq = 0]

ring_enqueue(r) ==
  IF r.enq + 1 < r.size
  THEN [r EXCEPT !.bits[r.enq] = r.cycle, !.enq = @ + 1]
  ELSE [r EXCEPT !.bits[r.enq] = r.cycle, !.bits[r.size] = r.cycle,
                 !.enq = 0, !.cycle = Flip(@)]

Enqueued(r, n) ==
  LET after[i \in 0 .. n] == IF i = 0 THEN r ELSE ring_enqueue(after[i - 1])
  IN  after[n]

Enqueue(ring, items) ==
  /\ rings' = [rings EXCEPT ![ring] = Enqueued(@, Len(items))]
  /\ owed' = [owed EXCEPT ![ring] = @ \o items]
  /\ bell' = [bell EXCEPT ![ring] = TRUE]

(* The controller looks at a ring it was told to, until a bit disagrees.   *)
Finds(ring) ==
  LET r == rings[ring]
  IN  bell[ring] /\ endpoint[ring] = "running" /\ r.bits[r.deq] = r.ccs

(* How many transfers the controller finds from where it is, as long as    *)
(* the bits agree, and the driver events.                                  *)
Visible(r) ==
  LET size    == r.size + 1
      turn(i) == IF r.deq + i >= size THEN Flip(r.ccs) ELSE r.ccs
  IN  Cardinality({i \in 0 .. r.size :
        /\ (r.deq + i) % size # r.size
        /\ \A j \in 0 .. i : r.bits[(r.deq + j) % size] = turn(j)})

VisibleEvents ==
  LET turn(i) == IF events.deq + i >= EventTrbs THEN Flip(events.cycle) ELSE events.cycle
  IN  Cardinality({i \in 0 .. EventTrbs - 1 :
        \A j \in 0 .. i : events.bits[(events.deq + j) % EventTrbs] = turn(j)})
-----------------------------------------------------------------------------
Items(k) ==
  LET stages == StagesOf(Steps[host][k])
  IN  [i \in 1 .. stages |-> [step |-> k, last |-> i = stages]]

(* The keyboard's own transfer, enqueued again after every report.         *)
NormalTrb == [step |-> LastStep + 1, last |-> TRUE]

XhciInit ==
  /\ rings = [r \in Rings |-> ring_init(Usable[r])]
  /\ events = [bits |-> [i \in 0 .. EventTrbs - 1 |-> 0],
               deq |-> 0, cycle |-> 1, enq |-> 0, pcs |-> 1]
  /\ owed = [r \in Rings |-> <<>>]
  /\ posted = <<>>
  /\ bell = [r \in Rings |-> FALSE]
  /\ changes = 0
-----------------------------------------------------------------------------
(* poll_event: the event at the front, taken.                              *)
TakeEvent ==
  /\ events.bits[events.deq] = events.cycle
  /\ posted' = Tail(posted)
  /\ events' = [events EXCEPT !.deq   = (@ + 1) % EventTrbs,
                              !.cycle = IF events.deq + 1 = EventTrbs THEN Flip(@) ELSE @]

Event == Head(posted)

XhciStart ==
  /\ host = "xhci"
  /\ pc = "start"
  /\ Enqueue(RingOf(Now), Items(step))
  /\ pc' = "wait"
  /\ UNCHANGED <<start, events, posted, endpoint, g_intr_open, report, g_intr_buf, waiting>>

XhciProceed(ok) ==
  \/ Advance(ok) /\ UNCHANGED <<rings, owed, bell>>
  \/ Fail(ok) /\ UNCHANGED <<rings, owed, bell>>
  \/ OpenInterrupt(ok) /\ Enqueue("intr", <<NormalTrb>>)

(* do_command takes the first command completion, control the first event  *)
(* of its endpoint; both drop every other event.                           *)
Mine(e) == e.ring = RingOf(Now)

XhciWait ==
  /\ host = "xhci"
  /\ pc = "wait"
  /\ TakeEvent
  /\ IF Mine(Event)
     THEN XhciProceed(Event.ok)
     ELSE UNCHANGED <<rings, owed, bell, start, pc, g_intr_open>>
  /\ UNCHANGED <<endpoint, report, g_intr_buf, waiting>>

TimeOut ==
  /\ host = "xhci"
  /\ pc = "wait"
  /\ posted = <<>>
  /\ ~Finds(RingOf(Now))
  /\ XhciProceed(FALSE)
  /\ UNCHANGED <<events, posted, endpoint, report, g_intr_buf, waiting>>

(* intr_read takes one event; anything but a report is dropped, and after  *)
(* a transfer that failed none is enqueued.                                *)
XhciRead_Early ==
  /\ host = "xhci"
  /\ pc = "idle"
  /\ TakeEvent
  /\ IF Event.ring = "intr" /\ Event.ok
     THEN pc' = "copy" /\ Enqueue("intr", <<NormalTrb>>)
     ELSE UNCHANGED <<pc, rings, owed, bell>>
  /\ UNCHANGED <<endpoint, start, g_intr_open, report, g_intr_buf, waiting>>

XhciRead ==
  /\ host = "xhci"
  /\ pc = "idle"
  /\ TakeEvent
  /\ pc' = IF Event.ring = "intr" /\ Event.ok THEN "copy" ELSE "idle"
  /\ UNCHANGED <<rings, owed, bell, endpoint, start, g_intr_open, report, g_intr_buf, waiting>>

Copy ==
  /\ host = "xhci"
  /\ pc = "copy"
  /\ report' = g_intr_buf
  /\ g_intr_buf' = NoReport
  /\ Enqueue("intr", <<NormalTrb>>)
  /\ pc' = "idle"
  /\ UNCHANGED <<events, posted, endpoint, start, g_intr_open, waiting>>

XhciDriver ==
  /\ XhciStart \/ XhciWait \/ TimeOut \/ XhciRead \/ Copy
  /\ UNCHANGED changes
-----------------------------------------------------------------------------
(* The controller posts an event unless the ring is full.                  *)
Post(e) ==
  /\ Len(posted) < EventTrbs - 1
  /\ posted' = Append(posted, e)
  /\ events' = [events EXCEPT
       !.bits[events.enq] = events.pcs,
       !.enq = (@ + 1) % EventTrbs,
       !.pcs = IF events.enq + 1 = EventTrbs THEN Flip(@) ELSE @]

(* It carries out the transfers of a ring it was told to look at, those of *)
(* the keyboard when there is a report.                                    *)
Past(r) ==
  [r EXCEPT !.deq = IF @ = r.size THEN 0 ELSE @ + 1,
            !.ccs = IF r.deq = r.size THEN Flip(@) ELSE @]

Passed(ring) == rings' = [rings EXCEPT ![ring] = Past(@)]

AtLink(ring) == rings[ring].deq = rings[ring].size
Item(ring)   == Head(owed[ring])

FollowLink(ring) ==
  /\ Finds(ring)
  /\ AtLink(ring)
  /\ Passed(ring)
  /\ UNCHANGED <<events, posted, owed, endpoint, g_intr_buf, waiting>>

Execute(ring) ==
  /\ Finds(ring)
  /\ ~AtLink(ring)
  /\ ring = "intr" => waiting # NoReport
  /\ Passed(ring)
  /\ owed' = [owed EXCEPT ![ring] = Tail(@)]
  /\ IF Item(ring).last
     THEN Post([ring |-> ring, step |-> Item(ring).step, ok |-> TRUE])
     ELSE UNCHANGED <<events, posted>>
  /\ IF ring = "intr"
     THEN g_intr_buf' = waiting /\ waiting' = NoReport
     ELSE UNCHANGED <<g_intr_buf, waiting>>
  /\ UNCHANGED endpoint

(* A command that fails is done with; an endpoint whose transfer fails is  *)
(* halted, and stays where it is.                                          *)
Refuse(ring) ==
  /\ (IF ring = "intr" THEN "error" ELSE "stall") \in Faults
  /\ Finds(ring)
  /\ ~AtLink(ring)
  /\ Post([ring |-> ring, step |-> Item(ring).step, ok |-> FALSE])
  /\ IF ring = "cmd"
     THEN /\ Passed(ring)
          /\ owed' = [owed EXCEPT ![ring] = Tail(@)]
          /\ UNCHANGED endpoint
     ELSE /\ endpoint' = [endpoint EXCEPT ![ring] = "halted"]
          /\ UNCHANGED <<rings, owed>>
  /\ UNCHANGED <<g_intr_buf, waiting>>

Hang(ring) ==
  /\ "hang" \in Faults
  /\ Finds(ring)
  /\ ~AtLink(ring)
  /\ endpoint' = [endpoint EXCEPT ![ring] = "hung"]
  /\ UNCHANGED <<rings, events, owed, posted, g_intr_buf, waiting>>

(* After the driver has given up the controller may go on: nothing was     *)
(* taken back.                                                             *)
Revive(ring) ==
  /\ "late" \in Faults
  /\ host = "xhci" /\ pc # "wait" /\ ring # "intr"
  /\ endpoint[ring] = "hung"
  /\ endpoint' = [endpoint EXCEPT ![ring] = "running"]
  /\ UNCHANGED <<rings, events, owed, posted, g_intr_buf, waiting>>

XhciController ==
  /\ \E ring \in Rings :
       FollowLink(ring) \/ Execute(ring) \/ Refuse(ring) \/ Hang(ring) \/ Revive(ring)
  /\ UNCHANGED <<start, pc, g_intr_open, report, bell, changes>>

PortChange ==
  /\ host = "xhci"
  /\ changes < PortChanges
  /\ changes' = changes + 1
  /\ Post([ring |-> "port", step |-> 0, ok |-> TRUE])
  /\ UNCHANGED <<rings, owed, bell, usbVars>>
=============================================================================
