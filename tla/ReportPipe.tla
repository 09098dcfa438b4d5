------------------------------ MODULE ReportPipe ------------------------------
(***************************************************************************)
(* What a host controller's interrupt endpoint is to usb_hid: the reports  *)
(* of the keyboard come through once each and in order, until the endpoint *)
(* breaks; then none does.  One that is not exact may lose a report, or    *)
(* hand over a blank one for the one that came.                            *)
(***************************************************************************)
EXTENDS Sequences

CONSTANTS Reports, NoReport, Blank

VARIABLES
  exact,
  open,
  broken,
  queue,      \* reports on their way
  report      \* the one intr_read gave last

rpVars == <<exact, open, broken, queue, report>>

RPInit ==
  /\ exact \in BOOLEAN
  /\ open = FALSE
  /\ broken = FALSE
  /\ queue = <<>>
  /\ report = NoReport

(* Which controller it is, is known when the endpoint is opened.           *)
Choose ==
  /\ ~open
  /\ exact' \in BOOLEAN
  /\ UNCHANGED <<open, broken, queue, report>>

Open ==
  /\ open' = TRUE
  /\ UNCHANGED <<exact, broken, queue, report>>

Offer ==
  /\ \E r \in Reports : queue' = Append(queue, r)
  /\ UNCHANGED <<exact, open, broken, report>>

(* What came may turn out blank before it is handed over.                  *)
Spoil ==
  /\ ~exact
  /\ \E i \in DOMAIN queue : queue' = [queue EXCEPT ![i] = Blank]
  /\ UNCHANGED <<exact, open, broken, report>>

Lose ==
  /\ ~exact
  /\ queue # <<>>
  /\ queue' = Tail(queue)
  /\ UNCHANGED <<exact, open, broken, report>>

Deliver ==
  /\ open
  /\ ~broken
  /\ queue # <<>>
  /\ report' = Head(queue)
  /\ queue' = Tail(queue)
  /\ UNCHANGED <<exact, open, broken>>

Break ==
  /\ broken' = TRUE
  /\ UNCHANGED <<exact, open, queue, report>>

RPNext == Choose \/ Open \/ Offer \/ Spoil \/ Lose \/ Deliver \/ Break

RPSpec == RPInit /\ [][RPNext]_rpVars
=============================================================================
