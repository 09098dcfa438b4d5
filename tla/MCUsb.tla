-------------------------------- MODULE MCUsb --------------------------------
(* Usb for TLC: small rings, so that each wraps several times; the one for *)
(* control requests holds two of them, as many as are left in it when one  *)
(* was refused.  Two reports, and machines with EHCI and with both.        *)
EXTENDS Usb

MCUsable   == [cmd |-> 2, ep0 |-> 6, intr |-> 2]
MCMachines == {{"ehci"}, {"xhci", "ehci"}}
=============================================================================
