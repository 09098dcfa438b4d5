----------------------------- MODULE MCKeyboard ------------------------------
(***************************************************************************)
(* Keyboard for TLC: a letter, a line of one character.  A USB report has  *)
(* one bit for Shift here, so one of the two keys is enough; and after a   *)
(* report that was blank or lost there is one on its way at a time.        *)
(***************************************************************************)
EXTENDS Keyboard

OneShiftOverUsb == Usb => "rshift" \notin shifts

OneWhenMisled == Usb /\ misled => Len(queue) <= 1
=============================================================================
