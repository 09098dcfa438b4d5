------------------------------- MODULE Keyboard -------------------------------
(***************************************************************************)
(* From the keys to the shell's line: drivers/usb/usb_hid.cpp over an      *)
(* interrupt endpoint, which is ReportPipe and implemented by Usb, or      *)
(* drivers/ps2.cpp over scancodes; drivers/input.cpp, which asks the one   *)
(* or the other; and the line editor of shell/shell.cpp.                   *)
(***************************************************************************)
EXTENDS Integers, Sequences, FiniteSets, SequencesExt

CONSTANTS
  Letters,    \* keys with a lower and an upper character
  LineMax,    \* what a line holds, 255
  Delay,      \* REPEAT_DELAY_TICKS
  Rate,       \* REPEAT_RATE_TICKS
  QueueMax,   \* reports or scancodes on their way: a bound
  NoKey, NoLine, NoReport

Keys   == Letters \cup {"enter", "backspace", "caps"}
Shifts == {"lshift", "rshift"}

ASSUME KeyboardAssumption ==
  /\ LineMax \in Nat /\ Delay \in Nat /\ Rate \in Nat /\ QueueMax \in Nat \ {0}
  /\ Letters \cap {"enter", "backspace", "caps"} = {}
  /\ Keys \cap Shifts = {} /\ NoKey \notin Keys

Slots  == {<<>>} \cup {<<k>> : k \in Keys} \cup {p \in Keys \X Keys : p[1] # p[2]}

(* A USB report; a scancode is a record of its own.                        *)
Report(shift, slots) == [shift |-> shift, slots |-> slots]
Reports              == {Report(s, ks) : s \in BOOLEAN, ks \in Slots}
Blank                == Report(FALSE, <<>>)

(* The character of a key, if it has one.                                  *)
NoChar == <<>>
Char(k, shift, caps) ==
  IF k \in Letters THEN <<k, shift # caps>> ELSE IF k = "caps" THEN NoChar ELSE <<k>>
CharsOf(k) == {Char(k, FALSE, FALSE), Char(k, TRUE, FALSE)} \ {NoChar}
Chars      == UNION {CharsOf(k) : k \in Keys}

VARIABLES
  source,     \* "xhci", "ehci" or "ps2"
  broken,
  queue,      \* reports, or scancodes, on their way
  report,     \* what poll read last: g_curr
  keys,       \* the keys down, and those of Shifts
  shifts,
  caps,       \* Caps Lock, as each press turns it, and PS/2 each repetition
  due,        \* for each report or scancode on its way, what the user did
  misled,     \* whether one of them was not what the user did
  g_caps_lock,
  g_held_usage,
  held,       \* ticks since g_held_start and since g_last_repeat
  repeated,
  shift_pressed,
  line,       \* the shell's buffer
  executing   \* the line a command is run for, or NoLine

pipe    == <<broken, queue, report>>
user    == <<keys, shifts, caps, due, misled>>
hid     == <<g_held_usage, held, repeated>>
shell   == <<line, executing>>
vars    == <<source, pipe, user, g_caps_lock, hid, shift_pressed, shell>>

Usb  == source # "ps2"
Pipe == INSTANCE ReportPipe WITH exact <- source # "ehci", open <- Usb

Init ==
  /\ source \in {"xhci", "ehci", "ps2"}
  /\ broken = FALSE
  /\ queue = <<>>
  /\ report = IF Usb THEN Blank ELSE NoReport
  /\ keys = <<>>
  /\ shifts = {}
  /\ caps = FALSE
  /\ due = <<>>
  /\ misled = FALSE
  /\ g_caps_lock = FALSE
  /\ g_held_usage = NoKey
  /\ held = 0
  /\ repeated = 0
  /\ shift_pressed = FALSE
  /\ line = <<>>
  /\ executing = NoLine
-----------------------------------------------------------------------------
(* The keyboard.  A change of its keys is a report, or a scancode; what it *)
(* means to the user goes to due: of a letter pressed together with Caps   *)
(* Lock, either case.  A PS/2 keyboard repeats by itself, Caps Lock too:   *)
(* held down, it turns as often as it is repeated.                         *)
Meant(ks) ==
  {Char(k, shifts # {}, capslock) :
     k \in Range(ks) \ {"caps"},
     capslock \in IF "caps" \in Range(ks) THEN {caps, ~caps} ELSE {caps}}
Down(ks) == UNION {CharsOf(k) : k \in Range(ks)}

Send(typed, code) ==
  /\ Len(queue) < QueueMax
  /\ due' = Append(due, [down |-> IF Usb THEN Down(keys') ELSE {}, typed |-> typed])
  /\ queue' = Append(queue, IF Usb THEN Report(shifts' # {}, keys') ELSE code)
  /\ UNCHANGED <<source, broken, report, g_caps_lock, hid, shift_pressed, shell>>

Make(k)  == [key |-> k, released |-> FALSE]
Break(k) == [key |-> k, released |-> TRUE]

Press ==
  \E new \in Slots :
    /\ new # <<>> /\ Range(new) \cap Range(keys) = {}
    /\ Len(keys \o new) <= 2
    /\ Usb \/ Len(new) = 1
    /\ keys' = keys \o new
    /\ caps' = (caps # ("caps" \in Range(new)))
    /\ UNCHANGED <<shifts, misled>>
    /\ Send(Meant(new), Make(Head(new)))

Release ==
  \E i \in DOMAIN keys :
    /\ keys' = RemoveAt(keys, i)
    /\ UNCHANGED <<shifts, caps, misled>>
    /\ Send({}, Break(keys[i]))

Shift ==
  \E s \in Shifts :
    /\ shifts' = IF s \in shifts THEN shifts \ {s} ELSE shifts \cup {s}
    /\ misled' = (misled \/ (~Usb /\ s \in shifts /\ shifts' # {}))
    /\ UNCHANGED <<keys, caps>>
    /\ Send({}, IF s \in shifts THEN Break(s) ELSE Make(s))

Typematic ==
  \E k \in Range(keys) :
    /\ ~Usb
    /\ caps' = (caps # (k = "caps"))
    /\ UNCHANGED <<keys, shifts, misled>>
    /\ Send(Meant(<<k>>), Make(k))

(* Over EHCI a report may come out blank or not at all; over xHCI an       *)
(* endpoint may halt.                                                      *)
Spoil ==
  /\ Usb /\ UNCHANGED source
  /\ Pipe!Spoil
  /\ misled' = TRUE
  /\ UNCHANGED <<keys, shifts, caps, due, g_caps_lock, hid, shift_pressed, shell>>

Lose ==
  /\ Usb /\ UNCHANGED source
  /\ Pipe!Lose
  /\ misled' = TRUE
  /\ due' = Tail(due)
  /\ UNCHANGED <<keys, shifts, caps, g_caps_lock, hid, shift_pressed, shell>>

Halt ==
  /\ source = "xhci" /\ UNCHANGED source
  /\ Pipe!Break
  /\ UNCHANGED <<user, g_caps_lock, hid, shift_pressed, shell>>

Keyboard == Press \/ Release \/ Shift \/ Typematic \/ Spoil \/ Lose \/ Halt
-----------------------------------------------------------------------------
(* shell::run, given a character or none.                                  *)
Accept(c) ==
  /\ executing' = IF c = <<"enter">> THEN line ELSE NoLine
  /\ line' = CASE c = <<"enter">> -> <<>>
               [] c = <<"backspace">> -> SubSeq(line, 1, Len(line) - 1)
               [] c # NoChar /\ c[1] \in Letters /\ Len(line) < LineMax -> Append(line, c)
               [] OTHER -> line

Executed ==
  /\ executing # NoLine
  /\ executing' = NoLine
  /\ UNCHANGED <<source, pipe, user, g_caps_lock, hid, shift_pressed, line>>

(* The keys of a report that were not in the one before it, slot by slot:  *)
(* each overwrites g_pending_char and becomes the key held; Caps Lock only *)
(* changes the case of those behind it.                                    *)
HeardIn(slots, fresh, shift) ==
  LET pressed   == {i \in fresh : slots[i] # "caps"}
      last      == Max(pressed)
      CapsAt(i) == g_caps_lock # \E j \in fresh : j <= i /\ slots[j] = "caps"
  IN  [caps |-> CapsAt(Len(slots)),
       key  |-> IF pressed = {} THEN NoKey ELSE slots[last],
       char |-> IF pressed = {} THEN NoChar
                ELSE Char(slots[last], shift, CapsAt(last))]

Heard_EveryKey(new, old) == HeardIn(new.slots, DOMAIN new.slots, new.shift)

Heard(new, old) ==
  HeardIn(new.slots, {i \in DOMAIN new.slots : new.slots[i] \notin Range(old.slots)},
          new.shift)

(* check_repeat, with the key held, the report it is looked for in and the *)
(* ticks since; the character that repeats, or the one already pending.    *)
CheckRepeatOf(key, now, start, last, char, capslock) ==
  LET again == key # NoKey /\ start >= Delay /\ last >= Rate
  IN  /\ g_held_usage' = key
      /\ held' = IF key = NoKey THEN 0 ELSE start
      /\ repeated' = IF key = NoKey \/ again THEN 0 ELSE last
      /\ Accept(IF again THEN Char(key, now.shift, capslock) ELSE char)

CheckRepeat_WhateverIsDown(key, now, start, last, char, capslock) ==
  CheckRepeatOf(key, now, start, last, char, capslock)

CheckRepeat(key, now, start, last, char, capslock) ==
  CheckRepeatOf(IF key \in Range(now.slots) THEN key ELSE NoKey,
                now, start, last, char, capslock)

(* usb_hid::get_char: poll with a report, and without one.                 *)
poll ==
  /\ Usb /\ executing = NoLine
  /\ UNCHANGED source
  /\ Pipe!Deliver
  /\ LET heard == Heard(report', report)
     IN  /\ g_caps_lock' = heard.caps
         /\ IF heard.key = NoKey
            THEN CheckRepeat(g_held_usage, report', held, repeated, NoChar, heard.caps)
            ELSE CheckRepeat(heard.key, report', 0, 0, heard.char, heard.caps)
  /\ due' = Tail(due)
  /\ UNCHANGED <<keys, shifts, caps, misled, shift_pressed>>

pollNothing ==
  /\ Usb /\ executing = NoLine
  /\ CheckRepeat(g_held_usage, report, held, repeated, NoChar, g_caps_lock)
  /\ UNCHANGED <<source, pipe, user, g_caps_lock, shift_pressed>>

(* ps2::get_char.                                                          *)
ps2GetChar ==
  /\ ~Usb /\ executing = NoLine
  /\ queue # <<>>
  /\ LET code == Head(queue)
     IN  /\ shift_pressed' = IF code.key \in Shifts THEN ~code.released ELSE shift_pressed
         /\ g_caps_lock' = (g_caps_lock # (code.key = "caps" /\ ~code.released))
         /\ Accept(IF code.key \in Shifts \/ code.released THEN NoChar
                   ELSE Char(code.key, shift_pressed, g_caps_lock))
  /\ queue' = Tail(queue)
  /\ due' = Tail(due)
  /\ UNCHANGED <<source, broken, report, keys, shifts, caps, misled, hid>>

(* The timer's interrupt counts on, whatever the shell does.               *)
Tick ==
  /\ g_held_usage # NoKey
  /\ held' = IF held < Delay THEN held + 1 ELSE held
  /\ repeated' = IF repeated < Rate THEN repeated + 1 ELSE repeated
  /\ UNCHANGED <<source, pipe, user, g_caps_lock, g_held_usage, shift_pressed, shell>>

Next == Keyboard \/ Executed \/ poll \/ pollNothing \/ ps2GetChar \/ Tick

(* The shell asks for a character again and again between commands, a      *)
(* command ends, and what is on its way is there at some time it asks.     *)
Spec == Init /\ [][Next]_vars /\ SF_vars(poll) /\ SF_vars(ps2GetChar) /\ WF_vars(Executed)
-----------------------------------------------------------------------------
Promised == INSTANCE Typing WITH
  Enter <- <<"enter">>, Backspace <- <<"backspace">>,
  exact <- ~misled,
  down <- IF Usb THEN Down(report.slots) ELSE {}

(* What usb_hid takes for pressed by comparing reports, and ps2 by         *)
(* following scancodes, is what the user pressed, however the keys         *)
(* overlap and whatever Shift and Caps Lock do meanwhile, which over PS/2  *)
(* turns with every repetition while it is held; only keys shown to be     *)
(* down repeat.  Excepted: over EHCI after a report that was blank or      *)
(* lost, and on PS/2 after one of two Shift keys was lifted.               *)
ImplementsTyping == Promised!TypingSpec

(* What was reported last still shows a key, and nothing more comes: over  *)
(* EHCI the report that it was lifted may be lost.                         *)
LiftUnseen == Usb /\ queue = <<>> /\ report.slots # <<>>

(* A key that was lifted stops repeating, unless the endpoint halted, the  *)
(* report of it was lost over EHCI, or other keys are pressed.             *)
RepeatEnds ==
  (keys = <<>>) ~>
    (g_held_usage = NoKey \/ keys # <<>> \/ broken \/ (source = "ehci" /\ LiftUnseen))
=============================================================================
