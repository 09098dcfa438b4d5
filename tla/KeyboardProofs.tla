---------------------------- MODULE KeyboardProofs ----------------------------
(***************************************************************************)
(* Proofs about Keyboard, for every set of letters, length of the line and *)
(* of the queue, and whatever the times of repetition: ImplementsTyping.   *)
(* What is on its way is followed entry by entry: what the host will know  *)
(* of Caps Lock, Shift and the keys after each, up to what the user knows. *)
(***************************************************************************)
EXTENDS Keyboard, SequenceTheorems, TLAPS

(***************************************************************************)
(* What the host knows, and how a report or scancode changes it; what      *)
(* stands in due for it is what the host will make of it.                  *)
(***************************************************************************)
Hosts == [caps : BOOLEAN, shift : BOOLEAN, report : Reports \cup {NoReport}]

Now == [caps |-> g_caps_lock, shift |-> shift_pressed, report |-> report]

Fresh(new, old) == Range(new.slots) \ Range(old.slots)

CharsFor(ks, shift, cases) == {Char(k, shift, c) : k \in ks \ {"caps"}, c \in cases}

Tells(h, r, g, what) ==
  LET fresh == Fresh(r, h.report)
  IN  /\ g.report = r /\ g.shift = h.shift
      /\ g.caps = (h.caps # ("caps" \in fresh))
      /\ what.down = Down(r.slots)
      /\ what.typed = CharsFor(fresh, r.shift, {h.caps, g.caps})

Codes == [key : Keys \cup Shifts, released : BOOLEAN]

Scans(h, code, g, what) ==
  /\ g.report = h.report
  /\ g.shift = IF code.key \in Shifts THEN ~code.released ELSE h.shift
  /\ g.caps = (h.caps # (code.key = "caps" /\ ~code.released))
  /\ what.down = {}
  /\ what.typed = IF code.key \in Shifts \/ code.released THEN {}
                  ELSE CharsFor({code.key}, h.shift, {h.caps})

Passes(h, code, g, what) ==
  IF Usb THEN Tells(h, code, g, what) ELSE Scans(h, code, g, what)

Agrees(h) ==
  /\ h.caps = caps
  /\ IF Usb THEN h.report = Report(shifts # {}, keys) ELSE h.shift = (shifts # {})

Follows(hs) ==
  /\ hs \in [0 .. Len(queue) -> Hosts]
  /\ hs[0] = Now
  /\ Agrees(hs[Len(queue)])
  /\ \A i \in 1 .. Len(queue) : Passes(hs[i - 1], queue[i], hs[i], due[i])

KeyboardTypes ==
  /\ source \in {"xhci", "ehci", "ps2"}
  /\ broken \in BOOLEAN /\ caps \in BOOLEAN /\ misled \in BOOLEAN
  /\ g_caps_lock \in BOOLEAN /\ shift_pressed \in BOOLEAN
  /\ queue \in Seq(IF Usb THEN Reports ELSE Codes)
  /\ report \in IF Usb THEN Reports ELSE {NoReport}
  /\ due \in Seq([down : SUBSET Chars, typed : SUBSET Chars]) /\ Len(due) = Len(queue)
  /\ keys \in Slots /\ shifts \subseteq Shifts
  /\ g_held_usage \in Keys \cup {NoKey}
  /\ line \in Seq(Chars)

KeyboardInv ==
  /\ KeyboardTypes
  /\ ~misled => \E hs : Follows(hs)
-----------------------------------------------------------------------------
(* What keys and slots are.                                                *)
LEMMA KeyFacts ==
  /\ "caps" \in Keys /\ Keys \cap Shifts = {} /\ NoKey \notin Keys
  /\ "enter" \notin Letters /\ "backspace" \notin Letters /\ "caps" \notin Letters
  /\ \A k \in Keys : k # "caps" => k \in Letters \/ k = "enter" \/ k = "backspace"
BY KeyboardAssumption DEF Keys

LEMMA SlotFacts ==
  ASSUME NEW ks \in Slots
  PROVE  /\ ks \in Seq(Keys) /\ Len(ks) \in 0 .. 2 /\ DOMAIN ks = 1 .. Len(ks)
         /\ \A i, j \in 1 .. Len(ks) : ks[i] = ks[j] => i = j
         /\ Range(ks) \subseteq Keys
<1>1. CASE ks = <<>>
  BY <1>1 DEF Range
<1>2. ASSUME NEW k \in Keys, ks = <<k>>
      PROVE  /\ ks \in Seq(Keys) /\ Len(ks) = 1
             /\ \A i, j \in 1 .. 1 : ks[i] = ks[j] => i = j
  BY <1>2
<1>3. ASSUME NEW k \in Keys, NEW l \in Keys, ks = <<k, l>>, k # l
      PROVE  /\ ks \in Seq(Keys) /\ Len(ks) = 2
             /\ \A i, j \in 1 .. 2 : ks[i] = ks[j] => i = j
  BY <1>3
<1>4. \/ ks = <<>>
      \/ \E k \in Keys : ks = <<k>>
      \/ \E k, l \in Keys : ks = <<k, l>> /\ k # l
  BY DEF Slots
<1>5. /\ ks \in Seq(Keys) /\ Len(ks) \in 0 .. 2
      /\ \A i, j \in 1 .. Len(ks) : ks[i] = ks[j] => i = j
  BY <1>1, <1>2, <1>3, <1>4
<1>6. QED
  BY <1>5 DEF Range

(* Keys put together, in slots or out of them.                             *)
LEMMA SlotsByFacts ==
  ASSUME NEW ks \in Seq(Keys), Len(ks) <= 2,
         \A i, j \in 1 .. Len(ks) : ks[i] = ks[j] => i = j
  PROVE  ks \in Slots
<1>1. Len(ks) = 0 \/ Len(ks) = 1 \/ Len(ks) = 2
  <2>1. \A n \in Nat : n <= 2 => n = 0 \/ n = 1 \/ n = 2
    OBVIOUS
  <2>2. Len(ks) \in Nat /\ Len(ks) <= 2
    BY LenProperties
  <2>3. QED
    BY ONLY <2>1, <2>2
<1>2. CASE Len(ks) = 0
  BY <1>2 DEF Slots
<1>3. CASE Len(ks) = 1
  <2>1. ks = <<ks[1]>> /\ ks[1] \in Keys
    BY <1>3
  <2>2. QED
    BY <2>1 DEF Slots
<1>4. CASE Len(ks) = 2
  <2>1. ks = <<ks[1], ks[2]>> /\ ks[1] \in Keys /\ ks[2] \in Keys /\ ks[1] # ks[2]
    BY <1>4
  <2>2. QED
    BY <2>1 DEF Slots
<1>5. QED
  BY <1>1, <1>2, <1>3, <1>4

LEMMA KeysPressed ==
  ASSUME NEW ks \in Slots, NEW new \in Slots, Range(new) \cap Range(ks) = {},
         Len(ks \o new) <= 2
  PROVE  /\ ks \o new \in Slots
         /\ Range(ks \o new) = Range(ks) \cup Range(new)
<1>1. /\ ks \in Seq(Keys) /\ new \in Seq(Keys) /\ Len(ks) \in Nat /\ Len(new) \in Nat
      /\ \A i, j \in 1 .. Len(ks) : ks[i] = ks[j] => i = j
      /\ \A i, j \in 1 .. Len(new) : new[i] = new[j] => i = j
  BY SlotFacts
<1>2. \A i \in 1 .. Len(ks), j \in 1 .. Len(new) : ks[i] # new[j]
  BY <1>1 DEF Range
<1>3. /\ ks \o new \in Seq(Keys) /\ Len(ks \o new) = Len(ks) + Len(new)
      /\ \A i \in 1 .. Len(ks) : (ks \o new)[i] = ks[i]
      /\ \A i \in 1 .. Len(new) : (ks \o new)[Len(ks) + i] = new[i]
      /\ \A i \in 1 .. Len(ks) + Len(new) :
           i \in 1 .. Len(ks) \/ (i - Len(ks) \in 1 .. Len(new) /\ i = Len(ks) + (i - Len(ks)))
  BY <1>1
<1>4. ASSUME NEW i \in 1 .. Len(ks \o new), NEW j \in 1 .. Len(ks \o new),
             (ks \o new)[i] = (ks \o new)[j]
      PROVE  i = j
  BY <1>1, <1>2, <1>3, <1>4
<1>5. ks \o new \in Slots
  BY <1>3, <1>4, SlotsByFacts
<1>6. Range(ks \o new) \subseteq Range(ks) \cup Range(new)
  BY <1>1, <1>3 DEF Range
<1>7. Range(ks) \subseteq Range(ks \o new)
  BY <1>1, <1>3 DEF Range
<1>8. Range(new) \subseteq Range(ks \o new)
  <2>1. \A i \in 1 .. Len(new) : Len(ks) + i \in 1 .. Len(ks \o new)
    BY <1>1, <1>3
  <2>2. QED
    BY <1>1, <1>3, <2>1 DEF Range
<1>9. QED
  BY <1>5, <1>6, <1>7, <1>8

LEMMA KeyLifted ==
  ASSUME NEW ks \in Slots, NEW i \in DOMAIN ks
  PROVE  /\ RemoveAt(ks, i) \in Slots
         /\ Range(RemoveAt(ks, i)) \subseteq Range(ks)
<1>1. /\ ks \in Seq(Keys) /\ Len(ks) \in 0 .. 2 /\ i \in 1 .. Len(ks)
      /\ \A j, k \in 1 .. Len(ks) : ks[j] = ks[k] => j = k
  BY SlotFacts
<1> DEFINE new == RemoveAt(ks, i)
<1>2. /\ new \in Seq(Keys) /\ Len(new) = Len(ks) - 1
      /\ \A j \in 1 .. Len(ks) - 1 : new[j] = IF j < i THEN ks[j] ELSE ks[j + 1]
  <2> DEFINE before == SubSeq(ks, 1, i - 1)
             behind == SubSeq(ks, i + 1, Len(ks))
  <2>1. /\ before \in Seq(Keys) /\ Len(before) = i - 1
        /\ \A j \in 1 .. i - 1 : before[j] = ks[j]
    BY <1>1
  <2>2. /\ behind \in Seq(Keys) /\ Len(behind) = Len(ks) - i
        /\ \A j \in 1 .. Len(ks) - i : behind[j] = ks[i + j]
    BY <1>1
  <2>3. new = before \o behind
    BY DEF RemoveAt
  <2> HIDE DEF before, behind, new
  <2>4. /\ before \o behind \in Seq(Keys) /\ Len(before \o behind) = Len(ks) - 1
        /\ \A j \in 1 .. Len(ks) - 1 :
             (before \o behind)[j] = IF j < i THEN ks[j] ELSE ks[j + 1]
    <3>1. before \o behind \in Seq(Keys) /\ Len(before \o behind) = Len(ks) - 1
      BY <1>1, <2>1, <2>2
    <3>2. ASSUME NEW j \in 1 .. Len(ks) - 1
          PROVE  (before \o behind)[j] = IF j < i THEN ks[j] ELSE ks[j + 1]
      <4>1. CASE j < i
        BY <1>1, <2>1, <2>2, <4>1
      <4>2. CASE j >= i
        <5>1. /\ j - (i - 1) \in 1 .. Len(ks) - i /\ i + (j - (i - 1)) = j + 1
              /\ (before \o behind)[j] = behind[j - (i - 1)]
          BY SMTT(60), <1>1, <2>1, <2>2, <4>2
        <5>2. QED
          BY SMTT(60), <1>1, <2>2, <4>2, <5>1
      <4>3. i \in Int /\ j \in Int
        BY <1>1
      <4>4. j < i \/ j >= i
        BY <4>3
      <4>5. QED
        BY <4>1, <4>2, <4>4
    <3>3. QED
      BY <3>1, <3>2
  <2>5. QED
    BY <2>3, <2>4
<1> HIDE DEF new
<1>3. \A j, k \in 1 .. Len(new) : new[j] = new[k] => j = k
  BY <1>1, <1>2
<1>4. new \in Slots
  BY <1>1, <1>2, <1>3, SlotsByFacts
<1>5. Range(new) \subseteq Range(ks)
  <2>1. ASSUME NEW j \in 1 .. Len(new)
        PROVE  \E k \in 1 .. Len(ks) : new[j] = ks[k]
    BY <1>1, <1>2
  <2>2. QED
    BY <1>1, <1>2, <2>1 DEF Range
<1>6. QED
  BY <1>4, <1>5 DEF new

LEMMA ReportFacts ==
  /\ \A s \in BOOLEAN, ks \in Slots : Report(s, ks) \in Reports
  /\ \A r \in Reports : r.slots \in Slots /\ r.shift \in BOOLEAN
BY SMT DEF Reports, Report

(* Another entry on its way, or the first one heard.                       *)
LEMMA Sent ==
  ASSUME NEW hs, Follows(hs), NEW code, NEW what,
         queue' = Append(queue, code), due' = Append(due, what),
         queue \in Seq(IF Usb THEN Reports ELSE Codes),
         due \in Seq([down : SUBSET Chars, typed : SUBSET Chars]), Len(due) = Len(queue),
         UNCHANGED <<source, g_caps_lock, shift_pressed, report>>,
         NEW g \in Hosts, Passes(hs[Len(queue)], code, g, what), Agrees(g)'
  PROVE  \E gs : Follows(gs)'
<1>0. PICK n : n = Len(queue)
  OBVIOUS
<1>1. /\ n \in Nat /\ Len(queue') = n + 1 /\ queue'[n + 1] = code /\ due'[n + 1] = what
      /\ \A i \in 1 .. n : queue'[i] = queue[i] /\ due'[i] = due[i]
  BY <1>0, LenProperties
<1>2. /\ hs \in [0 .. n -> Hosts] /\ hs[0] = Now
      /\ \A i \in 1 .. n : Passes(hs[i - 1], queue[i], hs[i], due[i])
  BY <1>0 DEF Follows
<1>3. PICK gs : gs = [i \in 0 .. n + 1 |-> IF i = n + 1 THEN g ELSE hs[i]]
  OBVIOUS
<1>4. gs \in [0 .. n + 1 -> Hosts]
  BY <1>1, <1>2, <1>3
<1>5. gs[0] = Now' /\ gs[n + 1] = g /\ \A i \in 0 .. n : gs[i] = hs[i]
  <2>1. Now' = Now
    BY DEF Now
  <2>2. QED
    BY <1>1, <1>2, <1>3, <2>1
<1>6. ASSUME NEW i \in 1 .. n + 1
      PROVE  Passes(gs[i - 1], queue'[i], gs[i], due'[i])
  <2>1. CASE i = n + 1
    <3>1. gs[i - 1] = hs[n] /\ gs[i] = g
      BY <1>1, <1>5, <2>1
    <3>2. QED
      BY <1>0, <1>1, <2>1, <3>1
  <2>2. CASE i # n + 1
    <3>1. i \in 1 .. n /\ gs[i - 1] = hs[i - 1] /\ gs[i] = hs[i]
      BY <1>1, <1>5, <2>2
    <3>2. QED
      BY <1>1, <1>2, <3>1
  <2>3. QED
    BY <2>1, <2>2
<1>7. \A a, b, c, d : Passes(a, b, c, d) <=> Passes(a, b, c, d)'
  BY DEF Passes, Usb, Tells, Scans
<1>8. \A i \in 1 .. n + 1 : Passes(gs[i - 1], queue[i], gs[i], due[i])'
  BY <1>6, <1>7
<1>9. QED
  BY <1>1, <1>4, <1>5, <1>8 DEF Follows

LEMMA Taken ==
  ASSUME NEW hs, Follows(hs), queue # <<>>,
         queue' = Tail(queue), due' = Tail(due),
         queue \in Seq(IF Usb THEN Reports ELSE Codes),
         due \in Seq([down : SUBSET Chars, typed : SUBSET Chars]), Len(due) = Len(queue),
         UNCHANGED <<source, caps, shifts, keys>>,
         Now' = hs[1]
  PROVE  \E gs : Follows(gs)'
<1>0. PICK n : n = Len(queue)
  OBVIOUS
<1>1. /\ n \in Nat \ {0} /\ Len(queue') = n - 1
      /\ \A i \in 1 .. n - 1 : queue'[i] = queue[i + 1] /\ due'[i] = due[i + 1]
  <2>1. n \in Nat \ {0}
    BY <1>0, EmptySeq, LenProperties
  <2>2. Len(queue') = n - 1 /\ \A i \in 1 .. n - 1 : queue'[i] = queue[i + 1]
    BY <1>0, <2>1, HeadTailProperties
  <2>3. due # <<>>
    BY <1>0, <2>1
  <2>4. \A i \in 1 .. n - 1 : due'[i] = due[i + 1]
    BY <1>0, <2>1, <2>3, HeadTailProperties
  <2>5. QED
    BY <2>1, <2>2, <2>4
<1>2. /\ hs \in [0 .. n -> Hosts] /\ Agrees(hs[n])
      /\ \A i \in 1 .. n : Passes(hs[i - 1], queue[i], hs[i], due[i])
  BY <1>0 DEF Follows
<1>3. PICK gs : gs = [i \in 0 .. n - 1 |-> hs[i + 1]]
  OBVIOUS
<1>4. /\ gs \in [0 .. n - 1 -> Hosts] /\ gs[0] = Now' /\ gs[n - 1] = hs[n]
      /\ \A i \in 0 .. n - 1 : gs[i] = hs[i + 1]
  BY <1>1, <1>2, <1>3
<1>5. Agrees(gs[n - 1])'
  BY <1>2, <1>4 DEF Agrees, Usb
<1>6. ASSUME NEW i \in 1 .. n - 1
      PROVE  Passes(gs[i - 1], queue'[i], gs[i], due'[i])
  <2>1. i + 1 \in 1 .. n /\ gs[i - 1] = hs[(i + 1) - 1] /\ gs[i] = hs[i + 1]
    BY <1>1, <1>4
  <2>2. QED
    BY <1>1, <1>2, <2>1
<1>7. \A a, b, c, d : Passes(a, b, c, d) <=> Passes(a, b, c, d)'
  BY DEF Passes, Usb, Tells, Scans
<1>8. \A i \in 1 .. n - 1 : Passes(gs[i - 1], queue[i], gs[i], due[i])'
  BY <1>6, <1>7
<1>9. QED
  BY <1>1, <1>4, <1>5, <1>8 DEF Follows

-----------------------------------------------------------------------------
(* The characters of keys.                                                 *)
LEMMA CharsMembers ==
  ASSUME NEW c
  PROVE  c \in Chars <=> \E k \in Keys : c \in CharsOf(k)
BY DEF Chars

LEMMA DownMembers ==
  ASSUME NEW ks, NEW c
  PROVE  c \in Down(ks) <=> \E k \in Range(ks) : c \in CharsOf(k)
BY DEF Down

LEMMA CharsForMembers ==
  ASSUME NEW ks, NEW shift, NEW cases
  PROVE  \A c : c \in CharsFor(ks, shift, cases) <=>
           \E k \in ks \ {"caps"}, x \in cases : c = Char(k, shift, x)
BY SMT DEF CharsFor

LEMMA CharsForNone ==
  ASSUME NEW ks, ks \subseteq {"caps"}, NEW shift, NEW cases
  PROVE  CharsFor(ks, shift, cases) = {}
BY CharsForMembers

LEMMA CharFacts ==
  ASSUME NEW k \in Keys, NEW s \in BOOLEAN, NEW c \in BOOLEAN
  PROVE  /\ k = "caps" => Char(k, s, c) = NoChar
         /\ k # "caps" => Char(k, s, c) \in CharsOf(k) /\ Char(k, s, c) # NoChar
<1>1. CASE k = "caps"
  BY <1>1, KeyFacts DEF Char
<1>2. CASE k # "caps"
  <2>1. Char(k, s, c) = Char(k, TRUE, FALSE) \/ Char(k, s, c) = Char(k, FALSE, FALSE)
    <3>1. CASE k \in Letters
      <4>1. /\ Char(k, s, c) = <<k, s # c>>
            /\ Char(k, TRUE, FALSE) = <<k, TRUE # FALSE>>
            /\ Char(k, FALSE, FALSE) = <<k, FALSE # FALSE>>
        BY <3>1, Zenon DEF Char
      <4>2. (TRUE # FALSE) = TRUE /\ (FALSE # FALSE) = FALSE
        OBVIOUS
      <4>3. (s # c) = TRUE \/ (s # c) = FALSE
        OBVIOUS
      <4>4. QED
        BY <4>1, <4>2, <4>3, Zenon
    <3>2. CASE k \notin Letters
      BY <1>2, <3>2, Zenon DEF Char
    <3>3. QED
      BY <3>1, <3>2
  <2>2. Char(k, s, c) # NoChar
    <3>1. \A x : <<k, x>> # <<>> /\ <<k>> # <<>>
      OBVIOUS
    <3>2. Char(k, s, c) = <<k, s # c>> \/ Char(k, s, c) = <<k>>
      BY <1>2, Zenon DEF Char
    <3>3. QED
      BY <3>1, <3>2, Zenon DEF NoChar
  <2>3. QED
    BY <1>2, <2>1, <2>2, Zenon DEF CharsOf
<1>3. QED
  BY <1>1, <1>2

LEMMA CharsForTypes ==
  ASSUME NEW ks \in SUBSET Keys, NEW s \in BOOLEAN, NEW cases \in SUBSET BOOLEAN
  PROVE  CharsFor(ks, s, cases) \subseteq Chars
<1>1. ASSUME NEW c \in CharsFor(ks, s, cases)
      PROVE  c \in Chars
  <2>1. PICK k \in ks \ {"caps"}, x \in cases : c = Char(k, s, x)
    BY CharsForMembers
  <2>2. k \in Keys /\ x \in BOOLEAN /\ k # "caps"
    OBVIOUS
  <2>3. c \in CharsOf(k)
    BY <2>1, <2>2, CharFacts
  <2>4. QED
    BY <2>2, <2>3, CharsMembers
<1>2. QED
  BY <1>1

LEMMA DownFacts ==
  ASSUME NEW ks \in Slots
  PROVE  /\ Down(ks) \subseteq Chars
         /\ \A k \in Range(ks), s, c \in BOOLEAN :
              Char(k, s, c) \in Down(ks) \/ Char(k, s, c) = NoChar
<1>1. Range(ks) \subseteq Keys
  BY SlotFacts
<1>2. Down(ks) \subseteq Chars
  BY <1>1, DownMembers, CharsMembers
<1>3. ASSUME NEW k \in Range(ks), NEW s \in BOOLEAN, NEW c \in BOOLEAN
      PROVE  Char(k, s, c) \in Down(ks) \/ Char(k, s, c) = NoChar
  BY <1>1, CharFacts, DownMembers
<1>4. QED
  BY <1>2, <1>3

(* What the shell accepts is an edit of the line.                          *)
LEMMA AcceptEdits ==
  ASSUME NEW c \in Chars, line \in Seq(Chars), executing = NoLine, Accept(c)
  PROVE  Promised!Edit(c)
<1>1. \/ c = <<"enter">> \/ c = <<"backspace">>
      \/ c # NoChar /\ c[1] \in Letters /\ c # <<"enter">> /\ c # <<"backspace">>
  <2>1. PICK k \in Keys : c \in CharsOf(k)
    BY CharsMembers
  <2>2. c = Char(k, TRUE, FALSE) \/ c = Char(k, FALSE, FALSE)
    BY <2>1, Zenon DEF CharsOf
  <2>3. c # NoChar
    BY <2>1, Zenon DEF CharsOf
  <2>4. CASE k \in Letters
    <3>1. PICK x : c = <<k, x>>
      BY <2>2, <2>4, Zenon DEF Char
    <3>2. QED
      BY <2>3, <2>4, <3>1
  <2>5. CASE k \notin Letters
    <3>1. k # "caps"
      BY <2>2, <2>3, <2>5, Zenon DEF Char
    <3>2. c = <<k>> /\ (k = "enter" \/ k = "backspace")
      BY <2>2, <2>5, <3>1, KeyFacts, Zenon DEF Char
    <3>3. QED
      BY <3>2
  <2>6. QED
    BY <2>4, <2>5
<1>2. Len(line) = 0 => line = <<>>
  BY EmptySeq
<1>3. CASE c = <<"enter">>
  <2>1. c # <<"backspace">> /\ c[1] \notin Letters
    BY <1>3, KeyFacts
  <2>2. QED
    BY <1>3, <2>1 DEF Accept, Promised!Edit
<1>4. CASE c = <<"backspace">>
  <2>1. /\ executing' = NoLine /\ line' = SubSeq(line, 1, Len(line) - 1)
    <3>1. c # <<"enter">> /\ c[1] \notin Letters
      BY <1>4, KeyFacts
    <3>2. QED
      BY <1>4, <3>1 DEF Accept
  <2>2. line = <<>> => SubSeq(line, 1, Len(line) - 1) = SubSeq(line, 1, 0)
    OBVIOUS
  <2>3. QED
    BY <1>4, <2>1, <2>2 DEF Promised!Edit
<1>5. CASE c # NoChar /\ c[1] \in Letters /\ c # <<"enter">> /\ c # <<"backspace">>
  BY <1>5 DEF Accept, Promised!Edit
<1>6. QED
  BY <1>1, <1>3, <1>4, <1>5

LEMMA NothingAccepted ==
  ASSUME executing = NoLine, Accept(NoChar)
  PROVE  UNCHANGED <<line, executing>>
BY DEF Accept, NoChar

LEMMA LineTypes ==
  ASSUME NEW c, Accept(c), line \in Seq(Chars), c \in Chars \cup {NoChar}
  PROVE  line' \in Seq(Chars)
<1>1. SubSeq(line, 1, Len(line) - 1) \in Seq(Chars)
  OBVIOUS
<1>2. c \in Chars => Append(line, c) \in Seq(Chars)
  OBVIOUS
<1>3. QED
  BY <1>1, <1>2 DEF Accept

-----------------------------------------------------------------------------
(* What poll makes of a report: of the keys that were not in the report    *)
(* before, one other than Caps Lock is heard if there is one.              *)
LEMMA HeardFacts ==
  ASSUME NEW new \in Reports, NEW old \in Reports, g_caps_lock \in BOOLEAN
  PROVE  /\ Heard(new, old).caps = (g_caps_lock # ("caps" \in Fresh(new, old)))
         /\ Fresh(new, old) \ {"caps"} = {} =>
              Heard(new, old).key = NoKey /\ Heard(new, old).char = NoChar
         /\ Fresh(new, old) \ {"caps"} # {} =>
              /\ Heard(new, old).key \in Fresh(new, old) \ {"caps"}
              /\ \/ Heard(new, old).char = Char(Heard(new, old).key, new.shift, g_caps_lock)
                 \/ Heard(new, old).char =
                      Char(Heard(new, old).key, new.shift, Heard(new, old).caps)
<1> DEFINE slots == new.slots
           fresh == {i \in DOMAIN slots : slots[i] \notin Range(old.slots)}
           pressed == {i \in fresh : slots[i] # "caps"}
           last == Max(pressed)
           CapsAt(i) == g_caps_lock # \E j \in fresh : j <= i /\ slots[j] = "caps"
           F == Fresh(new, old)
           h == Heard(new, old)
<1>1. /\ slots \in Slots /\ DOMAIN slots = 1 .. Len(slots) /\ Len(slots) \in 0 .. 2
      /\ Range(slots) = {slots[i] : i \in 1 .. Len(slots)}
  <2>1. slots \in Slots
    BY DEF Reports, Report
  <2>2. QED
    BY <2>1, SlotFacts DEF Range
<1>2. h = [caps |-> CapsAt(Len(slots)),
           key  |-> IF pressed = {} THEN NoKey ELSE slots[last],
           char |-> IF pressed = {} THEN NoChar
                    ELSE Char(slots[last], new.shift, CapsAt(last))]
  BY DEF Heard, HeardIn
<1>3. \A i \in 1 .. Len(slots) : i \in fresh <=> slots[i] \in F
  BY <1>1 DEF Fresh
<1>4. \A k : k \in F <=> \E i \in fresh : slots[i] = k
  BY <1>1 DEF Fresh
<1>5. fresh \subseteq 1 .. Len(slots)
  BY <1>1
<1> HIDE DEF slots, fresh, F
<1>6. (\E j \in fresh : j <= Len(slots) /\ slots[j] = "caps") <=> "caps" \in F
  BY <1>1, <1>4, <1>5
<1>7. /\ CapsAt(Len(slots)) = (g_caps_lock # ("caps" \in F))
      /\ \A i : CapsAt(i) = g_caps_lock \/ CapsAt(i) = CapsAt(Len(slots))
  <2>1. \A i : \/ ~\E j \in fresh : j <= i /\ slots[j] = "caps"
               \/ \E j \in fresh : j <= Len(slots) /\ slots[j] = "caps"
    BY <1>4, <1>6
  <2>2. CapsAt(Len(slots)) = (g_caps_lock # ("caps" \in F))
    <3>1. CASE "caps" \in F
      <4>1. (\E j \in fresh : j <= Len(slots) /\ slots[j] = "caps") = TRUE
        BY <1>6, <3>1
      <4>2. ("caps" \in F) = TRUE
        BY <3>1
      <4>3. QED
        BY <4>1, <4>2, Zenon
    <3>2. CASE "caps" \notin F
      <4>1. (\E j \in fresh : j <= Len(slots) /\ slots[j] = "caps") = FALSE
        BY <1>6, <3>2
      <4>2. ("caps" \in F) = FALSE
        BY <3>2
      <4>3. QED
        BY <4>1, <4>2, Zenon
    <3>3. QED
      BY <3>1, <3>2
  <2>3. ASSUME NEW i
        PROVE  CapsAt(i) = g_caps_lock \/ CapsAt(i) = CapsAt(Len(slots))
    BY <2>1, Zenon
  <2>4. QED
    BY <2>2, <2>3, Zenon
<1>8. pressed = {} <=> F \ {"caps"} = {}
  BY <1>4
<1>9. pressed # {} => last \in pressed
  <2>1. SUFFICES ASSUME pressed # {}
                 PROVE  \E x \in pressed : \A y \in pressed : x >= y
    BY DEF Max
  <2>2. pressed \subseteq 1 .. 2
    <3>1. pressed \subseteq fresh
      OBVIOUS
    <3>2. 1 .. Len(slots) \subseteq 1 .. 2
      BY <1>1
    <3>3. QED
      BY ONLY <1>5, <3>1, <3>2
  <2> HIDE DEF pressed
  <2>3. CASE 2 \in pressed
    BY <2>2, <2>3
  <2>4. CASE 2 \notin pressed
    <3>1. \A y \in pressed : y = 1
      <4>1. \A y \in 1 .. 2 : y = 1 \/ y = 2
        OBVIOUS
      <4>2. QED
        BY ONLY <2>2, <2>4, <4>1
    <3>2. QED
      BY <2>1, <3>1
  <2>5. QED
    BY <2>3, <2>4
<1>10. pressed # {} => slots[last] \in F \ {"caps"}
  BY <1>4, <1>9
<1> HIDE DEF pressed, last, CapsAt, h
<1>11. /\ h.caps = CapsAt(Len(slots))
       /\ h.key = IF pressed = {} THEN NoKey ELSE slots[last]
       /\ h.char = IF pressed = {} THEN NoChar ELSE Char(slots[last], new.shift, CapsAt(last))
  BY ONLY <1>2
<1>12. h.caps = (g_caps_lock # ("caps" \in F))
  BY <1>7, <1>11, Zenon
<1>13. F \ {"caps"} = {} => h.key = NoKey /\ h.char = NoChar
  BY <1>8, <1>11, Zenon
<1>14. F \ {"caps"} # {} =>
         /\ h.key \in F \ {"caps"}
         /\ \/ h.char = Char(h.key, new.shift, g_caps_lock)
            \/ h.char = Char(h.key, new.shift, h.caps)
  <2>1. SUFFICES ASSUME pressed # {}
                 PROVE  /\ h.key \in F \ {"caps"}
                        /\ \/ h.char = Char(h.key, new.shift, g_caps_lock)
                           \/ h.char = Char(h.key, new.shift, h.caps)
    BY <1>8
  <2>2. h.key = slots[last] /\ h.char = Char(slots[last], new.shift, CapsAt(last))
    BY <1>11, <2>1, Zenon
  <2>3. CapsAt(last) = g_caps_lock \/ CapsAt(last) = h.caps
    BY <1>7, <1>11, Zenon
  <2>4. QED
    BY <1>10, <2>1, <2>2, <2>3, Zenon
<1>15. QED
  BY <1>12, <1>13, <1>14, Zenon DEF h, F

(* What check_repeat hands on.                                             *)
LEMMA RepeatFacts ==
  ASSUME NEW key \in Keys \cup {NoKey}, NEW now \in Reports, NEW start, NEW since,
         NEW char, NEW capslock,
         CheckRepeat(key, now, start, since, char, capslock)
  PROVE  /\ g_held_usage' \in Keys \cup {NoKey}
         /\ \/ Accept(char)
            \/ key \in Range(now.slots) /\ Accept(Char(key, now.shift, capslock))
<1>1. now.slots \in Slots
  BY DEF Reports, Report
<1>2. NoKey \notin Range(now.slots)
  BY <1>1, SlotFacts, KeyFacts
<1>3. QED
  BY <1>2 DEF CheckRepeat, CheckRepeatOf

-----------------------------------------------------------------------------
(* What a step does to the line: it edits it with a character of cs, or    *)
(* leaves it alone.                                                        *)
LEMMA Accepted ==
  ASSUME NEW c, Accept(c), NEW cs, cs \subseteq Chars, c \in cs \cup {NoChar},
         line \in Seq(Chars), executing = NoLine
  PROVE  /\ line' \in Seq(Chars)
         /\ UNCHANGED <<line, executing>> \/ \E x \in cs : Promised!Edit(x)
<1>1. CASE c = NoChar
  BY <1>1, NothingAccepted
<1>2. CASE c \in cs
  <2>1. Promised!Edit(c)
    BY <1>2, AcceptEdits
  <2>2. line' \in Seq(Chars)
    BY <1>2, LineTypes
  <2>3. QED
    BY <1>2, <2>1, <2>2
<1>3. QED
  BY <1>1, <1>2

(* What is on its way is followed as before when nothing of it changes.    *)
LEMMA Unmoved ==
  ASSUME NEW hs, Follows(hs),
         UNCHANGED <<source, queue, report, keys, shifts, caps, due, g_caps_lock, shift_pressed>>
  PROVE  Follows(hs)'
<1>1. \A a, b, c, d : Passes(a, b, c, d) <=> Passes(a, b, c, d)'
  BY DEF Passes, Usb, Tells, Scans
<1>2. Now' = Now /\ (Agrees(hs[Len(queue)]) <=> Agrees(hs[Len(queue)])')
  BY DEF Now, Agrees, Usb
<1>3. QED
  BY <1>1, <1>2 DEF Follows

(* The user does something, and it is on its way.                          *)
LEMMA UserSends ==
  ASSUME KeyboardInv, NEW typed \in SUBSET Chars, NEW code, Send(typed, code),
         Usb \/ code \in Codes,
         keys' \in Slots, shifts' \subseteq Shifts, caps' \in BOOLEAN, misled' \in BOOLEAN,
         misled => misled',
         ~misled' => \A h \in Hosts : Agrees(h) =>
           \E g \in Hosts :
             /\ Passes(h, IF Usb THEN Report(shifts' # {}, keys') ELSE code, g,
                       [down |-> IF Usb THEN Down(keys') ELSE {}, typed |-> typed])
             /\ Agrees(g)'
  PROVE  KeyboardInv' /\ Promised!TypingNext
<1> DEFINE sent == IF Usb THEN Report(shifts' # {}, keys') ELSE code
           shown == IF Usb THEN Down(keys') ELSE {}
           what == [down |-> shown, typed |-> typed]
<1>1. KeyboardTypes
  BY DEF KeyboardInv
<1>2. /\ queue' = Append(queue, sent) /\ due' = Append(due, what)
      /\ UNCHANGED <<source, broken, report, g_caps_lock, g_held_usage, shift_pressed,
                     line, executing>>
  BY DEF Send, hid, shell
<1>3. shown \subseteq Chars
  BY DownFacts
<1>4. sent \in IF Usb THEN Reports ELSE Codes
  <2>1. Usb => Report(shifts' # {}, keys') \in Reports
    BY ReportFacts
  <2>2. QED
    BY <2>1
<1> HIDE DEF sent, shown
<1>5. what \in [down : SUBSET Chars, typed : SUBSET Chars]
  BY <1>3
<1> HIDE DEF what
<1>6. Usb <=> Usb'
  BY <1>2 DEF Usb
<1>7. /\ queue' \in Seq(IF Usb THEN Reports ELSE Codes)
      /\ due' \in Seq([down : SUBSET Chars, typed : SUBSET Chars]) /\ Len(due') = Len(queue')
  BY <1>1, <1>2, <1>4, <1>5, AppendProperties DEF KeyboardTypes
<1>8. KeyboardTypes'
  BY <1>1, <1>2, <1>6, <1>7 DEF KeyboardTypes
<1>9. ASSUME ~misled'
      PROVE  \E hs : Follows(hs)'
  <2>1. PICK hs : Follows(hs)
    BY <1>9 DEF KeyboardInv
  <2>2. hs[Len(queue)] \in Hosts /\ Agrees(hs[Len(queue)])
    <3>1. Len(queue) \in 0 .. Len(queue)
      BY <1>1, LenProperties DEF KeyboardTypes
    <3>2. QED
      BY <2>1, <3>1 DEF Follows
  <2>3. PICK g \in Hosts : Passes(hs[Len(queue)], sent, g, what) /\ Agrees(g)'
    BY <1>9, <2>2 DEF sent, what, shown
  <2>4. QED
    BY <1>1, <1>2, <2>1, <2>3, Sent DEF KeyboardTypes
<1>10. KeyboardInv'
  BY <1>8, <1>9 DEF KeyboardInv
<1>11. ASSUME misled'
       PROVE  Promised!TypingNext
  <2>1. (~misled)' = FALSE
    BY <1>11
  <2>2. Promised!Confuse
    BY <1>2, <2>1 DEF Promised!Confuse
  <2>3. QED
    BY <2>2 DEF Promised!TypingNext
<1>12. ASSUME ~misled'
       PROVE  Promised!TypingNext
  <2>1. (~misled)' = ~misled
    BY <1>12, <1>1 DEF KeyboardTypes
  <2>2. (IF Usb THEN Down(report.slots) ELSE {})' = (IF Usb THEN Down(report.slots) ELSE {})
    BY <1>2, <1>6 DEF Down
  <2>3. \E ds, cs \in SUBSET Chars : due' = Append(due, [down |-> ds, typed |-> cs])
    BY <1>2, <1>3 DEF what
  <2>4. Promised!Press
    BY <1>2, <2>1, <2>2, <2>3 DEF Promised!Press
  <2>5. QED
    BY <2>4 DEF Promised!TypingNext
<1>13. QED
  BY <1>10, <1>11, <1>12

(* What a host that knows the keyboard makes of a report, and of a         *)
(* scancode: it knows the keyboard again.                                  *)
LEMMA ReportTells ==
  ASSUME Usb, NEW h \in Hosts, Agrees(h), source' = source,
         keys' \in Slots, caps' \in BOOLEAN, NEW fresh, fresh = Range(keys') \ Range(keys),
         caps' = (caps # ("caps" \in fresh)), NEW code
  PROVE  \E g \in Hosts :
           /\ Passes(h, IF Usb THEN Report(shifts' # {}, keys') ELSE code, g,
                     [down |-> IF Usb THEN Down(keys') ELSE {},
                      typed |-> CharsFor(fresh, shifts' # {}, {caps, caps'})])
           /\ Agrees(g)'
<1> DEFINE r == Report(shifts' # {}, keys')
           typed == CharsFor(fresh, shifts' # {}, {caps, caps'})
<1>1. PICK what : what = [down |-> Down(keys'), typed |-> typed]
  OBVIOUS
<1>2. what.down = Down(keys') /\ what.typed = typed
  BY <1>1
<1>3. /\ r \in Reports /\ r.slots = keys' /\ r.shift = (shifts' # {})
      /\ h.report.slots = keys /\ h.caps = caps /\ h.shift \in BOOLEAN
  <2>1. r \in Reports
    BY ReportFacts
  <2>2. h.report.slots = keys /\ h.caps = caps /\ h.shift \in BOOLEAN
    BY DEF Agrees, Report, Hosts
  <2>3. QED
    BY <2>1, <2>2 DEF Report
<1>4. PICK g \in Hosts : g.caps = caps' /\ g.shift = h.shift /\ g.report = r
  <2> HIDE DEF r
  <2>1. [caps |-> caps', shift |-> h.shift, report |-> r] \in Hosts
    BY <1>3 DEF Hosts
  <2>2. QED
    BY <2>1
<1>5. fresh = Fresh(r, h.report)
  BY <1>3 DEF Fresh
<1>6. Agrees(g)'
  BY <1>4 DEF Agrees, Usb
<1> HIDE DEF r, typed
<1>7. Tells(h, r, g, what)
  <2>1. g.caps = (h.caps # ("caps" \in Fresh(r, h.report)))
    BY <1>3, <1>4, <1>5, Zenon
  <2>2. what.typed = CharsFor(Fresh(r, h.report), r.shift, {h.caps, g.caps})
    BY <1>2, <1>3, <1>4, <1>5, Zenon DEF typed
  <2>3. QED
    BY <1>2, <1>3, <1>4, <2>1, <2>2, Zenon DEF Tells
<1>8. QED
  BY <1>1, <1>6, <1>7, Zenon DEF Passes, r, typed

LEMMA ScancodeTells ==
  ASSUME ~Usb, NEW h \in Hosts, Agrees(h), source' = source,
         caps' \in BOOLEAN, NEW code \in Codes, NEW r,
         caps' = (caps # (code.key = "caps" /\ ~code.released)),
         (shifts' # {}) = IF code.key \in Shifts THEN ~code.released ELSE shifts # {},
         NEW typed,
         typed = IF code.key \in Shifts \/ code.released THEN {}
                 ELSE CharsFor({code.key}, shifts # {}, {caps})
  PROVE  \E g \in Hosts :
           /\ Passes(h, IF Usb THEN r ELSE code, g,
                     [down |-> IF Usb THEN Down(keys') ELSE {}, typed |-> typed])
           /\ Agrees(g)'
<1>1. PICK what : what = [down |-> {}, typed |-> typed]
  OBVIOUS
<1>2. what.down = {} /\ what.typed = typed
  BY <1>1
<1>3. /\ h.caps = caps /\ h.shift = (shifts # {}) /\ h.report \in Reports \cup {NoReport}
      /\ (shifts' # {}) \in BOOLEAN
  BY DEF Agrees, Hosts
<1>4. PICK g \in Hosts : g.caps = caps' /\ g.shift = (shifts' # {}) /\ g.report = h.report
  <2>1. [caps |-> caps', shift |-> shifts' # {}, report |-> h.report] \in Hosts
    BY <1>3 DEF Hosts
  <2>2. QED
    BY <2>1
<1>5. Agrees(g)'
  BY <1>4 DEF Agrees, Usb
<1>6. Scans(h, code, g, what)
  <2>1. g.shift = IF code.key \in Shifts THEN ~code.released ELSE h.shift
    BY <1>3, <1>4, Zenon
  <2>2. g.caps = (h.caps # (code.key = "caps" /\ ~code.released))
    BY <1>3, <1>4, Zenon
  <2>3. what.typed = IF code.key \in Shifts \/ code.released THEN {}
                     ELSE CharsFor({code.key}, h.shift, {h.caps})
    BY <1>2, <1>3, Zenon
  <2>4. QED
    BY <1>2, <1>4, <2>1, <2>2, <2>3, Zenon DEF Scans
<1>7. QED
  BY <1>1, <1>5, <1>6, Zenon DEF Passes

(* Keys are pressed: their characters are what the host hears, of a letter *)
(* pressed together with Caps Lock in either case.                         *)
LEMMA PressSends ==
  ASSUME KeyboardInv, Press
  PROVE  KeyboardInv' /\ Promised!TypingNext
<1>1. KeyboardTypes
  BY DEF KeyboardInv
<1>2. PICK new \in Slots :
        /\ new # <<>> /\ Range(new) \cap Range(keys) = {} /\ Len(keys \o new) <= 2
        /\ Usb \/ Len(new) = 1
        /\ keys' = keys \o new
        /\ caps' = (caps # ("caps" \in Range(new)))
        /\ UNCHANGED <<shifts, misled>>
        /\ Send(Meant(new), Make(Head(new)))
  BY DEF Press
<1> DEFINE cases == IF "caps" \in Range(new) THEN {caps, ~caps} ELSE {caps}
           typed == Meant(new)
<1>3. typed = CharsFor(Range(new), shifts # {}, cases)
  BY DEF Meant, CharsFor
<1>4. keys' \in Slots /\ Range(keys') = Range(keys) \cup Range(new)
  BY <1>1, <1>2, KeysPressed DEF KeyboardTypes
<1>5. caps' \in BOOLEAN /\ cases = {caps, caps'}
  <2>1. caps \in BOOLEAN
    BY <1>1 DEF KeyboardTypes
  <2>2. CASE "caps" \in Range(new)
    <3>1. caps' = (caps # TRUE)
      <4>1. ("caps" \in Range(new)) = TRUE
        BY <2>2
      <4>2. QED
        BY <1>2, <4>1, Zenon
    <3>2. caps' = ~caps
      BY <2>1, <3>1
    <3>3. QED
      BY <2>1, <2>2, <3>2
  <2>3. CASE "caps" \notin Range(new)
    <3>1. caps' = (caps # FALSE)
      <4>1. ("caps" \in Range(new)) = FALSE
        BY <2>3
      <4>2. QED
        BY <1>2, <4>1, Zenon
    <3>2. caps' = caps
      BY <2>1, <3>1
    <3>3. QED
      BY <2>1, <2>3, <3>2
  <2>4. QED
    BY <2>2, <2>3
<1> HIDE DEF cases, typed
<1>6. typed \in SUBSET Chars
  <2>1. /\ Range(new) \subseteq Keys /\ (shifts # {}) \in BOOLEAN
        /\ cases \subseteq BOOLEAN
    BY <1>1, <1>2, <1>5, SlotFacts DEF KeyboardTypes
  <2>2. QED
    BY <1>3, <2>1, CharsForTypes
<1>7. ASSUME NEW h \in Hosts, Agrees(h), Usb
      PROVE  \E g \in Hosts :
               /\ Passes(h, IF Usb THEN Report(shifts' # {}, keys') ELSE Make(Head(new)), g,
                         [down |-> IF Usb THEN Down(keys') ELSE {}, typed |-> typed])
               /\ Agrees(g)'
  <2>1. Range(new) = Range(keys') \ Range(keys)
    BY <1>2, <1>4
  <2>2. typed = CharsFor(Range(new), shifts' # {}, {caps, caps'})
    BY <1>2, <1>3, <1>5, Zenon
  <2>3. source' = source
    BY <1>2 DEF Send
  <2>4. QED
    BY <1>2, <1>4, <1>5, <1>7, <2>1, <2>2, <2>3, ReportTells, Zenon
<1>8. ASSUME NEW h \in Hosts, Agrees(h), ~Usb
      PROVE  /\ Make(Head(new)) \in Codes
             /\ \E g \in Hosts :
                  /\ Passes(h, IF Usb THEN Report(shifts' # {}, keys') ELSE Make(Head(new)), g,
                            [down |-> IF Usb THEN Down(keys') ELSE {}, typed |-> typed])
                  /\ Agrees(g)'
  <2>1. PICK k \in Keys : k = Head(new) /\ Range(new) = {k} /\ k \notin Shifts
    BY <1>2, <1>8, SlotFacts, KeyFacts DEF Range
  <2>2. PICK code : code = Make(Head(new))
    OBVIOUS
  <2>3. code \in Codes /\ code.key = k /\ code.released = FALSE
    BY <2>1, <2>2 DEF Make, Codes
  <2>4. caps' = (caps # (code.key = "caps" /\ ~code.released))
    BY <1>2, <2>1, <2>3
  <2>5. (shifts' # {}) = IF code.key \in Shifts THEN ~code.released ELSE shifts # {}
    BY <1>2, <2>1, <2>3
  <2>6. typed = CharsFor({code.key}, shifts # {}, {caps})
    <3>1. CASE k = "caps"
      BY <1>3, <2>1, <2>3, <3>1, CharsForNone
    <3>2. CASE k # "caps"
      BY <1>3, <2>1, <2>3, <3>2 DEF cases
    <3>3. QED
      BY <3>1, <3>2
  <2>7. typed = IF code.key \in Shifts \/ code.released THEN {}
                ELSE CharsFor({code.key}, shifts # {}, {caps})
    BY <2>1, <2>3, <2>6, Zenon
  <2>8. source' = source
    BY <1>2 DEF Send
  <2>9. QED
    BY <1>5, <1>8, <2>2, <2>3, <2>4, <2>5, <2>7, <2>8, ScancodeTells, Zenon
<1>9. QED
  <2>1. Usb \/ Make(Head(new)) \in Codes
    <3>1. ~Usb => Make(Head(new)) \in Codes
      BY <1>2, SlotFacts DEF Make, Codes
    <3>2. QED
      BY <3>1
  <2>2. Send(typed, Make(Head(new))) /\ misled' = misled /\ misled \in BOOLEAN
        /\ shifts' \subseteq Shifts
    BY <1>1, <1>2 DEF typed, KeyboardTypes
  <2>3. QED
    BY <1>4, <1>5, <1>6, <1>7, <1>8, <2>1, <2>2, UserSends, Zenon

LEMMA ReleaseSends ==
  ASSUME KeyboardInv, Release
  PROVE  KeyboardInv' /\ Promised!TypingNext
<1>1. KeyboardTypes
  BY DEF KeyboardInv
<1>2. PICK i \in DOMAIN keys :
        /\ keys' = RemoveAt(keys, i)
        /\ UNCHANGED <<shifts, caps, misled>>
        /\ Send({}, Break(keys[i]))
  BY DEF Release
<1>3. keys' \in Slots /\ Range(keys') \ Range(keys) = {}
  BY <1>1, <1>2, KeyLifted DEF KeyboardTypes
<1>4. keys[i] \in Keys /\ keys[i] \notin Shifts
  BY <1>1, <1>2, SlotFacts, KeyFacts DEF KeyboardTypes
<1>5. PICK code : code = Break(keys[i])
  OBVIOUS
<1>6. code \in Codes /\ code.key \in Keys /\ code.key \notin Shifts /\ code.released = TRUE
  BY <1>4, <1>5 DEF Break, Codes
<1>7. ASSUME NEW h \in Hosts, Agrees(h)
      PROVE  \E g \in Hosts :
               /\ Passes(h, IF Usb THEN Report(shifts' # {}, keys') ELSE code, g,
                         [down |-> IF Usb THEN Down(keys') ELSE {}, typed |-> {}])
               /\ Agrees(g)'
  <2>1. caps' \in BOOLEAN /\ caps \in BOOLEAN /\ caps' = caps /\ source' = source
    BY <1>1, <1>2 DEF KeyboardTypes, Send
  <2>2. CASE Usb
    <3>1. caps' = (caps # ("caps" \in {}))
      BY <2>1
    <3>2. CharsFor({}, shifts' # {}, {caps, caps'}) = {}
      BY CharsForNone
    <3>3. PICK fresh : fresh = {}
      OBVIOUS
    <3>4. QED
      BY <1>3, <1>7, <2>1, <2>2, <3>1, <3>2, <3>3, ReportTells, Zenon
  <2>3. CASE ~Usb
    <3>1. caps' = (caps # (code.key = "caps" /\ ~code.released))
      BY <1>6, <2>1
    <3>2. (shifts' # {}) = IF code.key \in Shifts THEN ~code.released ELSE shifts # {}
      BY <1>2, <1>6
    <3>3. {} = IF code.key \in Shifts \/ code.released THEN {}
               ELSE CharsFor({code.key}, shifts # {}, {caps})
      BY <1>6
    <3>4. QED
      BY <1>6, <1>7, <2>1, <2>3, <3>1, <3>2, <3>3, ScancodeTells, Zenon
  <2>4. QED
    BY <2>2, <2>3
<1>8. Send({}, code) /\ misled' = misled /\ misled \in BOOLEAN /\ shifts' \subseteq Shifts
      /\ caps' \in BOOLEAN
  BY <1>1, <1>2, <1>5 DEF KeyboardTypes
<1>9. {} \in SUBSET Chars
  OBVIOUS
<1>10. QED
  BY <1>3, <1>6, <1>7, <1>8, <1>9, UserSends, Zenon

LEMMA ShiftSends ==
  ASSUME KeyboardInv, Shift
  PROVE  KeyboardInv' /\ Promised!TypingNext
<1>1. KeyboardTypes
  BY DEF KeyboardInv
<1>2. PICK s \in Shifts :
        /\ shifts' = IF s \in shifts THEN shifts \ {s} ELSE shifts \cup {s}
        /\ misled' = (misled \/ (~Usb /\ s \in shifts /\ shifts' # {}))
        /\ UNCHANGED <<keys, caps>>
        /\ Send({}, IF s \in shifts THEN Break(s) ELSE Make(s))
  BY DEF Shift
<1>3. /\ keys' \in Slots /\ Range(keys') \ Range(keys) = {} /\ shifts' \subseteq Shifts
      /\ caps' \in BOOLEAN /\ caps' = caps /\ source' = source
  <2>1. keys' = keys
    BY <1>2
  <2>2. Range(keys') \ Range(keys) = {}
    BY <2>1 DEF Range
  <2>3. QED
    BY <1>1, <1>2, <2>2 DEF KeyboardTypes, Send
<1>4. misled \in BOOLEAN /\ misled' \in BOOLEAN
  BY <1>1, <1>2 DEF KeyboardTypes
<1>5. misled => misled'
  BY <1>2
<1>6. s \notin Keys /\ "caps" \in Keys
  BY KeyFacts
<1>7. PICK code : code = IF s \in shifts THEN Break(s) ELSE Make(s)
  OBVIOUS
<1>8. code \in Codes /\ code.key = s /\ (code.released <=> s \in shifts)
  <2>1. CASE s \in shifts
    BY <1>7, <2>1 DEF Break, Codes
  <2>2. CASE s \notin shifts
    BY <1>7, <2>2 DEF Make, Codes
  <2>3. QED
    BY <2>1, <2>2
<1>9. ASSUME NEW h \in Hosts, Agrees(h), ~misled'
      PROVE  \E g \in Hosts :
               /\ Passes(h, IF Usb THEN Report(shifts' # {}, keys') ELSE code, g,
                         [down |-> IF Usb THEN Down(keys') ELSE {}, typed |-> {}])
               /\ Agrees(g)'
  <2>1. CASE Usb
    <3>1. caps' = (caps # ("caps" \in {}))
      BY <1>3
    <3>2. CharsFor({}, shifts' # {}, {caps, caps'}) = {}
      BY CharsForNone
    <3>3. PICK fresh : fresh = {}
      OBVIOUS
    <3>4. QED
      BY <1>3, <1>9, <2>1, <3>1, <3>2, <3>3, ReportTells, Zenon
  <2>2. CASE ~Usb
    <3>1. caps' = (caps # (code.key = "caps" /\ ~code.released))
      BY <1>3, <1>6, <1>8
    <3>2. (shifts' # {}) = IF code.key \in Shifts THEN ~code.released ELSE shifts # {}
      <4>1. CASE s \in shifts
        BY <1>2, <1>8, <1>9, <2>2, <4>1
      <4>2. CASE s \notin shifts
        BY <1>2, <1>8, <4>2
      <4>3. QED
        BY <4>1, <4>2
    <3>3. {} = IF code.key \in Shifts \/ code.released THEN {}
               ELSE CharsFor({code.key}, shifts # {}, {caps})
      BY <1>8
    <3>4. QED
      BY <1>3, <1>8, <1>9, <2>2, <3>1, <3>2, <3>3, ScancodeTells, Zenon
  <2>3. QED
    BY <2>1, <2>2
<1>10. Send({}, code) /\ {} \in SUBSET Chars
  BY <1>2, <1>7
<1>11. QED
  BY <1>3, <1>4, <1>5, <1>8, <1>9, <1>10, UserSends, Zenon

LEMMA TypematicSends ==
  ASSUME KeyboardInv, Typematic
  PROVE  KeyboardInv' /\ Promised!TypingNext
<1>1. KeyboardTypes
  BY DEF KeyboardInv
<1>2. PICK k \in Range(keys) :
        /\ ~Usb
        /\ caps' = (caps # (k = "caps"))
        /\ UNCHANGED <<keys, shifts, misled>>
        /\ Send(Meant(<<k>>), Make(k))
  BY DEF Typematic
<1>3. k \in Keys /\ k \notin Shifts /\ Range(<<k>>) = {k}
  <2>1. Range(<<k>>) = {k}
    BY DEF Range
  <2>2. Range(keys) \subseteq Keys
    BY <1>1, SlotFacts DEF KeyboardTypes
  <2>3. QED
    BY <1>2, <2>1, <2>2, KeyFacts
<1>4. /\ keys' \in Slots /\ shifts' \subseteq Shifts
      /\ caps \in BOOLEAN /\ source' = source
      /\ misled \in BOOLEAN /\ misled' = misled
  BY <1>1, <1>2 DEF KeyboardTypes, Send
<1>5. caps' \in BOOLEAN
  BY <1>2, <1>4
<1>6. PICK code : code = Make(k)
  OBVIOUS
<1>7. code \in Codes /\ code.key = k /\ code.released = FALSE
  BY <1>3, <1>6 DEF Make, Codes
<1> DEFINE cases == IF "caps" \in {k} THEN {caps, ~caps} ELSE {caps}
           typed == Meant(<<k>>)
<1>8. typed = CharsFor({k}, shifts # {}, cases)
  <2>1. typed = CharsFor(Range(<<k>>), shifts # {},
                         IF "caps" \in Range(<<k>>) THEN {caps, ~caps} ELSE {caps})
    BY DEF Meant, CharsFor
  <2>2. QED
    BY <1>3, <2>1
<1> HIDE DEF typed
<1>9. typed = CharsFor({k}, shifts # {}, {caps})
  <2>1. CASE k = "caps"
    BY <1>8, <2>1, CharsForNone
  <2>2. CASE k # "caps"
    BY <1>8, <2>2
  <2>3. QED
    BY <2>1, <2>2
<1> HIDE DEF cases
<1>10. typed \in SUBSET Chars
  <2>1. {k} \subseteq Keys /\ (shifts # {}) \in BOOLEAN /\ {caps} \subseteq BOOLEAN
    BY <1>3, <1>4
  <2>2. CharsFor({k}, shifts # {}, {caps}) \subseteq Chars
    BY <2>1, CharsForTypes, Zenon
  <2>3. QED
    BY <1>9, <2>2
<1>11. ASSUME NEW h \in Hosts, Agrees(h)
       PROVE  \E g \in Hosts :
                /\ Passes(h, IF Usb THEN Report(shifts' # {}, keys') ELSE code, g,
                          [down |-> IF Usb THEN Down(keys') ELSE {}, typed |-> typed])
                /\ Agrees(g)'
  <2>1. caps' = (caps # (code.key = "caps" /\ ~code.released))
    BY <1>2, <1>7
  <2>2. (shifts' # {}) = IF code.key \in Shifts THEN ~code.released ELSE shifts # {}
    BY <1>2, <1>3, <1>7
  <2>3. typed = IF code.key \in Shifts \/ code.released THEN {}
                ELSE CharsFor({code.key}, shifts # {}, {caps})
    BY <1>3, <1>7, <1>9, Zenon
  <2>4. QED
    BY <1>2, <1>4, <1>5, <1>7, <1>11, <2>1, <2>2, <2>3, ScancodeTells, Zenon
<1>12. Send(typed, code) /\ (misled => misled') /\ misled' \in BOOLEAN
  BY <1>2, <1>4, <1>6 DEF typed
<1>13. QED
  BY <1>4, <1>5, <1>7, <1>10, <1>11, <1>12, UserSends, Zenon

(* Reports that come out blank, or not at all.                             *)
LEMMA SpoilSteps ==
  ASSUME KeyboardInv, Spoil
  PROVE  KeyboardInv' /\ Promised!TypingNext
<1>1. KeyboardTypes /\ Usb
  BY DEF KeyboardInv, Spoil
<1>2. PICK i \in DOMAIN queue : queue' = [queue EXCEPT ![i] = Blank]
  BY DEF Spoil, Pipe!Spoil
<1>3. /\ misled' = TRUE
      /\ UNCHANGED <<source, broken, report, keys, shifts, caps, due, g_caps_lock,
                     g_held_usage, shift_pressed, line, executing>>
  BY <1>1 DEF Spoil, Pipe!Spoil, hid, shell
<1>4. queue' \in Seq(Reports) /\ Len(queue') = Len(queue)
  <2>1. Blank \in Reports
    BY ReportFacts DEF Blank, Slots
  <2>2. queue \in Seq(Reports)
    BY <1>1 DEF KeyboardTypes
  <2>3. QED
    BY <1>2, <2>1, <2>2, ExceptSeq
<1>5. KeyboardTypes'
  BY <1>1, <1>3, <1>4 DEF KeyboardTypes, Usb
<1>6. (~misled)' = FALSE
  BY <1>3
<1>7. Promised!Confuse
  BY <1>3, <1>6 DEF Promised!Confuse
<1>8. QED
  BY <1>3, <1>5, <1>7 DEF KeyboardInv, Promised!TypingNext

LEMMA LoseSteps ==
  ASSUME KeyboardInv, Lose
  PROVE  KeyboardInv' /\ Promised!TypingNext
<1>1. KeyboardTypes /\ Usb
  BY DEF KeyboardInv, Lose
<1>2. /\ queue # <<>> /\ queue' = Tail(queue) /\ due' = Tail(due)
      /\ misled' = TRUE
      /\ UNCHANGED <<source, broken, report, keys, shifts, caps, g_caps_lock,
                     g_held_usage, shift_pressed, line, executing>>
  BY <1>1 DEF Lose, Pipe!Lose, hid, shell
<1>3. /\ queue \in Seq(Reports) /\ Len(due) = Len(queue)
      /\ due \in Seq([down : SUBSET Chars, typed : SUBSET Chars])
  BY <1>1 DEF KeyboardTypes
<1>4. queue' \in Seq(Reports) /\ Len(queue') = Len(queue) - 1 /\ Len(queue) # 0
  BY <1>2, <1>3, HeadTailProperties, EmptySeq
<1>5. /\ due' \in Seq([down : SUBSET Chars, typed : SUBSET Chars])
      /\ Len(due') = Len(due) - 1
  <2>1. due # <<>>
    BY <1>3, <1>4
  <2>2. /\ Tail(due) \in Seq([down : SUBSET Chars, typed : SUBSET Chars])
        /\ Len(Tail(due)) = Len(due) - 1
    BY <1>3, <2>1, HeadTailProperties
  <2>3. QED
    BY <1>2, <2>2, Zenon
<1>6. Len(due') = Len(queue')
  BY <1>3, <1>4, <1>5
<1>7. KeyboardTypes'
  BY <1>1, <1>2, <1>4, <1>5, <1>6 DEF KeyboardTypes, Usb
<1>8. (~misled)' = FALSE
  BY <1>2
<1>9. Promised!Confuse
  BY <1>2, <1>8 DEF Promised!Confuse
<1>10. QED
  BY <1>2, <1>7, <1>9 DEF KeyboardInv, Promised!TypingNext

(* A step that is none of typing's.                                        *)
LEMMA Aside ==
  ASSUME KeyboardInv,
         UNCHANGED <<source, queue, report, user, g_caps_lock, shift_pressed, shell>>,
         broken' \in BOOLEAN, g_held_usage' \in Keys \cup {NoKey}
  PROVE  KeyboardInv' /\ UNCHANGED Promised!typingVars
<1>1. KeyboardTypes'
  BY DEF KeyboardInv, KeyboardTypes, user, shell, Usb
<1>2. ASSUME ~misled'
      PROVE  \E hs : Follows(hs)'
  <2>1. PICK hs : Follows(hs)
    BY <1>2 DEF KeyboardInv, user
  <2>2. QED
    BY <2>1, Unmoved DEF user
<1>3. UNCHANGED Promised!typingVars
  BY DEF Promised!typingVars, user, shell, Usb, Down
<1>4. QED
  BY <1>1, <1>2, <1>3 DEF KeyboardInv

LEMMA ExecutedSteps ==
  ASSUME KeyboardInv, Executed
  PROVE  KeyboardInv' /\ Promised!TypingNext
<1>1. /\ UNCHANGED <<source, queue, report, keys, shifts, caps, due, misled, g_caps_lock,
                     shift_pressed, line, broken, g_held_usage>>
      /\ executing # NoLine /\ executing' = NoLine
  BY DEF Executed, pipe, user, hid
<1>2. KeyboardTypes'
  BY <1>1 DEF KeyboardInv, KeyboardTypes, Usb
<1>3. ASSUME ~misled'
      PROVE  \E hs : Follows(hs)'
  <2>1. PICK hs : Follows(hs)
    BY <1>1, <1>3 DEF KeyboardInv
  <2>2. QED
    BY <1>1, <2>1, Unmoved
<1>4. Promised!Executed
  BY <1>1 DEF Promised!Executed, Usb, Down
<1>5. QED
  BY <1>2, <1>3, <1>4 DEF KeyboardInv, Promised!TypingNext

(* What poll hands on is a character of the keys of the report, and one    *)
(* of those newly down if there are any.                                   *)
LEMMA PollHears ==
  ASSUME KeyboardInv, poll, NEW fresh, fresh = Fresh(report', report) \ {"caps"},
         NEW cs, cs = IF fresh = {} THEN Down(report'.slots)
                      ELSE CharsFor(fresh, report'.shift, {g_caps_lock, g_caps_lock'})
  PROVE  /\ g_caps_lock' = (g_caps_lock # ("caps" \in Fresh(report', report)))
         /\ g_held_usage' \in Keys \cup {NoKey}
         /\ \E c : Accept(c) /\ (c \in cs \/ (c = NoChar /\ fresh = {}))
<1>1. KeyboardTypes /\ Usb
  BY DEF KeyboardInv, poll
<1>2. report \in Reports /\ report' \in Reports
  <2>1. queue \in Seq(Reports) /\ queue # <<>> /\ report' = Head(queue)
    BY <1>1 DEF KeyboardTypes, poll, Pipe!Deliver
  <2>2. QED
    BY <1>1, <2>1, HeadTailProperties DEF KeyboardTypes
<1>3. g_caps_lock \in BOOLEAN /\ g_held_usage \in Keys \cup {NoKey}
  BY <1>1 DEF KeyboardTypes
<1> DEFINE heard == Heard(report', report)
<1>4. /\ heard.caps = (g_caps_lock # ("caps" \in Fresh(report', report)))
      /\ fresh = {} => heard.key = NoKey /\ heard.char = NoChar
      /\ fresh # {} => /\ heard.key \in fresh
                       /\ \/ heard.char = Char(heard.key, report'.shift, g_caps_lock)
                          \/ heard.char = Char(heard.key, report'.shift, heard.caps)
  BY <1>2, <1>3, HeardFacts, Zenon
<1>5. /\ g_caps_lock' = heard.caps
      /\ IF heard.key = NoKey
         THEN CheckRepeat(g_held_usage, report', held, repeated, NoChar, heard.caps)
         ELSE CheckRepeat(heard.key, report', 0, 0, heard.char, heard.caps)
  BY DEF poll
<1> HIDE DEF heard
<1>6. /\ fresh \subseteq Keys \ {"caps"} /\ report'.slots \in Slots
      /\ report'.shift \in BOOLEAN /\ heard.caps \in BOOLEAN
      /\ Range(report'.slots) \subseteq Keys
  <2>1. report'.slots \in Slots /\ report'.shift \in BOOLEAN
    BY <1>2, ReportFacts
  <2>2. heard.caps \in BOOLEAN
    BY <1>3, <1>4, Zenon
  <2>3. Range(report'.slots) \subseteq Keys
    BY <2>1, SlotFacts
  <2>4. QED
    BY <2>1, <2>2, <2>3 DEF Fresh
<1>7. CASE fresh = {}
  <2>1. CheckRepeat(g_held_usage, report', held, repeated, NoChar, heard.caps)
    BY <1>4, <1>5, <1>7
  <2>2. /\ g_held_usage' \in Keys \cup {NoKey}
        /\ \/ Accept(NoChar)
           \/ /\ g_held_usage \in Range(report'.slots)
              /\ Accept(Char(g_held_usage, report'.shift, heard.caps))
    BY <1>2, <1>3, <2>1, RepeatFacts
  <2>3. ASSUME NEW k \in Range(report'.slots)
        PROVE  \/ Char(k, report'.shift, heard.caps) \in cs
               \/ Char(k, report'.shift, heard.caps) = NoChar
    BY <1>6, <1>7, DownFacts
  <2>4. QED
    BY <1>4, <1>5, <1>7, <2>2, <2>3, Zenon
<1>8. CASE fresh # {}
  <2>1. heard.key \in fresh /\ heard.key # NoKey /\ heard.key \in Keys
    BY <1>4, <1>6, <1>8, KeyFacts
  <2>2. CheckRepeat(heard.key, report', 0, 0, heard.char, heard.caps)
    BY <1>5, <2>1
  <2>3. /\ g_held_usage' \in Keys \cup {NoKey}
        /\ \/ Accept(heard.char)
           \/ Accept(Char(heard.key, report'.shift, heard.caps))
    BY <1>2, <2>1, <2>2, RepeatFacts
  <2>4. /\ Char(heard.key, report'.shift, g_caps_lock) \in cs
        /\ Char(heard.key, report'.shift, heard.caps) \in cs
    <3>1. cs = CharsFor(fresh, report'.shift, {g_caps_lock, heard.caps})
      BY <1>5, <1>8
    <3>2. heard.key \in fresh \ {"caps"}
      BY <1>6, <2>1
    <3>3. QED
      BY <3>1, <3>2, CharsForMembers
  <2>5. QED
    BY <1>4, <1>5, <1>8, <2>3, <2>4, Zenon
<1>9. QED
  BY <1>7, <1>8, Zenon

LEMMA PollSteps ==
  ASSUME KeyboardInv, poll
  PROVE  KeyboardInv' /\ Promised!TypingNext
<1>1. KeyboardTypes /\ Usb
  BY DEF KeyboardInv, poll
<1>2. /\ queue # <<>> /\ report' = Head(queue) /\ queue' = Tail(queue) /\ due' = Tail(due)
      /\ executing = NoLine
      /\ UNCHANGED <<source, broken, keys, shifts, caps, misled, shift_pressed>>
  BY <1>1 DEF poll, Pipe!Deliver
<1>3. /\ queue \in Seq(Reports) /\ Len(due) = Len(queue)
      /\ due \in Seq([down : SUBSET Chars, typed : SUBSET Chars])
      /\ line \in Seq(Chars) /\ g_caps_lock \in BOOLEAN
      /\ g_held_usage \in Keys \cup {NoKey} /\ report \in Reports
  BY <1>1 DEF KeyboardTypes
<1>4. report' \in Reports /\ queue' \in Seq(Reports) /\ Len(queue) \in Nat \ {0}
      /\ report' = queue[1] /\ Len(queue') = Len(queue) - 1
  BY <1>2, <1>3, HeadTailProperties, EmptySeq
<1>5. /\ due # <<>> /\ Head(due) = due[1]
      /\ due' \in Seq([down : SUBSET Chars, typed : SUBSET Chars]) /\ Len(due') = Len(due) - 1
      /\ due[1] \in [down : SUBSET Chars, typed : SUBSET Chars]
  <2>1. due # <<>>
    BY <1>3, <1>4
  <2>2. /\ Head(due) \in [down : SUBSET Chars, typed : SUBSET Chars]
        /\ Tail(due) \in Seq([down : SUBSET Chars, typed : SUBSET Chars])
        /\ Len(Tail(due)) = Len(due) - 1
    BY <1>3, <2>1, HeadTailProperties
  <2>3. Head(due) = due[1]
    BY <1>3, <2>1
  <2>4. QED
    BY <1>2, <2>1, <2>2, <2>3, Zenon
<1>6. PICK all : all = Fresh(report', report)
  OBVIOUS
<1>7. PICK fresh : fresh = all \ {"caps"}
  OBVIOUS
<1>8. PICK cs : cs = IF fresh = {} THEN Down(report'.slots)
                     ELSE CharsFor(fresh, report'.shift, {g_caps_lock, g_caps_lock'})
  OBVIOUS
<1>9. PICK c : /\ g_caps_lock' = (g_caps_lock # ("caps" \in all))
               /\ g_held_usage' \in Keys \cup {NoKey}
               /\ Accept(c) /\ (c \in cs \/ (c = NoChar /\ fresh = {}))
  BY <1>6, <1>7, <1>8, PollHears, Zenon
<1>10. g_caps_lock' \in BOOLEAN
  BY <1>3, <1>9, Zenon
<1>11. cs \subseteq Chars
  <2>1. report'.slots \in Slots /\ report'.shift \in BOOLEAN
    BY <1>4, ReportFacts
  <2>2. fresh \subseteq Keys
    BY <1>6, <1>7, <2>1, SlotFacts DEF Fresh
  <2>3. QED
    BY <1>3, <1>8, <1>10, <2>1, <2>2, DownFacts, CharsForTypes
<1>12. /\ line' \in Seq(Chars)
       /\ UNCHANGED <<line, executing>> \/ \E x \in cs : Promised!Edit(x)
  BY <1>2, <1>3, <1>9, <1>11, Accepted
<1>13. KeyboardTypes'
  BY <1>1, <1>2, <1>3, <1>4, <1>5, <1>9, <1>10, <1>12 DEF KeyboardTypes, Usb
<1>14. ASSUME ~misled
       PROVE  /\ \E hs : Follows(hs)'
              /\ due[1].down = Down(report'.slots)
              /\ due[1].typed = CharsFor(all, report'.shift, {g_caps_lock, g_caps_lock'})
  <2>1. PICK hs : Follows(hs)
    BY <1>14 DEF KeyboardInv
  <2>2. /\ hs[0] = Now /\ hs[1] \in Hosts /\ Passes(hs[0], queue[1], hs[1], due[1])
    <3>1. 1 \in 1 .. Len(queue) /\ 1 \in 0 .. Len(queue) /\ 1 - 1 = 0
      BY <1>4
    <3>2. QED
      BY <2>1, <3>1 DEF Follows
  <2>3. PICK h, g : h = Now /\ g = hs[1] /\ g \in Hosts /\ Tells(h, report', g, due[1])
    BY <1>1, <1>4, <2>2 DEF Passes
  <2>4. h.report = report /\ h.shift = shift_pressed /\ h.caps = g_caps_lock
    BY <2>3 DEF Now
  <2>5. /\ g.report = report' /\ g.shift = shift_pressed' /\ g.caps = g_caps_lock'
        /\ due[1].down = Down(report'.slots)
        /\ due[1].typed = CharsFor(all, report'.shift, {g_caps_lock, g_caps_lock'})
    <3>1. g.report = report' /\ g.shift = shift_pressed'
      BY <1>2, <2>3, <2>4 DEF Tells
    <3>2. g.caps = (h.caps # ("caps" \in all))
      BY <1>6, <2>3, <2>4, Zenon DEF Tells
    <3>3. g.caps = g_caps_lock'
      BY <1>9, <2>4, <3>2, Zenon
    <3>4. /\ due[1].down = Down(report'.slots)
          /\ due[1].typed = CharsFor(all, report'.shift, {h.caps, g.caps})
      BY <1>6, <2>3, <2>4, Zenon DEF Tells
    <3>5. QED
      BY <2>4, <3>1, <3>3, <3>4, Zenon
  <2>6. g = [caps |-> g_caps_lock', shift |-> shift_pressed', report |-> report']
    BY <2>3, <2>5 DEF Hosts
  <2>7. Now' = hs[1]
    BY <2>3, <2>6 DEF Now
  <2>8. \E gs : Follows(gs)'
    BY <1>1, <1>2, <1>3, <2>1, <2>7, Taken
  <2>9. QED
    BY <2>5, <2>8, Zenon
<1>15. KeyboardInv'
  BY <1>2, <1>13, <1>14 DEF KeyboardInv
<1>16. CASE misled
  <2>1. /\ ~(~misled) /\ (~misled)' = ~misled
    BY <1>2, <1>16
  <2>2. Promised!Mistake
    BY <1>11, <1>12, <2>1 DEF Promised!Mistake
  <2>3. QED
    BY <1>15, <2>2 DEF Promised!TypingNext
<1>17. CASE ~misled
  <2>1. (~misled)' = ~misled
    BY <1>2
  <2>2. (IF Usb THEN Down(report.slots) ELSE {})' = Down(report'.slots)
    BY <1>1, <1>2 DEF Usb, Down
  <2>3. Head(due).down = Down(report'.slots)
    BY <1>5, <1>14, <1>17
  <2>4. CharsFor(all, report'.shift, {g_caps_lock, g_caps_lock'}) =
        CharsFor(fresh, report'.shift, {g_caps_lock, g_caps_lock'})
    BY <1>7 DEF CharsFor
  <2>5. CASE fresh = {}
    <3>1. Head(due).typed = {}
      BY <1>5, <1>14, <1>17, <2>4, <2>5, CharsForNone
    <3>2. cs = Down(report'.slots)
      BY <1>8, <2>5
    <3>3. Promised!Hear
      BY <1>2, <1>5, <1>12, <2>1, <2>2, <2>3, <3>1, <3>2 DEF Promised!Hear
    <3>4. QED
      BY <1>15, <3>3 DEF Promised!TypingNext
  <2>6. CASE fresh # {}
    <3>1. Head(due).typed = cs
      BY <1>5, <1>8, <1>14, <1>17, <2>4, <2>6
    <3>2. c \in cs
      BY <1>9, <2>6
    <3>3. Promised!Edit(c)
      BY <1>2, <1>3, <1>9, <1>11, <3>2, AcceptEdits
    <3>4. Promised!Hear
      BY <1>2, <1>5, <2>1, <2>2, <2>3, <3>1, <3>2, <3>3 DEF Promised!Hear
    <3>5. QED
      BY <1>15, <3>4 DEF Promised!TypingNext
  <2>7. QED
    BY <2>5, <2>6
<1>18. QED
  BY <1>16, <1>17

LEMMA PollNothingSteps ==
  ASSUME KeyboardInv, pollNothing
  PROVE  KeyboardInv' /\ [Promised!TypingNext]_(Promised!typingVars)
<1>1. KeyboardTypes /\ Usb
  BY DEF KeyboardInv, pollNothing
<1>2. /\ executing = NoLine
      /\ CheckRepeat(g_held_usage, report, held, repeated, NoChar, g_caps_lock)
      /\ UNCHANGED <<source, queue, report, broken, keys, shifts, caps, due, misled,
                     g_caps_lock, shift_pressed>>
  BY DEF pollNothing, pipe, user
<1>3. /\ report \in Reports /\ g_held_usage \in Keys \cup {NoKey} /\ line \in Seq(Chars)
      /\ g_caps_lock \in BOOLEAN
  BY <1>1 DEF KeyboardTypes
<1>4. report.slots \in Slots /\ report.shift \in BOOLEAN
  BY <1>3, ReportFacts
<1>5. /\ g_held_usage' \in Keys \cup {NoKey}
      /\ \E c : Accept(c) /\ c \in Down(report.slots) \cup {NoChar}
  <2>1. /\ g_held_usage' \in Keys \cup {NoKey}
        /\ \/ Accept(NoChar)
           \/ /\ g_held_usage \in Range(report.slots)
              /\ Accept(Char(g_held_usage, report.shift, g_caps_lock))
    BY <1>2, <1>3, RepeatFacts
  <2>2. g_held_usage \in Range(report.slots) =>
          Char(g_held_usage, report.shift, g_caps_lock) \in Down(report.slots) \cup {NoChar}
    BY <1>3, <1>4, DownFacts
  <2>3. QED
    BY <2>1, <2>2
<1>6. /\ line' \in Seq(Chars)
      /\ UNCHANGED <<line, executing>> \/ \E x \in Down(report.slots) : Promised!Edit(x)
  BY <1>2, <1>3, <1>4, <1>5, Accepted, DownFacts
<1>7. KeyboardTypes'
  BY <1>1, <1>2, <1>5, <1>6 DEF KeyboardTypes, Usb
<1>8. ASSUME ~misled'
      PROVE  \E hs : Follows(hs)'
  <2>1. PICK hs : Follows(hs)
    BY <1>2, <1>8 DEF KeyboardInv
  <2>2. QED
    BY <1>2, <2>1, Unmoved
<1>9. KeyboardInv'
  BY <1>7, <1>8 DEF KeyboardInv
<1>10. /\ UNCHANGED <<~misled, due>>
       /\ (IF Usb THEN Down(report.slots) ELSE {}) = Down(report.slots)
       /\ UNCHANGED (IF Usb THEN Down(report.slots) ELSE {})
  BY <1>1, <1>2 DEF Usb, Down
<1>11. CASE UNCHANGED <<line, executing>>
  BY <1>9, <1>10, <1>11 DEF Promised!typingVars
<1>12. CASE \E x \in Down(report.slots) : Promised!Edit(x)
  <2>1. Promised!Repeat
    BY <1>10, <1>12, Zenon DEF Promised!Repeat
  <2>2. QED
    BY <1>9, <2>1 DEF Promised!TypingNext
<1>13. QED
  BY <1>6, <1>11, <1>12

(* A scancode is heard.                                                    *)
LEMMA ScancodeSteps ==
  ASSUME KeyboardInv, ps2GetChar
  PROVE  KeyboardInv' /\ Promised!TypingNext
<1>1. KeyboardTypes /\ ~Usb
  BY DEF KeyboardInv, ps2GetChar
<1>2. PICK code : code = Head(queue)
  OBVIOUS
<1>3. PICK c : c = IF code.key \in Shifts \/ code.released THEN NoChar
                   ELSE Char(code.key, shift_pressed, g_caps_lock)
  OBVIOUS
<1>4. /\ executing = NoLine /\ queue # <<>> /\ queue' = Tail(queue) /\ due' = Tail(due)
      /\ shift_pressed' = IF code.key \in Shifts THEN ~code.released ELSE shift_pressed
      /\ g_caps_lock' = (g_caps_lock # (code.key = "caps" /\ ~code.released))
      /\ Accept(c)
      /\ UNCHANGED <<source, broken, report, keys, shifts, caps, misled, g_held_usage>>
  BY <1>2, <1>3 DEF ps2GetChar, hid
<1>5. /\ queue \in Seq(Codes) /\ Len(due) = Len(queue)
      /\ due \in Seq([down : SUBSET Chars, typed : SUBSET Chars])
      /\ line \in Seq(Chars) /\ g_caps_lock \in BOOLEAN /\ shift_pressed \in BOOLEAN
  BY <1>1 DEF KeyboardTypes
<1>6. code \in Codes /\ queue' \in Seq(Codes) /\ Len(queue) \in Nat \ {0}
      /\ code = queue[1] /\ Len(queue') = Len(queue) - 1
  BY <1>2, <1>4, <1>5, HeadTailProperties, EmptySeq
<1>7. /\ due # <<>> /\ Head(due) = due[1]
      /\ due' \in Seq([down : SUBSET Chars, typed : SUBSET Chars]) /\ Len(due') = Len(due) - 1
  <2>1. due # <<>>
    BY <1>5, <1>6
  <2>2. /\ Tail(due) \in Seq([down : SUBSET Chars, typed : SUBSET Chars])
        /\ Len(Tail(due)) = Len(due) - 1
    BY <1>5, <2>1, HeadTailProperties
  <2>3. Head(due) = due[1]
    BY <1>5, <2>1
  <2>4. QED
    BY <1>4, <2>1, <2>2, <2>3, Zenon
<1>8. code.key \in Keys \cup Shifts /\ code.released \in BOOLEAN
  BY <1>6 DEF Codes
<1>9. shift_pressed' \in BOOLEAN /\ g_caps_lock' \in BOOLEAN
  BY <1>4, <1>5, <1>8
<1>10. PICK cs : cs = IF code.key \in Shifts \/ code.released THEN {}
                      ELSE CharsFor({code.key}, shift_pressed, {g_caps_lock})
  OBVIOUS
<1>11. /\ cs \subseteq Chars
       /\ c \in cs \/ (c = NoChar /\ cs = {})
  <2>1. CASE code.key \in Shifts \/ code.released
    BY <1>3, <1>10, <2>1
  <2>2. CASE ~(code.key \in Shifts \/ code.released)
    <3>1. code.key \in Keys /\ c = Char(code.key, shift_pressed, g_caps_lock)
          /\ cs = CharsFor({code.key}, shift_pressed, {g_caps_lock})
      BY <1>3, <1>8, <1>10, <2>2
    <3>2. cs \subseteq Chars
      BY <1>5, <3>1, CharsForTypes
    <3>3. CASE code.key = "caps"
      <4>1. c = NoChar
        BY <1>5, <3>1, <3>3, CharFacts
      <4>2. cs = {}
        BY <3>1, <3>3, CharsForNone
      <4>3. QED
        BY <4>1, <4>2
    <3>4. CASE code.key # "caps"
      BY <3>1, <3>2, <3>4, CharsForMembers
    <3>5. QED
      BY <3>2, <3>3, <3>4
  <2>3. QED
    BY <2>1, <2>2
<1>12. /\ line' \in Seq(Chars)
       /\ UNCHANGED <<line, executing>> \/ \E x \in cs : Promised!Edit(x)
  BY <1>4, <1>5, <1>11, Accepted
<1>13. KeyboardTypes'
  BY <1>1, <1>4, <1>5, <1>6, <1>7, <1>9, <1>12 DEF KeyboardTypes, Usb
<1>14. ASSUME ~misled
       PROVE  (\E hs : Follows(hs)') /\ due[1].down = {} /\ due[1].typed = cs
  <2>1. PICK hs : Follows(hs)
    BY <1>14 DEF KeyboardInv
  <2>2. /\ hs[0] = Now /\ hs[1] \in Hosts /\ Passes(hs[0], queue[1], hs[1], due[1])
    <3>1. 1 \in 1 .. Len(queue) /\ 1 \in 0 .. Len(queue) /\ 1 - 1 = 0
      BY <1>6
    <3>2. QED
      BY <2>1, <3>1 DEF Follows
  <2>3. PICK h, g : h = Now /\ g = hs[1] /\ g \in Hosts /\ Scans(h, code, g, due[1])
    BY <1>1, <1>6, <2>2 DEF Passes
  <2>4. h.report = report /\ h.shift = shift_pressed /\ h.caps = g_caps_lock
    BY <2>3 DEF Now
  <2>5. /\ g.report = report' /\ g.shift = shift_pressed' /\ g.caps = g_caps_lock'
        /\ due[1].down = {} /\ due[1].typed = cs
    BY <1>4, <1>10, <2>3, <2>4, Zenon DEF Scans
  <2>6. g = [caps |-> g_caps_lock', shift |-> shift_pressed', report |-> report']
    BY <2>3, <2>5 DEF Hosts
  <2>7. Now' = hs[1]
    BY <2>3, <2>6 DEF Now
  <2>8. \E gs : Follows(gs)'
    BY <1>1, <1>4, <1>5, <2>1, <2>7, Taken
  <2>9. QED
    BY <2>5, <2>8, Zenon
<1>15. KeyboardInv'
  BY <1>4, <1>13, <1>14 DEF KeyboardInv
<1>16. CASE misled
  <2>1. /\ ~(~misled) /\ (~misled)' = ~misled
    BY <1>4, <1>16
  <2>2. Promised!Mistake
    BY <1>11, <1>12, <2>1 DEF Promised!Mistake
  <2>3. QED
    BY <1>15, <2>2 DEF Promised!TypingNext
<1>17. CASE ~misled
  <2>1. (~misled)' = ~misled
    BY <1>4
  <2>2. (IF Usb THEN Down(report.slots) ELSE {})' = {}
    BY <1>1, <1>4 DEF Usb, Down
  <2>3. Head(due).down = {} /\ Head(due).typed = cs
    BY <1>7, <1>14, <1>17
  <2>4. CASE cs = {}
    <3>1. UNCHANGED <<line, executing>>
      BY <1>12, <2>4
    <3>2. Promised!Hear
      BY <1>4, <1>7, <2>1, <2>2, <2>3, <2>4, <3>1 DEF Promised!Hear
    <3>3. QED
      BY <1>15, <3>2 DEF Promised!TypingNext
  <2>5. CASE cs # {}
    <3>1. c \in cs
      BY <1>11, <2>5
    <3>2. Promised!Edit(c)
      BY <1>4, <1>5, <1>11, <3>1, AcceptEdits
    <3>3. Promised!Hear
      BY <1>4, <1>7, <2>1, <2>2, <2>3, <3>1, <3>2 DEF Promised!Hear
    <3>4. QED
      BY <1>15, <3>3 DEF Promised!TypingNext
  <2>6. QED
    BY <2>4, <2>5
<1>18. QED
  BY <1>16, <1>17

-----------------------------------------------------------------------------
LEMMA KeyboardInitially ==
  ASSUME Init
  PROVE  KeyboardInv /\ Promised!TypingInit
<1>1. queue = <<>> /\ due = <<>> /\ line = <<>>
  BY DEF Init
<1>2. keys = <<>> /\ shifts = {} /\ caps = FALSE /\ g_caps_lock = FALSE /\ shift_pressed = FALSE
  BY DEF Init
<1>3. <<>> \in Slots /\ Blank \in Reports
  BY ReportFacts DEF Slots, Blank
<1>4. Usb => report = Blank /\ Blank.slots = <<>>
  BY DEF Init, Blank, Report, Usb
<1>5. ~Usb => report = NoReport
  BY DEF Init, Usb
<1>6. KeyboardTypes
  <2>1. /\ source \in {"xhci", "ehci", "ps2"}
        /\ broken \in BOOLEAN /\ misled \in BOOLEAN /\ caps \in BOOLEAN
        /\ g_caps_lock \in BOOLEAN /\ shift_pressed \in BOOLEAN
        /\ g_held_usage \in Keys \cup {NoKey}
    BY DEF Init
  <2>2. /\ queue \in Seq(IF Usb THEN Reports ELSE Codes)
        /\ due \in Seq([down : SUBSET Chars, typed : SUBSET Chars]) /\ Len(due) = Len(queue)
        /\ line \in Seq(Chars)
    BY <1>1
  <2>3. report \in IF Usb THEN Reports ELSE {NoReport}
    BY <1>3, <1>4, <1>5
  <2>4. keys \in Slots /\ shifts \subseteq Shifts
    BY <1>2, <1>3
  <2>5. QED
    BY <2>1, <2>2, <2>3, <2>4, Zenon DEF KeyboardTypes
<1>7. Now \in Hosts /\ Agrees(Now)
  <2>1. Now \in Hosts
    BY <1>2, <1>3, <1>4, <1>5 DEF Now, Hosts
  <2>2. Now.caps = caps /\ Now.shift = (shifts # {}) /\ Now.report = report
    BY <1>2 DEF Now
  <2>3. Usb => report = Report(shifts # {}, keys)
    <3>1. (shifts # {}) = FALSE
      BY <1>2
    <3>2. QED
      BY <1>2, <1>4, <3>1, Zenon DEF Blank
  <2>4. QED
    BY <2>1, <2>2, <2>3 DEF Agrees
<1>8. \E hs : Follows(hs)
  <2>1. PICK hs : hs = [i \in 0 .. 0 |-> Now]
    OBVIOUS
  <2>2. hs \in [0 .. 0 -> Hosts] /\ hs[0] = Now /\ Len(queue) = 0
    BY <1>1, <1>7, <2>1
  <2>3. Follows(hs)
    BY <1>7, <2>2 DEF Follows
  <2>4. QED
    BY <2>3
<1>9. (IF Usb THEN Down(report.slots) ELSE {}) = {}
  BY <1>4 DEF Down, Range
<1>10. ~misled = TRUE /\ executing = NoLine
  BY DEF Init
<1>11. Promised!TypingInit
  BY <1>1, <1>9, <1>10 DEF Promised!TypingInit
<1>12. QED
  BY <1>6, <1>8, <1>11 DEF KeyboardInv

LEMMA KeyboardSteps ==
  ASSUME KeyboardInv, [Next]_vars
  PROVE  KeyboardInv' /\ [Promised!TypingNext]_(Promised!typingVars)
<1>1. CASE Press
  BY <1>1, PressSends
<1>2. CASE Release
  BY <1>2, ReleaseSends
<1>3. CASE Shift
  BY <1>3, ShiftSends
<1>4. CASE Typematic
  BY <1>4, TypematicSends
<1>5. CASE Spoil
  BY <1>5, SpoilSteps
<1>6. CASE Halt
  <2>1. /\ UNCHANGED <<source, queue, report, user, g_caps_lock, shift_pressed, shell>>
        /\ broken' = TRUE /\ g_held_usage' = g_held_usage
    BY <1>6 DEF Halt, Pipe!Break, hid
  <2>2. g_held_usage \in Keys \cup {NoKey}
    BY DEF KeyboardInv, KeyboardTypes
  <2>3. QED
    BY <2>1, <2>2, Aside
<1>7. CASE Executed
  BY <1>7, ExecutedSteps
<1>8. CASE poll
  BY <1>8, PollSteps
<1>9. CASE pollNothing
  BY <1>9, PollNothingSteps
<1>10. CASE ps2GetChar
  BY <1>10, ScancodeSteps
<1>11. CASE Tick
  <2>1. /\ UNCHANGED <<source, queue, report, user, g_caps_lock, shift_pressed, shell>>
        /\ broken' = broken /\ g_held_usage' = g_held_usage
    BY <1>11 DEF Tick, pipe
  <2>2. g_held_usage \in Keys \cup {NoKey} /\ broken \in BOOLEAN
    BY DEF KeyboardInv, KeyboardTypes
  <2>3. QED
    BY <2>1, <2>2, Aside
<1>12. CASE UNCHANGED vars
  <2>1. /\ UNCHANGED <<source, queue, report, user, g_caps_lock, shift_pressed, shell>>
        /\ broken' = broken /\ g_held_usage' = g_held_usage
    BY <1>12 DEF vars, pipe, hid
  <2>2. g_held_usage \in Keys \cup {NoKey} /\ broken \in BOOLEAN
    BY DEF KeyboardInv, KeyboardTypes
  <2>3. QED
    BY <2>1, <2>2, Aside
<1>13. CASE Lose
  BY <1>13, LoseSteps
<1>14. QED
  BY <1>1, <1>2, <1>3, <1>4, <1>5, <1>6, <1>7, <1>8, <1>9, <1>10, <1>11, <1>12, <1>13
     DEF Next, Keyboard

(* As long as nothing was spoilt or lost, what is on its way leads, report *)
(* by report or scancode by scancode, from what the host takes the keyboard*)
(* to be to what it is: from g_curr, g_caps_lock and shift_pressed to the  *)
(* keys that are down.                                                     *)
THEOREM KeyboardInvariant == Spec => []KeyboardInv
<1>1. Init => KeyboardInv
  BY KeyboardInitially
<1>2. KeyboardInv /\ [Next]_vars => KeyboardInv'
  BY KeyboardSteps
<1>3. QED
  BY <1>1, <1>2, PTL DEF Spec

(* What usb_hid takes for pressed by comparing reports, and ps2 by         *)
(* following scancodes, is what the user pressed, once each and in order,  *)
(* and the shell's line is what an editor makes of it.                     *)
THEOREM KeyboardImplementsTyping == Spec => ImplementsTyping
<1>1. Init => Promised!TypingInit
  BY KeyboardInitially
<1>2. KeyboardInv /\ [Next]_vars => [Promised!TypingNext]_(Promised!typingVars)
  BY KeyboardSteps
<1>3. QED
  BY <1>1, <1>2, KeyboardInvariant, PTL DEF Spec, ImplementsTyping, Promised!TypingSpec
=============================================================================
