------------------------------ MODULE UsbProofs ------------------------------
(***************************************************************************)
(* Proofs about Usb, for rings and event rings of every size.  First the   *)
(* rings themselves: what cycle bits show, and that enqueuing and passing  *)
(* on keep it.  Then the reports, whatever goes wrong: PipeInv and the     *)
(* refinement of ReportPipe.  Then commands and requests, as long as no    *)
(* answer comes too late: AgreeInv and RingsAgree.                         *)
(***************************************************************************)
EXTENDS Usb, FiniteSetTheorems, SequenceTheorems, TLAPS

(* What a position is after one turn at most. *)
LEMMA Turned ==
  ASSUME NEW m \in Nat \ {0}, NEW x \in Nat
  PROVE  /\ x < m => x % m = x
         /\ x >= m /\ x < m + m => x % m = x - m
OBVIOUS

(***************************************************************************)
(* One transfer ring, of size slots and the link, with n transfers in it:  *)
(* the slots before the driver's end carry its cycle bit, the others the   *)
(* opposite one, and the controller's end is n slots behind, on the same   *)
(* turn or on the one before.                                              *)
(***************************************************************************)
Ring(size) ==
  [size : {size}, bits : [0 .. size -> {0, 1}], enq : 0 .. (size - 1),
   cycle : {0, 1}, deq : 0 .. size, ccs : {0, 1}]

RingOK(r, size, n) ==
  /\ r \in Ring(size)
  /\ \A i \in 0 .. size : r.bits[i] = IF i < r.enq THEN r.cycle ELSE Flip(r.cycle)
  /\ r.ccs = r.cycle => r.deq <= r.enq /\ n = r.enq - r.deq
  /\ r.ccs # r.cycle => r.deq >= r.enq /\ n = size - r.deq + r.enq

(* What a ring is, for a prover that needs it taken apart. *)
LEMMA RingParts ==
  ASSUME NEW size \in Nat \ {0}, NEW n, NEW r, RingOK(r, size, n)
  PROVE  /\ r = [size |-> size, bits |-> r.bits, enq |-> r.enq, cycle |-> r.cycle,
                 deq |-> r.deq, ccs |-> r.ccs]
         /\ r.size = size
         /\ r.enq \in 0 .. (size - 1) /\ r.deq \in 0 .. size
         /\ r.cycle \in {0, 1} /\ r.ccs \in {0, 1}
         /\ r.bits \in [0 .. size -> {0, 1}]
         /\ n \in 0 .. size
         /\ Flip(r.cycle) \in {0, 1} /\ Flip(r.cycle) # r.cycle
         /\ r.ccs # r.cycle => r.ccs = Flip(r.cycle)
         /\ r.ccs # r.cycle => Flip(r.ccs) = r.cycle
BY DEF RingOK, Ring, Flip

(* ring_enqueue, field by field. *)
LEMMA Enqueueing ==
  ASSUME NEW size, NEW bits, NEW enq, NEW cycle, NEW deq, NEW ccs, NEW r,
         r = [size |-> size, bits |-> bits, enq |-> enq, cycle |-> cycle,
              deq |-> deq, ccs |-> ccs]
  PROVE  /\ enq + 1 < size =>
              ring_enqueue(r) = [size |-> size, bits |-> [bits EXCEPT ![enq] = cycle],
                                 enq |-> enq + 1, cycle |-> cycle,
                                 deq |-> deq, ccs |-> ccs]
         /\ ~(enq + 1 < size) =>
              ring_enqueue(r) =
                [size |-> size,
                 bits |-> [[bits EXCEPT ![enq] = cycle] EXCEPT ![size] = cycle],
                 enq |-> 0, cycle |-> Flip(cycle), deq |-> deq, ccs |-> ccs]
BY DEF ring_enqueue

LEMMA RingMade ==
  ASSUME NEW size, NEW n, NEW bits, NEW enq, NEW cycle, NEW deq, NEW ccs, NEW r,
         r = [size |-> size, bits |-> bits, enq |-> enq, cycle |-> cycle,
              deq |-> deq, ccs |-> ccs],
         r \in Ring(size),
         \A i \in 0 .. size : bits[i] = IF i < enq THEN cycle ELSE Flip(cycle),
         ccs = cycle => deq <= enq /\ n = enq - deq,
         ccs # cycle => deq >= enq /\ n = size - deq + enq
  PROVE  RingOK(r, size, n)
BY DEF RingOK

(* An empty ring. *)
LEMMA RingStarts ==
  ASSUME NEW size \in Nat \ {0}
  PROVE  RingOK(ring_init(size), size, 0)
BY DEF RingOK, Ring, ring_init, Flip

(* ring_enqueue, while there is room: a ring may be filled to the last     *)
(* slot, unless the controller's end stands at the link.                   *)
LEMMA RingTakes ==
  ASSUME NEW size \in Nat \ {0}, NEW n, NEW r, RingOK(r, size, n),
         n < size, r.deq = size => n + 1 < size
  PROVE  /\ RingOK(ring_enqueue(r), size, n + 1)
         /\ ring_enqueue(r).deq = r.deq
<1>1. /\ r = [size |-> size, bits |-> r.bits, enq |-> r.enq, cycle |-> r.cycle,
              deq |-> r.deq, ccs |-> r.ccs]
      /\ r.size = size
      /\ r.enq \in 0 .. (size - 1) /\ r.deq \in 0 .. size
      /\ r.cycle \in {0, 1} /\ r.ccs \in {0, 1}
      /\ r.bits \in [0 .. size -> {0, 1}] /\ n \in 0 .. size
      /\ Flip(r.cycle) \in {0, 1} /\ Flip(r.cycle) # r.cycle
      /\ r.ccs # r.cycle => r.ccs = Flip(r.cycle)
  BY RingParts
<1>2. Flip(Flip(r.cycle)) = r.cycle
  BY <1>1 DEF Flip
<1>3. CASE r.enq + 1 < size
  <2> DEFINE bits == [r.bits EXCEPT ![r.enq] = r.cycle]
  <2>1. ring_enqueue(r) = [size |-> size, bits |-> bits, enq |-> r.enq + 1,
                           cycle |-> r.cycle, deq |-> r.deq, ccs |-> r.ccs]
    <3>1. r.enq + 1 < size
      BY <1>3
    <3>2. QED
      BY ONLY <1>1, <3>1, Enqueueing DEF bits
  <2>2. /\ bits \in [0 .. size -> {0, 1}]
        /\ \A i \in 0 .. size : bits[i] = IF i = r.enq THEN r.cycle ELSE r.bits[i]
    BY <1>1
  <2> HIDE DEF bits
  <2>3. ring_enqueue(r) \in Ring(size)
    BY <1>1, <1>3, <2>1, <2>2 DEF Ring
  <2>4. QED
    <3>1. /\ ring_enqueue(r).enq = r.enq + 1 /\ ring_enqueue(r).cycle = r.cycle
          /\ ring_enqueue(r).deq = r.deq /\ ring_enqueue(r).ccs = r.ccs
          /\ ring_enqueue(r).bits = bits
      BY <2>1
    <3>2. r.enq \in Nat /\ size \in Nat /\ r.deq \in Nat
      BY <1>1
    <3>3. \A i \in 0 .. size : bits[i] = IF i < r.enq + 1 THEN r.cycle ELSE Flip(r.cycle)
      BY <2>2, <3>2 DEF RingOK
    <3>4. /\ r.ccs = r.cycle => r.deq <= r.enq + 1 /\ n + 1 = r.enq + 1 - r.deq
          /\ r.ccs # r.cycle => r.deq >= r.enq + 1 /\ n + 1 = size - r.deq + (r.enq + 1)
      BY <1>1, <1>3 DEF RingOK
    <3>5. PICK q, e, m : q = ring_enqueue(r) /\ e = r.enq + 1 /\ m = n + 1
      OBVIOUS
    <3>6. /\ q = [size |-> size, bits |-> bits, enq |-> e, cycle |-> r.cycle,
                  deq |-> r.deq, ccs |-> r.ccs]
          /\ q \in Ring(size)
          /\ \A i \in 0 .. size : bits[i] = IF i < e THEN r.cycle ELSE Flip(r.cycle)
      BY ONLY <2>1, <2>3, <3>3, <3>5
    <3>7. /\ r.ccs = r.cycle => r.deq <= e /\ m = e - r.deq
          /\ r.ccs # r.cycle => r.deq >= e /\ m = size - r.deq + e
      BY ONLY <3>2, <3>4, <3>5
    <3>8. RingOK(q, size, m)
      BY ONLY <3>6, <3>7, RingMade
    <3>9. QED
      BY <3>1, <3>5, <3>8
<1>4. CASE r.enq + 1 = size
  <2> DEFINE bits == [[r.bits EXCEPT ![r.enq] = r.cycle] EXCEPT ![size] = r.cycle]
  <2>1. ring_enqueue(r) = [size |-> size, bits |-> bits, enq |-> 0,
                           cycle |-> Flip(r.cycle), deq |-> r.deq, ccs |-> r.ccs]
    <3>1. ~(r.enq + 1 < size)
      BY <1>1, <1>4
    <3>2. QED
      BY ONLY <1>1, <3>1, Enqueueing DEF bits
  <2>2. /\ bits \in [0 .. size -> {0, 1}]
        /\ \A i \in 0 .. size :
             bits[i] = IF i = size \/ i = r.enq THEN r.cycle ELSE r.bits[i]
    BY <1>1
  <2> HIDE DEF bits
  <2>3. ring_enqueue(r) \in Ring(size)
    BY <1>1, <2>1, <2>2 DEF Ring
  <2>4. \A i \in 0 .. size : bits[i] = r.cycle
    <3>1. \A i \in 0 .. size : i < r.enq => r.bits[i] = r.cycle
      BY DEF RingOK
    <3>2. r.enq \in Int /\ size \in Int
      BY <1>1
    <3>3. QED
      BY ONLY <1>4, <2>2, <3>1, <3>2
  <2>5. r.ccs = r.cycle
    BY <1>1, <1>4 DEF RingOK
  <2>6. QED
    BY <1>1, <1>2, <1>4, <2>1, <2>3, <2>4, <2>5 DEF RingOK
<1>5. QED
  BY <1>1, <1>3, <1>4

(* What the controller does to a ring, field by field. *)
LEMMA Passing ==
  ASSUME NEW size, NEW bits, NEW enq, NEW cycle, NEW deq, NEW ccs, NEW r,
         r = [size |-> size, bits |-> bits, enq |-> enq, cycle |-> cycle,
              deq |-> deq, ccs |-> ccs]
  PROVE  Past(r) = [size |-> size, bits |-> bits, enq |-> enq, cycle |-> cycle,
                    deq |-> IF deq = size THEN 0 ELSE deq + 1,
                    ccs |-> IF deq = size THEN Flip(ccs) ELSE ccs]
<1>1. ASSUME NEW d, NEW c
      PROVE  [r EXCEPT !.deq = d, !.ccs = c] =
                [size |-> size, bits |-> bits, enq |-> enq, cycle |-> cycle,
                 deq |-> d, ccs |-> c]
  <2>1. PICK x : x = [r EXCEPT !.deq = d]
    OBVIOUS
  <2>2. x = [size |-> size, bits |-> bits, enq |-> enq, cycle |-> cycle,
             deq |-> d, ccs |-> ccs]
    BY <2>1
  <2>3. [x EXCEPT !.ccs = c] =
          [size |-> size, bits |-> bits, enq |-> enq, cycle |-> cycle,
           deq |-> d, ccs |-> c]
    BY <2>2
  <2>4. [r EXCEPT !.deq = d, !.ccs = c] = [[r EXCEPT !.deq = d] EXCEPT !.ccs = c]
    BY ONLY TRUE
  <2>5. QED
    BY ONLY <2>1, <2>3, <2>4
<1>2. r.deq = deq /\ r.size = size /\ r.ccs = ccs
  OBVIOUS
<1>3. Past(r) = [r EXCEPT !.deq = IF deq = size THEN 0 ELSE deq + 1,
                          !.ccs = IF deq = size THEN Flip(ccs) ELSE ccs]
  BY ONLY <1>2 DEF Past
<1>4. QED
  BY ONLY <1>1, <1>3, Zenon

(* The slot at the controller's end is its own if there is a transfer in   *)
(* the ring, and only then unless it is the link.                          *)
LEMMA RingShows ==
  ASSUME NEW size \in Nat \ {0}, NEW n, NEW r, RingOK(r, size, n)
  PROVE  /\ n > 0 => r.bits[r.deq] = r.ccs
         /\ r.bits[r.deq] = r.ccs /\ r.deq # size => n > 0
<1>1. /\ r.enq \in 0 .. (size - 1) /\ r.deq \in 0 .. size
      /\ Flip(r.cycle) # r.cycle /\ n \in 0 .. size
      /\ r.ccs # r.cycle => r.ccs = Flip(r.cycle)
  BY RingParts
<1>2. QED
  BY <1>1 DEF RingOK

(* It goes on only past slots that are its own. *)
LEMMA RingPasses ==
  ASSUME NEW size \in Nat \ {0}, NEW n, NEW r, RingOK(r, size, n),
         r.bits[r.deq] = r.ccs
  PROVE  RingOK(Past(r), size, IF r.deq = size THEN n ELSE n - 1)
<1>1. /\ r = [size |-> size, bits |-> r.bits, enq |-> r.enq, cycle |-> r.cycle,
              deq |-> r.deq, ccs |-> r.ccs]
      /\ r.size = size
      /\ r.enq \in 0 .. (size - 1) /\ r.deq \in 0 .. size
      /\ r.cycle \in {0, 1} /\ r.ccs \in {0, 1}
      /\ r.bits \in [0 .. size -> {0, 1}] /\ n \in 0 .. size
      /\ Flip(r.cycle) \in {0, 1} /\ Flip(r.cycle) # r.cycle
      /\ r.ccs # r.cycle => r.ccs = Flip(r.cycle)
      /\ r.ccs # r.cycle => Flip(r.ccs) = r.cycle
  BY RingParts
<1>2. Flip(r.ccs) \in {0, 1}
  BY <1>1 DEF Flip
<1>3. Past(r) = [size |-> size, bits |-> r.bits, enq |-> r.enq, cycle |-> r.cycle,
                 deq |-> IF r.deq = size THEN 0 ELSE r.deq + 1,
                 ccs |-> IF r.deq = size THEN Flip(r.ccs) ELSE r.ccs]
  BY ONLY <1>1, Passing
<1>4. Past(r) \in Ring(size)
  BY <1>1, <1>2, <1>3 DEF Ring
<1>5. CASE r.deq = size
  <2>1. r.ccs # r.cycle
    BY <1>1, <1>5 DEF RingOK
  <2>2. QED
    BY <1>1, <1>3, <1>4, <1>5, <2>1 DEF RingOK
<1>6. CASE r.deq # size
  <2>1. r.ccs = r.cycle => r.deq < r.enq
    BY <1>1 DEF RingOK
  <2>2. QED
    BY SMTT(60), <1>1, <1>3, <1>4, <1>6, <2>1 DEF RingOK
<1>7. QED
  BY <1>5, <1>6

(* How many bits in a row agree with the controller's: those of the        *)
(* transfers, and that of a link among them.                               *)
LEMMA RingAgrees ==
  ASSUME NEW size \in Nat \ {0}, NEW n, NEW r, RingOK(r, size, n)
  PROVE  Visible(r) = n
<1>1. /\ r = [size |-> size, bits |-> r.bits, enq |-> r.enq, cycle |-> r.cycle,
              deq |-> r.deq, ccs |-> r.ccs]
      /\ r.size = size
      /\ r.enq \in 0 .. (size - 1) /\ r.deq \in 0 .. size
      /\ r.cycle \in {0, 1} /\ r.ccs \in {0, 1} /\ n \in 0 .. size
      /\ Flip(r.cycle) \in {0, 1} /\ Flip(r.cycle) # r.cycle
      /\ r.ccs # r.cycle => r.ccs = Flip(r.cycle)
      /\ r.ccs # r.cycle => Flip(r.ccs) = r.cycle
  BY RingParts
<1> DEFINE pos(i)  == (r.deq + i) % (size + 1)
           turn(i) == IF r.deq + i >= size + 1 THEN Flip(r.ccs) ELSE r.ccs
           seen    == {i \in 0 .. size :
                         pos(i) # size /\ \A j \in 0 .. i : r.bits[pos(j)] = turn(j)}
<1>2. Visible(r) = Cardinality(seen)
  BY <1>1 DEF Visible
<1>3. \A i \in 0 .. size :
        pos(i) = IF r.deq + i <= size THEN r.deq + i ELSE r.deq + i - size - 1
  <2>1. PICK m : m = size + 1
    OBVIOUS
  <2>2. ASSUME NEW i \in 0 .. size
        PROVE  pos(i) = IF r.deq + i <= size THEN r.deq + i ELSE r.deq + i - size - 1
    <3>1. PICK x : x = r.deq + i
      OBVIOUS
    <3>2. x \in Nat /\ x < m + m /\ m \in Nat \ {0}
      BY <1>1, <2>1, <3>1
    <3>3. /\ x < m => x % m = x
          /\ x >= m => x % m = x - m
      BY ONLY <3>2, Turned
    <3>4. pos(i) = x % m
      BY <2>1, <3>1
    <3>5. QED
      BY <1>1, <2>1, <3>1, <3>3, <3>4
  <2>3. QED
    BY <2>2
<1> HIDE DEF pos
<1>4. CASE r.ccs = r.cycle
  <2>1. n = r.enq - r.deq /\ r.deq <= r.enq
    BY <1>4 DEF RingOK
  <2>2. \A j \in 0 .. size : j < n => r.bits[pos(j)] = turn(j) /\ pos(j) # size
    BY <1>1, <1>3, <1>4, <2>1 DEF RingOK
  <2>3. r.bits[pos(n)] # turn(n)
    BY <1>1, <1>3, <1>4, <2>1 DEF RingOK
  <2> HIDE DEF turn
  <2>4. seen = 0 .. (n - 1)
    <3>1. ASSUME NEW i \in seen PROVE i \in 0 .. (n - 1)
      BY <1>1, <2>3
    <3>2. ASSUME NEW i \in 0 .. (n - 1) PROVE i \in seen
      BY <1>1, <2>2
    <3>3. QED
      BY <3>1, <3>2
  <2>5. Cardinality(0 .. (n - 1)) = n
    <3>1. 0 \in Int /\ n - 1 \in Int
      BY <1>1
    <3>2. Cardinality(0 .. (n - 1)) = IF 0 > n - 1 THEN 0 ELSE (n - 1) - 0 + 1
      BY <3>1, FS_Interval
    <3>3. QED
      BY <1>1, <3>2
  <2>6. QED
    BY <1>2, <2>4, <2>5
<1>5. CASE r.ccs # r.cycle
  <2> DEFINE link == size - r.deq
  <2>1. n = link + r.enq /\ r.deq >= r.enq /\ link \in 0 .. n
    BY <1>1, <1>5 DEF RingOK
  <2>2. \A j \in 0 .. size : j <= n => r.bits[pos(j)] = turn(j)
    BY <1>1, <1>3, <1>5, <2>1 DEF RingOK
  <2>3. \A j \in 0 .. size : pos(j) = size <=> j = link
    BY <1>1, <1>3
  <2>4. n + 1 <= size => r.bits[pos(n + 1)] # turn(n + 1)
    <3>1. ASSUME n + 1 <= size PROVE r.bits[pos(n + 1)] # turn(n + 1)
      <4>1. n + 1 \in 0 .. size /\ r.deq + (n + 1) = size + 1 + r.enq
        BY <1>1, <2>1, <3>1
      <4>2. pos(n + 1) = r.enq
        BY <1>1, <1>3, <4>1
      <4>3. turn(n + 1) = r.cycle
        BY <1>1, <1>5, <4>1
      <4>4. QED
        BY <1>1, <4>2, <4>3 DEF RingOK
    <3>2. QED
      BY <3>1
  <2> HIDE DEF turn, link
  <2>5. seen = (0 .. n) \ {link}
    <3>1. ASSUME NEW i \in seen PROVE i \in (0 .. n) \ {link}
      <4>1. i \in 0 .. size /\ i # link
        BY <2>3
      <4>2. i <= n
        BY <1>1, <2>4
      <4>3. QED
        BY <1>1, <4>1, <4>2
    <3>2. ASSUME NEW i \in (0 .. n) \ {link} PROVE i \in seen
      <4>1. i \in 0 .. size /\ pos(i) # size
        BY <1>1, <2>3
      <4>2. \A j \in 0 .. i : r.bits[pos(j)] = turn(j)
        BY <1>1, <2>2
      <4>3. QED
        BY <4>1, <4>2
    <3>3. QED
      BY <3>1, <3>2
  <2>6. IsFiniteSet(0 .. n) /\ Cardinality(0 .. n) = n + 1
    <3>1. 0 \in Int /\ n \in Int
      BY <1>1
    <3>2. /\ IsFiniteSet(0 .. n)
          /\ Cardinality(0 .. n) = IF 0 > n THEN 0 ELSE n - 0 + 1
      BY <3>1, FS_Interval
    <3>3. QED
      BY <1>1, <3>2
  <2>7. Cardinality((0 .. n) \ {link}) = n
    <3>1. Cardinality((0 .. n) \ {link}) = Cardinality(0 .. n) - 1
      BY <2>1, <2>6, FS_RemoveElement
    <3>2. QED
      BY <1>1, <2>6, <3>1
  <2>8. QED
    BY <1>2, <2>5, <2>7
<1>6. QED
  BY <1>4, <1>5
-----------------------------------------------------------------------------
(***************************************************************************)
(* The event ring: as a transfer ring, with the ends exchanged and without *)
(* a link; one slot stays free.                                            *)
(***************************************************************************)
EventRing ==
  [bits : [0 .. EventTrbs - 1 -> {0, 1}], deq : 0 .. EventTrbs - 1, cycle : {0, 1},
   enq : 0 .. EventTrbs - 1, pcs : {0, 1}]

EventsOK(ev, n) ==
  /\ ev \in EventRing
  /\ \A i \in 0 .. EventTrbs - 1 :
       ev.bits[i] = IF i < ev.enq THEN ev.pcs ELSE Flip(ev.pcs)
  /\ ev.cycle = ev.pcs => ev.deq <= ev.enq /\ n = ev.enq - ev.deq
  /\ ev.cycle # ev.pcs => ev.deq > ev.enq /\ n = EventTrbs - ev.deq + ev.enq

LEMMA EventParts ==
  ASSUME NEW n, NEW ev, EventsOK(ev, n)
  PROVE  /\ ev = [bits |-> ev.bits, deq |-> ev.deq, cycle |-> ev.cycle,
                  enq |-> ev.enq, pcs |-> ev.pcs]
         /\ EventTrbs \in Nat /\ EventTrbs > 1
         /\ ev.enq \in 0 .. EventTrbs - 1 /\ ev.deq \in 0 .. EventTrbs - 1
         /\ ev.cycle \in {0, 1} /\ ev.pcs \in {0, 1}
         /\ ev.bits \in [0 .. EventTrbs - 1 -> {0, 1}]
         /\ n \in 0 .. EventTrbs - 1
         /\ Flip(ev.pcs) \in {0, 1} /\ Flip(ev.pcs) # ev.pcs
         /\ Flip(Flip(ev.pcs)) = ev.pcs
         /\ ev.cycle # ev.pcs => ev.cycle = Flip(ev.pcs)
         /\ ev.cycle # ev.pcs => Flip(ev.cycle) = ev.pcs
BY XhciAssumption DEF EventsOK, EventRing, Flip

LEMMA EventsMade ==
  ASSUME NEW n, NEW bits, NEW deq, NEW cycle, NEW enq, NEW pcs, NEW ev,
         ev = [bits |-> bits, deq |-> deq, cycle |-> cycle, enq |-> enq, pcs |-> pcs],
         bits \in [0 .. EventTrbs - 1 -> {0, 1}],
         deq \in 0 .. EventTrbs - 1, cycle \in {0, 1},
         enq \in 0 .. EventTrbs - 1, pcs \in {0, 1},
         \A i \in 0 .. EventTrbs - 1 : bits[i] = IF i < enq THEN pcs ELSE Flip(pcs),
         cycle = pcs => deq <= enq /\ n = enq - deq,
         cycle # pcs => deq > enq /\ n = EventTrbs - deq + enq
  PROVE  EventsOK(ev, n)
<1>1. ev \in EventRing
  BY DEF EventRing
<1>2. QED
  BY <1>1 DEF EventsOK

(* One event more, and one less. *)
Grown(ev) ==
  [ev EXCEPT !.bits[ev.enq] = ev.pcs,
             !.enq = (@ + 1) % EventTrbs,
             !.pcs = IF ev.enq + 1 = EventTrbs THEN Flip(@) ELSE @]

Shrunk(ev) ==
  [ev EXCEPT !.deq = (@ + 1) % EventTrbs,
             !.cycle = IF ev.deq + 1 = EventTrbs THEN Flip(@) ELSE @]

LEMMA EventFields ==
  ASSUME NEW bits, NEW deq, NEW cycle, NEW enq, NEW pcs, NEW ev,
         ev = [bits |-> bits, deq |-> deq, cycle |-> cycle, enq |-> enq, pcs |-> pcs]
  PROVE  /\ Grown(ev) =
              [bits |-> [bits EXCEPT ![enq] = pcs], deq |-> deq, cycle |-> cycle,
               enq |-> (enq + 1) % EventTrbs,
               pcs |-> IF enq + 1 = EventTrbs THEN Flip(pcs) ELSE pcs]
         /\ Shrunk(ev) =
              [bits |-> bits, deq |-> (deq + 1) % EventTrbs,
               cycle |-> IF deq + 1 = EventTrbs THEN Flip(cycle) ELSE cycle,
               enq |-> enq, pcs |-> pcs]
<1>1. /\ ev.bits = bits /\ ev.deq = deq /\ ev.cycle = cycle
      /\ ev.enq = enq /\ ev.pcs = pcs
  OBVIOUS
<1>2. ASSUME NEW b, NEW e, NEW p
      PROVE  [ev EXCEPT !.bits = b, !.enq = e, !.pcs = p] =
               [bits |-> b, deq |-> deq, cycle |-> cycle, enq |-> e, pcs |-> p]
  <2>1. PICK x : x = [ev EXCEPT !.bits = b]
    OBVIOUS
  <2>2. x = [bits |-> b, deq |-> deq, cycle |-> cycle, enq |-> enq, pcs |-> pcs]
    BY <2>1
  <2>3. PICK y : y = [x EXCEPT !.enq = e]
    OBVIOUS
  <2>4. y = [bits |-> b, deq |-> deq, cycle |-> cycle, enq |-> e, pcs |-> pcs]
    BY <2>2, <2>3
  <2>5. [y EXCEPT !.pcs = p] =
          [bits |-> b, deq |-> deq, cycle |-> cycle, enq |-> e, pcs |-> p]
    BY <2>4
  <2>6. [ev EXCEPT !.bits = b, !.enq = e, !.pcs = p] =
          [[[ev EXCEPT !.bits = b] EXCEPT !.enq = e] EXCEPT !.pcs = p]
    BY ONLY TRUE
  <2>7. QED
    BY ONLY <2>1, <2>3, <2>5, <2>6
<1>3. ASSUME NEW d, NEW c
      PROVE  [ev EXCEPT !.deq = d, !.cycle = c] =
               [bits |-> bits, deq |-> d, cycle |-> c, enq |-> enq, pcs |-> pcs]
  <2>1. PICK x : x = [ev EXCEPT !.deq = d]
    OBVIOUS
  <2>2. x = [bits |-> bits, deq |-> d, cycle |-> cycle, enq |-> enq, pcs |-> pcs]
    BY <2>1
  <2>3. [x EXCEPT !.cycle = c] =
          [bits |-> bits, deq |-> d, cycle |-> c, enq |-> enq, pcs |-> pcs]
    BY <2>2
  <2>4. [ev EXCEPT !.deq = d, !.cycle = c] = [[ev EXCEPT !.deq = d] EXCEPT !.cycle = c]
    BY ONLY TRUE
  <2>5. QED
    BY ONLY <2>1, <2>3, <2>4
<1>4. Grown(ev) =
        [ev EXCEPT !.bits = [bits EXCEPT ![enq] = pcs],
                   !.enq = (enq + 1) % EventTrbs,
                   !.pcs = IF enq + 1 = EventTrbs THEN Flip(pcs) ELSE pcs]
  BY ONLY <1>1 DEF Grown
<1>5. Shrunk(ev) =
        [ev EXCEPT !.deq = (deq + 1) % EventTrbs,
                   !.cycle = IF deq + 1 = EventTrbs THEN Flip(cycle) ELSE cycle]
  BY ONLY <1>1 DEF Shrunk
<1>6. QED
  BY ONLY <1>2, <1>3, <1>4, <1>5, ZenonT(60)

(* The slot at the driver's end is its own if there is an event. *)
LEMMA EventShows ==
  ASSUME NEW n, NEW ev, EventsOK(ev, n)
  PROVE  n > 0 <=> ev.bits[ev.deq] = ev.cycle
<1>1. /\ EventTrbs \in Nat
      /\ ev.enq \in 0 .. EventTrbs - 1 /\ ev.deq \in 0 .. EventTrbs - 1
      /\ Flip(ev.pcs) # ev.pcs
      /\ ev.cycle # ev.pcs => ev.cycle = Flip(ev.pcs)
  BY EventParts
<1>2. QED
  BY <1>1 DEF EventsOK

(* The next slot, and the first after the last. *)
LEMMA NextSlot ==
  ASSUME EventTrbs \in Nat, EventTrbs > 1, NEW x \in 0 .. EventTrbs - 1
  PROVE  (x + 1) % EventTrbs = IF x + 1 = EventTrbs THEN 0 ELSE x + 1
<1>1. PICK y : y = x + 1
  OBVIOUS
<1>2. y \in Nat /\ y <= EventTrbs /\ y < EventTrbs + EventTrbs
        /\ EventTrbs \in Nat \ {0}
  BY <1>1
<1>3. /\ y < EventTrbs => y % EventTrbs = y
      /\ y >= EventTrbs => y % EventTrbs = y - EventTrbs
  BY ONLY <1>2, Turned
<1>4. QED
  BY <1>1, <1>2, <1>3

(* An event is posted while a slot stays free besides. *)
LEMMA EventPosted ==
  ASSUME NEW n, NEW ev, EventsOK(ev, n), n < EventTrbs - 1
  PROVE  EventsOK(Grown(ev), n + 1)
<1>1. /\ ev = [bits |-> ev.bits, deq |-> ev.deq, cycle |-> ev.cycle,
               enq |-> ev.enq, pcs |-> ev.pcs]
      /\ EventTrbs \in Nat /\ EventTrbs > 1
      /\ ev.enq \in 0 .. EventTrbs - 1 /\ ev.deq \in 0 .. EventTrbs - 1
      /\ ev.cycle \in {0, 1} /\ ev.pcs \in {0, 1}
      /\ ev.bits \in [0 .. EventTrbs - 1 -> {0, 1}] /\ n \in 0 .. EventTrbs - 1
      /\ Flip(ev.pcs) \in {0, 1} /\ Flip(ev.pcs) # ev.pcs
      /\ Flip(Flip(ev.pcs)) = ev.pcs
      /\ ev.cycle # ev.pcs => ev.cycle = Flip(ev.pcs)
      /\ ev.cycle # ev.pcs => Flip(ev.cycle) = ev.pcs
  BY EventParts
<1>2. PICK bits, e, p, m :
        /\ bits = [ev.bits EXCEPT ![ev.enq] = ev.pcs]
        /\ e = (ev.enq + 1) % EventTrbs
        /\ p = IF ev.enq + 1 = EventTrbs THEN Flip(ev.pcs) ELSE ev.pcs
        /\ m = n + 1
  OBVIOUS
<1>3. Grown(ev) = [bits |-> bits, deq |-> ev.deq, cycle |-> ev.cycle,
                   enq |-> e, pcs |-> p]
  BY ONLY <1>1, <1>2, EventFields
<1>4. e = IF ev.enq + 1 = EventTrbs THEN 0 ELSE ev.enq + 1
  BY <1>1, <1>2, NextSlot
<1>5. /\ bits \in [0 .. EventTrbs - 1 -> {0, 1}]
      /\ \A i \in 0 .. EventTrbs - 1 :
           bits[i] = IF i = ev.enq THEN ev.pcs ELSE ev.bits[i]
  BY <1>1, <1>2
<1>6. e \in 0 .. EventTrbs - 1 /\ p \in {0, 1}
  BY <1>1, <1>2, <1>4
<1>7. \A i \in 0 .. EventTrbs - 1 : bits[i] = IF i < e THEN p ELSE Flip(p)
  <2>1. \A i \in 0 .. EventTrbs - 1 :
          ev.bits[i] = IF i < ev.enq THEN ev.pcs ELSE Flip(ev.pcs)
    BY DEF EventsOK
  <2>2. CASE ev.enq + 1 = EventTrbs
    BY ONLY <1>1, <1>2, <1>4, <1>5, <2>1, <2>2
  <2>3. CASE ev.enq + 1 # EventTrbs
    BY ONLY <1>1, <1>2, <1>4, <1>5, <2>1, <2>3
  <2>4. QED
    BY <2>2, <2>3
<1>8. /\ ev.cycle = p => ev.deq <= e /\ m = e - ev.deq
      /\ ev.cycle # p => ev.deq > e /\ m = EventTrbs - ev.deq + e
  <2>1. /\ ev.cycle = ev.pcs => ev.deq <= ev.enq /\ n = ev.enq - ev.deq
        /\ ev.cycle # ev.pcs => ev.deq > ev.enq /\ n = EventTrbs - ev.deq + ev.enq
    BY DEF EventsOK
  <2>2. CASE ev.enq + 1 = EventTrbs
    <3>1. ev.cycle = ev.pcs /\ e = 0 /\ p = Flip(ev.pcs)
      BY <1>1, <1>2, <1>4, <2>1, <2>2
    <3>2. QED
      BY <1>1, <1>2, <2>1, <2>2, <3>1
  <2>3. CASE ev.enq + 1 # EventTrbs
    <3>1. e = ev.enq + 1 /\ p = ev.pcs
      BY <1>2, <1>4, <2>3
    <3>2. /\ n < EventTrbs - 1 /\ m = n + 1 /\ n \in Int /\ EventTrbs \in Int
          /\ ev.enq \in Int /\ ev.deq \in Int
      BY <1>1, <1>2
    <3>3. QED
      BY ONLY <2>1, <3>1, <3>2
  <2>4. QED
    BY <2>2, <2>3
<1>9. EventsOK(Grown(ev), m)
  BY ONLY <1>1, <1>3, <1>5, <1>6, <1>7, <1>8, EventsMade
<1>10. QED
  BY <1>2, <1>9

(* An event is taken if there is one. *)
LEMMA EventTaken ==
  ASSUME NEW n, NEW ev, EventsOK(ev, n), n > 0
  PROVE  EventsOK(Shrunk(ev), n - 1)
<1>1. /\ ev = [bits |-> ev.bits, deq |-> ev.deq, cycle |-> ev.cycle,
               enq |-> ev.enq, pcs |-> ev.pcs]
      /\ EventTrbs \in Nat /\ EventTrbs > 1
      /\ ev.enq \in 0 .. EventTrbs - 1 /\ ev.deq \in 0 .. EventTrbs - 1
      /\ ev.cycle \in {0, 1} /\ ev.pcs \in {0, 1}
      /\ ev.bits \in [0 .. EventTrbs - 1 -> {0, 1}] /\ n \in 0 .. EventTrbs - 1
      /\ Flip(ev.pcs) \in {0, 1} /\ Flip(ev.pcs) # ev.pcs
      /\ Flip(Flip(ev.pcs)) = ev.pcs
      /\ ev.cycle # ev.pcs => ev.cycle = Flip(ev.pcs)
      /\ ev.cycle # ev.pcs => Flip(ev.cycle) = ev.pcs
  BY EventParts
<1>2. PICK d, c, m :
        /\ d = (ev.deq + 1) % EventTrbs
        /\ c = IF ev.deq + 1 = EventTrbs THEN Flip(ev.cycle) ELSE ev.cycle
        /\ m = n - 1
  OBVIOUS
<1>3. Shrunk(ev) = [bits |-> ev.bits, deq |-> d, cycle |-> c,
                    enq |-> ev.enq, pcs |-> ev.pcs]
  BY ONLY <1>1, <1>2, EventFields
<1>4. d = IF ev.deq + 1 = EventTrbs THEN 0 ELSE ev.deq + 1
  BY <1>1, <1>2, NextSlot
<1>5. d \in 0 .. EventTrbs - 1 /\ c \in {0, 1}
  BY <1>1, <1>2, <1>4 DEF Flip
<1>6. \A i \in 0 .. EventTrbs - 1 :
        ev.bits[i] = IF i < ev.enq THEN ev.pcs ELSE Flip(ev.pcs)
  BY DEF EventsOK
<1>7. /\ c = ev.pcs => d <= ev.enq /\ m = ev.enq - d
      /\ c # ev.pcs => d > ev.enq /\ m = EventTrbs - d + ev.enq
  BY <1>1, <1>2, <1>4 DEF EventsOK
<1>8. EventsOK(Shrunk(ev), m)
  BY ONLY <1>1, <1>3, <1>5, <1>6, <1>7, EventsMade
<1>9. QED
  BY <1>2, <1>8

(* How many bits in a row agree with the driver's. *)
LEMMA EventsAgree ==
  ASSUME NEW n, EventsOK(events, n)
  PROVE  VisibleEvents = n
<1>1. PICK ev : ev = events
  OBVIOUS
<1>2. /\ EventTrbs \in Nat /\ EventTrbs > 1
      /\ ev.enq \in 0 .. EventTrbs - 1 /\ ev.deq \in 0 .. EventTrbs - 1
      /\ n \in 0 .. EventTrbs - 1
      /\ Flip(ev.pcs) # ev.pcs
      /\ ev.cycle # ev.pcs => ev.cycle = Flip(ev.pcs)
      /\ ev.cycle # ev.pcs => Flip(ev.cycle) = ev.pcs
  BY <1>1, EventParts
<1> DEFINE pos(i)  == (ev.deq + i) % EventTrbs
           turn(i) == IF ev.deq + i >= EventTrbs THEN Flip(ev.cycle) ELSE ev.cycle
           seen    == {i \in 0 .. EventTrbs - 1 :
                         \A j \in 0 .. i : ev.bits[pos(j)] = turn(j)}
<1>3. VisibleEvents = Cardinality(seen)
  BY <1>1 DEF VisibleEvents
<1>4. \A i \in 0 .. EventTrbs - 1 :
        pos(i) = IF ev.deq + i < EventTrbs THEN ev.deq + i ELSE ev.deq + i - EventTrbs
  <2>1. ASSUME NEW i \in 0 .. EventTrbs - 1
        PROVE  pos(i) = IF ev.deq + i < EventTrbs THEN ev.deq + i
                        ELSE ev.deq + i - EventTrbs
    <3>1. PICK x : x = ev.deq + i
      OBVIOUS
    <3>2. x \in Nat /\ x < EventTrbs + EventTrbs /\ EventTrbs \in Nat \ {0}
      BY <1>2, <3>1
    <3>3. /\ x < EventTrbs => x % EventTrbs = x
          /\ x >= EventTrbs => x % EventTrbs = x - EventTrbs
      BY ONLY <3>2, Turned
    <3>4. pos(i) = x % EventTrbs
      BY <3>1
    <3>5. QED
      BY <1>2, <3>1, <3>2, <3>3, <3>4
  <2>2. QED
    BY <2>1
<1> HIDE DEF pos
<1>5. \A i \in 0 .. EventTrbs - 1 :
        ev.bits[i] = IF i < ev.enq THEN ev.pcs ELSE Flip(ev.pcs)
  BY <1>1 DEF EventsOK
<1>6. \A j \in 0 .. EventTrbs - 1 : j < n => ev.bits[pos(j)] = turn(j)
  <2>1. CASE ev.cycle = ev.pcs
    BY <1>1, <1>2, <1>4, <1>5, <2>1 DEF EventsOK
  <2>2. CASE ev.cycle # ev.pcs
    BY <1>1, <1>2, <1>4, <1>5, <2>2 DEF EventsOK
  <2>3. QED
    BY <2>1, <2>2
<1>7. ev.bits[pos(n)] # turn(n)
  <2>1. CASE ev.cycle = ev.pcs
    BY <1>1, <1>2, <1>4, <1>5, <2>1 DEF EventsOK
  <2>2. CASE ev.cycle # ev.pcs
    <3>1. ev.deq + n = EventTrbs + ev.enq
      BY <1>1, <1>2, <2>2 DEF EventsOK
    <3>2. pos(n) = ev.enq /\ turn(n) = ev.pcs
      BY <1>2, <1>4, <2>2, <3>1
    <3>3. QED
      BY <1>2, <1>5, <3>2
  <2>3. QED
    BY <2>1, <2>2
<1> HIDE DEF turn
<1>8. seen = 0 .. (n - 1)
  <2>1. ASSUME NEW i \in seen PROVE i \in 0 .. (n - 1)
    BY <1>2, <1>7
  <2>2. ASSUME NEW i \in 0 .. (n - 1) PROVE i \in seen
    BY <1>2, <1>6
  <2>3. QED
    BY <2>1, <2>2
<1>9. Cardinality(0 .. (n - 1)) = n
  <2>1. 0 \in Int /\ n - 1 \in Int
    BY <1>2
  <2>2. Cardinality(0 .. (n - 1)) = IF 0 > n - 1 THEN 0 ELSE (n - 1) - 0 + 1
    BY <2>1, FS_Interval
  <2>3. QED
    BY <1>2, <2>2
<1>10. QED
  BY <1>3, <1>8, <1>9
-----------------------------------------------------------------------------
(***************************************************************************)
(* The requests, one by one.                                               *)
(***************************************************************************)
LEMMA XhciSteps ==
  /\ Len(Steps["xhci"]) = 15
  /\ \A i \in 1 .. 15 :
       /\ RingOf(Steps["xhci"][i]) = IF i \in {1, 2, 3, 5, 6, 15} THEN "cmd" ELSE "ep0"
       /\ StagesOf(Steps["xhci"][i]) =
            IF i \in {1, 2, 3, 5, 6, 15} THEN 1 ELSE IF i \in {10, 13, 14} THEN 2 ELSE 3
       /\ Steps["xhci"][i] \in MayFail <=> i \in {1, 13, 14}
       /\ Steps["xhci"][i] = "device8" <=> i = 4
       /\ Steps["xhci"][i] = "set_configuration" <=> i = 10
<1>1. Steps["xhci"] =
        <<"noop", "enable_slot", "address_device_bsr",
          "device8", "evaluate_context", "address_device",
          "device18", "config9", "config", "set_configuration",
          "hid_config9", "hid_config", "set_protocol", "set_idle",
          "configure_endpoint">>
  BY DEF Steps
<1>2. Len(Steps["xhci"]) = 15
  BY <1>1
<1>3. /\ Steps["xhci"][1] = "noop" /\ Steps["xhci"][2] = "enable_slot"
      /\ Steps["xhci"][3] = "address_device_bsr" /\ Steps["xhci"][4] = "device8"
      /\ Steps["xhci"][5] = "evaluate_context" /\ Steps["xhci"][6] = "address_device"
      /\ Steps["xhci"][7] = "device18" /\ Steps["xhci"][8] = "config9"
      /\ Steps["xhci"][9] = "config" /\ Steps["xhci"][10] = "set_configuration"
      /\ Steps["xhci"][11] = "hid_config9" /\ Steps["xhci"][12] = "hid_config"
      /\ Steps["xhci"][13] = "set_protocol" /\ Steps["xhci"][14] = "set_idle"
      /\ Steps["xhci"][15] = "configure_endpoint"
  BY <1>1
<1>4. \A i \in 1 .. 15 :
        i \in {1, 2, 3, 4, 5, 6, 7, 8, 9, 10, 11, 12, 13, 14, 15}
  OBVIOUS
<1>5. QED
  BY <1>2, <1>3, <1>4 DEF RingOf, StagesOf, Commands, NoData, MayFail

LEMMA EhciSteps ==
  /\ Len(Steps["ehci"]) = 10
  /\ \A i \in 1 .. 10 : Steps["ehci"][i] = "device8" <=> i = 1
<1>1. Steps["ehci"] =
        <<"device8", "set_address",
          "device18", "config9", "config", "set_configuration",
          "hid_config9", "hid_config", "set_protocol", "set_idle">>
  BY DEF Steps
<1>2. Len(Steps["ehci"]) = 10
  BY <1>1
<1>3. /\ Steps["ehci"][1] = "device8" /\ Steps["ehci"][2] = "set_address"
      /\ Steps["ehci"][3] = "device18" /\ Steps["ehci"][4] = "config9"
      /\ Steps["ehci"][5] = "config" /\ Steps["ehci"][6] = "set_configuration"
      /\ Steps["ehci"][7] = "hid_config9" /\ Steps["ehci"][8] = "hid_config"
      /\ Steps["ehci"][9] = "set_protocol" /\ Steps["ehci"][10] = "set_idle"
  BY <1>1
<1>4. \A i \in 1 .. 10 : i \in {1, 2, 3, 4, 5, 6, 7, 8, 9, 10}
  OBVIOUS
<1>5. QED
  BY <1>2, <1>3, <1>4

(* Where the requests to the keyboard begin. *)
LEMMA FirstRequests ==
  /\ host = "xhci" => LastStep = 15 /\ FirstRequest = 4
  /\ host = "ehci" => LastStep = 10 /\ FirstRequest = 1
<1>1. CASE host = "xhci"
  <2>1. DOMAIN Steps["xhci"] = 1 .. 15
    BY XhciSteps DEF Steps
  <2>2. (CHOOSE k \in 1 .. 15 : Steps["xhci"][k] = "device8") = 4
    BY XhciSteps
  <2>3. QED
    BY <1>1, <2>1, <2>2, XhciSteps DEF LastStep, FirstRequest
<1>2. CASE host = "ehci"
  <2>1. DOMAIN Steps["ehci"] = 1 .. 10
    BY EhciSteps DEF Steps
  <2>2. (CHOOSE k \in 1 .. 10 : Steps["ehci"][k] = "device8") = 1
    BY EhciSteps
  <2>3. QED
    BY <1>2, <2>1, <2>2, EhciSteps DEF LastStep, FirstRequest
<1>3. QED
  BY <1>1, <1>2

(* As many transfers as one request has are enqueued one after another. *)
LEMMA EnqueuedIs ==
  ASSUME NEW r, NEW n \in 1 .. 3
  PROVE  /\ n = 1 => Enqueued(r, n) = ring_enqueue(r)
         /\ n = 2 => Enqueued(r, n) = ring_enqueue(ring_enqueue(r))
         /\ n = 3 => Enqueued(r, n) = ring_enqueue(ring_enqueue(ring_enqueue(r)))
<1> DEFINE Step(f) == [i \in 0 .. n |-> IF i = 0 THEN r ELSE ring_enqueue(f[i - 1])]
           after   == CHOOSE f : f = Step(f)
           e1      == ring_enqueue(r)
           e2      == ring_enqueue(e1)
           given   == [i \in 0 .. n |-> IF i = 0 THEN r ELSE IF i = 1 THEN e1
                                        ELSE IF i = 2 THEN e2 ELSE ring_enqueue(e2)]
<1>1. given = Step(given)
  <2>1. \A i \in 0 .. n : i # 0 =>
          ring_enqueue(given[i - 1]) = IF i = 1 THEN e1 ELSE IF i = 2 THEN e2
                                       ELSE ring_enqueue(e2)
    <3>1. \A i \in 0 .. n : i # 0 => i = 1 \/ i = 2 \/ i = 3
      OBVIOUS
    <3>2. /\ given[0] = r /\ given[1] = e1
          /\ n >= 2 => given[2] = e2
      OBVIOUS
    <3> HIDE DEF given
    <3>3. QED
      BY <3>1, <3>2
  <2>2. QED
    BY <2>1
<1>2. after = Step(after)
  BY <1>1
<1> HIDE DEF given, after
<1>3. /\ after[0] = r /\ after[1] = ring_enqueue(after[0])
      /\ n >= 2 => after[2] = ring_enqueue(after[1])
      /\ n = 3 => after[3] = ring_enqueue(after[2])
  <2>1. \A i \in 0 .. n : after[i] = IF i = 0 THEN r ELSE ring_enqueue(after[i - 1])
    BY <1>2
  <2>2. QED
    BY <2>1
<1>4. Enqueued(r, n) = after[n]
  BY DEF Enqueued, after
<1>5. QED
  BY <1>3, <1>4

(* A request of one to three stages fits if there is room for it. *)
LEMMA RingTakesSome ==
  ASSUME NEW size \in Nat \ {0}, NEW n \in Nat, NEW r, RingOK(r, size, n),
         NEW k \in 1 .. 3, n + k <= size, r.deq = size => n + k < size
  PROVE  /\ RingOK(Enqueued(r, k), size, n + k)
         /\ Enqueued(r, k).deq = r.deq
<1>1. PICK r1, r2, r3, n1, n2, n3 :
        /\ r1 = ring_enqueue(r) /\ r2 = ring_enqueue(r1) /\ r3 = ring_enqueue(r2)
        /\ n1 = n + 1 /\ n2 = n + 2 /\ n3 = n + 3
  OBVIOUS
<1>2. /\ n1 \in Nat /\ n2 \in Nat /\ n2 = n1 + 1 /\ n3 = n2 + 1
      /\ n < size /\ (r.deq = size => n + 1 < size)
      /\ k >= 2 => n1 < size /\ (r.deq = size => n1 + 1 < size)
      /\ k = 3 => n2 < size /\ (r.deq = size => n2 + 1 < size)
  BY <1>1
<1>3. RingOK(r1, size, n1) /\ r1.deq = r.deq
  BY ONLY <1>1, <1>2, size \in Nat \ {0}, RingOK(r, size, n), RingTakes
<1>4. k >= 2 => RingOK(r2, size, n2) /\ r2.deq = r.deq
  BY ONLY <1>1, <1>2, <1>3, size \in Nat \ {0}, RingTakes
<1>5. k = 3 => RingOK(r3, size, n3) /\ r3.deq = r.deq
  BY ONLY <1>1, <1>2, <1>4, size \in Nat \ {0}, k \in 1 .. 3, RingTakes
<1>6. /\ k = 1 => Enqueued(r, k) = r1
      /\ k = 2 => Enqueued(r, k) = r2
      /\ k = 3 => Enqueued(r, k) = r3
  BY <1>1, EnqueuedIs
<1>7. k = 1 \/ k = 2 \/ k = 3
  OBVIOUS
<1>8. QED
  BY <1>1, <1>3, <1>4, <1>5, <1>6, <1>7
-----------------------------------------------------------------------------
(***************************************************************************)
(* Sequences, whatever is in them.                                         *)
(***************************************************************************)
IsSeq(s) == \E S : s \in Seq(S)

LEMMA SeqEmpty == IsSeq(<<>>) /\ Len(<<>>) = 0
BY DEF IsSeq

LEMMA SeqParts ==
  ASSUME NEW s, IsSeq(s)
  PROVE  Len(s) \in Nat /\ DOMAIN s = 1 .. Len(s) /\ (s = <<>> <=> Len(s) = 0)
BY DEF IsSeq

LEMMA SeqAppend ==
  ASSUME NEW s, IsSeq(s), NEW e, NEW u, u = Append(s, e)
  PROVE  /\ IsSeq(u) /\ Len(u) = Len(s) + 1
         /\ \A i \in 1 .. Len(s) : u[i] = s[i]
         /\ u[Len(s) + 1] = e
<1>1. PICK S : s \in Seq(S)
  BY DEF IsSeq
<1>2. PICK T : T = S \cup {e}
  OBVIOUS
<1>3. s \in Seq(T) /\ e \in T
  BY <1>1, <1>2, SeqMonotonic
<1>4. QED
  BY <1>3 DEF IsSeq

LEMMA SeqTail ==
  ASSUME NEW s, IsSeq(s), s # <<>>, NEW u, u = Tail(s)
  PROVE  /\ IsSeq(u) /\ Len(u) = Len(s) - 1
         /\ \A i \in 1 .. Len(u) : u[i] = s[i + 1]
         /\ Head(s) = s[1]
BY DEF IsSeq

LEMMA SeqJoin ==
  ASSUME NEW s, IsSeq(s), NEW t, IsSeq(t), NEW u, u = s \o t
  PROVE  /\ IsSeq(u) /\ Len(u) = Len(s) + Len(t)
         /\ \A i \in 1 .. Len(s) : u[i] = s[i]
         /\ \A i \in 1 .. Len(t) : u[Len(s) + i] = t[i]
<1>1. PICK S, T, U : s \in Seq(S) /\ t \in Seq(T) /\ U = S \cup T
  BY DEF IsSeq
<1>2. s \in Seq(U) /\ t \in Seq(U)
  BY <1>1, SeqMonotonic
<1>3. QED
  BY <1>2 DEF IsSeq
-----------------------------------------------------------------------------
(***************************************************************************)
(* What the reports depend on; it holds whatever goes wrong.               *)
(***************************************************************************)
UsbOK ==
  /\ host \in {"xhci", "ehci"}
  /\ untried \subseteq {"ehci"}
  /\ untried # {} => host = "xhci"
  /\ step \in 1 .. LastStep
  /\ pc \in {"start", "wait", "idle", "copy", "aim", "failed"}
  /\ endpoint \in [Rings -> {"running", "halted", "hung"}]
  /\ g_intr_open \in BOOLEAN
  /\ g_intr_open <=> pc \in {"idle", "copy", "aim"}
  /\ pc = "copy" => host = "xhci"
  /\ pc = "aim" => host = "ehci"
  /\ ~g_intr_open => waiting = NoReport

RingFunctions == DOMAIN rings = Rings /\ DOMAIN owed = Rings /\ DOMAIN bell = Rings

EventRingOK == IsSeq(posted) /\ EventsOK(events, Len(posted))

(* There is one transfer for reports: it is on the ring, or its event is   *)
(* on its way or taken, never two of these.                                *)
ReportTrb == [step |-> 16, last |-> TRUE]

XhciOpen == host = "xhci" /\ g_intr_open

ReportRingOK ==
  /\ RingOK(rings["intr"], Usable["intr"], Len(owed["intr"]))
  /\ owed["intr"] = <<>> \/ owed["intr"] = <<ReportTrb>>
  /\ owed["intr"] # <<>> => XhciOpen /\ pc # "copy"
  /\ endpoint["intr"] # "running" => XhciOpen /\ pc # "copy"

(* An event that hands over a report. *)
Brings(e) == e.ring = "intr" /\ e.ok

ReportEventsOK ==
  /\ \A i \in 1 .. Len(posted) : posted[i].ring = "intr" => XhciOpen
  /\ \A i \in 1 .. Len(posted) : Brings(posted[i]) =>
       owed["intr"] = <<>> /\ endpoint["intr"] = "running" /\ pc # "copy"
  /\ \A i, j \in 1 .. Len(posted) : Brings(posted[i]) /\ Brings(posted[j]) => i = j

EhciOK ==
  /\ token \in {"off", "active", "done", "error"}
  /\ token # "off" <=> host = "ehci" /\ g_intr_open

PipeInv ==
  UsbOK /\ RingFunctions /\ EventRingOK /\ ReportRingOK /\ ReportEventsOK /\ EhciOK

(* Events posted and taken. *)
LEMMA Took ==
  ASSUME EventRingOK, TakeEvent
  PROVE  /\ EventRingOK'
         /\ Len(posted) \in Nat \ {0} /\ Len(posted') = Len(posted) - 1
         /\ \A i \in 1 .. Len(posted') : posted'[i] = posted[i + 1]
         /\ Event = posted[1] /\ posted # <<>>
<1>1. PICK s, t, n, ev, fv :
        /\ s = posted /\ t = posted' /\ ev = events /\ fv = events'
        /\ n = Len(posted)
  OBVIOUS
<1>2. IsSeq(s) /\ EventsOK(ev, n) /\ n = Len(s)
  BY <1>1 DEF EventRingOK
<1>3. ev.bits[ev.deq] = ev.cycle /\ t = Tail(s) /\ fv = Shrunk(ev)
  BY ONLY <1>1, TakeEvent DEF TakeEvent, Shrunk
<1>4. n > 0
  BY ONLY <1>2, <1>3, EventShows
<1>5. EventsOK(fv, n - 1)
  BY ONLY <1>2, <1>3, <1>4, EventTaken
<1>6. n \in Nat /\ s # <<>>
  BY ONLY <1>2, <1>4, SeqParts
<1>7. /\ IsSeq(t) /\ Len(t) = Len(s) - 1
      /\ \A i \in 1 .. Len(t) : t[i] = s[i + 1]
      /\ Head(s) = s[1]
  BY ONLY <1>2, <1>3, <1>6, SeqTail
<1>8. QED
  BY <1>1, <1>2, <1>4, <1>5, <1>6, <1>7 DEF EventRingOK, Event

LEMMA Put ==
  ASSUME EventRingOK, NEW e, Post(e)
  PROVE  /\ EventRingOK'
         /\ Len(posted) \in Nat /\ Len(posted') = Len(posted) + 1
         /\ \A i \in 1 .. Len(posted) : posted'[i] = posted[i]
         /\ posted'[Len(posted) + 1] = e
<1>1. PICK s, t, n, ev, fv :
        /\ s = posted /\ t = posted' /\ ev = events /\ fv = events'
        /\ n = Len(posted)
  OBVIOUS
<1>2. IsSeq(s) /\ EventsOK(ev, n) /\ n = Len(s)
  BY <1>1 DEF EventRingOK
<1>3. n < EventTrbs - 1 /\ t = Append(s, e) /\ fv = Grown(ev)
  BY ONLY <1>1, Post(e) DEF Post, Grown
<1>4. EventsOK(fv, n + 1)
  BY ONLY <1>2, <1>3, EventPosted
<1>5. n \in Nat
  BY ONLY <1>2, SeqParts
<1>6. /\ IsSeq(t) /\ Len(t) = Len(s) + 1
      /\ \A i \in 1 .. Len(s) : t[i] = s[i]
      /\ t[Len(s) + 1] = e
  <2>1. IsSeq(t) /\ Len(t) = Len(s) + 1
    BY ONLY <1>2, <1>3, SeqAppend
  <2>2. \A i \in 1 .. Len(s) : t[i] = s[i]
    BY ONLY <1>2, <1>3, SeqAppend
  <2>3. t[Len(s) + 1] = e
    BY ONLY <1>2, <1>3, SeqAppend
  <2>4. QED
    BY <2>1, <2>2, <2>3
<1>7. QED
  BY <1>1, <1>2, <1>4, <1>5, <1>6 DEF EventRingOK

(* The controller finds the transfer for reports only if it is there. *)
LEMMA FindsReportTrb ==
  ASSUME ReportRingOK, Finds("intr"), ~AtLink("intr")
  PROVE  /\ owed["intr"] = <<ReportTrb>> /\ Len(owed["intr"]) = 1
         /\ XhciOpen /\ pc # "copy" /\ endpoint["intr"] = "running"
         /\ \A i \in 1 .. Len(posted) : ReportEventsOK => ~Brings(posted[i])
         /\ Item("intr") = ReportTrb /\ Tail(owed["intr"]) = <<>>
<1>1. PICK r, n, size : r = rings["intr"] /\ n = Len(owed["intr"]) /\ size = Usable["intr"]
  OBVIOUS
<1>2. size \in Nat \ {0} /\ RingOK(r, size, n)
  BY <1>1, XhciAssumption DEF ReportRingOK
<1>3. r.size = size
  BY <1>2, RingParts
<1>4. r.bits[r.deq] = r.ccs /\ r.deq # size
  BY <1>1, <1>3 DEF Finds, AtLink
<1>5. n > 0
  BY ONLY <1>2, <1>4, RingShows
<1>6. owed["intr"] = <<ReportTrb>>
  BY <1>1, <1>5, SeqEmpty DEF ReportRingOK
<1>7. Len(owed["intr"]) = 1 /\ Item("intr") = ReportTrb /\ Tail(owed["intr"]) = <<>>
        /\ owed["intr"] # <<>>
  BY <1>6 DEF Item
<1>8. QED
  BY <1>6, <1>7 DEF ReportRingOK, ReportEventsOK, Finds

(***************************************************************************)
(* The phases of the driver.                                               *)
(***************************************************************************)
Advances ==
  /\ step < LastStep
  /\ step' = step + 1 \/ (host = "xhci" /\ Now = "device8" /\ step' = step + 2)
  /\ pc' = "start"
  /\ UNCHANGED <<host, untried, g_intr_open>>

Opens ==
  /\ step = LastStep
  /\ g_intr_open' /\ pc' = "idle"
  /\ UNCHANGED <<host, untried, g_enumerated, step>>

(* The keyboard is not open yet and the request that is over was not the   *)
(* last, or was the last in vain.                                          *)
LEMMA StaysShut ==
  ASSUME UsbOK, pc = "wait", Advances \/ NextController, UNCHANGED <<endpoint, waiting>>
  PROVE  /\ UsbOK' /\ ~g_intr_open /\ ~g_intr_open'
         /\ pc' \in {"start", "failed"}
<1>1. ~g_intr_open /\ waiting = NoReport /\ waiting' = NoReport
  BY DEF UsbOK
<1>2. CASE Advances
  <2>1. step' \in 1 .. LastStep'
    <3>1. CASE host = "xhci"
      <4>1. LastStep = 15 /\ LastStep' = 15
        BY <1>2, <3>1, XhciSteps DEF Advances, LastStep
      <4>2. Now = "device8" => step = 4
        BY <3>1, <4>1, XhciSteps DEF Now, UsbOK
      <4>3. QED
        BY <1>2, <4>1, <4>2 DEF Advances, UsbOK
    <3>2. CASE host = "ehci"
      <4>1. LastStep = 10 /\ LastStep' = 10
        BY <1>2, <3>2, EhciSteps DEF Advances, LastStep
      <4>2. QED
        BY <1>2, <3>2, <4>1 DEF Advances, UsbOK
    <3>3. QED
      BY <3>1, <3>2 DEF UsbOK
  <2>2. QED
    BY <1>1, <1>2, <2>1 DEF Advances, UsbOK
<1>3. CASE NextController
  <2>1. host' \in {"xhci", "ehci"} /\ step' \in 1 .. LastStep'
    <3>1. CASE host' = host /\ step' = step
      BY <3>1 DEF UsbOK, LastStep
    <3>2. CASE host' = host /\ step' = FirstRequest
      <4>1. LastStep' = LastStep
        BY <3>2 DEF LastStep
      <4>2. FirstRequest \in 1 .. LastStep /\ host \in {"xhci", "ehci"}
        BY FirstRequests DEF UsbOK
      <4>3. QED
        BY <3>2, <4>1, <4>2
    <3>3. CASE host' \in untried /\ step' = 1
      BY <3>3, EhciSteps DEF UsbOK, LastStep
    <3>4. QED
      BY <1>3, <3>1, <3>2, <3>3 DEF NextController
  <2>2. untried' = {} /\ g_intr_open' = g_intr_open /\ pc' \in {"start", "failed"}
    BY <1>3 DEF NextController
  <2>3. QED
    BY <1>1, <2>1, <2>2 DEF UsbOK
<1>4. QED
  BY <1>2, <1>3

LEMMA OpensOK ==
  ASSUME UsbOK, pc = "wait", Opens, UNCHANGED <<endpoint, waiting>>
  PROVE  UsbOK' /\ ~g_intr_open
<1>1. LastStep' = LastStep
  BY DEF Opens, LastStep
<1>2. QED
  BY <1>1 DEF UsbOK, Opens

(* What XhciProceed and EhciProceed come to. *)
LEMMA XhciProceeds ==
  ASSUME (XhciWait /\ Mine(Event)) \/ TimeOut
  PROVE  \/ Advances /\ UNCHANGED <<rings, owed, bell>>
         \/ NextController /\ UNCHANGED <<rings, owed, bell>>
         \/ Opens /\ Enqueue("intr", <<NormalTrb>>)
BY DEF XhciWait, TimeOut, XhciProceed, Advance, Advances, Fail, OpenInterrupt, Opens, start

LEMMA EhciProceeds ==
  ASSUME EhciWait
  PROVE  \/ Advances /\ UNCHANGED <<token, aimed>>
         \/ NextController /\ UNCHANGED <<token, aimed>>
         \/ Opens /\ token' = "active" /\ aimed' = TRUE
BY DEF EhciWait, EhciProceed, Advance, Advances, Fail, OpenInterrupt, Opens, start

(***************************************************************************)
(* The transfer for reports is enqueued when the endpoint is opened and    *)
(* after each report, and the ring holds no other.                         *)
(***************************************************************************)
LEMMA EnqueueReport ==
  ASSUME RingFunctions, ReportRingOK, owed["intr"] = <<>>, host = "xhci",
         Enqueue("intr", <<NormalTrb>>)
  PROVE  /\ RingFunctions'
         /\ RingOK(rings'["intr"], Usable["intr"], Len(owed'["intr"]))
         /\ owed'["intr"] = <<ReportTrb>>
         /\ \A r \in {"cmd", "ep0"} :
              rings'[r] = rings[r] /\ owed'[r] = owed[r] /\ bell'[r] = bell[r]
<1>1. NormalTrb = ReportTrb
  BY FirstRequests DEF NormalTrb, ReportTrb
<1>2. /\ rings' = [rings EXCEPT !["intr"] = Enqueued(rings["intr"], 1)]
      /\ owed' = [owed EXCEPT !["intr"] = owed["intr"] \o <<ReportTrb>>]
      /\ bell' = [bell EXCEPT !["intr"] = TRUE]
  BY <1>1 DEF Enqueue
<1>3. RingFunctions'
  BY <1>2 DEF RingFunctions
<1>4. owed'["intr"] = <<ReportTrb>> /\ Len(owed'["intr"]) = 1
  BY <1>2 DEF RingFunctions, Rings
<1>5. \A r \in {"cmd", "ep0"} :
        rings'[r] = rings[r] /\ owed'[r] = owed[r] /\ bell'[r] = bell[r]
  BY <1>2 DEF RingFunctions, Rings
<1>6. PICK r, s, size : r = rings["intr"] /\ s = rings'["intr"] /\ size = Usable["intr"]
  OBVIOUS
<1>7. size \in Nat \ {0} /\ 1 < size /\ RingOK(r, size, 0)
  BY <1>6, XhciAssumption, SeqEmpty DEF ReportRingOK
<1>8. s = Enqueued(r, 1)
  BY <1>2, <1>6 DEF RingFunctions, Rings
<1>9. RingOK(Enqueued(r, 1), size, 1)
  <2>1. 0 \in Nat /\ 1 \in 1 .. 3 /\ 0 + 1 = 1 /\ 0 + 1 <= size /\ 0 + 1 < size
    BY <1>7
  <2>2. RingOK(Enqueued(r, 1), size, 0 + 1)
    BY ONLY <1>7, <2>1, RingTakesSome
  <2>3. QED
    BY <2>1, <2>2
<1>10. QED
  BY <1>3, <1>4, <1>5, <1>6, <1>8, <1>9

LEMMA EnqueueRequest ==
  ASSUME RingFunctions, NEW ring \in {"cmd", "ep0"}, NEW items, Enqueue(ring, items)
  PROVE  /\ RingFunctions'
         /\ rings'["intr"] = rings["intr"] /\ owed'["intr"] = owed["intr"]
BY DEF Enqueue, RingFunctions, Rings

(* Steps that leave the transfer for reports where it is. *)
IntrSame ==
  /\ rings'["intr"] = rings["intr"] /\ owed'["intr"] = owed["intr"]
  /\ endpoint'["intr"] = endpoint["intr"]
  /\ XhciOpen => XhciOpen'
  /\ pc' = "copy" => pc = "copy"

LEMMA RingSame ==
  ASSUME ReportRingOK, IntrSame
  PROVE  ReportRingOK'
BY DEF ReportRingOK, IntrSame

LEMMA EventsSame ==
  ASSUME ReportEventsOK, IntrSame, posted' = posted
  PROVE  ReportEventsOK'
BY DEF ReportEventsOK, IntrSame

LEMMA EventsLess ==
  ASSUME EventRingOK, ReportEventsOK, IntrSame, TakeEvent
  PROVE  ReportEventsOK'
<1>1. PICK n, m, s, t : n = Len(posted) /\ m = Len(posted') /\ s = posted /\ t = posted'
  OBVIOUS
<1>2. n \in Nat \ {0} /\ m = n - 1 /\ \A i \in 1 .. m : t[i] = s[i + 1]
  BY <1>1, Took
<1>3. \A i \in 1 .. m : i + 1 \in 1 .. n /\ t[i] = s[i + 1]
  BY <1>2
<1>4. /\ \A i \in 1 .. n : s[i].ring = "intr" => XhciOpen
      /\ \A i \in 1 .. n : Brings(s[i]) =>
           owed["intr"] = <<>> /\ endpoint["intr"] = "running" /\ pc # "copy"
      /\ \A i, j \in 1 .. n : Brings(s[i]) /\ Brings(s[j]) => i = j
  BY <1>1 DEF ReportEventsOK
<1>5. \A i \in 1 .. m : t[i].ring = "intr" => XhciOpen'
  BY <1>3, <1>4 DEF IntrSame
<1>6. \A i \in 1 .. m : Brings(t[i]) =>
        owed'["intr"] = <<>> /\ endpoint'["intr"] = "running" /\ pc' # "copy"
  BY <1>3, <1>4 DEF IntrSame
<1>7. \A i, j \in 1 .. m : Brings(t[i]) /\ Brings(t[j]) => i = j
  <2>1. ASSUME NEW i \in 1 .. m, NEW j \in 1 .. m, Brings(t[i]), Brings(t[j])
        PROVE  i = j
    <3>1. i + 1 = j + 1
      BY <1>3, <1>4, <2>1
    <3>2. QED
      BY <3>1
  <2>2. QED
    BY <2>1
<1>8. QED
  BY <1>1, <1>5, <1>6, <1>7 DEF ReportEventsOK

LEMMA EventsMore ==
  ASSUME EventRingOK, ReportEventsOK, IntrSame,
         NEW e, Post(e), e.ring = "intr" => XhciOpen', ~Brings(e)
  PROVE  ReportEventsOK'
<1>1. PICK n, m, s, t : n = Len(posted) /\ m = Len(posted') /\ s = posted /\ t = posted'
  OBVIOUS
<1>2. n \in Nat /\ m = n + 1 /\ (\A i \in 1 .. n : t[i] = s[i]) /\ t[n + 1] = e
  BY <1>1, Put
<1>3. \A i \in 1 .. m : \/ i \in 1 .. n /\ t[i] = s[i]
                        \/ t[i] = e
  BY <1>2
<1>4. /\ \A i \in 1 .. n : s[i].ring = "intr" => XhciOpen
      /\ \A i \in 1 .. n : Brings(s[i]) =>
           owed["intr"] = <<>> /\ endpoint["intr"] = "running" /\ pc # "copy"
      /\ \A i, j \in 1 .. n : Brings(s[i]) /\ Brings(s[j]) => i = j
  BY <1>1 DEF ReportEventsOK
<1>5. \A i \in 1 .. m : t[i].ring = "intr" => XhciOpen'
  BY <1>3, <1>4 DEF IntrSame
<1>6. \A i \in 1 .. m : Brings(t[i]) =>
        owed'["intr"] = <<>> /\ endpoint'["intr"] = "running" /\ pc' # "copy"
  BY <1>3, <1>4 DEF IntrSame
<1>7. \A i, j \in 1 .. m : Brings(t[i]) /\ Brings(t[j]) => i = j
  BY <1>3, <1>4
<1>8. QED
  BY <1>1, <1>5, <1>6, <1>7 DEF ReportEventsOK

(* While the endpoint is not open there is nothing of it anywhere. *)
LEMMA NothingOpen ==
  ASSUME PipeInv, ~XhciOpen
  PROVE  /\ owed["intr"] = <<>> /\ endpoint["intr"] = "running"
         /\ \A i \in 1 .. Len(posted) : posted[i].ring # "intr"
BY DEF PipeInv, ReportRingOK, ReportEventsOK

LEMMA PipeKept ==
  ASSUME PipeInv, UsbOK', RingFunctions', EhciOK', IntrSame,
         \/ UNCHANGED <<posted, events>>
         \/ TakeEvent
         \/ \E e : Post(e) /\ ~Brings(e) /\ (e.ring = "intr" => XhciOpen')
  PROVE  PipeInv'
<1>1. EventRingOK /\ ReportEventsOK /\ ReportRingOK
  BY DEF PipeInv
<1>2. ReportRingOK'
  BY <1>1, RingSame
<1>3. CASE UNCHANGED <<posted, events>>
  BY <1>1, <1>2, <1>3, EventsSame DEF PipeInv, EventRingOK
<1>4. CASE TakeEvent
  BY <1>1, <1>2, <1>4, EventsLess, Took DEF PipeInv
<1>5. CASE \E e : Post(e) /\ ~Brings(e) /\ (e.ring = "intr" => XhciOpen')
  <2>1. PICK e : Post(e) /\ ~Brings(e) /\ (e.ring = "intr" => XhciOpen')
    BY <1>5
  <2>2. EventRingOK'
    BY <1>1, <2>1, Put
  <2>3. ReportEventsOK'
    BY <1>1, <2>1, EventsMore
  <2>4. QED
    BY <1>2, <2>2, <2>3 DEF PipeInv
<1>6. QED
  BY <1>3, <1>4, <1>5

LEMMA PipeXhciStart ==
  ASSUME PipeInv, XhciStart, UNCHANGED <<changes, ehciVars>>
  PROVE  PipeInv'
<1>1. UsbOK /\ RingFunctions /\ EhciOK
  BY DEF PipeInv
<1>2. /\ host = "xhci" /\ pc = "start" /\ pc' = "wait"
      /\ Enqueue(RingOf(Now), Items(step))
      /\ UNCHANGED <<host, untried, step, endpoint, g_intr_open, waiting>>
      /\ UNCHANGED <<events, posted, token>>
  BY DEF XhciStart, start, ehciVars
<1>3. UsbOK' /\ EhciOK'
  BY <1>1, <1>2 DEF UsbOK, EhciOK, LastStep
<1>4. RingOf(Now) \in {"cmd", "ep0"}
  BY DEF RingOf
<1>5. RingFunctions' /\ rings'["intr"] = rings["intr"] /\ owed'["intr"] = owed["intr"]
  BY <1>1, <1>2, <1>4, EnqueueRequest
<1>6. IntrSame
  BY <1>2, <1>5 DEF IntrSame, XhciOpen
<1>7. QED
  BY <1>2, <1>3, <1>5, <1>6, PipeKept

(* The request waited for is over, one way or another. *)
LEMMA PipeXhciProceed ==
  ASSUME PipeInv, host = "xhci", pc = "wait",
         \/ (Advances \/ NextController) /\ UNCHANGED <<rings, owed, bell>>
         \/ Opens /\ Enqueue("intr", <<NormalTrb>>),
         TakeEvent \/ UNCHANGED <<events, posted>>,
         UNCHANGED <<endpoint, waiting, ehciVars>>
  PROVE  PipeInv'
<1>1. /\ UsbOK /\ RingFunctions /\ EventRingOK /\ ReportRingOK /\ ReportEventsOK /\ EhciOK
      /\ token' = token
  BY DEF PipeInv, ehciVars
<1>2. ~XhciOpen
  BY <1>1 DEF UsbOK, XhciOpen
<1>3. CASE (Advances \/ NextController) /\ UNCHANGED <<rings, owed, bell>>
  <2>1. UsbOK' /\ ~g_intr_open /\ ~g_intr_open' /\ pc' \in {"start", "failed"}
    BY <1>1, <1>3, StaysShut
  <2>2. EhciOK'
    BY <1>1, <2>1 DEF EhciOK
  <2>3. RingFunctions' /\ IntrSame
    BY <1>1, <1>2, <1>3, <2>1 DEF RingFunctions, IntrSame
  <2>4. QED
    BY <2>1, <2>2, <2>3, PipeKept
<1>4. CASE Opens /\ Enqueue("intr", <<NormalTrb>>)
  <2>1. UsbOK' /\ ~g_intr_open
    BY <1>1, <1>4, OpensOK
  <2>2. host' = "xhci" /\ g_intr_open' /\ pc' = "idle"
    BY <1>4 DEF Opens
  <2>3. EhciOK'
    BY <1>1, <2>1, <2>2 DEF EhciOK
  <2>4. /\ owed["intr"] = <<>> /\ endpoint["intr"] = "running"
        /\ \A i \in 1 .. Len(posted) : posted[i].ring # "intr"
    BY <1>2, NothingOpen
  <2>5. /\ RingFunctions'
        /\ RingOK(rings'["intr"], Usable["intr"], Len(owed'["intr"]))
        /\ owed'["intr"] = <<ReportTrb>>
    BY <1>1, <1>4, <2>4, EnqueueReport
  <2>6. XhciOpen'
    BY <2>2 DEF XhciOpen
  <2>7. ReportRingOK'
    BY <2>2, <2>4, <2>5, <2>6 DEF ReportRingOK
  <2>8. EventRingOK'
    BY <1>1, Took DEF EventRingOK
  <2>9. \A i \in 1 .. Len(posted') : posted'[i].ring # "intr"
    <3>1. CASE TakeEvent
      <4>1. PICK n, m, s, t :
              n = Len(posted) /\ m = Len(posted') /\ s = posted /\ t = posted'
        OBVIOUS
      <4>2. n \in Nat \ {0} /\ m = n - 1 /\ \A i \in 1 .. m : t[i] = s[i + 1]
        BY <1>1, <3>1, <4>1, Took
      <4>3. \A i \in 1 .. m : i + 1 \in 1 .. n
        BY <4>2
      <4>4. QED
        BY <2>4, <4>1, <4>2, <4>3
    <3>2. CASE UNCHANGED <<events, posted>>
      BY <2>4, <3>2
    <3>3. QED
      BY <3>1, <3>2
  <2>10. ReportEventsOK'
    BY <2>9 DEF ReportEventsOK, Brings
  <2>11. QED
    BY <2>1, <2>3, <2>5, <2>7, <2>8, <2>10 DEF PipeInv
<1>5. QED
  BY <1>3, <1>4

LEMMA PipeXhciWait ==
  ASSUME PipeInv, XhciWait, UNCHANGED <<changes, ehciVars>>
  PROVE  PipeInv'
<1>1. /\ host = "xhci" /\ pc = "wait" /\ TakeEvent
      /\ UNCHANGED <<endpoint, waiting>>
  BY DEF XhciWait
<1>2. CASE Mine(Event)
  <2>1. \/ (Advances \/ NextController) /\ UNCHANGED <<rings, owed, bell>>
        \/ Opens /\ Enqueue("intr", <<NormalTrb>>)
    BY <1>2, XhciProceeds
  <2>2. QED
    BY <1>1, <2>1, PipeXhciProceed
<1>3. CASE ~Mine(Event)
  <2>1. UNCHANGED <<rings, owed, bell, host, untried, step, pc, g_intr_open, token>>
    BY <1>3 DEF XhciWait, start, ehciVars
  <2>2. UsbOK' /\ RingFunctions' /\ EhciOK'
    BY <1>1, <2>1 DEF PipeInv, UsbOK, RingFunctions, EhciOK, LastStep
  <2>3. IntrSame
    BY <1>1, <2>1 DEF IntrSame, XhciOpen
  <2>4. QED
    BY <1>1, <2>2, <2>3, PipeKept
<1>4. QED
  BY <1>2, <1>3

LEMMA PipeTimeOut ==
  ASSUME PipeInv, TimeOut, UNCHANGED <<changes, ehciVars>>
  PROVE  PipeInv'
<1>1. /\ host = "xhci" /\ pc = "wait"
      /\ UNCHANGED <<endpoint, waiting, events, posted>>
  BY DEF TimeOut
<1>2. \/ (Advances \/ NextController) /\ UNCHANGED <<rings, owed, bell>>
      \/ Opens /\ Enqueue("intr", <<NormalTrb>>)
  BY XhciProceeds
<1>3. QED
  BY <1>1, <1>2, PipeXhciProceed

(* The report that came is read, and the transfer for the next enqueued.   *)
LEMMA PipeXhciRead ==
  ASSUME PipeInv, XhciRead, UNCHANGED <<changes, ehciVars>>
  PROVE  PipeInv'
<1>1. /\ host = "xhci" /\ pc = "idle" /\ TakeEvent
      /\ UNCHANGED <<rings, owed, bell, endpoint, host, untried, step>>
      /\ UNCHANGED <<g_intr_open, waiting, token>>
      /\ pc' \in {"idle", "copy"}
      /\ pc' = "copy" => Brings(Event)
  BY DEF XhciRead, start, ehciVars, Brings
<1>2. /\ UsbOK /\ RingFunctions /\ EventRingOK /\ ReportRingOK /\ ReportEventsOK /\ EhciOK
  BY DEF PipeInv
<1>3. UsbOK' /\ RingFunctions' /\ EhciOK' /\ XhciOpen /\ XhciOpen'
  BY <1>1, <1>2 DEF UsbOK, RingFunctions, EhciOK, LastStep, XhciOpen
<1>4. CASE pc' = "idle"
  <2>1. IntrSame
    BY <1>1, <1>3, <1>4 DEF IntrSame
  <2>2. QED
    BY <1>1, <1>3, <2>1, PipeKept
<1>5. CASE pc' = "copy"
  <2>1. PICK n, m, s, t :
          n = Len(posted) /\ m = Len(posted') /\ s = posted /\ t = posted'
    OBVIOUS
  <2>2. /\ n \in Nat \ {0} /\ m = n - 1 /\ EventRingOK'
        /\ \A i \in 1 .. m : t[i] = s[i + 1]
        /\ Event = s[1]
    BY <1>1, <1>2, <2>1, Took
  <2>3. 1 \in 1 .. n /\ Brings(s[1])
    BY <1>1, <1>5, <2>2
  <2>4. owed["intr"] = <<>> /\ endpoint["intr"] = "running"
    BY <1>2, <2>1, <2>3 DEF ReportEventsOK
  <2>5. \A i \in 1 .. m : ~Brings(t[i])
    <3>1. ASSUME NEW i \in 1 .. m, Brings(t[i]) PROVE FALSE
      <4>1. i + 1 \in 1 .. n /\ Brings(s[i + 1]) /\ i + 1 # 1
        BY <2>2, <3>1
      <4>2. \A k, l \in 1 .. n : Brings(s[k]) /\ Brings(s[l]) => k = l
        BY <1>2, <2>1 DEF ReportEventsOK
      <4>3. QED
        BY <2>3, <4>1, <4>2
    <3>2. QED
      BY <3>1
  <2>6. ReportEventsOK'
    BY <1>3, <2>1, <2>5 DEF ReportEventsOK
  <2>7. ReportRingOK'
    BY <1>1, <1>2, <1>3, <2>4 DEF ReportRingOK
  <2>8. QED
    BY <1>3, <2>2, <2>6, <2>7 DEF PipeInv
<1>6. QED
  BY <1>1, <1>4, <1>5

LEMMA PipeCopy ==
  ASSUME PipeInv, Copy, UNCHANGED <<changes, ehciVars>>
  PROVE  PipeInv'
<1>1. /\ host = "xhci" /\ pc = "copy" /\ pc' = "idle"
      /\ Enqueue("intr", <<NormalTrb>>)
      /\ UNCHANGED <<endpoint, host, untried, step, g_intr_open, waiting>>
      /\ UNCHANGED <<events, posted, token>>
  BY DEF Copy, start, ehciVars
<1>2. /\ UsbOK /\ RingFunctions /\ EventRingOK /\ ReportRingOK /\ ReportEventsOK /\ EhciOK
  BY DEF PipeInv
<1>3. UsbOK' /\ EhciOK' /\ XhciOpen /\ XhciOpen' /\ EventRingOK'
  BY <1>1, <1>2 DEF UsbOK, EhciOK, LastStep, XhciOpen, EventRingOK
<1>4. owed["intr"] = <<>> /\ endpoint["intr"] = "running"
  BY <1>1, <1>2 DEF ReportRingOK
<1>5. /\ RingFunctions'
      /\ RingOK(rings'["intr"], Usable["intr"], Len(owed'["intr"]))
      /\ owed'["intr"] = <<ReportTrb>>
  BY <1>1, <1>2, <1>4, EnqueueReport
<1>6. ReportRingOK'
  BY <1>1, <1>3, <1>4, <1>5 DEF ReportRingOK
<1>7. \A i \in 1 .. Len(posted) : ~Brings(posted[i])
  BY <1>1, <1>2 DEF ReportEventsOK
<1>8. ReportEventsOK'
  BY <1>1, <1>3, <1>7 DEF ReportEventsOK
<1>9. QED
  BY <1>3, <1>5, <1>6, <1>8 DEF PipeInv

(* EHCI has no part in the rings. *)
LEMMA PipeElsewhere ==
  ASSUME PipeInv, UsbOK', EhciOK', UNCHANGED xhciVars,
         endpoint'["intr"] = endpoint["intr"],
         XhciOpen => XhciOpen', pc' = "copy" => pc = "copy"
  PROVE  PipeInv'
<1>1. UNCHANGED <<rings, owed, bell, posted, events>>
  BY DEF xhciVars
<1>2. RingFunctions'
  BY <1>1 DEF PipeInv, RingFunctions
<1>3. IntrSame
  BY <1>1 DEF IntrSame
<1>4. QED
  BY <1>1, <1>2, <1>3, PipeKept

LEMMA PipeEhciStart ==
  ASSUME PipeInv, EhciStart, UNCHANGED xhciVars
  PROVE  PipeInv'
<1>1. /\ host = "ehci" /\ pc = "start" /\ pc' = "wait"
      /\ endpoint' = [endpoint EXCEPT !["ep0"] = "running"]
      /\ UNCHANGED <<host, untried, step, g_intr_open, waiting, token>>
  BY DEF EhciStart, start
<1>2. UsbOK' /\ EhciOK' /\ endpoint'["intr"] = endpoint["intr"]
  BY <1>1 DEF PipeInv, UsbOK, EhciOK, LastStep, Rings
<1>3. ~XhciOpen
  BY <1>1 DEF XhciOpen
<1>4. QED
  BY <1>1, <1>2, <1>3, PipeElsewhere

LEMMA PipeEhciWait ==
  ASSUME PipeInv, EhciWait, UNCHANGED xhciVars
  PROVE  PipeInv'
<1>1. host = "ehci" /\ pc = "wait" /\ UNCHANGED <<endpoint, waiting>>
  BY DEF EhciWait
<1>2. ~XhciOpen /\ UsbOK /\ EhciOK
  BY <1>1 DEF PipeInv, XhciOpen
<1>3. CASE (Advances \/ NextController) /\ UNCHANGED <<token, aimed>>
  <2>1. UsbOK' /\ ~g_intr_open /\ ~g_intr_open' /\ pc' \in {"start", "failed"}
    BY <1>1, <1>2, <1>3, StaysShut
  <2>2. EhciOK'
    BY <1>2, <1>3, <2>1 DEF EhciOK
  <2>3. QED
    BY <1>1, <1>2, <2>1, <2>2, PipeElsewhere
<1>4. CASE Opens /\ token' = "active" /\ aimed' = TRUE
  <2>1. UsbOK' /\ pc' = "idle" /\ g_intr_open' /\ host' = "ehci"
    BY <1>1, <1>2, <1>4, OpensOK DEF Opens
  <2>2. EhciOK'
    BY <1>4, <2>1 DEF EhciOK
  <2>3. QED
    BY <1>1, <1>2, <2>1, <2>2, PipeElsewhere
<1>5. QED
  BY <1>3, <1>4, EhciProceeds

LEMMA PipeEhciRead ==
  ASSUME PipeInv, EhciRead \/ Aim, UNCHANGED xhciVars
  PROVE  PipeInv'
<1>1. /\ pc' \in {"idle", "aim"} /\ pc \in {"idle", "aim"}
      /\ UNCHANGED <<host, untried, step, endpoint, g_intr_open, waiting>>
      /\ \/ host = "ehci" /\ token # "off" /\ token' = "active"
         \/ pc = "aim" /\ token' = token /\ pc' = "idle"
  BY DEF EhciRead, Aim, start
<1>2. UsbOK' /\ EhciOK'
  BY <1>1 DEF PipeInv, UsbOK, EhciOK, LastStep
<1>3. (XhciOpen => XhciOpen') /\ endpoint'["intr"] = endpoint["intr"]
  BY <1>1 DEF XhciOpen
<1>4. QED
  BY <1>1, <1>2, <1>3, PipeElsewhere

LEMMA PipeEhciController ==
  ASSUME PipeInv, EhciController, UNCHANGED xhciVars
  PROVE  PipeInv'
<1>1. /\ UNCHANGED <<host, untried, step, pc, g_intr_open>>
      /\ waiting' \in {waiting, NoReport}
      /\ \/ endpoint' = endpoint
         \/ endpoint' = [endpoint EXCEPT !["ep0"] = "halted"]
         \/ endpoint' = [endpoint EXCEPT !["ep0"] = "hung"]
      /\ token' = token \/ (token = "active" /\ token' \in {"done", "error"})
  <2>1. UNCHANGED <<host, untried, step, pc, g_intr_open>>
    BY DEF EhciController, start
  <2>2. CASE Stage
    BY <2>1, <2>2 DEF Stage, Runs
  <2>3. CASE NoStage
    BY <2>1, <2>3 DEF NoStage, Runs
  <2>4. CASE Receive
    BY <2>1, <2>4 DEF Receive
  <2>5. CASE Discard
    BY <2>1, <2>5 DEF Discard
  <2>6. CASE NotReceived
    BY <2>1, <2>6 DEF NotReceived
  <2>7. QED
    BY <2>2, <2>3, <2>4, <2>5, <2>6 DEF EhciController
<1>2. UsbOK' /\ EhciOK' /\ endpoint'["intr"] = endpoint["intr"]
  BY <1>1 DEF PipeInv, UsbOK, EhciOK, LastStep, Rings
<1>3. XhciOpen => XhciOpen'
  BY <1>1 DEF XhciOpen
<1>4. QED
  BY <1>1, <1>2, <1>3, PipeElsewhere

LEMMA PipeKeyboard ==
  ASSUME PipeInv, KeyboardReports, UNCHANGED <<xhciVars, ehciVars>>
  PROVE  PipeInv'
<1>1. g_intr_open /\ UNCHANGED <<host, untried, step, pc, endpoint, g_intr_open, token>>
  BY DEF KeyboardReports, start, ehciVars
<1>2. UsbOK' /\ EhciOK'
  BY <1>1 DEF PipeInv, UsbOK, EhciOK, LastStep
<1>3. (XhciOpen => XhciOpen') /\ endpoint'["intr"] = endpoint["intr"]
  BY <1>1 DEF XhciOpen
<1>4. QED
  BY <1>1, <1>2, <1>3, PipeElsewhere

LEMMA PipePortChange ==
  ASSUME PipeInv, PortChange, UNCHANGED ehciVars
  PROVE  PipeInv'
<1>1. /\ UNCHANGED <<rings, owed, bell, host, untried, step, pc, endpoint>>
      /\ UNCHANGED <<g_intr_open, waiting, token>>
      /\ Post([ring |-> "port", step |-> 0, ok |-> TRUE])
  BY DEF PortChange, usbVars, start, ehciVars
<1>2. UsbOK' /\ EhciOK' /\ RingFunctions'
  BY <1>1 DEF PipeInv, UsbOK, EhciOK, RingFunctions, LastStep
<1>3. IntrSame
  BY <1>1 DEF IntrSame, XhciOpen
<1>4. \E e : Post(e) /\ ~Brings(e) /\ (e.ring = "intr" => XhciOpen')
  BY <1>1 DEF Brings
<1>5. QED
  BY <1>2, <1>3, <1>4, PipeKept

(***************************************************************************)
(* The xHCI controller: first on the rings for commands and requests.      *)
(***************************************************************************)
ControllerAt(ring) ==
  /\ FollowLink(ring) \/ Execute(ring) \/ Refuse(ring) \/ Hang(ring) \/ Revive(ring)
  /\ UNCHANGED <<start, pc, g_intr_open, report, bell, changes>>
  /\ UNCHANGED ehciVars

LEMMA PipeControllerRequests ==
  ASSUME PipeInv, NEW ring \in {"cmd", "ep0"}, ControllerAt(ring)
  PROVE  PipeInv'
<1>1. UNCHANGED <<host, untried, step, pc, g_intr_open, bell, token>>
  BY DEF ControllerAt, start, ehciVars
<1>2. UsbOK /\ RingFunctions /\ EhciOK
  BY DEF PipeInv
<1>3. /\ waiting' = waiting
      /\ rings' = rings \/ Passed(ring)
      /\ owed' = owed \/ owed' = [owed EXCEPT ![ring] = Tail(@)]
      /\ endpoint' = endpoint \/ \E x \in {"running", "halted", "hung"} :
                                    endpoint' = [endpoint EXCEPT ![ring] = x]
      /\ \/ UNCHANGED <<posted, events>>
         \/ \E e : Post(e) /\ e.ring = ring
  <2>1. CASE FollowLink(ring)
    BY <2>1 DEF FollowLink
  <2>2. CASE Execute(ring)
    BY <2>2 DEF Execute
  <2>3. CASE Refuse(ring)
    BY <2>3 DEF Refuse
  <2>4. CASE Hang(ring)
    BY <2>4 DEF Hang
  <2>5. CASE Revive(ring)
    BY <2>5 DEF Revive
  <2>6. QED
    BY <2>1, <2>2, <2>3, <2>4, <2>5 DEF ControllerAt
<1>4. /\ endpoint' \in [Rings -> {"running", "halted", "hung"}]
      /\ endpoint'["intr"] = endpoint["intr"]
  BY <1>2, <1>3 DEF UsbOK, Rings
<1>5. /\ RingFunctions'
      /\ rings'["intr"] = rings["intr"] /\ owed'["intr"] = owed["intr"]
  BY <1>1, <1>2, <1>3 DEF RingFunctions, Passed, Rings
<1>6. UsbOK' /\ EhciOK'
  BY <1>1, <1>2, <1>3, <1>4 DEF UsbOK, EhciOK, LastStep
<1>7. IntrSame
  BY <1>1, <1>4, <1>5 DEF IntrSame, XhciOpen
<1>8. CASE UNCHANGED <<posted, events>>
  BY <1>5, <1>6, <1>7, <1>8, PipeKept
<1>9. CASE \E e : Post(e) /\ e.ring = ring
  <2>1. \E e : Post(e) /\ ~Brings(e) /\ (e.ring = "intr" => XhciOpen')
    BY <1>9 DEF Brings
  <2>2. QED
    BY <1>5, <1>6, <1>7, <2>1, PipeKept
<1>10. QED
  BY <1>3, <1>8, <1>9

(* Then on the one for reports. *)
LEMMA PassedReportRing ==
  ASSUME RingFunctions, ReportRingOK, Finds("intr"), Passed("intr")
  PROVE  /\ DOMAIN rings' = Rings
         /\ AtLink("intr") =>
              RingOK(rings'["intr"], Usable["intr"], Len(owed["intr"]))
         /\ ~AtLink("intr") => RingOK(rings'["intr"], Usable["intr"], 0)
<1>1. PICK r, s, n, size :
        /\ r = rings["intr"] /\ s = rings'["intr"]
        /\ n = Len(owed["intr"]) /\ size = Usable["intr"]
  OBVIOUS
<1>2. size \in Nat \ {0} /\ RingOK(r, size, n)
  BY <1>1, XhciAssumption DEF ReportRingOK
<1>3. s = Past(r) /\ DOMAIN rings' = Rings
  BY <1>1 DEF Passed, RingFunctions, Rings
<1>4. r.bits[r.deq] = r.ccs
  BY <1>1 DEF Finds
<1>5. RingOK(Past(r), size, IF r.deq = size THEN n ELSE n - 1)
  BY ONLY <1>2, <1>4, RingPasses
<1>6. r.size = size
  BY <1>2, RingParts
<1>7. AtLink("intr") <=> r.deq = size
  BY <1>1, <1>6 DEF AtLink
<1>8. ~AtLink("intr") => n - 1 = 0
  BY <1>1, FindsReportTrb
<1>9. QED
  BY <1>1, <1>3, <1>5, <1>7, <1>8

LEMMA PipeControllerReports ==
  ASSUME PipeInv, ControllerAt("intr")
  PROVE  PipeInv'
<1>1. UNCHANGED <<host, untried, step, pc, g_intr_open, bell, token>>
  BY DEF ControllerAt, start, ehciVars
<1>2. /\ UsbOK /\ RingFunctions /\ EventRingOK /\ ReportRingOK /\ ReportEventsOK /\ EhciOK
  BY DEF PipeInv
<1>3. EhciOK' /\ (XhciOpen <=> XhciOpen')
  BY <1>1, <1>2 DEF EhciOK, XhciOpen
<1>4. CASE FollowLink("intr")
  <2>1. /\ Finds("intr") /\ AtLink("intr") /\ Passed("intr")
        /\ UNCHANGED <<events, posted, owed, endpoint, waiting>>
    BY <1>4 DEF FollowLink
  <2>2. /\ DOMAIN rings' = Rings
        /\ RingOK(rings'["intr"], Usable["intr"], Len(owed["intr"]))
    BY <1>2, <2>1, PassedReportRing
  <2>3. UsbOK' /\ RingFunctions' /\ EventRingOK'
    BY <1>1, <1>2, <2>1, <2>2 DEF UsbOK, RingFunctions, EventRingOK, LastStep
  <2>4. ReportRingOK' /\ ReportEventsOK'
    BY <1>1, <1>2, <1>3, <2>1, <2>2 DEF ReportRingOK, ReportEventsOK
  <2>5. QED
    BY <1>3, <2>3, <2>4 DEF PipeInv
<1>5. ASSUME Finds("intr"), ~AtLink("intr")
      PROVE  /\ owed["intr"] = <<ReportTrb>>
             /\ XhciOpen /\ pc # "copy" /\ endpoint["intr"] = "running"
             /\ \A i \in 1 .. Len(posted) : ~Brings(posted[i])
             /\ Item("intr") = ReportTrb /\ Tail(owed["intr"]) = <<>>
  BY <1>2, <1>5, FindsReportTrb
<1>6. CASE Execute("intr")
  <2>1. /\ Finds("intr") /\ ~AtLink("intr") /\ Passed("intr")
        /\ owed' = [owed EXCEPT !["intr"] = Tail(@)]
        /\ Item("intr").last =>
             Post([ring |-> "intr", step |-> Item("intr").step, ok |-> TRUE])
        /\ endpoint' = endpoint /\ waiting' = NoReport
    BY <1>6 DEF Execute
  <2>2. /\ XhciOpen /\ pc # "copy" /\ endpoint["intr"] = "running"
        /\ \A i \in 1 .. Len(posted) : ~Brings(posted[i])
        /\ Item("intr") = ReportTrb /\ Tail(owed["intr"]) = <<>>
    BY <1>5, <2>1
  <2>3. PICK e : e = [ring |-> "intr", step |-> 16, ok |-> TRUE]
    OBVIOUS
  <2>4. Post(e)
    <3>1. Item("intr").last /\ Item("intr").step = 16
      BY <2>2 DEF ReportTrb
    <3>2. Post([ring |-> "intr", step |-> Item("intr").step, ok |-> TRUE])
      BY <2>1, <3>1
    <3>3. e = [ring |-> "intr", step |-> Item("intr").step, ok |-> TRUE]
      BY <2>3, <3>1
    <3>4. QED
      BY ONLY <3>2, <3>3
  <2>5. DOMAIN rings' = Rings /\ RingOK(rings'["intr"], Usable["intr"], 0)
    BY <1>2, <2>1, PassedReportRing
  <2>6. owed'["intr"] = <<>> /\ DOMAIN owed' = Rings
    BY <1>2, <2>1, <2>2 DEF RingFunctions, Rings
  <2>7. UsbOK' /\ RingFunctions'
    BY <1>1, <1>2, <2>1, <2>5, <2>6 DEF UsbOK, RingFunctions, LastStep
  <2>8. ReportRingOK'
    BY <1>1, <2>1, <2>2, <2>5, <2>6, SeqEmpty DEF ReportRingOK
  <2>9. PICK n, m, s, t :
          n = Len(posted) /\ m = Len(posted') /\ s = posted /\ t = posted'
    OBVIOUS
  <2>10. /\ EventRingOK' /\ n \in Nat /\ m = n + 1
         /\ \A i \in 1 .. n : t[i] = s[i]
         /\ t[n + 1] = e
    BY <1>2, <2>4, <2>9, Put
  <2>11. \A i \in 1 .. m : Brings(t[i]) => i = n + 1
    BY <2>2, <2>9, <2>10
  <2>12. ReportEventsOK'
    <3>1. \A i \in 1 .. m : t[i].ring = "intr" => XhciOpen'
      BY <1>3, <2>2
    <3>2. owed'["intr"] = <<>> /\ endpoint'["intr"] = "running" /\ pc' # "copy"
      BY <1>1, <2>1, <2>2, <2>6
    <3>3. \A i, j \in 1 .. m : Brings(t[i]) /\ Brings(t[j]) => i = j
      BY <2>11
    <3>4. QED
      BY <2>9, <3>1, <3>2, <3>3 DEF ReportEventsOK
  <2>13. QED
    BY <1>3, <2>7, <2>8, <2>10, <2>12 DEF PipeInv
<1>7. CASE Refuse("intr") \/ Hang("intr")
  <2>1. PICK x \in {"halted", "hung"} :
          /\ Finds("intr") /\ ~AtLink("intr")
          /\ endpoint' = [endpoint EXCEPT !["intr"] = x]
          /\ UNCHANGED <<rings, owed, waiting>>
          /\ \/ UNCHANGED <<posted, events>>
             \/ Post([ring |-> "intr", step |-> Item("intr").step, ok |-> FALSE])
    BY <1>7 DEF Refuse, Hang
  <2>2. /\ XhciOpen /\ pc # "copy" /\ owed["intr"] = <<ReportTrb>>
        /\ \A i \in 1 .. Len(posted) : ~Brings(posted[i])
    BY <1>5, <2>1
  <2>3. UsbOK' /\ RingFunctions'
    BY <1>1, <1>2, <2>1 DEF UsbOK, RingFunctions, LastStep, Rings
  <2>4. ReportRingOK'
    BY <1>1, <1>2, <1>3, <2>1, <2>2 DEF ReportRingOK
  <2>5. EventRingOK' /\ \A i \in 1 .. Len(posted') : ~Brings(posted'[i])
    <3>1. CASE UNCHANGED <<posted, events>>
      BY <1>2, <2>2, <3>1 DEF EventRingOK
    <3>2. CASE Post([ring |-> "intr", step |-> Item("intr").step, ok |-> FALSE])
      <4>1. PICK e : e = [ring |-> "intr", step |-> Item("intr").step, ok |-> FALSE]
        OBVIOUS
      <4>2. Post(e) /\ ~Brings(e)
        BY <3>2, <4>1 DEF Brings
      <4>3. PICK n, m, s, t :
              n = Len(posted) /\ m = Len(posted') /\ s = posted /\ t = posted'
        OBVIOUS
      <4>4. /\ EventRingOK' /\ n \in Nat /\ m = n + 1
            /\ \A i \in 1 .. n : t[i] = s[i]
            /\ t[n + 1] = e
        BY <1>2, <4>2, <4>3, Put
      <4>5. \A i \in 1 .. m : ~Brings(t[i])
        BY <2>2, <4>2, <4>3, <4>4
      <4>6. QED
        BY <4>3, <4>4, <4>5
    <3>3. QED
      BY <2>1, <3>1, <3>2
  <2>6. ReportEventsOK'
    BY <1>3, <2>2, <2>5 DEF ReportEventsOK
  <2>7. QED
    BY <1>3, <2>3, <2>4, <2>5, <2>6 DEF PipeInv
<1>8. ~Revive("intr")
  BY DEF Revive
<1>9. QED
  BY <1>4, <1>6, <1>7, <1>8 DEF ControllerAt

(* The steps of the system one by one. *)
LEMMA NextSteps ==
  ASSUME Next
  PROVE  \/ (XhciStart \/ XhciWait \/ TimeOut \/ XhciRead \/ Copy)
              /\ UNCHANGED <<changes, ehciVars>>
         \/ EhciDriver /\ UNCHANGED xhciVars
         \/ \E ring \in Rings : ControllerAt(ring)
         \/ EhciController /\ UNCHANGED xhciVars
         \/ PortChange /\ UNCHANGED ehciVars
         \/ KeyboardReports /\ UNCHANGED <<xhciVars, ehciVars>>
BY DEF Next, DriverStep, ControllerStep, Environment, XhciDriver, XhciController, ControllerAt

LEMMA EventsStart ==
  ASSUME XhciInit
  PROVE  EventRingOK
<1>1. PICK n, bits, deq, cycle, enq, pcs, ev :
        /\ n = 0 /\ bits = [i \in 0 .. EventTrbs - 1 |-> 0] /\ deq = 0 /\ cycle = 1
        /\ enq = 0 /\ pcs = 1 /\ ev = events
  OBVIOUS
<1>2. ev = [bits |-> bits, deq |-> deq, cycle |-> cycle, enq |-> enq, pcs |-> pcs]
  BY <1>1 DEF XhciInit
<1>3. /\ bits \in [0 .. EventTrbs - 1 -> {0, 1}]
      /\ deq \in 0 .. EventTrbs - 1 /\ cycle \in {0, 1}
      /\ enq \in 0 .. EventTrbs - 1 /\ pcs \in {0, 1}
      /\ \A i \in 0 .. EventTrbs - 1 : bits[i] = IF i < enq THEN pcs ELSE Flip(pcs)
  BY <1>1, XhciAssumption DEF Flip
<1>4. /\ cycle = pcs => deq <= enq /\ n = enq - deq
      /\ cycle # pcs => deq > enq /\ n = EventTrbs - deq + enq
  BY <1>1
<1>5. EventsOK(ev, n)
  BY ONLY <1>2, <1>3, <1>4 DEF EventsOK, EventRing
<1>6. posted = <<>>
  BY DEF XhciInit
<1>7. QED
  BY <1>1, <1>5, <1>6, SeqEmpty DEF EventRingOK

LEMMA PipeStarts ==
  ASSUME Init
  PROVE  PipeInv
<1>1. PICK machine \in Machines : UsbInit(machine)
  BY DEF Init
<1>2. UsbOK
  <2>1. machine \in SUBSET {"xhci", "ehci"} /\ machine # {}
    BY MachinesAssumption
  <2>2. host \in {"xhci", "ehci"} /\ untried \subseteq {"ehci"}
          /\ (untried # {} => host = "xhci")
    BY <1>1, <2>1 DEF UsbInit
  <2>3. 1 \in 1 .. LastStep
    BY <2>2, FirstRequests
  <2>4. QED
    BY <1>1, <2>2, <2>3 DEF UsbInit, UsbOK, Rings
<1>3. XhciInit /\ EhciInit
  BY DEF Init
<1>4. RingFunctions
  BY <1>3 DEF XhciInit, RingFunctions
<1>5. EventRingOK /\ posted = <<>>
  BY <1>3, EventsStart DEF XhciInit
<1>6. ReportRingOK
  <2>1. owed["intr"] = <<>> /\ endpoint["intr"] = "running"
    BY <1>1, <1>3 DEF XhciInit, UsbInit, Rings
  <2>2. Usable["intr"] \in Nat \ {0}
    BY XhciAssumption
  <2>3. rings["intr"] = ring_init(Usable["intr"])
    BY <1>3 DEF XhciInit, Rings
  <2>4. RingOK(ring_init(Usable["intr"]), Usable["intr"], 0)
    BY <2>2, RingStarts
  <2>5. QED
    BY <2>1, <2>3, <2>4, SeqEmpty DEF ReportRingOK
<1>7. ReportEventsOK
  BY <1>5, SeqEmpty DEF ReportEventsOK
<1>8. EhciOK
  BY <1>1, <1>3 DEF EhciInit, UsbInit, EhciOK
<1>9. QED
  BY <1>2, <1>4, <1>5, <1>6, <1>7, <1>8 DEF PipeInv

(* The invariant the reports rest on: for rings of any size, any number of *)
(* port changes and whatever goes wrong, the transfer of intr_open and     *)
(* intr_read is never enqueued twice, its event never handed over twice.   *)
THEOREM PipeInvariant == Spec => []PipeInv
<1>1. Init => PipeInv
  BY PipeStarts
<1>2. PipeInv /\ [Next]_vars => PipeInv'
  <2> SUFFICES ASSUME PipeInv, [Next]_vars PROVE PipeInv'
    OBVIOUS
  <2>2. CASE UNCHANGED vars
    <3>1. UNCHANGED <<usbVars, xhciVars, token>>
      BY <2>2 DEF vars, ehciVars
    <3>2. UsbOK' /\ EhciOK'
      BY <3>1 DEF PipeInv, UsbOK, EhciOK, usbVars, start, LastStep
    <3>3. endpoint' = endpoint /\ (XhciOpen => XhciOpen') /\ pc' = pc
      BY <3>1 DEF usbVars, start, XhciOpen
    <3>4. QED
      BY <3>1, <3>2, <3>3, PipeElsewhere
  <2>3. CASE Next
    <3>1. CASE (XhciStart \/ XhciWait \/ TimeOut \/ XhciRead \/ Copy)
                 /\ UNCHANGED <<changes, ehciVars>>
      BY <3>1, PipeXhciStart, PipeXhciWait, PipeTimeOut, PipeXhciRead, PipeCopy
    <3>2. CASE EhciDriver /\ UNCHANGED xhciVars
      BY <3>2, PipeEhciStart, PipeEhciWait, PipeEhciRead DEF EhciDriver
    <3>3. CASE \E ring \in Rings : ControllerAt(ring)
      BY <3>3, PipeControllerRequests, PipeControllerReports DEF Rings
    <3>4. CASE EhciController /\ UNCHANGED xhciVars
      BY <3>4, PipeEhciController
    <3>5. CASE PortChange /\ UNCHANGED ehciVars
      BY <3>5, PipePortChange
    <3>6. CASE KeyboardReports /\ UNCHANGED <<xhciVars, ehciVars>>
      BY <3>6, PipeKeyboard
    <3>7. QED
      BY <2>3, <3>1, <3>2, <3>3, <3>4, <3>5, <3>6, NextSteps
  <2>4. QED
    BY <2>2, <2>3
<1>3. QED
  BY <1>1, <1>2, PTL DEF Spec
-----------------------------------------------------------------------------
(***************************************************************************)
(* The refinement: what a step of the system is to the reader of reports.  *)
(***************************************************************************)
LEMMA Joins ==
  ASSUME NEW a, NEW b
  PROVE  /\ <<a>> \o <<b>> = <<a, b>> /\ <<a>> \o <<>> = <<a>>
         /\ <<>> \o <<b>> = <<b>> /\ <<>> \o <<>> = <<>>
<1>1. PICK S : S = {a, b}
  OBVIOUS
<1>2. <<a>> \in Seq(S) /\ <<b>> \in Seq(S) /\ <<>> \in Seq(S)
  BY <1>1
<1>3. <<a>> \o <<b>> = <<a, b>>
  <2>1. PICK s, t : s = <<a>> \o <<b>> /\ t = <<a, b>>
    OBVIOUS
  <2>2. s \in Seq(S) /\ Len(s) = 2 /\ s[1] = a /\ s[2] = b
    BY <1>2, <2>1
  <2>3. t \in Seq(S) /\ Len(t) = 2 /\ t[1] = a /\ t[2] = b
    BY <1>1, <2>1
  <2>4. \A i \in 1 .. Len(s) : s[i] = t[i]
    BY <2>2, <2>3
  <2>5. s = t
    BY <2>2, <2>3, <2>4, SeqEqual
  <2>6. QED
    BY <2>1, <2>5
<1>4. <<a>> \o <<>> = <<a>> /\ <<>> \o <<b>> = <<b>>
  BY <1>2
<1>5. <<>> \o <<>> = <<>>
  BY <1>2
<1>6. QED
  BY <1>3, <1>4, <1>5

LEMMA QueueIs ==
  /\ Unread /\ waiting # NoReport => Queue = <<g_intr_buf, waiting>>
  /\ Unread /\ waiting = NoReport => Queue = <<g_intr_buf>>
  /\ ~Unread /\ waiting # NoReport => Queue = <<waiting>>
  /\ ~Unread /\ waiting = NoReport => Queue = <<>>
BY Joins, Zenon DEF Queue

LEMMA QueueWillBe ==
  /\ Unread' /\ waiting' # NoReport => Queue' = <<g_intr_buf', waiting'>>
  /\ Unread' /\ waiting' = NoReport => Queue' = <<g_intr_buf'>>
  /\ ~Unread' /\ waiting' # NoReport => Queue' = <<waiting'>>
  /\ ~Unread' /\ waiting' = NoReport => Queue' = <<>>
BY Joins, Zenon DEF Queue

(* A stutter. *)
LEMMA MapSame ==
  ASSUME UNCHANGED <<host, g_intr_open, report>>, endpoint'["intr"] = endpoint["intr"],
         Queue' = Queue
  PROVE  UNCHANGED Promised!rpVars
BY DEF Promised!rpVars, Broken

LEMMA MapChoose ==
  ASSUME ~g_intr_open, UNCHANGED <<g_intr_open, report>>,
         endpoint'["intr"] = endpoint["intr"], Queue' = Queue
  PROVE  Promised!Choose
<1>1. (host' = "xhci") \in BOOLEAN
  OBVIOUS
<1>2. QED
  BY <1>1 DEF Promised!Choose, Broken

LEMMA MapOpen ==
  ASSUME g_intr_open' = TRUE, UNCHANGED <<host, report>>,
         endpoint'["intr"] = endpoint["intr"], Queue' = Queue
  PROVE  Promised!Open
BY DEF Promised!Open, Broken

LEMMA MapOffer ==
  ASSUME UNCHANGED <<host, g_intr_open, report>>, endpoint'["intr"] = endpoint["intr"],
         NEW r \in Reports, Queue' = Append(Queue, r)
  PROVE  Promised!Offer
BY DEF Promised!Offer, Broken

LEMMA MapSpoil ==
  ASSUME UNCHANGED <<host, g_intr_open, report>>, endpoint'["intr"] = endpoint["intr"],
         host # "xhci", NEW a, Queue = <<a>>, Queue' = <<Blank>>
  PROVE  Promised!Spoil
<1>1. 1 \in DOMAIN Queue /\ Queue' = [Queue EXCEPT ![1] = Blank]
  OBVIOUS
<1>2. QED
  BY <1>1 DEF Promised!Spoil, Broken

LEMMA MapLose ==
  ASSUME UNCHANGED <<host, g_intr_open, report>>, endpoint'["intr"] = endpoint["intr"],
         host # "xhci", NEW a, Queue = <<a>>, Queue' = <<>>
  PROVE  Promised!Lose
<1>1. Queue # <<>> /\ Queue' = Tail(Queue)
  OBVIOUS
<1>2. QED
  BY <1>1 DEF Promised!Lose, Broken

LEMMA MapDeliver ==
  ASSUME UNCHANGED <<host, g_intr_open>>, endpoint'["intr"] = endpoint["intr"],
         g_intr_open, endpoint["intr"] = "running", Queue # <<>>,
         report' = Head(Queue), Queue' = Tail(Queue)
  PROVE  Promised!Deliver
BY DEF Promised!Deliver, Broken

LEMMA MapBreak ==
  ASSUME UNCHANGED <<host, g_intr_open, report>>, endpoint'["intr"] # "running",
         Queue' = Queue
  PROVE  Promised!Break
BY DEF Promised!Break, Broken

(***************************************************************************)
(* Step by step.                                                           *)
(***************************************************************************)
Maps == Promised!RPNext \/ UNCHANGED Promised!rpVars

LEMMA ShutQueue ==
  ASSUME PipeInv, ~g_intr_open
  PROVE  ~Unread /\ Queue = <<>> /\ endpoint["intr"] = "running" /\ waiting = NoReport
<1>1. ~Unread
  BY DEF PipeInv, ReportRingOK, ReportEventsOK, EventRingOK, UsbOK, EhciOK,
         Unread, XhciOpen
<1>2. waiting = NoReport /\ endpoint["intr"] = "running"
  BY DEF PipeInv, UsbOK, ReportRingOK, XhciOpen
<1>3. QED
  BY <1>1, <1>2, QueueIs

LEMMA ShutQueueAfter ==
  ASSUME PipeInv', ~g_intr_open'
  PROVE  Queue' = <<>> /\ endpoint'["intr"] = "running"
<1>1. ~Unread'
  BY DEF PipeInv, ReportRingOK, ReportEventsOK, UsbOK, EhciOK, Unread, XhciOpen
<1>2. waiting' = NoReport /\ endpoint'["intr"] = "running"
  BY DEF PipeInv, UsbOK, ReportRingOK, XhciOpen
<1>3. QED
  BY <1>1, <1>2, QueueWillBe

LEMMA MapsShut ==
  ASSUME PipeInv, PipeInv', ~g_intr_open, UNCHANGED <<g_intr_open, report>>
  PROVE  Maps
BY ShutQueue, ShutQueueAfter, MapChoose DEF Maps, Promised!RPNext

LEMMA MapsOpening ==
  ASSUME PipeInv, ~g_intr_open, g_intr_open' = TRUE, UNCHANGED <<host, report, waiting>>,
         endpoint' = endpoint, ~Unread'
  PROVE  Maps
BY ShutQueue, QueueWillBe, MapOpen DEF Maps, Promised!RPNext

LEMMA MapsQuiet ==
  ASSUME UNCHANGED <<host, g_intr_open, report, waiting>>,
         endpoint'["intr"] = endpoint["intr"],
         Unread' <=> Unread, Unread => g_intr_buf' = g_intr_buf
  PROVE  Maps
<1>1. Queue' = Queue
  BY QueueIs, QueueWillBe
<1>2. QED
  BY <1>1, MapSame DEF Maps

(* Events other than a report come and go. *)
LEMMA UnreadTaken ==
  ASSUME EventRingOK, TakeEvent, ~Brings(Event)
  PROVE  (\E i \in DOMAIN posted' : Brings(posted'[i]))
           <=> (\E i \in DOMAIN posted : Brings(posted[i]))
<1>1. PICK n, m, s, t : n = Len(posted) /\ m = Len(posted') /\ s = posted /\ t = posted'
  OBVIOUS
<1>2. /\ n \in Nat \ {0} /\ m = n - 1 /\ EventRingOK'
      /\ \A i \in 1 .. m : t[i] = s[i + 1]
      /\ Event = s[1]
  BY <1>1, Took
<1>3. DOMAIN s = 1 .. n /\ DOMAIN t = 1 .. m
  BY <1>1, <1>2, SeqParts DEF EventRingOK
<1>4. ASSUME NEW i \in 1 .. m, Brings(t[i]) PROVE \E j \in 1 .. n : Brings(s[j])
  <2>1. i + 1 \in 1 .. n /\ Brings(s[i + 1])
    BY <1>2, <1>4
  <2>2. QED
    BY <2>1
<1>5. ASSUME NEW j \in 1 .. n, Brings(s[j]) PROVE \E i \in 1 .. m : Brings(t[i])
  <2>1. j # 1
    BY <1>2, <1>5
  <2>2. j - 1 \in 1 .. m /\ (j - 1) + 1 = j
    BY <1>2, <2>1
  <2>3. Brings(t[j - 1])
    BY <1>2, <1>5, <2>2
  <2>4. QED
    BY <2>2, <2>3
<1>6. QED
  BY <1>1, <1>3, <1>4, <1>5

LEMMA UnreadPut ==
  ASSUME EventRingOK, NEW e, Post(e), ~Brings(e)
  PROVE  (\E i \in DOMAIN posted' : Brings(posted'[i]))
           <=> (\E i \in DOMAIN posted : Brings(posted[i]))
<1>1. PICK n, m, s, t : n = Len(posted) /\ m = Len(posted') /\ s = posted /\ t = posted'
  OBVIOUS
<1>2. /\ EventRingOK' /\ n \in Nat /\ m = n + 1
      /\ \A i \in 1 .. n : t[i] = s[i]
      /\ t[n + 1] = e
  BY <1>1, Put
<1>3. DOMAIN s = 1 .. n /\ DOMAIN t = 1 .. m
  BY <1>1, <1>2, SeqParts DEF EventRingOK
<1>4. \A i \in 1 .. m : Brings(t[i]) => i \in 1 .. n /\ Brings(s[i])
  BY <1>2
<1>5. \A i \in 1 .. n : Brings(s[i]) => i \in 1 .. m /\ Brings(t[i])
  BY <1>2
<1>6. QED
  BY <1>1, <1>3, <1>4, <1>5

LEMMA MapsProceed ==
  ASSUME PipeInv, PipeInv',
         (XhciWait \/ TimeOut) /\ UNCHANGED <<changes, ehciVars>>
  PROVE  Maps
<1>1. /\ host = "xhci" /\ pc = "wait" /\ UNCHANGED <<endpoint, waiting, report>>
      /\ TakeEvent \/ UNCHANGED <<events, posted>>
  BY DEF XhciWait, TimeOut
<1>2. ~g_intr_open
  BY <1>1 DEF PipeInv, UsbOK
<1>3. CASE g_intr_open' = g_intr_open
  BY <1>1, <1>2, <1>3, MapsShut
<1>4. CASE Opens
  <2>1. g_intr_open' = TRUE /\ host' = host /\ pc' = "idle"
    BY <1>4 DEF Opens, PipeInv, UsbOK
  <2>2. \A i \in DOMAIN posted' : ~Brings(posted'[i])
    <3>1. EventRingOK /\ \A i \in DOMAIN posted : ~Brings(posted[i])
      <4>1. EventRingOK
        BY DEF PipeInv
      <4>2. DOMAIN posted = 1 .. Len(posted)
        BY <4>1, SeqParts DEF EventRingOK
      <4>3. QED
        BY <1>2, <4>1, <4>2 DEF PipeInv, ReportEventsOK, XhciOpen, Brings
    <3>2. CASE UNCHANGED <<events, posted>>
      BY <3>1, <3>2
    <3>3. CASE TakeEvent
      <4>1. ~Brings(Event)
        <5>1. Len(posted) \in Nat \ {0} /\ Event = posted[1]
          BY <3>1, <3>3, Took
        <5>2. 1 \in 1 .. Len(posted)
          BY <5>1
        <5>3. QED
          BY <1>2, <5>1, <5>2 DEF PipeInv, ReportEventsOK, XhciOpen, Brings
      <4>2. QED
        BY <3>1, <3>3, <4>1, UnreadTaken
    <3>4. QED
      BY <1>1, <3>2, <3>3
  <2>3. ~Unread'
    BY <1>1, <2>1, <2>2 DEF Unread, Brings
  <2>4. QED
    BY <1>1, <1>2, <2>1, <2>3, MapsOpening
<1>5. CASE XhciWait /\ ~Mine(Event)
  <2>1. g_intr_open' = g_intr_open
    BY <1>5 DEF XhciWait
  <2>2. QED
    BY <2>1, <1>3
<1>6. CASE (XhciWait /\ Mine(Event)) \/ TimeOut
  <2>1. g_intr_open' = g_intr_open \/ Opens
    BY <1>6, XhciProceeds DEF Advances, NextController
  <2>2. QED
    BY <2>1, <1>3, <1>4
<1>7. QED
  BY <1>5, <1>6

LEMMA MapsXhciRead ==
  ASSUME PipeInv, PipeInv', XhciRead, UNCHANGED <<changes, ehciVars>>
  PROVE  Maps
<1>1. /\ host = "xhci" /\ pc = "idle" /\ TakeEvent
      /\ UNCHANGED <<endpoint, host, g_intr_open, waiting, report, g_intr_buf>>
      /\ pc' = IF Brings(Event) THEN "copy" ELSE "idle"
  BY DEF XhciRead, start, Brings
<1>2. EventRingOK
  BY DEF PipeInv
<1>3. CASE Brings(Event)
  <2>1. Len(posted) \in Nat \ {0} /\ Event = posted[1]
    BY <1>1, <1>2, Took
  <2>2. 1 \in DOMAIN posted
    BY <1>2, <2>1, SeqParts DEF EventRingOK
  <2>3. Unread
    BY <1>1, <1>3, <2>1, <2>2 DEF Unread, Brings
  <2>4. Unread'
    BY <1>1, <1>3 DEF Unread
  <2>5. QED
    BY <1>1, <2>3, <2>4, MapsQuiet
<1>4. CASE ~Brings(Event)
  <2>1. (\E i \in DOMAIN posted' : Brings(posted'[i]))
          <=> (\E i \in DOMAIN posted : Brings(posted[i]))
    BY <1>1, <1>2, <1>4, UnreadTaken
  <2>2. pc' = "idle" /\ host' = "xhci"
    BY <1>1, <1>4
  <2>3. Unread' <=> Unread
    BY <1>1, <2>1, <2>2 DEF Unread, Brings
  <2>4. QED
    BY <1>1, <2>3, MapsQuiet
<1>5. QED
  BY <1>3, <1>4

LEMMA MapsCopy ==
  ASSUME PipeInv, PipeInv', Copy, UNCHANGED <<changes, ehciVars>>
  PROVE  Maps
<1>1. /\ host = "xhci" /\ pc = "copy" /\ pc' = "idle"
      /\ UNCHANGED <<endpoint, host, g_intr_open, waiting, posted>>
      /\ report' = g_intr_buf
  BY DEF Copy, start
<1>2. g_intr_open /\ endpoint["intr"] = "running"
  BY <1>1 DEF PipeInv, UsbOK, ReportRingOK
<1>3. Unread
  BY <1>1 DEF Unread
<1>4. \A i \in DOMAIN posted : ~Brings(posted[i])
  <2>1. DOMAIN posted = 1 .. Len(posted)
    BY SeqParts DEF PipeInv, EventRingOK
  <2>2. QED
    BY <1>1, <2>1 DEF PipeInv, ReportEventsOK
<1>5. ~Unread'
  BY <1>1, <1>4 DEF Unread, Brings
<1>6. Queue # <<>> /\ report' = Head(Queue) /\ Queue' = Tail(Queue)
  <2>1. CASE waiting = NoReport
    <3>1. Queue = <<g_intr_buf>> /\ Queue' = <<>>
      BY <1>1, <1>3, <1>5, <2>1, QueueIs, QueueWillBe
    <3>2. QED
      BY <1>1, <3>1
  <2>2. CASE waiting # NoReport
    <3>1. Queue = <<g_intr_buf, waiting>> /\ Queue' = <<waiting>>
      BY <1>1, <1>3, <1>5, <2>2, QueueIs, QueueWillBe
    <3>2. QED
      BY <1>1, <3>1
  <2>3. QED
    BY <2>1, <2>2
<1>7. QED
  BY <1>1, <1>2, <1>6, MapDeliver DEF Maps, Promised!RPNext

LEMMA MapsEhciDriver ==
  ASSUME PipeInv, PipeInv', EhciDriver, UNCHANGED xhciVars
  PROVE  Maps
<1>1. CASE EhciStart
  <2>1. ~g_intr_open /\ UNCHANGED <<g_intr_open, report>>
    BY <1>1 DEF EhciStart, PipeInv, UsbOK
  <2>2. QED
    BY <2>1, MapsShut
<1>2. CASE EhciWait
  <2>1. host = "ehci" /\ ~g_intr_open /\ UNCHANGED <<report, waiting, endpoint>>
    BY <1>2 DEF EhciWait, PipeInv, UsbOK
  <2>2. CASE Advances \/ NextController
    <3>1. g_intr_open' = g_intr_open
      BY <2>2 DEF Advances, NextController
    <3>2. QED
      BY <2>1, <3>1, MapsShut
  <2>3. CASE Opens /\ token' = "active"
    <3>1. g_intr_open' = TRUE /\ host' = host
      BY <2>3 DEF Opens, PipeInv, UsbOK
    <3>2. ~Unread'
      BY <2>1, <2>3, <3>1 DEF Unread
    <3>3. QED
      BY <2>1, <3>1, <3>2, MapsOpening
  <2>4. QED
    BY <1>2, <2>2, <2>3, EhciProceeds
<1>3. CASE EhciRead
  <2>1. /\ host = "ehci" /\ pc = "idle" /\ token \in {"done", "error"}
        /\ report' = IF token = "done" THEN g_intr_buf ELSE report
        /\ token' = "active"
        /\ UNCHANGED <<endpoint, host, g_intr_open, waiting>>
    BY <1>3 DEF EhciRead, start
  <2>2. g_intr_open /\ endpoint["intr"] = "running"
    BY <2>1 DEF PipeInv, UsbOK, ReportRingOK, XhciOpen
  <2>3. ~Unread'
    BY <2>1 DEF Unread
  <2>4. CASE token = "error"
    <3>1. ~Unread /\ report' = report
      BY <2>1, <2>4 DEF Unread
    <3>2. QED
      BY <2>1, <2>3, <3>1, MapsQuiet
  <2>5. CASE token = "done"
    <3>1. Unread /\ report' = g_intr_buf
      BY <2>1, <2>5 DEF Unread
    <3>2. CASE waiting = NoReport
      <4>1. Queue = <<g_intr_buf>> /\ Queue' = <<>>
        BY <2>1, <2>3, <3>1, <3>2, QueueIs, QueueWillBe
      <4>2. Queue # <<>> /\ report' = Head(Queue) /\ Queue' = Tail(Queue)
        BY <3>1, <4>1
      <4>3. QED
        BY <2>1, <2>2, <4>2, MapDeliver DEF Maps, Promised!RPNext
    <3>3. CASE waiting # NoReport
      <4>1. Queue = <<g_intr_buf, waiting>> /\ Queue' = <<waiting>>
        BY <2>1, <2>3, <3>1, <3>3, QueueIs, QueueWillBe
      <4>2. Queue # <<>> /\ report' = Head(Queue) /\ Queue' = Tail(Queue)
        BY <3>1, <4>1
      <4>3. QED
        BY <2>1, <2>2, <4>2, MapDeliver DEF Maps, Promised!RPNext
    <3>4. QED
      BY <3>2, <3>3
  <2>6. QED
    BY <2>1, <2>4, <2>5
<1>4. CASE Aim
  <2>1. /\ pc = "aim" /\ pc' = "idle"
        /\ UNCHANGED <<host, endpoint, g_intr_open, waiting, report, g_intr_buf, token>>
    BY <1>4 DEF Aim, start
  <2>2. host = "ehci"
    BY <2>1 DEF PipeInv, UsbOK
  <2>3. Unread' <=> Unread
    BY <2>1, <2>2 DEF Unread
  <2>4. QED
    BY <2>1, <2>3, MapsQuiet
<1>5. QED
  BY <1>1, <1>2, <1>3, <1>4 DEF EhciDriver

LEMMA MapsXhciStart ==
  ASSUME PipeInv, PipeInv', XhciStart, UNCHANGED <<changes, ehciVars>>
  PROVE  Maps
<1>1. ~g_intr_open /\ UNCHANGED <<g_intr_open, report>>
  BY DEF XhciStart, PipeInv, UsbOK
<1>2. QED
  BY <1>1, MapsShut

LEMMA MapsPortChange ==
  ASSUME PipeInv, PortChange, UNCHANGED ehciVars
  PROVE  Maps
<1>1. PICK e : Post(e) /\ ~Brings(e)
  BY DEF PortChange, Brings
<1>2. /\ UNCHANGED <<host, pc, endpoint, g_intr_open, waiting, report, g_intr_buf>>
      /\ UNCHANGED token
  BY DEF PortChange, usbVars, start, ehciVars
<1>3. (\E i \in DOMAIN posted' : Brings(posted'[i]))
        <=> (\E i \in DOMAIN posted : Brings(posted[i]))
  BY <1>1, UnreadPut DEF PipeInv
<1>4. Unread' <=> Unread
  BY <1>2, <1>3 DEF Unread, Brings
<1>5. QED
  BY <1>2, <1>4, MapsQuiet

LEMMA MapsKeyboard ==
  ASSUME PipeInv, KeyboardReports, UNCHANGED <<xhciVars, ehciVars>>
  PROVE  Maps
<1>1. /\ waiting = NoReport /\ waiting' \in Reports /\ waiting' # NoReport
      /\ UNCHANGED <<host, pc, endpoint, g_intr_open, report, g_intr_buf, posted, token>>
  BY UsbAssumption DEF KeyboardReports, start, xhciVars, ehciVars
<1>2. Unread' <=> Unread
  BY <1>1 DEF Unread
<1>3. Queue' = Append(Queue, waiting')
  <2>1. CASE Unread
    <3>1. Queue = <<g_intr_buf>> /\ Queue' = <<g_intr_buf, waiting'>>
      BY <1>1, <1>2, <2>1, QueueIs, QueueWillBe
    <3>2. QED
      BY <3>1
  <2>2. CASE ~Unread
    <3>1. Queue = <<>> /\ Queue' = <<waiting'>>
      BY <1>1, <1>2, <2>2, QueueIs, QueueWillBe
    <3>2. QED
      BY <3>1
  <2>3. QED
    BY <2>1, <2>2
<1>4. QED
  BY <1>1, <1>3, MapOffer DEF Maps, Promised!RPNext

LEMMA MapsEhciController ==
  ASSUME PipeInv, EhciController, UNCHANGED xhciVars
  PROVE  Maps
<1>1. UNCHANGED <<host, pc, g_intr_open, report, posted>>
  BY DEF EhciController, start, xhciVars
<1>2. CASE Stage \/ NoStage \/ NotReceived
  <2>1. /\ UNCHANGED <<g_intr_buf, waiting>>
        /\ endpoint'["intr"] = endpoint["intr"]
        /\ token' = token \/ (token = "active" /\ token' = "error")
    <3>1. CASE Stage
      BY <3>1 DEF Stage
    <3>2. CASE NoStage
      BY <3>2 DEF NoStage, PipeInv, UsbOK, Rings
    <3>3. CASE NotReceived
      BY <3>3 DEF NotReceived
    <3>4. QED
      BY <1>2, <3>1, <3>2, <3>3
  <2>2. Unread' <=> Unread
    BY <1>1, <2>1 DEF Unread
  <2>3. QED
    BY <1>1, <2>1, <2>2, MapsQuiet
<1>3. CASE Receive
  <2>1. /\ token = "active" /\ token' = "done" /\ waiting # NoReport
        /\ waiting' = NoReport /\ endpoint' = endpoint
        /\ g_intr_buf' = IF aimed THEN waiting ELSE Blank
    BY <1>3 DEF Receive
  <2>2. host = "ehci"
    BY <2>1 DEF PipeInv, EhciOK
  <2>3. ~Unread /\ Unread'
    BY <1>1, <2>1, <2>2 DEF Unread
  <2>4. Queue = <<waiting>> /\ Queue' = <<g_intr_buf'>>
    BY <2>1, <2>3, QueueIs, QueueWillBe
  <2>5. CASE aimed
    <3>1. Queue' = Queue
      BY <2>1, <2>4, <2>5
    <3>2. QED
      BY <1>1, <2>1, <3>1, MapSame DEF Maps
  <2>6. CASE ~aimed
    <3>1. Queue' = <<Blank>>
      BY <2>1, <2>4, <2>6
    <3>2. QED
      BY <1>1, <2>1, <2>2, <2>4, <3>1, MapSpoil DEF Maps, Promised!RPNext
  <2>7. QED
    BY <2>5, <2>6
<1>4. CASE Discard
  <2>1. /\ token = "active" /\ token' = "active" /\ waiting # NoReport
        /\ waiting' = NoReport /\ endpoint' = endpoint
    BY <1>4 DEF Discard
  <2>2. host = "ehci"
    BY <2>1 DEF PipeInv, EhciOK
  <2>3. ~Unread /\ ~Unread'
    BY <1>1, <2>1, <2>2 DEF Unread
  <2>4. Queue = <<waiting>> /\ Queue' = <<>>
    BY <2>1, <2>3, QueueIs, QueueWillBe
  <2>5. QED
    BY <1>1, <2>1, <2>2, <2>4, MapLose DEF Maps, Promised!RPNext
<1>5. QED
  BY <1>2, <1>3, <1>4 DEF EhciController

LEMMA MapsControllerRequests ==
  ASSUME PipeInv, NEW ring \in {"cmd", "ep0"}, ControllerAt(ring)
  PROVE  Maps
<1>1. UNCHANGED <<host, pc, g_intr_open, report, token>>
  BY DEF ControllerAt, start, ehciVars
<1>2. /\ UNCHANGED <<waiting, g_intr_buf>>
      /\ endpoint' = endpoint \/ \E x : endpoint' = [endpoint EXCEPT ![ring] = x]
      /\ \/ posted' = posted
         \/ \E e : Post(e) /\ e.ring = ring
  <2>1. CASE FollowLink(ring)
    BY <2>1 DEF FollowLink
  <2>2. CASE Execute(ring)
    BY <2>2 DEF Execute
  <2>3. CASE Refuse(ring)
    BY <2>3 DEF Refuse
  <2>4. CASE Hang(ring)
    BY <2>4 DEF Hang
  <2>5. CASE Revive(ring)
    BY <2>5 DEF Revive
  <2>6. QED
    BY <2>1, <2>2, <2>3, <2>4, <2>5 DEF ControllerAt
<1>3. endpoint'["intr"] = endpoint["intr"]
  BY <1>2 DEF PipeInv, UsbOK, Rings
<1>4. (\E i \in DOMAIN posted' : Brings(posted'[i]))
        <=> (\E i \in DOMAIN posted : Brings(posted[i]))
  <2>1. CASE posted' = posted
    BY <2>1
  <2>2. CASE \E e : Post(e) /\ e.ring = ring
    <3>1. PICK e : Post(e) /\ ~Brings(e)
      BY <2>2 DEF Brings
    <3>2. QED
      BY <3>1, UnreadPut DEF PipeInv
  <2>3. QED
    BY <1>2, <2>1, <2>2
<1>5. Unread' <=> Unread
  BY <1>1, <1>4 DEF Unread, Brings
<1>6. QED
  BY <1>1, <1>2, <1>3, <1>5, MapsQuiet

LEMMA MapsControllerReports ==
  ASSUME PipeInv, ControllerAt("intr")
  PROVE  Maps
<1>1. UNCHANGED <<host, pc, g_intr_open, report, token>>
  BY DEF ControllerAt, start, ehciVars
<1>2. ReportRingOK /\ ReportEventsOK /\ EventRingOK
  BY DEF PipeInv
<1>3. CASE FollowLink("intr")
  <2>1. UNCHANGED <<posted, endpoint, waiting, g_intr_buf>>
    BY <1>3 DEF FollowLink
  <2>2. Unread' <=> Unread
    BY <1>1, <2>1 DEF Unread
  <2>3. QED
    BY <1>1, <2>1, <2>2, MapsQuiet
<1>4. CASE Execute("intr")
  <2>1. /\ Finds("intr") /\ ~AtLink("intr")
        /\ Item("intr").last =>
             Post([ring |-> "intr", step |-> Item("intr").step, ok |-> TRUE])
        /\ endpoint' = endpoint /\ waiting # NoReport
        /\ g_intr_buf' = waiting /\ waiting' = NoReport
    BY <1>4 DEF Execute
  <2>2. /\ host = "xhci" /\ pc # "copy"
        /\ \A i \in 1 .. Len(posted) : ~Brings(posted[i])
        /\ Item("intr") = ReportTrb
    BY <1>2, <2>1, FindsReportTrb DEF XhciOpen
  <2>3. ~Unread
    <3>1. DOMAIN posted = 1 .. Len(posted)
      BY <1>2, SeqParts DEF EventRingOK
    <3>2. QED
      BY <2>2, <3>1 DEF Unread, Brings
  <2>4. Unread'
    <3>1. Item("intr").last
      BY <2>2 DEF ReportTrb
    <3>2. PICK e : Post(e) /\ Brings(e)
      BY <2>1, <3>1 DEF Brings
    <3>3. /\ EventRingOK' /\ Len(posted) \in Nat /\ Len(posted') = Len(posted) + 1
          /\ posted'[Len(posted) + 1] = e
      BY <1>2, <3>2, Put
    <3>4. Len(posted) + 1 \in DOMAIN posted'
      BY <3>3, SeqParts DEF EventRingOK
    <3>5. QED
      BY <1>1, <2>2, <3>2, <3>3, <3>4 DEF Unread, Brings
  <2>5. Queue = <<waiting>> /\ Queue' = <<waiting>>
    BY <2>1, <2>3, <2>4, QueueIs, QueueWillBe
  <2>6. QED
    BY <1>1, <2>1, <2>5, MapSame DEF Maps
<1>5. CASE Refuse("intr") \/ Hang("intr")
  <2>1. PICK x \in {"halted", "hung"} :
          /\ endpoint' = [endpoint EXCEPT !["intr"] = x]
          /\ UNCHANGED <<waiting, g_intr_buf>>
          /\ \/ posted' = posted
             \/ \E e : Post(e) /\ ~Brings(e)
    <3>1. CASE Refuse("intr")
      <4>1. Post([ring |-> "intr", step |-> Item("intr").step, ok |-> FALSE])
        BY <3>1 DEF Refuse
      <4>2. \E e : Post(e) /\ ~Brings(e)
        BY <4>1 DEF Brings
      <4>3. QED
        BY <3>1, <4>2 DEF Refuse
    <3>2. CASE Hang("intr")
      BY <3>2 DEF Hang
    <3>3. QED
      BY <1>5, <3>1, <3>2
  <2>2. endpoint'["intr"] # "running"
    BY <2>1 DEF PipeInv, UsbOK, Rings
  <2>3. (\E i \in DOMAIN posted' : Brings(posted'[i]))
          <=> (\E i \in DOMAIN posted : Brings(posted[i]))
    BY <1>2, <2>1, UnreadPut
  <2>4. Unread' <=> Unread
    BY <1>1, <2>3 DEF Unread, Brings
  <2>5. Queue' = Queue
    BY <2>1, <2>4, QueueIs, QueueWillBe
  <2>6. QED
    BY <1>1, <2>2, <2>5, MapBreak DEF Maps, Promised!RPNext
<1>6. ~Revive("intr")
  BY DEF Revive
<1>7. QED
  BY <1>3, <1>4, <1>5, <1>6 DEF ControllerAt

(* To usb_hid the two drivers are one endpoint: no report is repeated,     *)
(* overtaken or overwritten in the buffer on its way to intr_read, and     *)
(* over xHCI none is lost or blanked, whatever goes wrong.                 *)
THEOREM UsbImplementsReportPipe == Spec => ImplementsReportPipe
<1>1. Init => Promised!RPInit
  <2>1. SUFFICES ASSUME Init PROVE Promised!RPInit
    OBVIOUS
  <2>2. PipeInv
    BY <2>1, PipeStarts
  <2>3. g_intr_open = FALSE /\ report = NoReport
    BY <2>1 DEF Init, UsbInit
  <2>4. Queue = <<>> /\ endpoint["intr"] = "running"
    BY <2>2, <2>3, ShutQueue
  <2>5. (host = "xhci") \in BOOLEAN
    OBVIOUS
  <2>6. QED
    BY <2>3, <2>4, <2>5 DEF Promised!RPInit, Broken
<1>2. PipeInv /\ PipeInv' /\ [Next]_vars => [Promised!RPNext]_(Promised!rpVars)
  <2> SUFFICES ASSUME PipeInv, PipeInv', [Next]_vars PROVE Maps
    BY DEF Maps
  <2>1. CASE UNCHANGED vars
    <3>1. UNCHANGED <<host, pc, endpoint, g_intr_open, report, waiting, g_intr_buf>>
            /\ UNCHANGED <<posted, token>>
      BY <2>1 DEF vars, usbVars, start, xhciVars, ehciVars
    <3>2. Unread' <=> Unread
      BY <3>1 DEF Unread
    <3>3. QED
      BY <3>1, <3>2, MapsQuiet
  <2>2. CASE Next
    <3>1. CASE (XhciStart \/ XhciWait \/ TimeOut \/ XhciRead \/ Copy)
                 /\ UNCHANGED <<changes, ehciVars>>
      BY <3>1, MapsXhciStart, MapsProceed, MapsXhciRead, MapsCopy
    <3>2. CASE EhciDriver /\ UNCHANGED xhciVars
      BY <3>2, MapsEhciDriver
    <3>3. CASE \E ring \in Rings : ControllerAt(ring)
      BY <3>3, MapsControllerRequests, MapsControllerReports DEF Rings
    <3>4. CASE EhciController /\ UNCHANGED xhciVars
      BY <3>4, MapsEhciController
    <3>5. CASE PortChange /\ UNCHANGED ehciVars
      BY <3>5, MapsPortChange
    <3>6. CASE KeyboardReports /\ UNCHANGED <<xhciVars, ehciVars>>
      BY <3>6, MapsKeyboard
    <3>7. QED
      BY <2>2, <3>1, <3>2, <3>3, <3>4, <3>5, <3>6, NextSteps
  <2>3. QED
    BY <2>1, <2>2
<1>3. Spec => []PipeInv
  BY PipeInvariant
<1>4. QED
  BY <1>1, <1>2, <1>3, PTL DEF Spec, ImplementsReportPipe, Promised!RPSpec
-----------------------------------------------------------------------------
(***************************************************************************)
(* What commands and requests depend on, as long as no answer comes after  *)
(* the driver has given up.                                                *)
(***************************************************************************)
NeverLate == "late" \notin Faults

(* The ring for requests takes two of three stages, one that was given up  *)
(* and the next: USABLE_TRBS is 255.                                       *)
RoomForTwo == Usable["ep0"] >= 6

RequestRings == {"cmd", "ep0"}

Awaits(ring) == host = "xhci" /\ pc = "wait" /\ RingOf(Now) = ring

RingsOK ==
  \A r \in RequestRings :
    /\ IsSeq(owed[r]) /\ RingOK(rings[r], Usable[r], Len(owed[r]))
    /\ owed[r] # <<>> => bell[r]
    /\ endpoint[r] # "running" => rings[r].deq # Usable[r]

(* A ring that runs holds what is left of the request waited for.          *)
RunningOK ==
  \A r \in RequestRings : endpoint[r] = "running" /\ owed[r] # <<>> =>
    /\ Awaits(r)
    /\ \A i \in 1 .. Len(posted) : posted[i].ring # r
    /\ \A k \in 1 .. Len(owed[r]) :
         owed[r][k].step = step /\ (owed[r][k].last <=> k = Len(owed[r]))
    /\ r = "cmd" => Len(owed[r]) = 1

(* An answer that is not taken yet is to the request waited for, and there *)
(* is one at most; if it is good nothing is left of the request.           *)
AnswersOK ==
  /\ \A i \in 1 .. Len(posted) : \A r \in RequestRings : posted[i].ring = r =>
       /\ Awaits(r)
       /\ posted[i].step = step
       /\ posted[i].ok => owed[r] = <<>>
  /\ \A i, j \in 1 .. Len(posted) :
       posted[i].ring \in RequestRings /\ posted[j].ring \in RequestRings => i = j

(* Before the first request, and with the other controller, the ring for   *)
(* requests is as it was made.                                             *)
UntouchedOK ==
  host = "ehci" \/ step < 4 => owed["ep0"] = <<>> /\ rings["ep0"].deq = 0

(* How much a request that was given up leaves on a ring that has stopped, *)
(* and when another comes on top of it.                                    *)
CommandsLeft ==
  host = "xhci" /\ pc \in {"start", "wait"} =>
    /\ Len(owed["cmd"]) <= 2
    /\ ~Awaits("cmd") => Len(owed["cmd"]) <= 1
    /\ Len(owed["cmd"]) = 2 \/ (Len(owed["cmd"]) = 1 /\ ~Awaits("cmd")) =>
         step > 1 /\ (step = 2 \/ untried = {})

RequestsLeft ==
  host = "xhci" /\ pc \in {"start", "wait"} =>
    /\ step > 10 => g_enumerated
    /\ ~Awaits("ep0") /\ owed["ep0"] # <<>> =>
         \/ step = 4 /\ untried = {} /\ Len(owed["ep0"]) <= 3
         \/ step = 14 /\ Len(owed["ep0"]) <= 2
         \/ step = 15 /\ Len(owed["ep0"]) <= 4
    /\ Awaits("ep0") =>
         \/ Len(owed["ep0"]) <= StagesOf(Now)
         \/ step = 4 /\ untried = {} /\ Len(owed["ep0"]) <= 6
         \/ step = 14 /\ Len(owed["ep0"]) <= 4

AgreeInv ==
  /\ PipeInv
  /\ RingsOK /\ RunningOK /\ AnswersOK /\ UntouchedOK /\ CommandsLeft /\ RequestsLeft

(* The request made or to be made of xHCI. *)
LEMMA NowIs ==
  ASSUME UsbOK, host = "xhci"
  PROVE  /\ step \in 1 .. 15 /\ LastStep = 15 /\ FirstRequest = 4
         /\ RingOf(Now) = IF step \in {1, 2, 3, 5, 6, 15} THEN "cmd" ELSE "ep0"
         /\ StagesOf(Now) = IF step \in {1, 2, 3, 5, 6, 15} THEN 1
                            ELSE IF step \in {10, 13, 14} THEN 2 ELSE 3
         /\ Now \in MayFail <=> step \in {1, 13, 14}
         /\ Now = "device8" <=> step = 4
         /\ Now = "set_configuration" <=> step = 10
<1>1. LastStep = 15 /\ FirstRequest = 4
  BY FirstRequests
<1>2. step \in 1 .. 15 /\ Now = Steps["xhci"][step]
  BY <1>1 DEF UsbOK, Now
<1>3. QED
  BY <1>1, <1>2, XhciSteps

(***************************************************************************)
(* Steps that have nothing to do with requests to xHCI.                    *)
(***************************************************************************)
RequestsSame ==
  \A r \in RequestRings :
    /\ rings'[r] = rings[r] /\ owed'[r] = owed[r] /\ bell'[r] = bell[r]
    /\ endpoint'[r] = endpoint[r] \/ (host = "ehci" /\ r = "ep0")

PhaseKept ==
  \/ UNCHANGED <<host, step, pc, untried, g_enumerated>>
  \/ host = "ehci" /\ host' = "ehci"
  \/ /\ pc \notin {"start", "wait"} /\ pc' \notin {"start", "wait"}
     /\ UNCHANGED <<host, step>>

LEMMA AwaitsKept ==
  ASSUME PhaseKept, NEW r
  PROVE  /\ Awaits(r)' <=> Awaits(r)
         /\ Awaits(r) => step' = step
BY DEF PhaseKept, Awaits, Now

LEMMA AnswersKept ==
  ASSUME EventRingOK, AnswersOK, RequestsSame, PhaseKept,
         \/ posted' = posted
         \/ TakeEvent
         \/ \E e : Post(e) /\ e.ring \notin RequestRings
  PROVE  /\ AnswersOK'
         /\ \A r \in RequestRings :
              (\A i \in 1 .. Len(posted) : posted[i].ring # r) =>
              (\A i \in 1 .. Len(posted') : posted'[i].ring # r)
<1>1. PICK n, m, s, t : n = Len(posted) /\ m = Len(posted') /\ s = posted /\ t = posted'
  OBVIOUS
<1>2. /\ \A i \in 1 .. n : \A r \in RequestRings : s[i].ring = r =>
           Awaits(r) /\ s[i].step = step /\ (s[i].ok => owed[r] = <<>>)
      /\ \A i, j \in 1 .. n :
           s[i].ring \in RequestRings /\ s[j].ring \in RequestRings => i = j
  BY <1>1 DEF AnswersOK
<1>3. ASSUME NEW i, NEW j, i \in 1 .. n, t[j] = s[i]
      PROVE  \A r \in RequestRings : t[j].ring = r =>
               Awaits(r)' /\ t[j].step = step' /\ (t[j].ok => owed'[r] = <<>>)
  BY <1>2, <1>3, AwaitsKept DEF RequestsSame
<1>4. CASE posted' = posted
  BY <1>1, <1>2, <1>3, <1>4 DEF AnswersOK
<1>5. CASE TakeEvent
  <2>1. n \in Nat \ {0} /\ m = n - 1 /\ \A i \in 1 .. m : t[i] = s[i + 1]
    BY <1>1, <1>5, Took
  <2>2. \A i \in 1 .. m : i + 1 \in 1 .. n /\ t[i] = s[i + 1]
    BY <2>1
  <2>3. \A i \in 1 .. m : \A r \in RequestRings : t[i].ring = r =>
          Awaits(r)' /\ t[i].step = step' /\ (t[i].ok => owed'[r] = <<>>)
    BY <1>3, <2>2
  <2>4. ASSUME NEW i \in 1 .. m, NEW j \in 1 .. m,
               t[i].ring \in RequestRings, t[j].ring \in RequestRings
        PROVE  i = j
    <3>1. i + 1 = j + 1
      BY <1>2, <2>2, <2>4
    <3>2. QED
      BY <3>1
  <2>5. QED
    BY <1>1, <2>2, <2>3, <2>4 DEF AnswersOK
<1>6. CASE \E e : Post(e) /\ e.ring \notin RequestRings
  <2>1. PICK e : Post(e) /\ e.ring \notin RequestRings
    BY <1>6
  <2>2. n \in Nat /\ m = n + 1 /\ (\A i \in 1 .. n : t[i] = s[i]) /\ t[n + 1] = e
    BY <1>1, <2>1, Put
  <2>3. \A i \in 1 .. m : (i \in 1 .. n /\ t[i] = s[i]) \/ t[i] = e
    BY <2>2
  <2>4. \A i \in 1 .. m : \A r \in RequestRings : t[i].ring = r =>
          Awaits(r)' /\ t[i].step = step' /\ (t[i].ok => owed'[r] = <<>>)
    BY <1>3, <2>1, <2>3
  <2>5. \A i, j \in 1 .. m :
          t[i].ring \in RequestRings /\ t[j].ring \in RequestRings => i = j
    BY <1>2, <2>1, <2>3
  <2>6. QED
    BY <1>1, <2>1, <2>3, <2>4, <2>5 DEF AnswersOK
<1>7. QED
  BY <1>4, <1>5, <1>6

LEMMA AgreeKept ==
  ASSUME AgreeInv, PipeInv', RequestsSame, PhaseKept,
         \/ posted' = posted
         \/ TakeEvent
         \/ \E e : Post(e) /\ e.ring \notin RequestRings
  PROVE  AgreeInv'
<1>1. /\ EventRingOK /\ AnswersOK /\ RunningOK /\ RingsOK /\ UntouchedOK
      /\ CommandsLeft /\ RequestsLeft
  BY DEF AgreeInv, PipeInv
<1>2. AnswersOK'
  BY <1>1, AnswersKept
<1>3. RingsOK'
  <2>1. ASSUME NEW r \in RequestRings
        PROVE  /\ IsSeq(owed'[r]) /\ RingOK(rings'[r], Usable[r], Len(owed'[r]))
               /\ owed'[r] # <<>> => bell'[r]
               /\ endpoint'[r] # "running" => rings'[r].deq # Usable[r]
    <3>1. /\ IsSeq(owed[r]) /\ RingOK(rings[r], Usable[r], Len(owed[r]))
          /\ owed[r] # <<>> => bell[r]
          /\ endpoint[r] # "running" => rings[r].deq # Usable[r]
      BY <1>1 DEF RingsOK
    <3>2. rings'[r] = rings[r] /\ owed'[r] = owed[r] /\ bell'[r] = bell[r]
      BY DEF RequestsSame
    <3>3. host = "ehci" /\ r = "ep0" => rings[r].deq # Usable[r]
      BY <1>1, XhciAssumption DEF UntouchedOK
    <3>4. endpoint'[r] # "running" => rings[r].deq # Usable[r]
      BY <3>1, <3>3 DEF RequestsSame
    <3>5. QED
      BY <3>1, <3>2, <3>4
  <2>2. QED
    BY <2>1 DEF RingsOK
<1>4. RunningOK'
  <2>1. ASSUME NEW r \in RequestRings, endpoint'[r] = "running", owed'[r] # <<>>
        PROVE  /\ Awaits(r)' /\ \A i \in 1 .. Len(posted') : posted'[i].ring # r
               /\ \A k \in 1 .. Len(owed'[r]) :
                    /\ owed'[r][k].step = step'
                    /\ owed'[r][k].last <=> k = Len(owed'[r])
               /\ r = "cmd" => Len(owed'[r]) = 1
    <3>1. owed'[r] = owed[r] /\ endpoint[r] = "running"
      BY <1>1, <2>1 DEF RequestsSame, UntouchedOK
    <3>2. /\ Awaits(r) /\ \A i \in 1 .. Len(posted) : posted[i].ring # r
          /\ \A k \in 1 .. Len(owed[r]) :
               owed[r][k].step = step /\ (owed[r][k].last <=> k = Len(owed[r]))
          /\ r = "cmd" => Len(owed[r]) = 1
      BY <1>1, <2>1, <3>1 DEF RunningOK
    <3>3. Awaits(r)' /\ step' = step
      BY <3>2, AwaitsKept
    <3>4. \A i \in 1 .. Len(posted') : posted'[i].ring # r
      BY <1>1, <3>2, AnswersKept
    <3>5. QED
      BY <3>1, <3>2, <3>3, <3>4
  <2>2. QED
    BY <2>1 DEF RunningOK
<1>5. UntouchedOK'
  BY <1>1 DEF UntouchedOK, PhaseKept, RequestsSame, RequestRings
<1>6. CASE UNCHANGED <<host, step, pc, untried, g_enumerated>>
  <2>1. /\ owed'["cmd"] = owed["cmd"] /\ owed'["ep0"] = owed["ep0"]
        /\ Now' = Now /\ \A r : Awaits(r)' <=> Awaits(r)
    BY <1>6 DEF RequestsSame, RequestRings, Awaits, Now
  <2>2. CommandsLeft'
    BY <1>1, <1>6, <2>1 DEF CommandsLeft
  <2>3. RequestsLeft'
    BY <1>1, <1>6, <2>1 DEF RequestsLeft
  <2>4. QED
    BY <1>2, <1>3, <1>4, <1>5, <2>2, <2>3 DEF AgreeInv
<1>7. CASE host' # "xhci" \/ pc' \notin {"start", "wait"}
  <2>1. CommandsLeft' /\ RequestsLeft'
    BY <1>7 DEF CommandsLeft, RequestsLeft
  <2>2. QED
    BY <1>2, <1>3, <1>4, <1>5, <2>1 DEF AgreeInv
<1>8. QED
  BY <1>6, <1>7 DEF PhaseKept

LEMMA AgreeXhciRead ==
  ASSUME AgreeInv, PipeInv', (XhciRead \/ Copy) /\ UNCHANGED <<changes, ehciVars>>
  PROVE  AgreeInv'
<1>1. RingFunctions
  BY DEF AgreeInv, PipeInv
<1>2. CASE XhciRead
  <2>1. /\ PhaseKept /\ TakeEvent
        /\ UNCHANGED <<rings, owed, bell, endpoint>>
    BY <1>2 DEF XhciRead, PhaseKept, start
  <2>2. RequestsSame
    BY <2>1 DEF RequestsSame
  <2>3. QED
    BY <2>1, <2>2, AgreeKept
<1>3. CASE Copy
  <2>1. /\ PhaseKept /\ Enqueue("intr", <<NormalTrb>>)
        /\ posted' = posted /\ endpoint' = endpoint
    BY <1>3 DEF Copy, PhaseKept, start
  <2>2. RequestsSame
    BY <1>1, <2>1 DEF RequestsSame, RequestRings, Enqueue, RingFunctions, Rings
  <2>3. QED
    BY <2>1, <2>2, AgreeKept
<1>4. QED
  BY <1>2, <1>3

LEMMA AgreeEhci ==
  ASSUME AgreeInv, PipeInv', EhciDriver \/ EhciController, UNCHANGED xhciVars
  PROVE  AgreeInv'
<1>1. UNCHANGED <<rings, owed, bell, posted>>
  BY DEF xhciVars
<1>2. UsbOK /\ EhciOK
  BY DEF AgreeInv, PipeInv
<1>3. CASE EhciStart
  <2>1. /\ host = "ehci" /\ host' = "ehci"
        /\ endpoint' = [endpoint EXCEPT !["ep0"] = "running"]
    BY <1>3 DEF EhciStart, start
  <2>2. RequestsSame
    BY <1>1, <1>2, <2>1 DEF RequestsSame, RequestRings, UsbOK, Rings
  <2>3. QED
    BY <1>1, <2>1, <2>2, AgreeKept DEF PhaseKept
<1>4. CASE EhciWait
  <2>1. host = "ehci" /\ endpoint' = endpoint
    BY <1>4 DEF EhciWait
  <2>2. host' = "ehci"
    BY <1>2, <1>4, <2>1, EhciProceeds DEF Advances, NextController, Opens, UsbOK
  <2>3. RequestsSame
    BY <1>1, <2>1 DEF RequestsSame
  <2>4. QED
    BY <1>1, <2>1, <2>2, <2>3, AgreeKept DEF PhaseKept
<1>5. CASE EhciRead \/ Aim
  <2>1. PhaseKept /\ endpoint' = endpoint
    BY <1>5 DEF EhciRead, Aim, PhaseKept, start
  <2>2. RequestsSame
    BY <1>1, <2>1 DEF RequestsSame
  <2>3. QED
    BY <1>1, <2>1, <2>2, AgreeKept
<1>6. CASE EhciController
  <2>1. PhaseKept
    BY <1>6 DEF EhciController, PhaseKept, start
  <2>2. \A r \in RequestRings : endpoint'[r] = endpoint[r] \/ (host = "ehci" /\ r = "ep0")
    <3>1. CASE Stage \/ Receive \/ Discard \/ NotReceived
      BY <3>1 DEF Stage, Receive, Discard, NotReceived
    <3>2. CASE NoStage
      BY <1>2, <3>2 DEF NoStage, Runs, UsbOK, RequestRings, Rings
    <3>3. QED
      BY <1>6, <3>1, <3>2 DEF EhciController
  <2>3. RequestsSame
    BY <1>1, <2>2 DEF RequestsSame
  <2>4. QED
    BY <1>1, <2>1, <2>3, AgreeKept
<1>7. QED
  BY <1>3, <1>4, <1>5, <1>6 DEF EhciDriver

LEMMA AgreeEnvironment ==
  ASSUME AgreeInv, PipeInv',
         \/ PortChange /\ UNCHANGED ehciVars
         \/ KeyboardReports /\ UNCHANGED <<xhciVars, ehciVars>>
  PROVE  AgreeInv'
<1>1. CASE PortChange
  <2>1. /\ UNCHANGED <<host, step, pc, untried, g_enumerated>>
        /\ UNCHANGED <<rings, owed, bell, endpoint>>
        /\ \E e : Post(e) /\ e.ring = "port"
    BY <1>1 DEF PortChange, usbVars, start
  <2>2. \E e : Post(e) /\ e.ring \notin RequestRings
    BY <2>1 DEF RequestRings
  <2>3. RequestsSame /\ PhaseKept
    BY <2>1 DEF RequestsSame, PhaseKept
  <2>4. QED
    BY <2>2, <2>3, AgreeKept
<1>2. CASE KeyboardReports /\ UNCHANGED <<xhciVars, ehciVars>>
  <2>1. /\ UNCHANGED <<host, step, pc, untried, g_enumerated>>
        /\ UNCHANGED <<rings, owed, bell, endpoint, posted>>
    BY <1>2 DEF KeyboardReports, xhciVars, start
  <2>2. RequestsSame /\ PhaseKept
    BY <2>1 DEF RequestsSame, PhaseKept
  <2>3. QED
    BY <2>1, <2>2, AgreeKept
<1>3. QED
  BY <1>1, <1>2

LEMMA AgreeControllerReports ==
  ASSUME AgreeInv, PipeInv', ControllerAt("intr")
  PROVE  AgreeInv'
<1>1. /\ UNCHANGED <<host, step, pc, untried, g_enumerated, bell>>
  BY DEF ControllerAt, start
<1>2. /\ rings' = rings \/ Passed("intr")
      /\ owed' = owed \/ owed' = [owed EXCEPT !["intr"] = Tail(@)]
      /\ endpoint' = endpoint \/ \E x : endpoint' = [endpoint EXCEPT !["intr"] = x]
      /\ \/ posted' = posted
         \/ \E e : Post(e) /\ e.ring = "intr"
  <2>1. CASE FollowLink("intr")
    BY <2>1 DEF FollowLink
  <2>2. CASE Execute("intr")
    BY <2>2 DEF Execute
  <2>3. CASE Refuse("intr")
    BY <2>3 DEF Refuse
  <2>4. CASE Hang("intr")
    BY <2>4 DEF Hang
  <2>5. CASE Revive("intr")
    BY <2>5 DEF Revive
  <2>6. QED
    BY <2>1, <2>2, <2>3, <2>4, <2>5 DEF ControllerAt
<1>3. RequestsSame /\ PhaseKept
  BY <1>1, <1>2 DEF RequestsSame, RequestRings, PhaseKept, Passed, AgreeInv, PipeInv,
                    RingFunctions, UsbOK, Rings
<1>4. posted' = posted \/ \E e : Post(e) /\ e.ring \notin RequestRings
  BY <1>2 DEF RequestRings
<1>5. QED
  BY <1>3, <1>4, AgreeKept

(***************************************************************************)
(* A request is made.                                                      *)
(***************************************************************************)
LEMMA ItemsAre ==
  ASSUME UsbOK, host = "xhci"
  PROVE  /\ IsSeq(Items(step)) /\ Len(Items(step)) = StagesOf(Now)
         /\ \A i \in 1 .. StagesOf(Now) :
              /\ Items(step)[i].step = step
              /\ Items(step)[i].last <=> i = StagesOf(Now)
<1>1. PICK m : m = StagesOf(Now)
  OBVIOUS
<1>2. m \in Nat
  BY <1>1 DEF StagesOf
<1>3. PICK s : s = [i \in 1 .. m |-> [step |-> step, last |-> i = m]]
  OBVIOUS
<1>4. Items(step) = s
  BY <1>1, <1>3 DEF Items, Now
<1>5. /\ \A i \in 1 .. m : s[i].step = step
      /\ \A i \in 1 .. m : s[i].last <=> i = m
  <2>1. ASSUME NEW i \in 1 .. m
        PROVE  s[i].step = step /\ (s[i].last <=> i = m)
    <3>1. s[i] = [step |-> step, last |-> i = m]
      BY <1>3
    <3>2. s[i].step = step
      BY ONLY <3>1
    <3>3. s[i].last <=> i = m
      <4>1. CASE i = m
        <5>1. (i = m) = TRUE
          BY <4>1
        <5>2. s[i] = [step |-> step, last |-> TRUE]
          BY ONLY <3>1, <5>1, Zenon
        <5>3. QED
          BY <4>1, <5>2
      <4>2. CASE i # m
        <5>1. (i = m) = FALSE
          BY <4>2
        <5>2. s[i] = [step |-> step, last |-> FALSE]
          BY ONLY <3>1, <5>1, Zenon
        <5>3. QED
          BY <4>2, <5>2
      <4>3. QED
        BY <4>1, <4>2
    <3>4. QED
      BY <3>2, <3>3
  <2>2. QED
    BY <2>1
<1>6. IsSeq(s) /\ Len(s) = m
  <2>1. PICK S : S = {s[i] : i \in 1 .. m}
    OBVIOUS
  <2>2. s \in [1 .. m -> S]
    BY <1>3, <2>1
  <2>3. s \in Seq(S)
    BY <1>2, <2>2, SeqDef
  <2>4. Len(s) = m
    BY <1>2, <2>2, <2>3
  <2>5. QED
    BY <2>3, <2>4 DEF IsSeq
<1>7. QED
  BY <1>1, <1>4, <1>5, <1>6

(* There is room for it, even if one that was given up is there still. *)
LEMMA RoomForRequest ==
  ASSUME AgreeInv, RoomForTwo, host = "xhci", pc = "start",
         NEW r, r = RingOf(Now), NEW n, n = Len(owed[r]), NEW k, k = StagesOf(Now)
  PROVE  /\ r \in RequestRings /\ k \in 1 .. 3 /\ n \in Nat
         /\ Usable[r] \in Nat \ {0}
         /\ n + k <= Usable[r]
         /\ rings[r].deq = Usable[r] => n + k < Usable[r]
         /\ r = "cmd" => k = 1
         /\ endpoint[r] = "running" => owed[r] = <<>>
<1>1. /\ r \in RequestRings /\ k \in 1 .. 3 /\ (r = "cmd" => k = 1)
  BY DEF RingOf, StagesOf, RequestRings
<1>2. /\ IsSeq(owed[r])
      /\ endpoint[r] # "running" => rings[r].deq # Usable[r]
  BY <1>1 DEF AgreeInv, RingsOK
<1>3. n \in Nat /\ (owed[r] = <<>> <=> n = 0)
  BY <1>2, SeqParts
<1>4. endpoint[r] = "running" => owed[r] = <<>>
  BY <1>1 DEF AgreeInv, RunningOK, Awaits
<1>5. Usable[r] \in Nat /\ Usable[r] > 1
  BY <1>1, XhciAssumption DEF RequestRings
<1>6. ~Awaits("cmd") /\ ~Awaits("ep0")
  BY DEF Awaits
<1>7. UsbOK
  BY DEF AgreeInv, PipeInv
<1>8. CASE r = "cmd"
  <2>1. n <= 1
    BY <1>6, <1>8 DEF AgreeInv, CommandsLeft
  <2>2. rings[r].deq = Usable[r] => n = 0
    BY <1>2, <1>3, <1>4
  <2>3. QED
    BY <1>1, <1>3, <1>4, <1>5, <1>8, <2>1, <2>2
<1>9. CASE r = "ep0"
  <2>1. /\ step \in 1 .. 15
        /\ k = IF step \in {1, 2, 3, 5, 6, 15} THEN 1
               ELSE IF step \in {10, 13, 14} THEN 2 ELSE 3
        /\ step \notin {1, 2, 3, 5, 6, 15}
    BY <1>7, <1>9, NowIs
  <2>2. n = 0 \/ (step = 4 /\ n <= 3) \/ (step = 14 /\ n <= 2)
    BY <1>3, <1>6, <1>9, <2>1 DEF AgreeInv, RequestsLeft
  <2>3. n + k <= 6
    <3>1. k <= 3 /\ (step = 14 => k = 2) /\ k \in Nat
      BY <1>1, <2>1
    <3>2. QED
      BY ONLY <1>3, <2>2, <3>1
  <2>4. rings[r].deq = Usable[r] => n = 0
    BY <1>2, <1>3, <1>4
  <2>5. Usable[r] >= 6
    BY <1>9 DEF RoomForTwo
  <2>6. QED
    BY <1>1, <1>3, <1>4, <1>5, <2>3, <2>4, <2>5
<1>10. QED
  BY <1>1, <1>8, <1>9 DEF RequestRings

LEMMA AgreeXhciStart ==
  ASSUME AgreeInv, PipeInv', RoomForTwo, XhciStart, UNCHANGED <<changes, ehciVars>>
  PROVE  AgreeInv'
<1>1. /\ host = "xhci" /\ pc = "start" /\ pc' = "wait"
      /\ Enqueue(RingOf(Now), Items(step))
      /\ UNCHANGED <<host, untried, step, g_enumerated, endpoint, posted>>
  BY DEF XhciStart, start
<1>2. /\ UsbOK /\ RingFunctions /\ RingsOK /\ RunningOK /\ AnswersOK /\ UntouchedOK
      /\ CommandsLeft /\ RequestsLeft
  BY DEF AgreeInv, PipeInv
<1>3. PICK r, n, k, items, q :
        /\ r = RingOf(Now) /\ k = StagesOf(Now) /\ items = Items(step)
        /\ n = Len(owed[r]) /\ q = rings[r]
  OBVIOUS
<1>4. /\ r \in RequestRings /\ k \in 1 .. 3 /\ n \in Nat
      /\ Usable[r] \in Nat \ {0}
      /\ n + k <= Usable[r]
      /\ q.deq = Usable[r] => n + k < Usable[r]
      /\ r = "cmd" => k = 1
      /\ endpoint[r] = "running" => owed[r] = <<>>
  BY <1>1, <1>3, RoomForRequest
<1>5. /\ IsSeq(items) /\ Len(items) = k
      /\ \A i \in 1 .. k : items[i].step = step /\ (items[i].last <=> i = k)
  BY <1>1, <1>2, <1>3, ItemsAre
<1>6. /\ rings'[r] = Enqueued(q, k)
      /\ owed'[r] = owed[r] \o items
      /\ bell'[r] = TRUE
      /\ \A x \in RequestRings : x # r =>
           rings'[x] = rings[x] /\ owed'[x] = owed[x] /\ bell'[x] = bell[x]
  BY <1>1, <1>2, <1>3, <1>4, <1>5 DEF Enqueue, RingFunctions, Rings, RequestRings
<1>7. RingOK(q, Usable[r], n) /\ IsSeq(owed[r])
  BY <1>2, <1>3, <1>4 DEF RingsOK
<1>8. RingOK(Enqueued(q, k), Usable[r], n + k) /\ Enqueued(q, k).deq = q.deq
  BY ONLY <1>4, <1>7, RingTakesSome
<1>9. /\ IsSeq(owed'[r]) /\ Len(owed'[r]) = n + k
      /\ owed[r] = <<>> => \A i \in 1 .. k : owed'[r][i] = items[i]
  <2>1. PICK s, t : s = owed[r] /\ t = owed'[r]
    OBVIOUS
  <2>2. IsSeq(s) /\ IsSeq(items) /\ t = s \o items
    BY <1>5, <1>6, <1>7, <2>1
  <2>3. /\ IsSeq(t) /\ Len(t) = Len(s) + Len(items)
        /\ \A i \in 1 .. Len(items) : t[Len(s) + i] = items[i]
    <3>1. IsSeq(t) /\ Len(t) = Len(s) + Len(items)
      BY ONLY <2>2, SeqJoin
    <3>2. \A i \in 1 .. Len(items) : t[Len(s) + i] = items[i]
      BY ONLY <2>2, SeqJoin
    <3>3. QED
      BY <3>1, <3>2
  <2>4. s = <<>> => \A i \in 1 .. k : t[i] = items[i]
    BY <1>5, <2>3, SeqEmpty
  <2>5. QED
    BY <1>3, <1>5, <2>1, <2>3, <2>4
<1>10. owed[r] = <<>> <=> n = 0
  BY <1>3, <1>7, SeqParts
<1>11. RingsOK'
  <2>1. ASSUME NEW x \in RequestRings
        PROVE  /\ IsSeq(owed'[x]) /\ RingOK(rings'[x], Usable[x], Len(owed'[x]))
               /\ owed'[x] # <<>> => bell'[x]
               /\ endpoint'[x] # "running" => rings'[x].deq # Usable[x]
    <3>1. CASE x = r
      <4>1. endpoint[r] # "running" => q.deq # Usable[r]
        BY <1>2, <1>3, <1>4 DEF RingsOK
      <4>2. RingOK(rings'[r], Usable[r], Len(owed'[r])) /\ rings'[r].deq = q.deq
        BY <1>6, <1>8, <1>9
      <4>3. QED
        BY <1>1, <1>6, <1>9, <3>1, <4>1, <4>2
    <3>2. CASE x # r
      BY <1>1, <1>2, <1>6, <3>2 DEF RingsOK
    <3>3. QED
      BY <3>1, <3>2
  <2>2. QED
    BY <2>1 DEF RingsOK
<1>12. /\ Awaits(r)' /\ step' = step /\ Now' = Now
       /\ \A x : ~Awaits(x)
       /\ \A x : Awaits(x)' => x = r
  BY <1>1, <1>3 DEF Awaits, Now
<1>13. \A i \in 1 .. Len(posted) : posted[i].ring \notin RequestRings
  BY <1>2, <1>12 DEF AnswersOK
<1>14. AnswersOK'
  BY <1>1, <1>13 DEF AnswersOK
<1>15. RunningOK'
  <2>1. ASSUME NEW x \in RequestRings, endpoint'[x] = "running", owed'[x] # <<>>
        PROVE  /\ Awaits(x)' /\ \A i \in 1 .. Len(posted') : posted'[i].ring # x
               /\ \A i \in 1 .. Len(owed'[x]) :
                    /\ owed'[x][i].step = step'
                    /\ owed'[x][i].last <=> i = Len(owed'[x])
               /\ x = "cmd" => Len(owed'[x]) = 1
    <3>1. x = r
      BY <1>1, <1>2, <1>6, <1>12, <2>1 DEF RunningOK
    <3>2. owed[r] = <<>> /\ n = 0
      BY <1>1, <1>4, <1>10, <2>1, <3>1
    <3>3. Len(owed'[r]) = k
      BY <1>4, <1>9, <3>2
    <3>4. \A i \in 1 .. k : owed'[r][i] = items[i]
      BY <1>9, <3>2
    <3>5. QED
      BY <1>1, <1>4, <1>5, <1>12, <1>13, <3>1, <3>3, <3>4
  <2>2. QED
    BY <2>1 DEF RunningOK
<1>16. /\ step \in 1 .. 15
       /\ r = IF step \in {1, 2, 3, 5, 6, 15} THEN "cmd" ELSE "ep0"
       /\ k = IF step \in {1, 2, 3, 5, 6, 15} THEN 1
              ELSE IF step \in {10, 13, 14} THEN 2 ELSE 3
  BY <1>1, <1>2, <1>3, NowIs
<1>17. UntouchedOK'
  BY <1>1, <1>2, <1>6, <1>16 DEF UntouchedOK, RequestRings
<1>18. CommandsLeft'
  <2>1. CASE r = "cmd"
    <3>1. /\ n <= 1 /\ (n = 1 => step > 1 /\ (step = 2 \/ untried = {}))
          /\ Len(owed'["cmd"]) = n + 1
      BY <1>1, <1>2, <1>3, <1>4, <1>9, <1>12, <2>1 DEF CommandsLeft
    <3>2. Awaits("cmd")'
      BY <1>12, <2>1
    <3>3. QED
      BY <1>1, <1>4, <3>1, <3>2 DEF CommandsLeft
  <2>2. CASE r = "ep0"
    <3>1. owed'["cmd"] = owed["cmd"]
      BY <1>6, <2>2 DEF RequestRings
    <3>2. QED
      BY <1>1, <1>2, <1>12, <3>1 DEF CommandsLeft
  <2>3. QED
    BY <1>4, <2>1, <2>2 DEF RequestRings
<1>19. RequestsLeft'
  <2>1. CASE r = "ep0"
    <3>1. /\ n = 0 \/ (step = 4 /\ untried = {} /\ n <= 3) \/ (step = 14 /\ n <= 2)
          /\ Len(owed'["ep0"]) = n + k /\ Awaits("ep0")'
      BY <1>1, <1>2, <1>3, <1>9, <1>10, <1>12, <1>16, <2>1 DEF RequestsLeft
    <3>2. StagesOf(Now)' = k
      BY <1>3, <1>12
    <3>3. \/ n + k <= k
          \/ step = 4 /\ untried = {} /\ n + k <= 6
          \/ step = 14 /\ n + k <= 4
      BY <1>4, <1>16, <3>1
    <3>4. step > 10 => g_enumerated
      BY <1>1, <1>2 DEF RequestsLeft
    <3>5. QED
      BY <1>1, <3>1, <3>2, <3>3, <3>4 DEF RequestsLeft
  <2>2. CASE r = "cmd"
    <3>1. owed'["ep0"] = owed["ep0"] /\ ~Awaits("ep0")'
      BY <1>6, <1>12, <2>2 DEF RequestRings
    <3>2. QED
      BY <1>1, <1>2, <1>12, <3>1 DEF RequestsLeft
  <2>3. QED
    BY <1>4, <2>1, <2>2 DEF RequestRings
<1>20. QED
  BY <1>11, <1>14, <1>15, <1>17, <1>18, <1>19 DEF AgreeInv

(***************************************************************************)
(* A request is over: it was answered, or will not be.  What is left of it *)
(* is on a ring that has stopped.                                          *)
(***************************************************************************)
Progress ==
  /\ Advances
  /\ owed[RingOf(Now)] = <<>> \/ Now \in MayFail
  /\ g_enumerated \/ Now = "set_configuration" => g_enumerated'

LEMMA CommandsLeftOver ==
  ASSUME UsbOK, CommandsLeft, host = "xhci", pc = "wait",
         Progress \/ NextController, owed'["cmd"] = owed["cmd"],
         Len(owed["cmd"]) \in Nat, owed["cmd"] = <<>> <=> Len(owed["cmd"]) = 0
  PROVE  CommandsLeft'
<1>1. PICK n : n = Len(owed["cmd"])
  OBVIOUS
<1>2. /\ step \in 1 .. 15 /\ FirstRequest = 4
      /\ RingOf(Now) = IF step \in {1, 2, 3, 5, 6, 15} THEN "cmd" ELSE "ep0"
      /\ Now \in MayFail <=> step \in {1, 13, 14}
      /\ Now = "device8" <=> step = 4
  BY NowIs
<1>3. /\ n \in Nat /\ n <= 2
      /\ RingOf(Now) = "ep0" => n <= 1
      /\ n = 2 \/ (n = 1 /\ RingOf(Now) = "ep0") => step > 1 /\ (step = 2 \/ untried = {})
  BY <1>1, <1>2 DEF CommandsLeft, Awaits
<1>4. pc' # "wait"
  BY DEF Progress, Advances, NextController
<1>5. ~Awaits("cmd")'
  BY <1>4 DEF Awaits
<1>6. ASSUME host' = "xhci", pc' = "start"
      PROVE  n <= 1 /\ (n = 1 => step' > 1 /\ (step' = 2 \/ untried' = {}))
  <2>1. CASE Progress
    <3>1. CASE RingOf(Now) = "cmd"
      <4>1. n = 0 \/ step = 1
        BY <1>1, <1>2, <2>1, <3>1 DEF Progress
      <4>2. step = 1 => step' = 2
        BY <1>2, <2>1 DEF Progress, Advances
      <4>3. QED
        BY <1>3, <4>1, <4>2
    <3>2. CASE RingOf(Now) = "ep0"
      <4>1. untried' = untried /\ step' > step
        BY <1>2, <2>1 DEF Progress, Advances
      <4>2. step # 2 /\ step' \in Nat /\ step \in Nat
        BY <1>2, <2>1, <3>2 DEF Progress, Advances
      <4>3. QED
        BY <1>3, <3>2, <4>1, <4>2
    <3>3. QED
      BY <1>2, <3>1, <3>2
  <2>2. CASE NextController
    <3>1. untried # {} /\ untried' = {} /\ step >= 4 /\ step' = 4
      BY <1>2, <1>6, <2>2 DEF NextController, UsbOK
    <3>2. QED
      BY <1>2, <1>3, <3>1
  <2>3. QED
    BY <2>1, <2>2
<1>7. QED
  BY <1>1, <1>3, <1>4, <1>5, <1>6 DEF CommandsLeft

LEMMA RequestsLeftOver ==
  ASSUME UsbOK, RequestsLeft, host = "xhci", pc = "wait",
         Progress \/ NextController, owed'["ep0"] = owed["ep0"],
         Len(owed["ep0"]) \in Nat, owed["ep0"] = <<>> <=> Len(owed["ep0"]) = 0
  PROVE  RequestsLeft'
<1>1. PICK n : n = Len(owed["ep0"])
  OBVIOUS
<1>2. /\ step \in 1 .. 15 /\ FirstRequest = 4 /\ LastStep = 15
      /\ RingOf(Now) = IF step \in {1, 2, 3, 5, 6, 15} THEN "cmd" ELSE "ep0"
      /\ StagesOf(Now) = IF step \in {1, 2, 3, 5, 6, 15} THEN 1
                         ELSE IF step \in {10, 13, 14} THEN 2 ELSE 3
      /\ Now \in MayFail <=> step \in {1, 13, 14}
      /\ Now = "device8" <=> step = 4
      /\ Now = "set_configuration" <=> step = 10
  BY NowIs
<1>3. /\ n \in Nat /\ (owed["ep0"] = <<>> <=> n = 0)
      /\ step > 10 => g_enumerated
      /\ RingOf(Now) = "cmd" /\ n # 0 => step \in {4, 14, 15}
      /\ RingOf(Now) = "ep0" =>
           \/ n <= StagesOf(Now)
           \/ step = 4 /\ untried = {} /\ n <= 6
           \/ step = 14 /\ n <= 4
  BY <1>1, <1>2 DEF RequestsLeft, Awaits
<1>4. pc' # "wait"
  BY DEF Progress, Advances, NextController
<1>5. ~Awaits("ep0")'
  BY <1>4 DEF Awaits
<1>6. ASSUME host' = "xhci", pc' = "start"
      PROVE  /\ step' > 10 => g_enumerated'
             /\ n # 0 => \/ step' = 4 /\ untried' = {} /\ n <= 3
                         \/ step' = 14 /\ n <= 2
                         \/ step' = 15 /\ n <= 4
  <2>1. CASE Progress
    <3>1. /\ step < 15 /\ step' \in Nat
          /\ step' = step + 1 \/ (step = 4 /\ step' = 6)
          /\ g_enumerated \/ step = 10 => g_enumerated'
      BY <1>2, <2>1 DEF Progress, Advances
    <3>2. step' > 10 => g_enumerated'
      BY <1>2, <1>3, <3>1
    <3>3. CASE RingOf(Now) = "cmd"
      BY <1>2, <1>3, <3>1, <3>2, <3>3
    <3>4. CASE RingOf(Now) = "ep0"
      <4>1. n = 0 \/ step = 13 \/ step = 14
        BY <1>2, <1>3, <2>1, <3>4 DEF Progress
      <4>2. QED
        BY <1>2, <1>3, <3>1, <3>2, <3>4, <4>1
    <3>5. QED
      BY <1>2, <3>3, <3>4
  <2>2. CASE NextController
    <3>1. untried # {} /\ untried' = {} /\ step' = 4 /\ ~g_enumerated
      BY <1>2, <1>6, <2>2 DEF NextController, UsbOK
    <3>2. step <= 10
      BY <1>2, <1>3, <3>1
    <3>3. n <= 3
      BY <1>2, <1>3, <3>1, <3>2
    <3>4. QED
      BY <3>1, <3>3
  <2>3. QED
    BY <2>1, <2>2
<1>7. QED
  BY <1>1, <1>3, <1>4, <1>5, <1>6 DEF RequestsLeft

LEMMA AgreeOver ==
  ASSUME AgreeInv, PipeInv', host = "xhci", pc = "wait",
         \/ (Progress \/ NextController) /\ UNCHANGED <<rings, owed, bell>>
         \/ Opens /\ Enqueue("intr", <<NormalTrb>>),
         \A r \in RequestRings : endpoint[r] = "running" => owed[r] = <<>>,
         \A i \in 1 .. Len(posted') : posted'[i].ring \notin RequestRings,
         endpoint' = endpoint
  PROVE  AgreeInv'
<1>1. /\ UsbOK /\ RingFunctions /\ RingsOK /\ UntouchedOK /\ CommandsLeft /\ RequestsLeft
      /\ ReportRingOK
  BY DEF AgreeInv, PipeInv
<1>2. \A r \in RequestRings :
        rings'[r] = rings[r] /\ owed'[r] = owed[r] /\ bell'[r] = bell[r]
  <2>1. CASE UNCHANGED <<rings, owed, bell>>
    BY <2>1
  <2>2. CASE Enqueue("intr", <<NormalTrb>>)
    BY <1>1, <2>2 DEF Enqueue, RingFunctions, Rings, RequestRings
  <2>3. QED
    BY <2>1, <2>2
<1>3. RingsOK'
  BY <1>1, <1>2 DEF RingsOK
<1>4. RunningOK'
  BY <1>2 DEF RunningOK
<1>5. AnswersOK'
  BY DEF AnswersOK
<1>6. /\ step \in 1 .. 15 /\ FirstRequest = 4 /\ LastStep = 15
  BY <1>1, NowIs
<1>7. UntouchedOK'
  <2>1. owed'["ep0"] = owed["ep0"] /\ rings'["ep0"] = rings["ep0"]
    BY <1>2 DEF RequestRings
  <2>2. host' = "ehci" \/ step' < 4 => step < 4
    <3>1. CASE Progress
      BY <1>6, <3>1 DEF Progress, Advances
    <3>2. CASE NextController
      BY <1>6, <3>2 DEF NextController
    <3>3. CASE Opens
      BY <1>6, <3>3 DEF Opens
    <3>4. QED
      BY <3>1, <3>2, <3>3
  <2>3. QED
    BY <1>1, <2>1, <2>2 DEF UntouchedOK
<1>8. CommandsLeft' /\ RequestsLeft'
  <2>1. CASE Progress \/ NextController
    <3>1. /\ owed'["cmd"] = owed["cmd"] /\ owed'["ep0"] = owed["ep0"]
          /\ IsSeq(owed["cmd"]) /\ IsSeq(owed["ep0"])
      BY <1>1, <1>2 DEF RequestRings, RingsOK
    <3>2. /\ Len(owed["cmd"]) \in Nat /\ Len(owed["ep0"]) \in Nat
          /\ owed["cmd"] = <<>> <=> Len(owed["cmd"]) = 0
          /\ owed["ep0"] = <<>> <=> Len(owed["ep0"]) = 0
      BY <3>1, SeqParts
    <3>3. QED
      BY <1>1, <2>1, <3>1, <3>2, CommandsLeftOver, RequestsLeftOver
  <2>2. CASE Opens
    BY <2>2 DEF Opens, CommandsLeft, RequestsLeft
  <2>3. QED
    BY <2>1, <2>2
<1>9. QED
  BY <1>3, <1>4, <1>5, <1>7, <1>8 DEF AgreeInv

LEMMA AgreeXhciWait ==
  ASSUME AgreeInv, PipeInv', XhciWait, UNCHANGED <<changes, ehciVars>>
  PROVE  AgreeInv'
<1>1. /\ host = "xhci" /\ pc = "wait" /\ TakeEvent /\ endpoint' = endpoint
  BY DEF XhciWait
<1>2. CASE ~Mine(Event)
  <2>1. UNCHANGED <<rings, owed, bell, host, untried, step, pc, g_enumerated>>
    BY <1>2 DEF XhciWait, start
  <2>2. RequestsSame /\ PhaseKept
    BY <1>1, <2>1 DEF RequestsSame, PhaseKept
  <2>3. QED
    BY <1>1, <2>2, AgreeKept
<1>3. CASE Mine(Event)
  <2>1. PICK n, m, s, t, r :
          /\ n = Len(posted) /\ m = Len(posted') /\ s = posted /\ t = posted'
          /\ r = RingOf(Now)
    OBVIOUS
  <2>2. EventRingOK /\ RunningOK /\ AnswersOK
    BY DEF AgreeInv, PipeInv
  <2>3. /\ n \in Nat \ {0} /\ m = n - 1 /\ (\A i \in 1 .. m : t[i] = s[i + 1])
        /\ Event = s[1]
    BY <1>1, <2>1, <2>2, Took
  <2>4. 1 \in 1 .. n /\ s[1].ring = r /\ r \in RequestRings
    BY <1>3, <2>1, <2>3 DEF Mine, RingOf, RequestRings
  <2>5. s[1].ok => owed[r] = <<>>
    BY <2>1, <2>2, <2>4 DEF AnswersOK
  <2>6. \A x \in RequestRings : endpoint[x] = "running" => owed[x] = <<>>
    <3>1. ASSUME NEW x \in RequestRings, endpoint[x] = "running", owed[x] # <<>>
          PROVE  FALSE
      <4>1. Awaits(x) /\ \A i \in 1 .. n : s[i].ring # x
        BY <2>1, <2>2, <3>1 DEF RunningOK
      <4>2. x = r
        BY <2>1, <4>1 DEF Awaits
      <4>3. QED
        BY <2>4, <4>1, <4>2
    <3>2. QED
      BY <3>1
  <2>7. \A i \in 1 .. m : t[i].ring \notin RequestRings
    <3>1. ASSUME NEW i \in 1 .. m, t[i].ring \in RequestRings PROVE FALSE
      <4>1. i + 1 \in 1 .. n /\ s[i + 1].ring \in RequestRings /\ i + 1 # 1
        BY <2>3, <3>1
      <4>2. \A k, l \in 1 .. n :
              s[k].ring \in RequestRings /\ s[l].ring \in RequestRings => k = l
        BY <2>1, <2>2 DEF AnswersOK
      <4>3. QED
        BY <2>4, <4>1, <4>2
    <3>2. QED
      BY <3>1
  <2>8. \/ (Progress \/ NextController) /\ UNCHANGED <<rings, owed, bell>>
        \/ Opens /\ Enqueue("intr", <<NormalTrb>>)
    <3>1. CASE Opens /\ Enqueue("intr", <<NormalTrb>>)
      BY <3>1
    <3>2. CASE NextController /\ UNCHANGED <<rings, owed, bell>>
      BY <3>2
    <3>3. CASE Advance(Event.ok) /\ UNCHANGED <<rings, owed, bell>>
      <4>1. /\ Advances
            /\ Event.ok \/ Now \in MayFail
        BY <3>3 DEF Advance, Advances
      <4>2. g_enumerated \/ Now = "set_configuration" => g_enumerated'
        BY <3>3, Zenon DEF Advance
      <4>3. owed[RingOf(Now)] = <<>> \/ Now \in MayFail
        BY <2>1, <2>3, <2>5, <4>1
      <4>4. QED
        BY <3>3, <4>1, <4>2, <4>3 DEF Progress
    <3>4. QED
      BY <1>3, <3>1, <3>2, <3>3 DEF XhciWait, XhciProceed, Fail, OpenInterrupt, Opens, start
  <2>9. QED
    BY <1>1, <2>1, <2>6, <2>7, <2>8, AgreeOver
<1>4. QED
  BY <1>2, <1>3

(* What the controller finds on a ring for commands or requests, where it  *)
(* looks.                                                                  *)
LEMMA FindsRequest ==
  ASSUME RingsOK, NEW r \in RequestRings, NEW n, n = Len(owed[r])
  PROVE  /\ Usable[r] \in Nat \ {0} /\ IsSeq(owed[r]) /\ n \in Nat
         /\ RingOK(rings[r], Usable[r], n)
         /\ owed[r] = <<>> <=> n = 0
         /\ AtLink(r) <=> rings[r].deq = Usable[r]
         /\ Finds(r) /\ ~AtLink(r) => owed[r] # <<>>
         /\ endpoint[r] = "running" /\ owed[r] # <<>> => Finds(r)
<1>1. PICK q, size, s : q = rings[r] /\ size = Usable[r] /\ s = owed[r]
  OBVIOUS
<1>2. size \in Nat \ {0}
  BY <1>1, XhciAssumption DEF RequestRings
<1>3. IsSeq(s) /\ RingOK(q, size, n) /\ (s # <<>> => bell[r])
  BY <1>1 DEF RingsOK
<1>4. n \in Nat /\ (s = <<>> <=> n = 0)
  BY <1>1, <1>3, SeqParts
<1>5. q.size = size
  BY <1>2, <1>3, RingParts
<1>6. /\ n > 0 => q.bits[q.deq] = q.ccs
      /\ q.bits[q.deq] = q.ccs /\ q.deq # size => n > 0
  BY ONLY <1>2, <1>3, RingShows
<1>7. AtLink(r) <=> q.deq = size
  BY <1>1, <1>5 DEF AtLink
<1>8. Finds(r) <=> bell[r] /\ endpoint[r] = "running" /\ q.bits[q.deq] = q.ccs
  BY <1>1 DEF Finds
<1>9. QED
  BY <1>1, <1>2, <1>3, <1>4, <1>6, <1>7, <1>8

LEMMA AgreeTimeOut ==
  ASSUME AgreeInv, PipeInv', TimeOut, UNCHANGED <<changes, ehciVars>>
  PROVE  AgreeInv'
<1>1. /\ host = "xhci" /\ pc = "wait" /\ endpoint' = endpoint
      /\ posted = <<>> /\ posted' = posted /\ ~Finds(RingOf(Now))
      /\ XhciProceed(FALSE)
  BY DEF TimeOut
<1>2. RingsOK /\ RunningOK
  BY DEF AgreeInv
<1>3. \A r \in RequestRings : endpoint[r] = "running" => owed[r] = <<>>
  <2>1. ASSUME NEW r \in RequestRings, endpoint[r] = "running", owed[r] # <<>>
        PROVE  FALSE
    <3>1. Awaits(r)
      BY <1>2, <2>1 DEF RunningOK
    <3>2. ~Finds(r)
      BY <1>1, <3>1 DEF Awaits
    <3>3. PICK n : n = Len(owed[r])
      OBVIOUS
    <3>4. Finds(r)
      BY <1>2, <2>1, <3>3, FindsRequest
    <3>5. QED
      BY <3>2, <3>4
  <2>2. QED
    BY <2>1
<1>4. \A i \in 1 .. Len(posted') : posted'[i].ring \notin RequestRings
  BY <1>1, SeqEmpty
<1>5. \/ (Progress \/ NextController) /\ UNCHANGED <<rings, owed, bell>>
      \/ Opens /\ Enqueue("intr", <<NormalTrb>>)
  <2>1. CASE OpenInterrupt(FALSE) /\ Enqueue("intr", <<NormalTrb>>)
    BY <2>1 DEF OpenInterrupt, Opens, start
  <2>2. CASE Fail(FALSE) /\ UNCHANGED <<rings, owed, bell>>
    BY <2>2 DEF Fail
  <2>3. CASE Advance(FALSE) /\ UNCHANGED <<rings, owed, bell>>
    <3>1. Advances /\ Now \in MayFail
      BY <2>3 DEF Advance, Advances
    <3>2. g_enumerated \/ Now = "set_configuration" => g_enumerated'
      BY <2>3, Zenon DEF Advance
    <3>3. QED
      BY <2>3, <3>1, <3>2 DEF Progress
  <2>4. QED
    BY <1>1, <2>1, <2>2, <2>3 DEF XhciProceed
<1>6. QED
  BY <1>1, <1>3, <1>4, <1>5, AgreeOver

(***************************************************************************)
(* The xHCI controller on the rings for commands and requests.             *)
(***************************************************************************)
LEMMA LeftKept ==
  ASSUME CommandsLeft, RequestsLeft,
         UNCHANGED <<host, untried, step, pc, g_enumerated>>,
         \A x \in RequestRings :
           /\ Len(owed'[x]) \in Nat /\ Len(owed[x]) \in Nat
           /\ Len(owed'[x]) <= Len(owed[x])
           /\ owed'[x] = owed[x] \/ Awaits(x)
  PROVE  CommandsLeft' /\ RequestsLeft'
<1>1. Now' = Now /\ \A x : Awaits(x)' <=> Awaits(x)
  BY DEF Awaits, Now
<1>2. PICK c, d, e, f :
        /\ c = Len(owed["cmd"]) /\ d = Len(owed'["cmd"])
        /\ e = Len(owed["ep0"]) /\ f = Len(owed'["ep0"])
  OBVIOUS
<1>3. /\ c \in Nat /\ d \in Nat /\ d <= c /\ (d = c \/ Awaits("cmd"))
      /\ e \in Nat /\ f \in Nat /\ f <= e
      /\ owed'["ep0"] = owed["ep0"] \/ Awaits("ep0")
  BY <1>2 DEF RequestRings
<1>4. CommandsLeft'
  BY <1>1, <1>2, <1>3 DEF CommandsLeft
<1>5. RequestsLeft'
  <2>1. StagesOf(Now)' = StagesOf(Now) /\ StagesOf(Now) \in Nat
    BY <1>1 DEF StagesOf
  <2>2. QED
    BY <1>1, <1>2, <1>3, <2>1 DEF RequestsLeft
<1>6. QED
  BY <1>4, <1>5

LEMMA AgreeAtRing ==
  ASSUME AgreeInv, PipeInv', NEW r \in RequestRings,
         UNCHANGED <<host, untried, step, pc, g_enumerated, bell>>,
         \A x \in RequestRings : x # r =>
           rings'[x] = rings[x] /\ owed'[x] = owed[x] /\ endpoint'[x] = endpoint[x],
         Awaits(r) \/ (owed'[r] = owed[r] /\ posted' = posted),
         bell[r], IsSeq(owed'[r]), RingOK(rings'[r], Usable[r], Len(owed'[r])),
         Len(owed'[r]) <= Len(owed[r]),
         endpoint'[r] # "running" => rings'[r].deq # Usable[r],
         r = "ep0" => ~(host = "ehci" \/ step < 4),
         endpoint'[r] = "running" /\ owed'[r] # <<>> =>
           /\ Awaits(r) /\ \A i \in 1 .. Len(posted') : posted'[i].ring # r
           /\ \A k \in 1 .. Len(owed'[r]) :
                owed'[r][k].step = step /\ (owed'[r][k].last <=> k = Len(owed'[r]))
           /\ r = "cmd" => Len(owed'[r]) = 1,
         AnswersOK'
  PROVE  AgreeInv'
<1>1. /\ RingsOK /\ RunningOK /\ UntouchedOK /\ CommandsLeft /\ RequestsLeft
  BY DEF AgreeInv
<1>2. /\ \A x : Awaits(x)' <=> Awaits(x)
      /\ Awaits(r) => \A x : Awaits(x) => x = r
  BY DEF Awaits, Now
<1>3. RingsOK'
  <2>1. ASSUME NEW x \in RequestRings
        PROVE  /\ IsSeq(owed'[x]) /\ RingOK(rings'[x], Usable[x], Len(owed'[x]))
               /\ owed'[x] # <<>> => bell'[x]
               /\ endpoint'[x] # "running" => rings'[x].deq # Usable[x]
    <3>1. CASE x = r
      BY <3>1
    <3>2. CASE x # r
      BY <1>1, <3>2 DEF RingsOK
    <3>3. QED
      BY <3>1, <3>2
  <2>2. QED
    BY <2>1 DEF RingsOK
<1>4. RunningOK'
  <2>1. ASSUME NEW x \in RequestRings, endpoint'[x] = "running", owed'[x] # <<>>
        PROVE  /\ Awaits(x)' /\ \A i \in 1 .. Len(posted') : posted'[i].ring # x
               /\ \A k \in 1 .. Len(owed'[x]) :
                    /\ owed'[x][k].step = step'
                    /\ owed'[x][k].last <=> k = Len(owed'[x])
               /\ x = "cmd" => Len(owed'[x]) = 1
    <3>1. CASE x = r
      BY <1>2, <2>1, <3>1
    <3>2. CASE x # r
      <4>1. Awaits(x)
        BY <1>1, <2>1, <3>2 DEF RunningOK
      <4>2. posted' = posted
        BY <1>2, <3>2, <4>1
      <4>3. QED
        BY <1>1, <1>2, <2>1, <3>2, <4>2 DEF RunningOK
    <3>3. QED
      BY <3>1, <3>2
  <2>2. QED
    BY <2>1 DEF RunningOK
<1>5. UntouchedOK'
  BY <1>1 DEF UntouchedOK, RequestRings
<1>6. CommandsLeft' /\ RequestsLeft'
  <2>1. ASSUME NEW x \in RequestRings
        PROVE  /\ Len(owed'[x]) \in Nat /\ Len(owed[x]) \in Nat
               /\ Len(owed'[x]) <= Len(owed[x])
               /\ owed'[x] = owed[x] \/ Awaits(x)
    <3>1. IsSeq(owed[x]) /\ IsSeq(owed'[x])
      BY <1>1, <1>3 DEF RingsOK
    <3>2. Len(owed'[x]) \in Nat /\ Len(owed[x]) \in Nat
      BY <3>1, SeqParts
    <3>3. CASE x = r
      BY <3>2, <3>3
    <3>4. CASE x # r
      BY <3>2, <3>4
    <3>5. QED
      BY <3>3, <3>4
  <2>2. QED
    BY <1>1, <2>1, LeftKept
<1>7. QED
  BY <1>3, <1>4, <1>5, <1>6 DEF AgreeInv

(* What it works on is left of the request waited for, and no answer is on *)
(* its way.                                                                *)
Working(r, s, n, t) ==
  /\ Awaits(r) /\ \A i \in 1 .. Len(posted) : posted[i].ring \notin RequestRings
  /\ r = "ep0" => ~(host = "ehci" \/ step < 4)
  /\ r = "cmd" => n = 1
  /\ IsSeq(s) /\ n \in Nat \ {0}
  /\ RingOK(rings[r], Usable[r], n) /\ rings[r].deq # Usable[r]
  /\ IsSeq(t) /\ Len(t) = n - 1
  /\ RingOK(Past(rings[r]), Usable[r], n - 1)
  /\ Item(r).step = step /\ (Item(r).last <=> n = 1)
  /\ \A k \in 1 .. n - 1 : t[k].step = step /\ (t[k].last <=> k = n - 1)
  /\ endpoint[r] = "running"

LEMMA AtWork ==
  ASSUME AgreeInv, NEW r \in RequestRings, Finds(r), ~AtLink(r),
         NEW s, s = owed[r], NEW n, n = Len(s), NEW t, t = Tail(s)
  PROVE  Working(r, s, n, t)
<1>1. RingsOK /\ RunningOK /\ AnswersOK /\ UntouchedOK
  BY DEF AgreeInv
<1>2. PICK q, size : q = rings[r] /\ size = Usable[r]
  OBVIOUS
<1>3. /\ size \in Nat \ {0} /\ IsSeq(s) /\ n \in Nat /\ RingOK(q, size, n)
      /\ s = <<>> <=> n = 0
      /\ q.deq # size /\ s # <<>>
  BY <1>1, <1>2, FindsRequest
<1>4. /\ bell[r] /\ endpoint[r] = "running" /\ q.bits[q.deq] = q.ccs
  BY <1>2 DEF Finds
<1>5. /\ Awaits(r) /\ (r = "cmd" => n = 1)
      /\ \A k \in 1 .. n : s[k].step = step /\ (s[k].last <=> k = n)
      /\ \A i \in 1 .. Len(posted) : posted[i].ring # r
  BY <1>1, <1>3, <1>4 DEF RunningOK
<1>6. \A i \in 1 .. Len(posted) : posted[i].ring \notin RequestRings
  BY <1>1, <1>5 DEF AnswersOK, Awaits
<1>7. r = "ep0" => ~(host = "ehci" \/ step < 4)
  BY <1>1, <1>3 DEF UntouchedOK
<1>8. RingOK(Past(q), size, n - 1)
  <2>1. RingOK(Past(q), size, IF q.deq = size THEN n ELSE n - 1)
    BY ONLY <1>3, <1>4, RingPasses
  <2>2. QED
    BY <1>3, <2>1
<1>9. /\ IsSeq(t) /\ Len(t) = n - 1
      /\ \A i \in 1 .. Len(t) : t[i] = s[i + 1]
      /\ Head(s) = s[1]
  BY ONLY <1>3, n = Len(s), t = Tail(s), SeqTail
<1>10. Item(r).step = step /\ (Item(r).last <=> n = 1)
  <2>1. Item(r) = s[1]
    BY <1>9 DEF Item
  <2>2. 1 \in 1 .. n
    BY <1>3
  <2>3. s[1].step = step /\ (s[1].last <=> 1 = n)
    BY <1>5, <2>2
  <2>4. QED
    BY <2>1, <2>3
<1>11. \A k \in 1 .. n - 1 : t[k].step = step /\ (t[k].last <=> k = n - 1)
  <2>1. ASSUME NEW k \in 1 .. n - 1
        PROVE  t[k].step = step /\ (t[k].last <=> k = n - 1)
    <3>1. k + 1 \in 1 .. n /\ t[k] = s[k + 1] /\ (k + 1 = n <=> k = n - 1)
      BY <1>3, <1>9
    <3>2. QED
      BY <1>5, <3>1
  <2>2. QED
    BY <2>1
<1>12. QED
  BY <1>2, <1>3, <1>4, <1>5, <1>6, <1>7, <1>8, <1>9, <1>10, <1>11 DEF Working

LEMMA AgreeFollowLink ==
  ASSUME AgreeInv, PipeInv', NEW r \in RequestRings, ControllerAt(r), FollowLink(r)
  PROVE  AgreeInv'
<1>1. /\ UNCHANGED <<host, untried, step, pc, g_enumerated, bell>>
      /\ UNCHANGED <<posted, owed, endpoint>>
      /\ Finds(r) /\ AtLink(r) /\ Passed(r)
  BY DEF ControllerAt, FollowLink, start
<1>2. RingFunctions /\ RingsOK /\ RunningOK /\ AnswersOK /\ UntouchedOK
  BY DEF AgreeInv, PipeInv
<1>3. PICK q, size, n : q = rings[r] /\ size = Usable[r] /\ n = Len(owed[r])
  OBVIOUS
<1>4. /\ size \in Nat \ {0} /\ IsSeq(owed[r]) /\ n \in Nat /\ RingOK(q, size, n)
      /\ q.deq = size
  BY <1>1, <1>2, <1>3, FindsRequest
<1>5. /\ bell[r] /\ endpoint[r] = "running" /\ q.bits[q.deq] = q.ccs
  BY <1>1, <1>3 DEF Finds
<1>6. rings'[r] = Past(q) /\ \A x \in RequestRings : x # r => rings'[x] = rings[x]
  BY <1>1, <1>2, <1>3 DEF Passed, RingFunctions, Rings, RequestRings
<1>7. RingOK(Past(q), size, n)
  <2>1. RingOK(Past(q), size, IF q.deq = size THEN n ELSE n - 1)
    BY ONLY <1>4, <1>5, RingPasses
  <2>2. QED
    BY <1>4, <2>1
<1>8. /\ RingOK(rings'[r], Usable[r], Len(owed'[r])) /\ IsSeq(owed'[r])
      /\ Len(owed'[r]) <= Len(owed[r])
  BY <1>1, <1>3, <1>4, <1>6, <1>7
<1>9. r = "ep0" => ~(host = "ehci" \/ step < 4)
  BY <1>2, <1>3, <1>4 DEF UntouchedOK
<1>10. owed[r] # <<>> =>
         /\ Awaits(r) /\ \A i \in 1 .. Len(posted) : posted[i].ring # r
         /\ \A k \in 1 .. Len(owed[r]) :
              owed[r][k].step = step /\ (owed[r][k].last <=> k = Len(owed[r]))
         /\ r = "cmd" => Len(owed[r]) = 1
  BY <1>2, <1>5 DEF RunningOK
<1>11. AnswersOK'
  BY <1>1, <1>2 DEF AnswersOK, Awaits, Now
<1>12. /\ \A x \in RequestRings : x # r =>
            rings'[x] = rings[x] /\ owed'[x] = owed[x] /\ endpoint'[x] = endpoint[x]
       /\ endpoint'[r] = "running"
       /\ owed'[r] = owed[r] /\ posted' = posted
  BY <1>1, <1>5, <1>6
<1>13. endpoint'[r] = "running" /\ owed'[r] # <<>> =>
         /\ Awaits(r) /\ \A i \in 1 .. Len(posted') : posted'[i].ring # r
         /\ \A k \in 1 .. Len(owed'[r]) :
              owed'[r][k].step = step /\ (owed'[r][k].last <=> k = Len(owed'[r]))
         /\ r = "cmd" => Len(owed'[r]) = 1
  BY <1>10, <1>12
<1>14. QED
  BY <1>1, <1>5, <1>8, <1>9, <1>11, <1>12, <1>13, AgreeAtRing

(* No answer was on its way; now the one to the request waited for is. *)
LEMMA Answered ==
  ASSUME EventRingOK, NEW r, Awaits(r), UNCHANGED <<host, step, pc>>,
         \A i \in 1 .. Len(posted) : posted[i].ring \notin RequestRings,
         \/ posted' = posted
         \/ \E e : /\ Post(e) /\ e.ring = r /\ e.step = step
                   /\ e.ok => owed'[r] = <<>>
  PROVE  AnswersOK'
<1>1. PICK n, m, s, t : n = Len(posted) /\ m = Len(posted') /\ s = posted /\ t = posted'
  OBVIOUS
<1>2. \A x : Awaits(x)' <=> Awaits(x)
  BY DEF Awaits, Now
<1>3. CASE posted' = posted
  BY <1>3 DEF AnswersOK
<1>4. ASSUME NEW e, Post(e), e.ring = r, e.step = step, e.ok => owed'[r] = <<>>
      PROVE  AnswersOK'
  <2>1. n \in Nat /\ m = n + 1 /\ (\A i \in 1 .. n : t[i] = s[i]) /\ t[n + 1] = e
    BY <1>1, <1>4, Put
  <2>2. \A i \in 1 .. m : (i \in 1 .. n /\ t[i] = s[i]) \/ (i = n + 1 /\ t[i] = e)
    BY <2>1
  <2>3. \A i \in 1 .. m : t[i].ring \in RequestRings => i = n + 1 /\ t[i] = e
    BY <1>1, <2>2
  <2>4. ASSUME NEW i \in 1 .. m, NEW x \in RequestRings, t[i].ring = x
        PROVE  Awaits(x)' /\ t[i].step = step' /\ (t[i].ok => owed'[x] = <<>>)
    <3>1. t[i] = e /\ x = r
      BY <1>4, <2>3, <2>4
    <3>2. QED
      BY <1>2, <1>4, <3>1
  <2>5. QED
    BY <1>1, <2>3, <2>4 DEF AnswersOK
<1>5. QED
  BY <1>3, <1>4

LEMMA AgreeHang ==
  ASSUME AgreeInv, PipeInv', NEW r \in RequestRings, ControllerAt(r),
         Hang(r) \/ (Refuse(r) /\ r # "cmd")
  PROVE  AgreeInv'
<1>1. /\ UNCHANGED <<host, untried, step, pc, g_enumerated, bell, owed, rings>>
      /\ Finds(r) /\ ~AtLink(r)
      /\ \E x \in {"halted", "hung"} : endpoint' = [endpoint EXCEPT ![r] = x]
  BY DEF ControllerAt, Hang, Refuse, start
<1>2. RingFunctions /\ EventRingOK /\ UsbOK /\ RingsOK
  BY DEF AgreeInv, PipeInv
<1>3. PICK s, n, t : s = owed[r] /\ n = Len(s) /\ t = Tail(s)
  OBVIOUS
<1>4. /\ Awaits(r) /\ \A i \in 1 .. Len(posted) : posted[i].ring \notin RequestRings
      /\ r = "ep0" => ~(host = "ehci" \/ step < 4)
      /\ IsSeq(s) /\ n \in Nat \ {0} /\ bell[r]
      /\ RingOK(rings[r], Usable[r], n) /\ rings[r].deq # Usable[r]
      /\ Item(r).step = step
  <2>1. Working(r, s, n, t)
    BY <1>1, <1>3, AtWork
  <2>2. bell[r]
    BY <1>1 DEF Finds
  <2>3. QED
    BY <2>1, <2>2 DEF Working
<1>5. endpoint'[r] # "running"
      /\ \A x \in RequestRings : x # r => endpoint'[x] = endpoint[x]
  BY <1>1, <1>2 DEF UsbOK, RequestRings, Rings
<1>6. \/ posted' = posted
      \/ \E e : Post(e) /\ e.ring = r /\ e.step = step /\ (e.ok => owed'[r] = <<>>)
  <2>1. CASE Hang(r)
    BY <2>1 DEF Hang
  <2>2. CASE Refuse(r)
    <3>1. PICK e : e = [ring |-> r, step |-> Item(r).step, ok |-> FALSE]
      OBVIOUS
    <3>2. Post(e)
      BY <2>2, <3>1 DEF Refuse
    <3>3. e.ring = r /\ e.step = step /\ ~e.ok
      BY <1>4, <3>1
    <3>4. QED
      BY <3>2, <3>3
  <2>3. QED
    BY <2>1, <2>2
<1>7. AnswersOK'
  BY <1>1, <1>2, <1>4, <1>6, Answered
<1>8. /\ \A x \in RequestRings : x # r =>
           rings'[x] = rings[x] /\ owed'[x] = owed[x] /\ endpoint'[x] = endpoint[x]
      /\ IsSeq(owed'[r]) /\ RingOK(rings'[r], Usable[r], Len(owed'[r]))
      /\ Len(owed'[r]) <= Len(owed[r]) /\ rings'[r].deq # Usable[r]
  BY <1>1, <1>3, <1>4, <1>5
<1>9. QED
  BY <1>1, <1>4, <1>5, <1>7, <1>8, AgreeAtRing

LEMMA AgreeExecute ==
  ASSUME AgreeInv, PipeInv', NEW r \in RequestRings, ControllerAt(r),
         Execute(r) \/ (Refuse(r) /\ r = "cmd")
  PROVE  AgreeInv'
<1>1. /\ UNCHANGED <<host, untried, step, pc, g_enumerated, bell, endpoint>>
      /\ Finds(r) /\ ~AtLink(r) /\ Passed(r)
      /\ owed' = [owed EXCEPT ![r] = Tail(@)]
  BY DEF ControllerAt, Execute, Refuse, start
<1>2. RingFunctions /\ EventRingOK /\ RingsOK
  BY DEF AgreeInv, PipeInv
<1>3. PICK s, n, t : s = owed[r] /\ n = Len(s) /\ t = Tail(s)
  OBVIOUS
<1>4. Working(r, s, n, t)
  BY <1>1, <1>3, AtWork
<1>5. /\ Awaits(r) /\ \A i \in 1 .. Len(posted) : posted[i].ring \notin RequestRings
      /\ r = "ep0" => ~(host = "ehci" \/ step < 4)
      /\ r = "cmd" => n = 1
      /\ IsSeq(s) /\ n \in Nat \ {0}
      /\ IsSeq(t) /\ Len(t) = n - 1
      /\ RingOK(Past(rings[r]), Usable[r], n - 1)
      /\ Item(r).step = step /\ (Item(r).last <=> n = 1)
      /\ \A k \in 1 .. n - 1 : t[k].step = step /\ (t[k].last <=> k = n - 1)
      /\ endpoint[r] = "running"
  BY <1>4 DEF Working
<1>6. bell[r]
  BY <1>1 DEF Finds
<1>7. /\ owed'[r] = t /\ rings'[r] = Past(rings[r])
      /\ \A x \in RequestRings : x # r =>
           rings'[x] = rings[x] /\ owed'[x] = owed[x] /\ endpoint'[x] = endpoint[x]
  BY <1>1, <1>2, <1>3 DEF Passed, RingFunctions, Rings, RequestRings
<1>8. n = 1 => t = <<>>
  BY <1>5, SeqParts
<1>9. \/ posted' = posted /\ n # 1
      \/ n = 1 /\ \E e : Post(e) /\ e.ring = r /\ e.step = step
  <2>1. CASE Refuse(r) /\ r = "cmd"
    <3>1. PICK e : e = [ring |-> r, step |-> Item(r).step, ok |-> FALSE]
      OBVIOUS
    <3>2. Post(e)
      BY <2>1, <3>1 DEF Refuse
    <3>3. e.ring = r /\ e.step = step /\ n = 1
      BY <1>5, <2>1, <3>1
    <3>4. QED
      BY <3>2, <3>3
  <2>2. CASE Execute(r) /\ Item(r).last
    <3>1. PICK e : e = [ring |-> r, step |-> Item(r).step, ok |-> TRUE]
      OBVIOUS
    <3>2. Post(e)
      BY <2>2, <3>1 DEF Execute
    <3>3. e.ring = r /\ e.step = step /\ n = 1
      BY <1>5, <2>2, <3>1
    <3>4. QED
      BY <3>2, <3>3
  <2>3. CASE Execute(r) /\ ~Item(r).last
    BY <1>5, <2>3 DEF Execute
  <2>4. QED
    BY <2>1, <2>2, <2>3
<1>10. AnswersOK'
  <2>1. \/ posted' = posted
        \/ \E e : Post(e) /\ e.ring = r /\ e.step = step /\ (e.ok => owed'[r] = <<>>)
    <3>1. CASE posted' = posted
      BY <3>1
    <3>2. CASE n = 1 /\ \E e : Post(e) /\ e.ring = r /\ e.step = step
      <4>1. owed'[r] = <<>>
        BY <1>7, <1>8, <3>2
      <4>2. QED
        BY <3>2, <4>1
    <3>3. QED
      BY <1>9, <3>1, <3>2
  <2>2. QED
    BY <1>1, <1>2, <1>5, <2>1, Answered
<1>11. ASSUME owed'[r] # <<>>
       PROVE  /\ \A i \in 1 .. Len(posted') : posted'[i].ring # r
              /\ \A k \in 1 .. Len(owed'[r]) :
                   owed'[r][k].step = step /\ (owed'[r][k].last <=> k = Len(owed'[r]))
              /\ r = "cmd" => Len(owed'[r]) = 1
  <2>1. n # 1 /\ posted' = posted
    BY <1>7, <1>8, <1>9, <1>11
  <2>2. \A i \in 1 .. Len(posted') : posted'[i].ring # r
    BY <1>5, <2>1
  <2>3. \A k \in 1 .. Len(owed'[r]) :
          owed'[r][k].step = step /\ (owed'[r][k].last <=> k = Len(owed'[r]))
    BY <1>5, <1>7
  <2>4. QED
    BY <1>5, <2>1, <2>2, <2>3
<1>12. /\ IsSeq(owed'[r]) /\ RingOK(rings'[r], Usable[r], Len(owed'[r]))
       /\ Len(owed'[r]) <= Len(owed[r])
       /\ endpoint'[r] = "running"
  <2>1. PICK q, m : q = rings'[r] /\ m = n - 1
    OBVIOUS
  <2>2. RingOK(q, Usable[r], m) /\ Len(owed'[r]) = m /\ IsSeq(owed'[r])
    BY <1>5, <1>7, <2>1
  <2>3. m <= n
    BY <1>5, <2>1
  <2>4. QED
    BY <1>1, <1>3, <1>5, <2>1, <2>2, <2>3
<1>13. QED
  BY <1>1, <1>5, <1>6, <1>7, <1>10, <1>11, <1>12, AgreeAtRing

LEMMA AgreeControllerRequests ==
  ASSUME AgreeInv, PipeInv', NeverLate, NEW r \in RequestRings, ControllerAt(r)
  PROVE  AgreeInv'
<1>1. ~Revive(r)
  BY DEF Revive, NeverLate
<1>2. QED
  BY <1>1, AgreeFollowLink, AgreeExecute, AgreeHang DEF ControllerAt

LEMMA AgreeStarts ==
  ASSUME Init
  PROVE  AgreeInv
<1>1. PICK machine \in Machines : UsbInit(machine)
  BY DEF Init
<1>2. PipeInv
  BY PipeStarts
<1>3. /\ posted = <<>>
      /\ \A r \in RequestRings :
           owed[r] = <<>> /\ rings[r] = ring_init(Usable[r]) /\ endpoint[r] = "running"
  BY <1>1 DEF Init, XhciInit, UsbInit, RequestRings, Rings
<1>4. RingsOK
  <2>1. ASSUME NEW r \in RequestRings
        PROVE  /\ IsSeq(owed[r]) /\ RingOK(rings[r], Usable[r], Len(owed[r]))
               /\ owed[r] = <<>> /\ endpoint[r] = "running"
    <3>1. Usable[r] \in Nat \ {0}
      BY XhciAssumption DEF RequestRings
    <3>2. RingOK(ring_init(Usable[r]), Usable[r], 0)
      BY <3>1, RingStarts
    <3>3. QED
      BY <1>3, <3>2, SeqEmpty
  <2>2. QED
    BY <2>1 DEF RingsOK
<1>5. RunningOK /\ AnswersOK
  BY <1>3, SeqEmpty DEF RunningOK, AnswersOK
<1>6. UntouchedOK
  BY <1>3 DEF UntouchedOK, RequestRings, ring_init
<1>7. CommandsLeft /\ RequestsLeft
  <2>1. /\ Len(owed["cmd"]) = 0 /\ owed["ep0"] = <<>>
        /\ step = 1 /\ pc = "start"
    BY <1>1, <1>3, SeqEmpty DEF RequestRings, UsbInit
  <2>2. QED
    BY <2>1 DEF CommandsLeft, RequestsLeft, Awaits
<1>8. QED
  BY <1>2, <1>4, <1>5, <1>6, <1>7 DEF AgreeInv

LEMMA AgreeSteps ==
  ASSUME NeverLate, RoomForTwo, AgreeInv, PipeInv', [Next]_vars
  PROVE  AgreeInv'
<1>1. CASE UNCHANGED vars
  <2>1. UNCHANGED <<rings, owed, bell, posted, endpoint, host, step, pc, untried, g_enumerated>>
    BY <1>1 DEF vars, usbVars, start, xhciVars
  <2>2. RequestsSame /\ PhaseKept
    BY <2>1 DEF RequestsSame, PhaseKept
  <2>3. QED
    BY <2>1, <2>2, AgreeKept
<1>2. CASE Next
  <2>1. CASE (XhciStart \/ XhciWait \/ TimeOut \/ XhciRead \/ Copy)
               /\ UNCHANGED <<changes, ehciVars>>
    BY <2>1, AgreeXhciStart, AgreeXhciWait, AgreeTimeOut, AgreeXhciRead
  <2>2. CASE EhciDriver /\ UNCHANGED xhciVars
    BY <2>2, AgreeEhci
  <2>3. CASE \E ring \in Rings : ControllerAt(ring)
    BY <2>3, AgreeControllerRequests, AgreeControllerReports DEF Rings, RequestRings
  <2>4. CASE EhciController /\ UNCHANGED xhciVars
    BY <2>4, AgreeEhci
  <2>5. CASE PortChange /\ UNCHANGED ehciVars
    BY <2>5, AgreeEnvironment
  <2>6. CASE KeyboardReports /\ UNCHANGED <<xhciVars, ehciVars>>
    BY <2>6, AgreeEnvironment
  <2>7. QED
    BY <1>2, <2>1, <2>2, <2>3, <2>4, <2>5, <2>6, NextSteps
<1>3. QED
  BY <1>1, <1>2

(* The invariant the requests rest on: with a ring that takes two requests *)
(* no request is enqueued over another that was given up, an answer on its *)
(* way is to the request waited for, and there is one at most.             *)
THEOREM AgreeInvariant ==
  ASSUME NeverLate, RoomForTwo
  PROVE  Spec => []AgreeInv
<1>1. Init => AgreeInv
  BY AgreeStarts
<1>2. AgreeInv /\ PipeInv' /\ [Next]_vars => AgreeInv'
  BY AgreeSteps
<1>3. Spec => []PipeInv
  BY PipeInvariant
<1>4. QED
  BY <1>1, <1>2, <1>3, PTL DEF Spec

LEMMA AgreeShows ==
  ASSUME AgreeInv
  PROVE  RingsAgree
<1>1. /\ UsbOK /\ EventRingOK /\ ReportRingOK /\ RingsOK /\ AnswersOK
  BY DEF AgreeInv, PipeInv
<1>2. ASSUME NEW r \in Rings
      PROVE  Visible(rings[r]) = Len(owed[r])
  <2>1. PICK q, size, n : q = rings[r] /\ size = Usable[r] /\ n = Len(owed[r])
    OBVIOUS
  <2>2. size \in Nat \ {0}
    BY <2>1, XhciAssumption DEF Rings
  <2>3. RingOK(q, size, n)
    BY <1>1, <2>1 DEF ReportRingOK, RingsOK, RequestRings, Rings
  <2>4. Visible(q) = n
    BY ONLY <2>2, <2>3, RingAgrees
  <2>5. QED
    BY <2>1, <2>4
<1>3. VisibleEvents = Len(posted)
  <2>1. PICK n : n = Len(posted)
    OBVIOUS
  <2>2. EventsOK(events, n)
    BY <1>1, <2>1 DEF EventRingOK
  <2>3. QED
    BY <2>1, <2>2, EventsAgree
<1>4. ASSUME host = "xhci", pc = "wait", NEW i \in DOMAIN posted, Mine(posted[i])
      PROVE  posted[i].step = step
  <2>1. i \in 1 .. Len(posted)
    BY <1>1, SeqParts DEF EventRingOK
  <2>2. posted[i].ring = RingOf(Now) /\ RingOf(Now) \in RequestRings
    BY <1>4 DEF Mine, RingOf, RequestRings
  <2>3. QED
    BY <1>1, <2>1, <2>2 DEF AnswersOK
<1>5. QED
  BY <1>2, <1>3, <1>4 DEF RingsAgree

(* Driver and controller never disagree about what is on a ring, and no    *)
(* request takes the answer to an earlier one for its own, as long as the  *)
(* controller does not answer what the driver has given up.                *)
THEOREM UsbRingsAgree ==
  ASSUME NeverLate, RoomForTwo
  PROVE  Spec => []RingsAgree
<1>1. AgreeInv => RingsAgree
  BY AgreeShows
<1>2. Spec => []AgreeInv
  BY AgreeInvariant
<1>3. QED
  BY <1>1, <1>2, PTL
=============================================================================
