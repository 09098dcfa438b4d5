------------------------------ MODULE DiskProofs ------------------------------
(***************************************************************************)
(* Proofs about Disk for every size of drive, every content and every size *)
(* of transfer: on either driver the file systems see a SectorStore, and   *)
(* over AHCI nothing lands after a call has failed.  The invariants say    *)
(* what the slot, the drive's status and the buffers may be at each point  *)
(* of the drivers, which is all a later step knows of the earlier ones.    *)
(***************************************************************************)
EXTENDS Disk, SequenceTheorems, TLAPS

(* What the theorems ask of the drive: over AHCI it does not answer after  *)
(* the driver gave up, and over ATA the 28 bits reach all of it.           *)
NeverLate   == "late" \notin Faults
WithinLba28 == NumSectors <= AtaSectors

Lawful(m) ==
  /\ m \in {"ahci", "ahci_floating"} => NeverLate
  /\ m = "ide" => WithinLba28
-----------------------------------------------------------------------------
AhciPoints == {"not_busy", "slot", "poll"}
AtaPoints  == {"wait_bsy", "wait_drq", "cache_flush", "last_bsy"}
Ops        == {"none", "read", "write", "flush", "identify"}

SectorsOK ==
  /\ platter \in [Sectors -> Values]
  /\ DOMAIN cache \subseteq Sectors /\ cache \in [DOMAIN cache -> Values]

DiskTypeOK ==
  /\ SectorsOK
  /\ status \in {"ready", "busy", "data", "error", "hung"}
  /\ order \in [op : Ops, lba : Int]
  /\ call \in Calls \cup {NoCall, IdentifyCall}
  /\ pc \in {"idle", "floating"} \cup AhciPoints \cup AtaPoints
  /\ done \in Nat
  /\ failed \in BOOLEAN /\ ci \in BOOLEAN /\ g_ready \in BOOLEAN /\ present \in BOOLEAN
  /\ words \in {<<>>} \cup {<<v>> : v \in Values}
  /\ unheeded \in BOOLEAN
  /\ machine \in Machines
  /\ active_driver \in {"NONE", "AHCI", "ATA"}
  /\ phase \in {"off", "ahci_init", "ata_init", "up", "flush", "stopped"}

(* Which driver is where: it serves the identification while the machine   *)
(* starts and one of the callers' calls once it is up.                     *)
CallInv ==
  /\ pc = "idle" => call = NoCall /\ done = 0 /\ got = <<>>
  /\ pc # "idle" => call \in IF Booting THEN {IdentifyCall} ELSE Calls
  /\ pc \in AhciPoints => OnAhci /\ (phase = "ahci_init" \/ active_driver = "AHCI")
  /\ pc \in AtaPoints => machine = "ide" /\ (phase = "ata_init" \/ active_driver = "ATA")
  /\ pc = "floating" => Floats /\ phase = "ata_init"
  /\ phase \in {"off", "stopped"} => pc = "idle"
  /\ phase = "ahci_init" => OnAhci
  /\ phase = "ata_init" => machine = "ide" \/ (Floats /\ pc = "floating")
  /\ Booting => active_driver = "NONE"
  /\ active_driver = "AHCI" => OnAhci
  /\ active_driver = "ATA" => machine = "ide"

(* The sectors of the call that are done are read, or as they were given.  *)
ReadSoFar ==
  pc # "idle" =>
    got = IF call.op = "read" THEN [i \in 1 .. done |-> Stored[call.lba + i - 1]] ELSE <<>>

WrittenSoFar(n) ==
  pc # "idle" /\ call.op = "write" =>
    \A i \in 1 .. n : Stored[call.lba + i - 1] = call.data[i]

(* The adapter: it is busy only with the command the driver polls for, and *)
(* a command that failed, or hangs, keeps the slot until the port restarts.*)
SlotInv ==
  /\ status # "data"
  /\ status = "busy" => ci /\ pc = "poll"
  /\ ci => status # "ready"
  /\ pc = "poll" /\ ~ci => status = "ready"
  /\ phase \in {"up", "flush"} /\ active_driver = "AHCI" /\ ~ci => status = "ready"
  /\ phase = "ahci_init" /\ pc = "idle" /\ answer # Failed => status = "ready" /\ ~ci

FailureInv ==
  /\ phase = "off" \/ (phase = "ahci_init" /\ pc # "idle") => ~failed
  /\ phase = "ahci_init" /\ pc = "idle" /\ failed => answer = Failed
  /\ active_driver = "AHCI" /\ failed =>
       /\ status \in {"error", "hung"}
       /\ ci \/ phase = "stopped"
       /\ pc # "poll"

(* The command in the slot is the driver's, with its data in the buffer;   *)
(* once it is out of the slot the sector is done.                          *)
SectorDone ==
  /\ call.op = "read"  => g_buf = Stored[call.lba + done]
  /\ call.op = "write" => Stored[call.lba + done] = call.data[done + 1]
  /\ call.op = "flush" => cache = <<>>

TransferInv ==
  pc \in AhciPoints =>
    /\ done < call.count \/ (call.op = "flush" /\ done = 0)
    /\ call.op = "write" => g_buf = call.data[done + 1]
    /\ status = "busy" => order = [op |-> call.op, lba |-> call.lba + done]
    /\ pc = "poll" /\ ~ci => SectorDone
    /\ ReadSoFar
    /\ WrittenSoFar(done)

AhciInv == OnAhci => SlotInv /\ FailureInv /\ TransferInv

(* The legacy drive: a sector handed over is the last one, at its place,   *)
(* and the flush is seen by an idle drive or comes after the sector.       *)
WordsInv ==
  words # <<>> =>
    /\ call.op = "write" /\ pc \in {"wait_drq", "cache_flush", "last_bsy"}
    /\ done \in 1 .. call.count
    /\ words = <<call.data[done]>>
    /\ order = [op |-> "write", lba |-> Addressed(call.lba + done - 1)]
    /\ status \in {"busy", "hung"} /\ ~unheeded

AtPoint ==
  /\ pc \in {"idle", "wait_bsy"} => status \in {"ready", "error"} /\ words = <<>>
  /\ pc = "wait_bsy" => call.op # "flush" /\ done = 0
  /\ pc = "wait_drq" =>
       /\ call.op # "flush" /\ order.op = call.op
       /\ done < call.count
  /\ pc = "cache_flush" =>
       \/ call.op = "flush" /\ words = <<>> /\ status \in {"ready", "error"}
       \/ call.op = "write" /\ done = call.count
          /\ (words = <<>> => status = "ready" \/ (status = "error" /\ unheeded))
  /\ pc = "last_bsy" =>
       /\ status \in {"ready", "busy", "hung", "error"} /\ (status = "error" => unheeded)
       /\ \/ call.op = "flush" /\ order.op = "flush" /\ words = <<>>
             /\ (status = "ready" => cache = <<>>)
          \/ call.op = "write" /\ done = call.count
             /\ (words = <<>> => status \in {"ready", "error"} \/ order.op = "flush")
  /\ unheeded => pc \in {"cache_flush", "last_bsy"}

(* The sector given last may still be with the drive, or may have been     *)
(* refused.                                                                *)
Settled == words = <<>> /\ status # "error" /\ ~unheeded

PioInv ==
  pc # "idle" => ReadSoFar /\ WrittenSoFar(IF Settled THEN done ELSE done - 1)

AtaInv == machine = "ide" => WordsInv /\ AtPoint /\ PioInv

DiskInv == DiskTypeOK /\ CallInv /\ AhciInv /\ AtaInv

USE DEF OnAhci, Floats, ataVars
-----------------------------------------------------------------------------
(* What a call asks for: sectors of the drive, and a value for each one it *)
(* writes.                                                                 *)
LEMMA CallFacts ==
  ASSUME NEW c \in Calls \cup {IdentifyCall}
  PROVE  /\ c # NoCall \/ c = IdentifyCall
         /\ c.op \in Ops \ {"none"}
         /\ c.lba \in Nat /\ c.count \in Nat
         /\ c.op = "flush" <=> c.count = 0
         /\ c.op \in {"read", "write"} =>
              \A i \in 1 .. c.count : c.lba + i - 1 \in Sectors
         /\ c.op = "write" => c.data \in [1 .. c.count -> Values]
         /\ c.op = "identify" <=> c = IdentifyCall
         /\ c.op = "identify" <=> c \notin Calls
         /\ c = IdentifyCall => c.count = 1
         /\ c.op \in {"read", "write"} => c.count \in 1 .. NumSectors
<1>0. IdentifyCall \notin Calls
  BY DEF IdentifyCall, Calls
<1>1. CASE c = IdentifyCall
  BY <1>0, <1>1 DEF IdentifyCall, Ops
<1>2. CASE c = [op |-> "flush", lba |-> 0, data |-> <<>>, count |-> 0]
  BY <1>2, MarksAssumption DEF IdentifyCall, Ops, Calls
<1>3. ASSUME NEW n \in Counts,
             c \in [op : {"read"}, lba : RunsOf(n), data : {<<>>}, count : {n}]
      PROVE  /\ c.op = "read" /\ c.lba \in RunsOf(n) /\ c.count = n
             /\ n \in Nat \ {0}
  BY <1>3, DriveAssumption
<1>4. ASSUME NEW n \in Counts,
             c \in [op : {"write"}, lba : RunsOf(n), data : [1 .. n -> Values], count : {n}]
      PROVE  /\ c.op = "write" /\ c.lba \in RunsOf(n) /\ c.count = n
             /\ c.data \in [1 .. n -> Values] /\ n \in Nat \ {0}
  BY <1>4, DriveAssumption
<1>5. ASSUME NEW n \in Nat \ {0}, NEW lba \in RunsOf(n)
      PROVE  /\ lba \in Nat /\ n \in 1 .. NumSectors
             /\ \A i \in 1 .. n : lba + i - 1 \in Sectors
  BY <1>5, DriveAssumption DEF RunsOf, Sectors
<1>6. CASE \E n \in Counts :
             c \in [op : {"read"}, lba : RunsOf(n), data : {<<>>}, count : {n}]
  BY <1>3, <1>5, <1>6, MarksAssumption DEF IdentifyCall, Ops, Calls
<1>7. CASE \E n \in Counts :
             c \in [op : {"write"}, lba : RunsOf(n), data : [1 .. n -> Values], count : {n}]
  BY <1>4, <1>5, <1>7, MarksAssumption DEF IdentifyCall, Ops, Calls
<1>8. QED
  BY <1>1, <1>2, <1>6, <1>7 DEF Calls

(* What the drive holds for each sector is a content.                      *)
LEMMA StoredType == SectorsOK => Stored \in [Sectors -> Values]
BY DEF SectorsOK, Stored

LEMMA AcceptStores ==
  ASSUME SectorsOK, NEW s \in Sectors, NEW v \in Values, Accept(s, v), platter' = platter
  PROVE  /\ Stored' = [Stored EXCEPT ![s] = v]
         /\ SectorsOK'
BY DEF SectorsOK, Stored, Accept

LEMMA FlushStores ==
  ASSUME SectorsOK, FlushCache
  PROVE  /\ Stored' = Stored /\ platter' = Stored
         /\ SectorsOK'
BY StoredType DEF SectorsOK, Stored, FlushCache

LEMMA DestageStores ==
  ASSUME SectorsOK, Destage
  PROVE  /\ Stored' = Stored
         /\ SectorsOK'
         /\ \A s \in Sectors : platter'[s] \in {platter[s], Stored[s]}
         /\ cache # <<>>
BY DEF SectorsOK, Stored, Destage, Restrict
LEMMA PowerLostStores ==
  ASSUME SectorsOK, cache' = <<>>, UNCHANGED platter
  PROVE  SectorsOK'
BY DEF SectorsOK

(* Before its first sector, a call has read nothing.                       *)
LEMMA NothingRead ==
  ASSUME NEW f, NEW l
  PROVE  [i \in 1 .. 0 |-> f[l + i - 1]] = <<>>
OBVIOUS

(* Each sector read makes what was read one longer.                        *)
LEMMA ReadOneMore ==
  ASSUME NEW f, NEW l \in Nat, NEW n \in Nat
  PROVE  Append([i \in 1 .. n |-> f[l + i - 1]], f[l + n]) =
           [i \in 1 .. n + 1 |-> f[l + i - 1]]
OBVIOUS

(* What a read gave is an answer, so it is not the mark of a failure; nor  *)
(* is the answer to a write or a flush.                                    *)
LEMMA ReadAnswers ==
  ASSUME NEW f \in [Sectors -> Values], NEW l \in Nat, NEW n \in 0 .. NumSectors,
         \A i \in 1 .. n : l + i - 1 \in Sectors
  PROVE  [i \in 1 .. n |-> f[l + i - 1]] # Failed
<1>1. [i \in 1 .. n |-> f[l + i - 1]] \in [1 .. n -> Values]
  OBVIOUS
<1>2. QED
  BY <1>1, MarksAssumption DEF Answers

LEMMA NoDataAnswers == <<>> # Failed
<1>1. <<>> \in [1 .. 0 -> Values] /\ 0 \in 0 .. NumSectors
  BY DriveAssumption
<1>2. QED
  BY <1>1, MarksAssumption DEF Answers

(* A call that returned left its mark, and the driver is idle.             *)
LEMMA Returned ==
  ASSUME NEW d, Return(d)
  PROVE  /\ answer' = d /\ call' = NoCall /\ pc' = "idle" /\ done' = 0 /\ got' = <<>>
         /\ failed' \in BOOLEAN /\ (failed' <=> failed \/ d = Failed)
BY Zenon DEF Return
-----------------------------------------------------------------------------
(* The initial states satisfy everything.                                  *)
LEMMA DiskStart ==
  ASSUME DiskInit
  PROVE  DiskInv
<1>1. DiskTypeOK
  <2>1. SectorsOK
    BY DEF DiskInit, SectorsOK
  <2>2. order \in [op : Ops, lba : Int]
    BY DEF DiskInit, NoOrder, Ops
  <2>3. QED
    BY <2>1, <2>2 DEF DiskInit, DiskTypeOK
<1>2. CallInv
  BY DEF DiskInit, CallInv, Booting, AhciPoints, AtaPoints
<1>3. AhciInv
  BY DEF DiskInit, AhciInv, SlotInv, FailureInv, TransferInv, AhciPoints
<1>4. AtaInv
  BY DEF DiskInit, AtaInv, WordsInv, AtPoint, PioInv, Settled
<1>5. QED
  BY <1>1, <1>2, <1>3, <1>4 DEF DiskInv

(* Every address fits the registers, so none is cut off.                   *)
LEMMA AddressedWhole ==
  ASSUME WithinLba28, NEW s \in Sectors
  PROVE  Addressed(s) = s
<1>1. s \in 0 .. AtaSectors - 1 /\ NumSectors \in Nat
  BY DriveAssumption, AtaAssumption DEF WithinLba28, Sectors
<1>2. QED
  BY <1>1, AtaAssumption DEF Addressed

(* A driver is within its call, and the calls of the file systems and the  *)
(* drivers are what CallFacts says.                                        *)
LEMMA InCall ==
  ASSUME DiskTypeOK, CallInv, pc # "idle"
  PROVE  /\ call \in Calls \cup {IdentifyCall}
         /\ call.op \in Ops \ {"none"}
         /\ call.lba \in Nat /\ call.count \in Nat
         /\ call.op = "flush" <=> call.count = 0
         /\ call.op \in {"read", "write"} =>
              \A i \in 1 .. call.count : call.lba + i - 1 \in Sectors
         /\ call.op = "write" => call.data \in [1 .. call.count -> Values]
         /\ call.op = "identify" <=> Booting
         /\ call.op = "identify" => call.count = 1
         /\ call.op \in {"read", "write"} => call.count \in 1 .. NumSectors
         /\ call.op \in {"read", "write"} /\ done < call.count =>
              call.lba + done \in Sectors
         /\ call.op = "write" /\ done < call.count => call.data[done + 1] \in Values
<1>1. call \in Calls \cup {IdentifyCall}
  BY DEF CallInv
<1>2. call = IdentifyCall <=> Booting
  BY MarksAssumption, CallFacts DEF CallInv
<1>3. ASSUME done < call.count
      PROVE  done + 1 \in 1 .. call.count /\ call.lba + (done + 1) - 1 = call.lba + done
  BY <1>1, <1>3, CallFacts DEF DiskTypeOK
<1>4. QED
  BY <1>1, <1>2, <1>3, CallFacts

LEMMA DiskTypeStep ==
  ASSUME Lawful(machine), DiskInv, [DiskNext]_vars
  PROVE  DiskTypeOK'
<1> USE DEF DiskTypeOK, DiskInv
<1>0. UNCHANGED <<platter, cache>> => SectorsOK'
  BY DEF SectorsOK
<1>1. pc # "idle" =>
        /\ call.op \in Ops /\ call.lba \in Nat
        /\ call.op = "write" => call.data \in [1 .. call.count -> Values]
  BY InCall, Zenon DEF Ops
<1>2. CASE StartAhci
  BY <1>0, <1>2 DEF StartAhci, AhciPoints, driveVars
<1>3. CASE AhciIdentified
  BY <1>0, <1>3 DEF AhciIdentified, driveVars
<1>4. CASE StartAta
  BY <1>0, <1>4 DEF StartAta, AtaPoints, Ops, ahciVars
<1>5. CASE AtaIdentified
  BY ZenonT(60), <1>0, <1>5 DEF AtaIdentified, driveVars, ahciVars
<1>6. ASSUME NEW c \in Calls, Dispatch(c), UNCHANGED <<machine, active_driver, present>>,
             phase' \in {phase, "flush"}
      PROVE  DiskTypeOK'
  BY <1>0, <1>6 DEF Dispatch, AhciStart, AtaStart, AhciPoints, AtaPoints, driveVars, ahciVars
<1>7. CASE Call
  BY <1>6, <1>7 DEF Call, diskVars
<1>8. CASE Teardown
  BY <1>0, <1>6, <1>8 DEF Teardown, driveVars, callVars, ahciVars
<1>9. CASE DriverStep
  <2>1. CASE AhciStep /\ UNCHANGED <<ataVars, diskVars>>
    <3> USE <2>1 DEF ahciVars, diskVars, driveVars, AhciPoints
    <3>1. CASE NotBusy
      BY <1>0, <3>1 DEF NotBusy
    <3>2. CASE SlotFree
      BY <1>0, <1>1, <3>2 DEF SlotFree
    <3>3. CASE PollDone
      BY <1>0, <3>3, Returned DEF PollDone
    <3>4. CASE PollError \/ GiveUp
      BY <1>0, <3>4, Returned DEF PollError, GiveUp
    <3>5. QED
      BY <2>1, <3>1, <3>2, <3>3, <3>4 DEF AhciStep
  <2>2. CASE AtaStep /\ UNCHANGED <<ahciVars, diskVars>>
    <3> USE <2>2 DEF ahciVars, diskVars, driveVars, AtaPoints
    <3>1. CASE WaitBsy
      BY <1>0, <1>1, <3>1, AtaAssumption DEF WaitBsy, Addressed
    <3>2. CASE NoDrq
      BY <1>0, <3>2, Returned DEF NoDrq
    <3>6. CASE LastBsy
      <4>1. Return(<<>>) /\ unheeded' \in BOOLEAN /\ UNCHANGED <<driveVars, words>>
        BY <3>6 DEF LastBsy
      <4>2. SectorsOK' /\ UNCHANGED <<status, order, words>>
        BY <1>0, <4>1
      <4>3. QED
        BY <4>1, <4>2, Returned
    <3>3. CASE DataIn
      BY <1>0, <3>3, Returned DEF DataIn
    <3>4. CASE DataOut
      <4>1. call.data[done + 1] \in Values /\ Addressed(call.lba + done) \in Int
        <5>1. machine = "ide" /\ done + 1 \in 1 .. call.count
          BY <3>4, InCall DEF DataOut, CallInv, AtaInv, AtPoint
        <5>2. call.lba + done \in Sectors /\ call.data[done + 1] \in Values
          BY <3>4, <5>1, InCall DEF DataOut, AtaPoints
        <5>3. QED
          BY <5>1, <5>2, AddressedWhole DEF Sectors, Lawful
      <4>2. order' \in [op : Ops, lba : Int]
        BY <3>4, <4>1 DEF DataOut
      <4>3. QED
        BY <1>0, <3>4, <4>1, <4>2 DEF DataOut
    <3>5. CASE SendFlush
      BY <1>0, <3>5 DEF SendFlush, Ops
    <3>7. QED
      BY <2>2, <3>1, <3>2, <3>3, <3>4, <3>5, <3>6 DEF AtaStep
  <2>3. QED
    BY <1>9, <2>1, <2>2 DEF DriverStep
<1>10. CASE DeviceStep
  <2> USE <1>10 DEF diskVars
  <2>1. ASSUME Refuse \/ Hang \/ Revive,
               UNCHANGED <<call, pc, done, failed, ci, g_ready>>,
               words' = words \/ words' = <<>>, unheeded' \in BOOLEAN
        PROVE  DiskTypeOK'
    BY <1>0, <2>1 DEF Refuse, Hang, Revive, DeviceStep
  <2>2. CASE OnAhci /\ AhciDevice /\ UNCHANGED ataVars
    <3>1. CASE Complete
      <4>1. SectorsOK'
        <5>1. OnAhci /\ SlotInv /\ TransferInv
          BY <2>2 DEF AhciInv
        <5>2. pc = "poll" /\ order.op = call.op /\ order.lba = call.lba + done
          BY <3>1, <5>1 DEF Complete, SlotInv, TransferInv, AhciPoints
        <5>3. CASE call.op = "write"
          <6>1. order.lba \in Sectors /\ g_buf \in Values
            BY <5>1, <5>2, <5>3, InCall DEF TransferInv, AhciPoints
          <6>2. QED
            BY <3>1, <5>2, <5>3, <6>1, AcceptStores DEF Complete
        <5>4. CASE call.op = "flush"
          BY <3>1, <5>2, <5>4, FlushStores DEF Complete
        <5>5. CASE call.op \notin {"write", "flush"}
          BY <1>0, <3>1, <5>2, <5>5 DEF Complete
        <5>6. QED
          BY <5>3, <5>4, <5>5
      <4>2. QED
        BY ZenonT(60), <2>2, <3>1, <4>1 DEF AhciDevice, Complete, callVars, DeviceStep
    <3>2. CASE (Refuse \/ Hang \/ Revive) /\ UNCHANGED ahciVars
      BY <2>1, <2>2, <3>2 DEF AhciDevice, ahciVars, callVars
    <3>3. QED
      BY <2>2, <3>1, <3>2 DEF AhciDevice
  <2>3. CASE machine = "ide" /\ AtaDevice /\ UNCHANGED ahciVars
    <3>1. CASE Store
      <4>1. SectorsOK'
        <5>1. machine = "ide" /\ WordsInv
          BY <2>3 DEF AtaInv
        <5>2. order.lba \in Sectors /\ words[1] \in Values
          BY <2>3, <3>1, <5>1, InCall, AddressedWhole DEF WordsInv, Store, Lawful
        <5>3. QED
          BY <1>0, <3>1, <5>2, AcceptStores DEF Store
      <4>2. QED
        BY <2>3, <3>1, <4>1 DEF AtaDevice, Store, callVars, ahciVars, DeviceStep
    <3>2. CASE Offer
      BY <1>0, <2>3, <3>2 DEF AtaDevice, Offer, callVars, ahciVars, DeviceStep
    <3>3. CASE Flush
      BY FlushStores, <2>3, <3>3 DEF AtaDevice, Flush, callVars, ahciVars, DeviceStep
    <3>4. CASE RefuseSector \/ ((Hang \/ Revive) /\ UNCHANGED ataVars)
      BY <2>1, <2>3, <3>4 DEF AtaDevice, RefuseSector, callVars, ahciVars
    <3>5. QED
      BY <2>3, <3>1, <3>2, <3>3, <3>4 DEF AtaDevice
  <2>4. QED
    BY <2>2, <2>3 DEF DeviceStep
<1>11. CASE WriteBack
  <2>1. SectorsOK'
    BY <1>11, DestageStores DEF WriteBack
  <2>2. UNCHANGED <<status, order>>
    BY <1>11 DEF WriteBack, Destage
  <2>3. QED
    BY <1>11, <2>1, <2>2 DEF WriteBack, callVars, ahciVars, diskVars
<1>12. CASE StopBlock
  BY ZenonT(60), <1>0, <1>12 DEF StopBlock, driveVars, callVars
<1>13. CASE Reboot
  BY <1>0, <1>13 DEF Reboot, Reset, driveVars
<1>14. CASE PowerLost
  <2>1. SectorsOK'
    BY <1>14, PowerLostStores DEF PowerLost
  <2>2. order' \in [op : Ops, lba : Int]
    BY <1>14 DEF PowerLost, NoOrder, Ops
  <2>3. QED
    BY <1>14, <2>1, <2>2 DEF PowerLost, Reset
<1>15. CASE UNCHANGED vars
  BY <1>0, <1>15 DEF vars, driveVars, callVars, ahciVars, diskVars
<1>16. QED
  BY <1>2, <1>3, <1>4, <1>5, <1>7, <1>8, <1>9, <1>10, <1>11, <1>12, <1>13, <1>14, <1>15
     DEF DiskNext

LEMMA CallStep ==
  ASSUME DiskInv, [DiskNext]_vars
  PROVE  CallInv'
<1> USE DEF DiskTypeOK, DiskInv, CallInv, Booting, AhciPoints, AtaPoints
<1>1. CASE StartAhci
  BY <1>1 DEF StartAhci
<1>2. CASE AhciIdentified
  BY <1>2 DEF AhciIdentified, Idle
<1>3. CASE StartAta
  BY <1>3, MachineAssumption DEF StartAta, Idle, AllMachines, ahciVars
<1>4. CASE AtaIdentified
  BY <1>4 DEF AtaIdentified, Idle, AtaInv
<1>5. ASSUME NEW c \in Calls, Dispatch(c), phase = "up", phase' \in {phase, "flush"},
             UNCHANGED <<machine, active_driver, present>>
      PROVE  CallInv'
  BY <1>5 DEF Dispatch, AhciStart, AtaStart, Idle
<1>6. CASE Call
  BY <1>5, <1>6 DEF Call, diskVars
<1>7. CASE Teardown
  BY <1>5, <1>7 DEF Teardown, Idle, callVars
<1>8. CASE DriverStep
  <2>1. CASE AhciStep /\ UNCHANGED diskVars
    BY <2>1, Returned DEF AhciStep, NotBusy, SlotFree, PollError, PollDone, GiveUp, diskVars
  <2>2. CASE AtaStep /\ UNCHANGED diskVars
    BY <2>2, Returned
       DEF AtaStep, WaitBsy, NoDrq, DataIn, DataOut, SendFlush, LastBsy, diskVars
  <2>3. QED
    BY <1>8, <2>1, <2>2 DEF DriverStep
<1>9. CASE DeviceStep \/ WriteBack \/ UNCHANGED vars
  <2>1. UNCHANGED <<callVars, diskVars>>
    BY <1>9 DEF DeviceStep, AhciDevice, AtaDevice, WriteBack, vars
  <2>2. QED
    BY <2>1 DEF callVars, diskVars
<1>10. CASE StopBlock
  BY <1>10 DEF StopBlock, callVars, Idle
<1>11. CASE Reboot \/ PowerLost
  BY <1>11 DEF Reboot, PowerLost, Reset
<1>12. QED
  BY <1>1, <1>2, <1>3, <1>4, <1>6, <1>7, <1>8, <1>9, <1>10, <1>11 DEF DiskNext

(* The adapter's slot and the transfer it serves: what the machine does    *)
(* around the calls, ...                                                   *)
LEMMA AhciAroundStep ==
  ASSUME DiskInv, OnAhci,
         \/ StartAhci \/ AhciIdentified \/ StartAta \/ AtaIdentified \/ Call \/ Teardown
         \/ StopBlock \/ Reboot \/ PowerLost
  PROVE  AhciInv'
<1> USE DEF DiskTypeOK, DiskInv, CallInv, Booting, AhciPoints, AtaPoints
<1> SUFFICES SlotInv' /\ FailureInv' /\ TransferInv'
  BY DEF AhciInv
<1>1. CASE StartAhci
  <2> USE <1>1 DEF StartAhci, driveVars
  <2>1. SlotInv'
    BY DEF SlotInv, AhciInv
  <2>2. FailureInv'
    BY DEF FailureInv, AhciInv
  <2>3. TransferInv'
    BY DEF TransferInv, AhciInv, IdentifyCall, SlotInv, ReadSoFar, WrittenSoFar
  <2>4. QED
    BY <2>1, <2>2, <2>3
<1>2. CASE AhciIdentified
  BY <1>2 DEF AhciIdentified, Idle, AhciInv, SlotInv, FailureInv, TransferInv, driveVars
<1>3. CASE StartAta
  BY <1>3 DEF StartAta, Idle, ahciVars, AhciInv, SlotInv, FailureInv, TransferInv
<1>4. ASSUME NEW c \in Calls, Dispatch(c), phase = "up", phase' \in {phase, "flush"},
             UNCHANGED <<machine, active_driver, present>>
      PROVE  SlotInv' /\ FailureInv' /\ TransferInv'
  <2> USE <1>4 DEF Dispatch, AhciStart, Idle, driveVars
  <2>1. SlotInv'
    BY DEF SlotInv, AhciInv
  <2>2. FailureInv'
    BY DEF FailureInv, AhciInv
  <2>3. TransferInv'
    <3>1. got' = <<>> /\ done' = 0 /\ call' = c /\ pc' = "not_busy" /\ status' # "busy"
      BY DEF AhciInv, SlotInv
    <3>2. ReadSoFar' /\ WrittenSoFar(done)'
      BY <3>1, NothingRead DEF ReadSoFar, WrittenSoFar
    <3>3. 0 < c.count \/ c.op = "flush"
      BY CallFacts
    <3>4. QED
      BY <3>1, <3>2, <3>3 DEF TransferInv, Prepare
  <2>4. QED
    BY <2>1, <2>2, <2>3
<1>5. CASE Call
  BY <1>4, <1>5 DEF Call, diskVars
<1>6. CASE Teardown
  BY <1>4, <1>6 DEF Teardown, Idle, callVars, driveVars, ahciVars, AhciInv, SlotInv, FailureInv,
     TransferInv
<1>7. CASE StopBlock
  BY <1>7 DEF StopBlock, driveVars, callVars, Idle, AhciInv, SlotInv, FailureInv, TransferInv
<1>8. CASE Reboot
  BY <1>8 DEF Reboot, Reset, driveVars, Idle, AhciInv, SlotInv, FailureInv, TransferInv
<1>9. CASE PowerLost
  BY <1>9 DEF PowerLost, Reset, AhciInv, SlotInv, FailureInv, TransferInv
<1>10. QED
  BY <1>1, <1>2, <1>3, <1>5, <1>6, <1>7, <1>8, <1>9 DEF AtaIdentified, Idle

(* ... what the driver does, ...                                           *)
LEMMA AhciDriverStep ==
  ASSUME DiskInv, OnAhci, AhciStep, UNCHANGED diskVars
  PROVE  AhciInv'
<1> USE DEF DiskInv, AhciPoints, AtaPoints, diskVars, driveVars, ahciVars
<1> SUFFICES SlotInv' /\ FailureInv' /\ TransferInv'
  BY DEF AhciInv
<1>0. /\ SlotInv /\ FailureInv /\ TransferInv
      /\ pc \in AhciPoints /\ status \in {"ready", "busy", "error", "hung"}
      /\ \/ phase = "ahci_init" /\ active_driver = "NONE"
         \/ phase \in {"up", "flush"} /\ active_driver = "AHCI"
  <2>1. pc \in AhciPoints
    BY DEF AhciStep, NotBusy, SlotFree, PollError, PollDone, GiveUp
  <2>2. QED
    BY <2>1 DEF AhciInv, CallInv, Booting, DiskTypeOK, SlotInv
<1>1. UNCHANGED <<platter, cache>>  =>  Stored' = Stored
  BY DEF Stored
<1>2. CASE NotBusy
  BY <1>0, <1>1, <1>2 DEF NotBusy, Busy, SlotInv, FailureInv, TransferInv, SectorDone,
     ReadSoFar, WrittenSoFar
<1>3. CASE SlotFree
  BY <1>0, <1>1, <1>3 DEF SlotFree, SlotInv, FailureInv, TransferInv, SectorDone,
     ReadSoFar, WrittenSoFar
<1>4. CASE PollError \/ GiveUp
  <2>1. /\ answer' = Failed /\ pc' = "idle" /\ UNCHANGED <<status, ci, phase, active_driver>>
        /\ status \in {"error", "hung"}
    BY <1>0, <1>4, Returned DEF PollError, GiveUp, SlotInv
  <2>2. active_driver = "AHCI" => ci
    BY <1>0, <2>1, <1>4 DEF PollError, GiveUp, SlotInv
  <2>3. QED
    BY <1>0, <2>1, <2>2 DEF SlotInv, FailureInv, TransferInv
<1>5. CASE PollDone
  <2>1. status = "ready" /\ ~ci /\ ~failed /\ SectorDone /\ pc = "poll"
    BY <1>0, <1>5 DEF PollDone, SlotInv, FailureInv, TransferInv, CallInv, Booting
  <2> DEFINE n == done + 1
             read == IF call.op = "read" THEN Append(got, g_buf) ELSE got
  <2>2. /\ done \in Nat /\ call.count \in Nat /\ call.lba \in Nat
        /\ call.op = "flush" \/ n <= call.count
    BY <1>0, InCall DEF DiskTypeOK, TransferInv
  <2>3. read = IF call.op = "read" THEN [i \in 1 .. n |-> Stored[call.lba + i - 1]] ELSE <<>>
    <3>1. Append([i \in 1 .. done |-> Stored[call.lba + i - 1]], Stored[call.lba + done]) =
            [i \in 1 .. done + 1 |-> Stored[call.lba + i - 1]]
      BY <2>2, ReadOneMore
    <3>2. QED
      BY <1>0, <2>1, <3>1 DEF TransferInv, ReadSoFar, SectorDone
  <2>4. CASE n >= call.count
    <3>1. Return(read) /\ UNCHANGED <<status, ci>>
      BY <1>5, <2>4 DEF PollDone
    <3>2. read # Failed
      <4>1. <<>> # Failed
        BY NoDataAnswers
      <4>2. CASE call.op = "read"
        <5>1. n = call.count /\ n \in 0 .. NumSectors
          BY <2>1, <2>2, <2>4, <4>2, InCall
        <5>2. \A i \in 1 .. n : call.lba + i - 1 \in Sectors
          BY <2>1, <4>2, <5>1, InCall
        <5>3. Stored \in [Sectors -> Values]
          BY StoredType DEF DiskTypeOK
        <5>4. [i \in 1 .. n |-> Stored[call.lba + i - 1]] # Failed
          BY <2>2, <5>1, <5>2, <5>3, ReadAnswers
        <5>5. QED
          BY <2>3, <4>2, <5>4
      <4>3. QED
        BY <2>3, <4>1, <4>2
    <3>3. QED
      BY <1>0, <2>1, <3>1, <3>2, Returned DEF SlotInv, FailureInv, TransferInv
  <2>5. CASE ~(n >= call.count)
    <3>1. /\ done' = n /\ pc' = "not_busy" /\ got' = read /\ Prepare(call, done + 2)
          /\ UNCHANGED <<call, failed, status, ci>> /\ Stored' = Stored
      BY <1>1, <1>5, <2>5 DEF PollDone
    <3>2. ReadSoFar'
      BY <2>3, <3>1 DEF ReadSoFar
    <3>3. WrittenSoFar(done)'
      <4>1. ASSUME NEW i \in 1 .. n, call.op = "write"
            PROVE  Stored[call.lba + i - 1] = call.data[i]
        <5>1. CASE i = n
          BY <2>1, <2>2, <4>1, <5>1 DEF SectorDone
        <5>2. CASE i # n
          BY <1>0, <2>1, <2>2, <4>1, <5>2 DEF TransferInv, WrittenSoFar
        <5>3. QED
          BY <5>1, <5>2
      <4>2. QED
        BY <3>1, <4>1 DEF WrittenSoFar
    <3>4. SlotInv' /\ FailureInv'
      BY <1>0, <2>1, <3>1 DEF SlotInv, FailureInv
    <3>5. QED
      BY <2>1, <2>2, <2>5, <3>1, <3>2, <3>3, <3>4 DEF TransferInv, Prepare
  <2>6. QED
    BY <2>4, <2>5
<1>6. QED
  BY <1>2, <1>3, <1>4, <1>5 DEF AhciStep

(* ... and what the drive does.                                            *)
LEMMA AhciDeviceStep ==
  ASSUME NeverLate, DiskInv, OnAhci, DeviceStep \/ WriteBack
  PROVE  AhciInv'
<1> USE DEF DiskInv, AhciPoints
<1> SUFFICES SlotInv' /\ FailureInv' /\ TransferInv'
  BY DEF AhciInv
<1>0. SlotInv /\ FailureInv /\ TransferInv /\ (pc \in {"idle", "floating"} \cup AhciPoints)
  BY DEF AhciInv, CallInv, DiskTypeOK
<1>1. CASE WriteBack
  <2>1. Stored' = Stored /\ cache # <<>>
    BY <1>1, DestageStores DEF WriteBack, DiskTypeOK
  <2>2. UNCHANGED <<status, order, callVars, ahciVars, diskVars>>
    BY <1>1 DEF WriteBack, Destage
  <2>3. QED
    BY <1>0, <2>1, <2>2 DEF SlotInv, FailureInv, TransferInv, SectorDone, ReadSoFar,
       WrittenSoFar, callVars, ahciVars, diskVars
<1>2. CASE Complete /\ UNCHANGED <<callVars, diskVars>>
  <2>1. /\ pc = "poll" /\ pc' = pc /\ status' = "ready" /\ ci' = FALSE
        /\ active_driver = "AHCI" => ~failed
        /\ UNCHANGED <<call, pc, done, got, answer, failed, active_driver, phase>>
        /\ order = [op |-> call.op, lba |-> call.lba + done]
    BY <1>0, <1>2 DEF Complete, SlotInv, TransferInv, FailureInv, callVars, diskVars
  <2>2. SlotInv' /\ FailureInv'
    BY <1>0, <2>1 DEF SlotInv, FailureInv
  <2>3. CASE call.op = "write"
    <3>1. call.lba + done \in Sectors /\ g_buf \in Values /\ g_buf = call.data[done + 1]
      BY <1>0, <2>1, <2>3, InCall DEF TransferInv
    <3>2. Stored' = [Stored EXCEPT ![call.lba + done] = call.data[done + 1]] /\ g_buf' = g_buf
      BY <1>2, <2>1, <2>3, <3>1, AcceptStores DEF Complete, DiskTypeOK
    <3>3. WrittenSoFar(done)' /\ SectorDone'
      <4>1. ASSUME NEW i \in 1 .. done
            PROVE  Stored'[call.lba + i - 1] = call.data[i]
        <5>1. Stored[call.lba + i - 1] = call.data[i]
          BY <1>0, <2>1, <2>3 DEF TransferInv, WrittenSoFar
        <5>2. call.lba \in Nat /\ done \in Nat /\ done < call.count /\ call.count \in Nat
          BY <1>0, <2>1, <2>3, InCall DEF TransferInv, DiskTypeOK
        <5>3. call.lba + i - 1 \in Sectors /\ call.lba + i - 1 # call.lba + done
          <6>1. i \in 1 .. call.count
            BY <5>2
          <6>2. QED
            BY <2>1, <2>3, <5>2, <6>1, InCall
        <5>4. QED
          BY <3>2, <5>1, <5>3, StoredType DEF DiskTypeOK
      <4>2. Stored'[call.lba + done] = call.data[done + 1]
        BY <3>1, <3>2, StoredType DEF DiskTypeOK
      <4>3. QED
        BY <2>1, <2>3, <4>1, <4>2 DEF WrittenSoFar, SectorDone
    <3>4. QED
      BY <1>0, <2>1, <2>2, <2>3, <3>1, <3>2, <3>3 DEF TransferInv, ReadSoFar
  <2>4. CASE call.op = "flush"
    <3>1. Stored' = Stored /\ cache' = <<>>
      BY <1>2, <2>1, <2>4, FlushStores DEF Complete, DiskTypeOK, FlushCache
    <3>2. QED
      BY <1>0, <2>1, <2>2, <2>4, <3>1 DEF TransferInv, SectorDone, ReadSoFar, WrittenSoFar
  <2>5. CASE call.op \notin {"write", "flush"}
    <3>1. Stored' = Stored /\ (call.op = "read" => g_buf' = Stored[call.lba + done])
      BY <1>2, <2>1, <2>5 DEF Complete, Stored
    <3>2. QED
      BY <1>0, <2>1, <2>2, <2>5, <3>1 DEF TransferInv, SectorDone, ReadSoFar, WrittenSoFar
  <2>6. QED
    BY <2>3, <2>4, <2>5
<1>3. CASE (Refuse \/ Hang) /\ UNCHANGED <<callVars, ahciVars, diskVars>>
  <2>1. Stored' = Stored
    BY <1>3 DEF Refuse, Hang, Stored
  <2>2. QED
    BY <1>0, <1>3, <2>1 DEF Refuse, Hang, SlotInv, FailureInv, TransferInv, SectorDone,
       ReadSoFar, WrittenSoFar, callVars, ahciVars, diskVars
<1>4. QED
  BY <1>1, <1>2, <1>3 DEF DeviceStep, AhciDevice, Revive, NeverLate
-----------------------------------------------------------------------------
(* The legacy drive and the words the driver moves: what the machine does  *)
(* around the calls, ...                                                   *)
LEMMA AtaAroundStep ==
  ASSUME DiskInv, machine = "ide",
         \/ StartAhci \/ AhciIdentified \/ StartAta \/ AtaIdentified \/ Call \/ Teardown
         \/ StopBlock \/ Reboot \/ PowerLost
  PROVE  AtaInv'
<1> USE DEF DiskInv, CallInv, Booting, AhciPoints, AtaPoints
<1>0. WordsInv /\ AtPoint /\ PioInv
  BY DEF AtaInv
<1>1. ASSUME Idle, machine' = machine, pc' = "idle", UNCHANGED <<status, ataVars>>
      PROVE  AtaInv'
  BY <1>0, <1>1 DEF AtaInv, WordsInv, AtPoint, PioInv, Settled, Idle
<1>2. CASE AtaIdentified \/ StopBlock \/ Reboot
  <2>1. pc' = "idle"
    BY <1>2 DEF AtaIdentified, StopBlock, Reboot, Reset, Idle, callVars
  <2>2. QED
    BY <1>1, <1>2, <2>1, Zenon DEF AtaIdentified, StopBlock, Reboot, Reset, driveVars
<1>3. CASE StartAta
  <2>1. phase = "off" /\ pc = "idle"
    BY <1>3 DEF StartAta
  <2>2. /\ order' = [op |-> "identify", lba |-> 0] /\ status' = "busy"
        /\ call' = IdentifyCall /\ pc' = "wait_drq" /\ done' = 0 /\ got' = <<>>
        /\ words' = <<>> /\ ~unheeded' /\ machine' = "ide"
    BY <1>0, <1>3, <2>1 DEF StartAta, AtPoint
  <2>3. QED
    BY <2>2 DEF AtaInv, WordsInv, AtPoint, PioInv, Settled, ReadSoFar, WrittenSoFar, IdentifyCall
<1>4. ASSUME NEW c \in Calls, Dispatch(c), UNCHANGED machine
      PROVE  AtaInv'
  <2>1. /\ call' = c /\ pc' = IF c.op = "flush" THEN "cache_flush" ELSE "wait_bsy"
        /\ done' = 0 /\ got' = <<>> /\ words' = <<>> /\ status' \in {"ready", "error"}
        /\ ~unheeded'
    BY <1>0, <1>4 DEF Dispatch, AtaStart, Idle, AtPoint, driveVars
  <2>2. ReadSoFar' /\ WrittenSoFar(done)' /\ WrittenSoFar(done - 1)'
    BY <2>1, NothingRead DEF ReadSoFar, WrittenSoFar
  <2>3. QED
    BY <1>4, <2>1, <2>2 DEF AtaInv, WordsInv, AtPoint, PioInv, Settled
<1>5. CASE Call
  BY <1>4, <1>5 DEF Call, diskVars
<1>6. CASE Teardown
  BY <1>1, <1>4, <1>6 DEF Teardown, Idle, callVars, driveVars
<1>7. CASE PowerLost
  BY <1>7 DEF PowerLost, Reset, AtaInv, WordsInv, AtPoint, PioInv, Settled
<1>8. QED
  BY <1>2, <1>3, <1>5, <1>6, <1>7 DEF StartAhci, AhciIdentified

(* ... what the driver does, ...                                           *)
LEMMA AtaDriverStep ==
  ASSUME WithinLba28, DiskInv, machine = "ide", AtaStep, UNCHANGED diskVars
  PROVE  AtaInv'
<1> USE DEF DiskInv, AtaPoints, diskVars, driveVars
<1> SUFFICES WordsInv' /\ AtPoint' /\ PioInv'
  BY DEF AtaInv
<1>0. WordsInv /\ AtPoint /\ PioInv /\ status \in {"ready", "busy", "data", "error", "hung"}
  BY DEF AtaInv, DiskTypeOK
<1>1. UNCHANGED <<platter, cache>>  =>  Stored' = Stored
  BY DEF Stored
<1>2. CASE WaitBsy
  <2>1. /\ words = <<>> /\ done = 0 /\ call.op # "flush" /\ call.count > 0
    BY <1>0, <1>2, InCall DEF WaitBsy, AtPoint
  <2>2. QED
    BY <1>0, <1>1, <1>2, <2>1
       DEF WaitBsy, WordsInv, AtPoint, PioInv, Settled, ReadSoFar, WrittenSoFar
<1>3. CASE NoDrq \/ LastBsy
  <2>1. /\ pc' = "idle" /\ UNCHANGED <<status, words>> /\ ~Busy /\ status # "data"
        /\ ~unheeded'
    BY <1>0, <1>3, Returned DEF NoDrq, LastBsy, AtPoint, Busy
  <2>2. QED
    BY <1>0, <2>1 DEF WordsInv, AtPoint, PioInv, Settled, Busy
<1>4. CASE DataIn
  <2>1. words = <<>> /\ pc = "wait_drq" /\ done < call.count /\ call.op \notin {"write", "flush"}
    BY <1>0, <1>4 DEF DataIn, WordsInv, AtPoint
  <2>2. CASE done + 1 = call.count
    <3>1. pc' = "idle" /\ status' = "ready" /\ words' = <<>> /\ ~unheeded'
      BY <1>0, <1>4, <2>1, <2>2, Returned DEF DataIn, AtPoint
    <3>2. QED
      BY <3>1 DEF WordsInv, AtPoint, PioInv
  <2>3. CASE done + 1 # call.count
    <3>1. /\ call.op = "read" /\ done \in Nat /\ call.count \in Nat /\ call.lba \in Nat
          /\ call.lba + done \in Sectors
      BY <2>1, <2>3, InCall DEF DiskTypeOK, Ops
    <3>2. /\ got' = Append(got, Stored[call.lba + done]) /\ done' = done + 1 /\ status' = "busy"
          /\ words' = words /\ order' = order /\ Stored' = Stored
          /\ UNCHANGED <<call, pc, unheeded>>
      BY <1>1, <1>4, <2>3, <3>1, AddressedWhole DEF DataIn
    <3>3. ReadSoFar
      BY <1>0, <2>1 DEF PioInv, Settled
    <3>4. Append([i \in 1 .. done |-> Stored[call.lba + i - 1]], Stored[call.lba + done]) =
            [i \in 1 .. done + 1 |-> Stored[call.lba + i - 1]]
      BY <3>1, ReadOneMore
    <3>5. ReadSoFar'
      BY <2>1, <3>1, <3>2, <3>3, <3>4 DEF ReadSoFar
    <3>6. QED
      BY <1>0, <2>1, <2>3, <3>1, <3>2, <3>5 DEF WordsInv, AtPoint, PioInv, WrittenSoFar
  <2>4. QED
    BY <2>2, <2>3
<1>5. CASE DataOut
  <2>1. /\ words = <<>> /\ pc = "wait_drq" /\ done < call.count /\ call.op = "write"
        /\ order.op = "write" /\ ReadSoFar /\ WrittenSoFar(done) /\ ~unheeded
        /\ done \in Nat /\ call.count \in Nat /\ done + 1 - 1 = done
    BY <1>0, <1>5, InCall DEF DataOut, WordsInv, AtPoint, PioInv, Settled, DiskTypeOK
  <2>2. /\ words' = <<call.data[done + 1]>> /\ status' = "busy" /\ done' = done + 1
        /\ order' = [op |-> "write", lba |-> Addressed(call.lba + done)]
        /\ pc' = IF done' = call.count THEN "cache_flush" ELSE "wait_drq"
        /\ Stored' = Stored /\ UNCHANGED <<call, got>> /\ ~unheeded'
    BY <1>0, <1>1, <1>5, <2>1 DEF DataOut, DiskTypeOK, AtPoint
  <2>3. words' # <<>> /\ done' - 1 = done
    BY <2>1, <2>2
  <2>4. ReadSoFar'
    BY <2>1, <2>2 DEF ReadSoFar
  <2>5. WrittenSoFar(done - 1)'
    BY <2>1, <2>2, <2>3 DEF WrittenSoFar
  <2>6. WordsInv'
    BY <2>1, <2>2, <2>3 DEF WordsInv
  <2>7. QED
    BY <2>1, <2>2, <2>3, <2>4, <2>5, <2>6 DEF AtPoint, PioInv, Settled
<1>6. CASE SendFlush
  <2>1. CASE Busy
    BY <1>0, <1>1, <1>6, <2>1
       DEF SendFlush, WordsInv, AtPoint, PioInv, Settled, ReadSoFar, WrittenSoFar, Busy
  <2>2. CASE ~Busy
    BY <1>0, <1>1, <1>6, <2>2
       DEF SendFlush, WordsInv, AtPoint, PioInv, Settled, ReadSoFar, WrittenSoFar, Busy
  <2>3. QED
    BY <2>1, <2>2
<1>7. QED
  BY <1>2, <1>3, <1>4, <1>5, <1>6 DEF AtaStep

(* ... and what the drive does.                                            *)
LEMMA AtaDeviceStep ==
  ASSUME WithinLba28, DiskInv, machine = "ide", DeviceStep \/ WriteBack
  PROVE  AtaInv'
<1> USE DEF DiskInv, AtaPoints
<1> SUFFICES WordsInv' /\ AtPoint' /\ PioInv'
  BY DEF AtaInv, DeviceStep, WriteBack, diskVars
<1>0. /\ WordsInv /\ AtPoint /\ PioInv /\ pc \in AtaPoints \cup {"idle"}
      /\ status \in {"ready", "busy", "data", "error", "hung"}
  BY DEF AtaInv, DiskTypeOK, CallInv, AhciPoints
<1>1. UNCHANGED <<platter, cache>>  =>  Stored' = Stored
  BY DEF Stored
<1>2. CASE WriteBack
  <2>1. Stored' = Stored /\ cache # <<>>
    BY <1>2, DestageStores DEF WriteBack, DiskTypeOK
  <2>2. UNCHANGED <<status, order, callVars, ataVars>>
    BY <1>2 DEF WriteBack, Destage
  <2>3. QED
    BY <1>0, <2>1, <2>2 DEF WordsInv, AtPoint, PioInv, Settled, ReadSoFar, WrittenSoFar, callVars
<1>3. CASE Store /\ UNCHANGED callVars
  <2>1. /\ call.op = "write" /\ done \in 1 .. call.count /\ call.count \in Nat
        /\ call.lba + done - 1 \in Sectors /\ call.data[done] \in Values /\ call.lba \in Nat
        /\ words = <<call.data[done]>> /\ order.op = "write"
        /\ order.lba = call.lba + done - 1 /\ pc # "idle" /\ pc # "wait_bsy"
        /\ pc \in {"cache_flush", "last_bsy"} => done = call.count
    BY <1>0, <1>3, InCall, AddressedWhole DEF Store, WordsInv, AtPoint
  <2>2. Stored' = [Stored EXCEPT ![call.lba + done - 1] = call.data[done]]
    BY <1>3, <2>1, AcceptStores DEF Store, DiskTypeOK
  <2>3. /\ words' = <<>> /\ status' = IF done < call.count THEN "data" ELSE "ready"
        /\ UNCHANGED <<call, pc, done, got, order, unheeded>>
    BY <1>3 DEF Store, callVars
  <2>4. ReadSoFar'
    BY <1>0, <2>1, <2>3 DEF PioInv, Settled, ReadSoFar
  <2>5. WrittenSoFar(done)'
    <3>1. ASSUME NEW i \in 1 .. done
          PROVE  Stored'[call.lba + i - 1] = call.data[i]
      <4>1. CASE i = done
        BY <2>1, <2>2, <4>1, StoredType DEF DiskTypeOK
      <4>2. CASE i # done
        <5>1. i \in 1 .. done - 1 /\ i \in 1 .. call.count
          BY <2>1, <4>2
        <5>2. Stored[call.lba + i - 1] = call.data[i]
          BY <1>0, <1>3, <2>1, <5>1 DEF PioInv, Settled, WrittenSoFar, Store
        <5>3. call.lba + i - 1 \in Sectors /\ call.lba + i - 1 # call.lba + done - 1
          BY <2>1, <5>1, InCall
        <5>4. QED
          BY <2>2, <5>2, <5>3, StoredType DEF DiskTypeOK
      <4>3. QED
        BY <4>1, <4>2
    <3>2. QED
      BY <2>3, <3>1 DEF WrittenSoFar
  <2>6. QED
    BY <1>0, <2>1, <2>3, <2>4, <2>5 DEF WordsInv, AtPoint, PioInv, Settled
<1>4. CASE Offer /\ UNCHANGED callVars
  BY <1>0, <1>1, <1>4
     DEF Offer, WordsInv, AtPoint, PioInv, Settled, ReadSoFar, WrittenSoFar, callVars
<1>5. CASE Flush /\ UNCHANGED callVars
  <2>1. words = <<>> /\ order.op = "flush" /\ pc \in {"wait_drq", "last_bsy"}
    BY <1>0, <1>5 DEF Flush, WordsInv, AtPoint
  <2>2. Stored' = Stored /\ cache' = <<>>
    BY <1>5, FlushStores DEF Flush, FlushCache, DiskTypeOK
  <2>3. QED
    BY <1>0, <1>5, <2>1, <2>2
       DEF Flush, WordsInv, AtPoint, PioInv, Settled, ReadSoFar, WrittenSoFar, callVars
<1>6. CASE RefuseSector /\ UNCHANGED callVars
  <2>1. /\ status = "busy" /\ status' = "error" /\ words' = <<>> /\ Stored' = Stored
        /\ unheeded' = (unheeded \/ pc \in {"cache_flush", "last_bsy"})
        /\ UNCHANGED <<call, pc, done, got, order>>
    BY <1>1, <1>6 DEF RefuseSector, Refuse, callVars
  <2>2. done \in Nat
    BY DEF DiskTypeOK
  <2>3. PioInv'
    BY <1>0, <2>1, <2>2 DEF PioInv, Settled, ReadSoFar, WrittenSoFar
  <2>4. WordsInv' /\ AtPoint'
    BY <1>0, <2>1 DEF WordsInv, AtPoint
  <2>5. QED
    BY <2>3, <2>4
<1>7. CASE (Hang \/ Revive) /\ UNCHANGED ataVars /\ UNCHANGED callVars
  BY <1>0, <1>1, <1>7
     DEF Hang, Revive, WordsInv, AtPoint, PioInv, Settled, ReadSoFar, WrittenSoFar, callVars
<1>8. QED
  BY <1>2, <1>3, <1>4, <1>5, <1>6, <1>7 DEF DeviceStep, AtaDevice
-----------------------------------------------------------------------------
(* No step but a start of the machine leaves the drive attached otherwise. *)
LEMMA SameMachine ==
  ASSUME [DiskNext]_vars
  PROVE  machine' = machine
BY DEF DiskNext, StartAhci, AhciIdentified, StartAta, AtaIdentified, Call, DriverStep,
   DeviceStep, WriteBack, Teardown, StopBlock, Reboot, PowerLost, Reset, diskVars, vars

(* Everything above is kept by every step.                                 *)
LEMMA DiskStep ==
  ASSUME Lawful(machine), DiskInv, [DiskNext]_vars
  PROVE  DiskInv'
<1>1. DiskTypeOK' /\ CallInv' /\ machine' = machine
  BY DiskTypeStep, CallStep, SameMachine
<1>2. ASSUME DriverStep
      PROVE  /\ OnAhci => AhciStep /\ UNCHANGED diskVars
             /\ machine = "ide" => AtaStep /\ UNCHANGED diskVars
  <2>1. OnAhci => pc \notin AtaPoints
    BY DEF DiskInv, CallInv, AtaPoints
  <2>2. AtaStep => pc \in AtaPoints
    BY DEF AtaStep, WaitBsy, NoDrq, DataIn, DataOut, SendFlush, LastBsy, AtaPoints
  <2>3. QED
    BY <1>2, <2>1, <2>2 DEF DriverStep, DiskInv, CallInv
<1>3. AhciInv'
  <2>1. CASE OnAhci /\ UNCHANGED vars
    BY <2>1 DEF DiskInv, AhciInv, SlotInv, FailureInv, TransferInv, SectorDone, ReadSoFar,
       WrittenSoFar, Stored, vars, driveVars, callVars, ahciVars, diskVars
  <2>2. CASE OnAhci /\ DiskNext
    BY <1>2, <2>2, AhciAroundStep, AhciDriverStep, AhciDeviceStep DEF DiskNext, Lawful
  <2>3. QED
    BY <1>1, <2>1, <2>2 DEF AhciInv
<1>4. AtaInv'
  <2>1. CASE machine = "ide" /\ UNCHANGED vars
    BY <2>1 DEF DiskInv, AtaInv, WordsInv, AtPoint, PioInv, Settled, ReadSoFar,
       WrittenSoFar, Stored, vars, driveVars, callVars, diskVars
  <2>2. CASE machine = "ide" /\ DiskNext
    BY <1>2, <2>2, AtaAroundStep, AtaDriverStep, AtaDeviceStep DEF DiskNext, Lawful
  <2>3. QED
    BY <1>1, <2>1, <2>2 DEF AtaInv
<1>5. QED
  BY <1>1, <1>3, <1>4 DEF DiskInv

(* The invariant of the whole, for every drive and every content.          *)
THEOREM DiskCorrect ==
  ASSUME \A m \in Machines : Lawful(m)
  PROVE  DiskSpec => []DiskInv
<1>1. DiskInit => DiskInv
  BY DiskStart
<1>2. DiskInv /\ [DiskNext]_vars => DiskInv'
  BY DiskStep DEF DiskInv, DiskTypeOK
<1>3. QED
  BY <1>1, <1>2, PTL DEF DiskSpec
-----------------------------------------------------------------------------
(* Of the legacy drive the next theorem asks nothing.                      *)
AhciOnly ==
  /\ OnAhci => DiskInv
  /\ ~OnAhci => active_driver # "AHCI" /\ phase # "ahci_init"

LEMMA AhciOnlyStep ==
  ASSUME NeverLate, AhciOnly, [DiskNext]_vars
  PROVE  AhciOnly'
<1>1. CASE OnAhci
  BY <1>1, DiskStep, SameMachine DEF AhciOnly, Lawful
<1>2. CASE ~OnAhci
  <2>1. active_driver' # "AHCI" /\ phase' # "ahci_init"
    BY <1>2 DEF AhciOnly, DiskNext, StartAhci, AhciIdentified, StartAta, AtaIdentified, Call,
       DriverStep, DeviceStep, WriteBack, Teardown, StopBlock, Reboot, PowerLost, Reset,
       diskVars, vars
  <2>2. QED
    BY <1>2, <2>1, SameMachine DEF AhciOnly
<1>3. QED
  BY <1>1, <1>2

LEMMA FailedStores ==
  ASSUME DiskInv, OnAhci, active_driver = "AHCI", failed, phase' # "off",
         [DiskNext]_vars
  PROVE  Stored' = Stored
<1>1. status \in {"error", "hung"}
  BY DEF DiskInv, AhciInv, FailureInv
<1>2. CASE WriteBack
  BY <1>2, DestageStores DEF WriteBack, DiskInv, DiskTypeOK
<1>3. CASE ~WriteBack
  <2>1. UNCHANGED <<platter, cache>>
    BY <1>1, <1>3 DEF DiskNext, StartAhci, AhciIdentified, StartAta, AtaIdentified, Call,
       DriverStep, DeviceStep, Teardown, StopBlock, Reboot, PowerLost, Reset, Dispatch,
       AhciStep, NotBusy, SlotFree, PollError, PollDone, GiveUp, AhciDevice, Complete, Refuse,
       Hang, Revive, driveVars, vars, DiskInv, CallInv, Booting
  <2>2. QED
    BY <2>1 DEF Stored
<1>4. QED
  BY <1>2, <1>3

(* Once a call has failed over AHCI the drive keeps what it has until the  *)
(* machine starts again: the failed command keeps the only slot, so        *)
(* ahci.cpp:374-378 gives up every later call and no data is exchanged.    *)
THEOREM FailedDriveKept ==
  ASSUME NeverLate
  PROVE  DiskSpec => NothingLandsAfterAFailure
<1>1. DiskInit => AhciOnly
  BY DiskStart DEF AhciOnly, DiskInit
<1>2. AhciOnly /\ [DiskNext]_vars => AhciOnly'
  BY AhciOnlyStep
<1>3. AhciOnly /\ [DiskNext]_vars =>
        [active_driver = "AHCI" /\ failed /\ phase' # "off" => Stored' = Stored]_vars
  BY FailedStores DEF AhciOnly
<1>4. QED
  BY <1>1, <1>2, <1>3, PTL DEF DiskSpec, NothingLandsAfterAFailure
-----------------------------------------------------------------------------
(* The steps of a SectorStore, one lemma for each, in the variables of the *)
(* drive: what the file systems may lose and what they see of the call.    *)
Since == [s \in Sectors |-> {platter[s], Stored[s]}]
TheCall == IF Booting THEN NoCall ELSE call
TheAnswer == IF Booting THEN NoAnswer ELSE answer

LEMMA MapStutter ==
  ASSUME UNCHANGED <<Stored, platter, TheCall, TheAnswer>>
  PROVE  UNCHANGED Promised!ssVars
BY DEF Promised!ssVars, TheCall, TheAnswer

LEMMA MapBegin ==
  ASSUME UNCHANGED <<Stored, platter>>, TheCall = NoCall, TheCall' \in Calls,
         TheAnswer' = NoAnswer
  PROVE  Promised!Begin
BY DEF Promised!Begin, TheCall, TheAnswer

LEMMA MapSettle ==
  ASSUME Stored' = Stored, \A s \in Sectors : platter'[s] \in {platter[s], Stored[s]},
         UNCHANGED <<TheCall, TheAnswer>>
  PROVE  Promised!Settle
BY DEF Promised!Settle, Promised!MaySettle, TheCall, TheAnswer

LEMMA MapRestart ==
  ASSUME platter' = platter, platter = [s \in Sectors |-> platter[s]],
         Stored' = Stored \/ Stored' = platter,
         TheCall' = NoCall, TheAnswer' = NoAnswer
  PROVE  Promised!Restart
<1>1. \A s \in Sectors : Stored'[s] = Stored[s] \/ Stored'[s] = platter[s]
  OBVIOUS
<1>2. QED
  BY <1>1 DEF Promised!Restart, Promised!MaySettle, TheCall, TheAnswer

LEMMA MapFail ==
  ASSUME UNCHANGED <<Stored, platter>>, TheCall # NoCall, TheCall' = NoCall,
         TheAnswer' = Failed
  PROVE  Promised!Fail
BY DEF Promised!Fail, TheCall, TheAnswer

LEMMA MapSucceed ==
  ASSUME UNCHANGED <<Stored, platter>>, TheCall # NoCall, TheCall' = NoCall,
         TheAnswer' # Failed,
         TheCall.op = "read" =>
           TheAnswer' = [i \in 1 .. TheCall.count |-> Stored[TheCall.lba + i - 1]],
         TheCall.op = "write" =>
           \A i \in 1 .. TheCall.count :
             Stored[TheCall.lba + i - 1] = TheCall.data[i] \/ (unheeded /\ i = TheCall.count),
         TheCall.op = "flush" => unheeded \/ cache = <<>>
  PROVE  Promised!Succeed
<1>1. TheCall.op = "flush" => unheeded \/ \A s \in Sectors : Since[s] = {Stored[s]}
  BY DEF Since, Stored
<1>2. QED
  BY <1>1 DEF Promised!Succeed, TheCall, TheAnswer, Since

LEMMA MapLand ==
  ASSUME UNCHANGED <<platter, TheCall, TheAnswer>>, TheCall # NoCall, TheCall.op = "write",
         NEW i \in 1 .. TheCall.count, Stored \in [Sectors -> Values],
         Stored' = [Stored EXCEPT ![TheCall.lba + i - 1] = TheCall.data[i]]
  PROVE  Promised!Land
<1> DEFINE at == TheCall.lba + i - 1
           bound == [Since EXCEPT ![at] = @ \cup {TheCall.data[i]}]
<1>1. \A s \in Sectors : Stored'[s] \in Since'[s] /\ Since'[s] \subseteq bound[s]
  BY DEF Since
<1>2. QED
  BY <1>1 DEF Promised!Land, Promised!MaySettle, TheCall, TheAnswer, Since

(* The steps around the calls are Begin, Restart, Settle or none.          *)
LEMMA AroundRefines ==
  ASSUME DiskInv,
         \/ StartAhci \/ AhciIdentified \/ StartAta \/ AtaIdentified \/ Call \/ Teardown
         \/ StopBlock \/ Reboot \/ PowerLost \/ WriteBack \/ UNCHANGED vars
  PROVE  [Promised!SSNext]_(Promised!ssVars)
<1> USE DEF DiskInv, Booting, Idle, TheCall, TheAnswer
<1>1. UNCHANGED <<platter, cache>> => UNCHANGED <<Stored, platter>>
  BY DEF Stored
<1>2. (pc = "idle" => call = NoCall) /\ (phase = "off" => pc = "idle")
  BY DEF CallInv
<1>3. CASE StartAhci \/ AhciIdentified \/ StartAta \/ AtaIdentified
  <2>1. UNCHANGED <<Stored, platter>>
    BY <1>1, <1>3 DEF StartAhci, AhciIdentified, StartAta, AtaIdentified, driveVars
  <2>2. TheCall = NoCall /\ TheAnswer = NoAnswer
    BY <1>3 DEF StartAhci, AhciIdentified, StartAta, AtaIdentified
  <2>3. TheCall' = NoCall /\ TheAnswer' = NoAnswer
    BY <1>2, <1>3 DEF StartAhci, AhciIdentified, StartAta, AtaIdentified
  <2>4. QED
    BY <2>1, <2>2, <2>3, MapStutter
<1>4. ASSUME NEW c \in Calls, Dispatch(c), phase = "up", phase' \in {phase, "flush"}
      PROVE  Promised!Begin
  BY <1>1, <1>2, <1>4, MapBegin DEF Dispatch, AhciStart, AtaStart, driveVars
<1>5. CASE Call
  BY <1>4, <1>5 DEF Call, diskVars, Promised!SSNext
<1>6. CASE Teardown
  BY <1>1, <1>4, <1>6, MapStutter DEF Teardown, Promised!SSNext, driveVars, callVars
<1>7. CASE StopBlock
  BY <1>1, <1>7, MapStutter DEF StopBlock, driveVars, callVars
<1>8. platter = [s \in Sectors |-> platter[s]]
  BY DEF DiskTypeOK, SectorsOK
<1>9. CASE Reboot
  BY <1>1, <1>8, <1>9, MapRestart DEF Reboot, Reset, driveVars, Promised!SSNext
<1>10. CASE PowerLost
  <2>1. Stored' = platter /\ platter' = platter
    BY <1>8, <1>10 DEF PowerLost, Stored
  <2>2. QED
    BY <1>8, <1>10, <2>1, MapRestart DEF PowerLost, Reset, Promised!SSNext
<1>11. CASE WriteBack
  BY <1>11, DestageStores, MapSettle
     DEF WriteBack, callVars, diskVars, DiskTypeOK, Promised!SSNext
<1>12. CASE UNCHANGED vars
  BY <1>1, <1>12, MapStutter DEF vars, driveVars, callVars, diskVars
<1>13. QED
  BY <1>3, <1>5, <1>6, <1>7, <1>9, <1>10, <1>11, <1>12

(* A driver's step returns, or the file systems do not see it; while the   *)
(* machine starts they see none.                                           *)
LEMMA DriverRefines ==
  ASSUME \A m \in Machines : Lawful(m), DiskInv, DriverStep
  PROVE  [Promised!SSNext]_(Promised!ssVars)
<1> USE DEF DiskInv, TheCall, TheAnswer
<1>1. UNCHANGED <<platter, cache>> => UNCHANGED <<Stored, platter>>
  BY DEF Stored
<1>2. /\ UNCHANGED <<platter, cache, phase, machine>> /\ pc # "idle" /\ Booting' = Booting
      /\ ~Booting => call # NoCall /\ call \in Calls
  BY MarksAssumption DEF DriverStep, AhciStep, AtaStep, NotBusy, SlotFree, PollError, PollDone,
     GiveUp, WaitBsy, NoDrq, DataIn, DataOut, SendFlush, LastBsy, driveVars, diskVars, Booting,
     CallInv
<1>3. CASE UNCHANGED <<call, answer>> \/ Booting
  BY <1>1, <1>2, <1>3, MapStutter DEF Booting
<1>4. CASE Return(Failed) /\ ~Booting
  BY <1>1, <1>2, <1>4, Returned, MapFail DEF Promised!SSNext, Booting
<1>5. ASSUME NEW d, Return(d), ~Booting,
             d = IF call.op = "read" THEN [i \in 1 .. call.count |-> Stored[call.lba + i - 1]]
                                     ELSE <<>>,
             call.op = "write" => WrittenSoFar(IF unheeded THEN call.count - 1 ELSE call.count),
             call.op = "flush" => unheeded \/ cache = <<>>
      PROVE  Promised!SSNext
  <2>1. ASSUME call.op = "read"
        PROVE  [i \in 1 .. call.count |-> Stored[call.lba + i - 1]] # Failed
    <3>1. /\ call.count \in 0 .. NumSectors /\ call.lba \in Nat
          /\ \A i \in 1 .. call.count : call.lba + i - 1 \in Sectors
      BY <1>2, <2>1, InCall
    <3>2. Stored \in [Sectors -> Values]
      BY StoredType DEF DiskTypeOK
    <3>3. QED
      BY <3>1, <3>2, ReadAnswers
  <2>2. d # Failed
    BY <1>5, <2>1, NoDataAnswers
  <2>3. ASSUME call.op = "write", NEW i \in 1 .. call.count
        PROVE  Stored[call.lba + i - 1] = call.data[i] \/ (unheeded /\ i = call.count)
    <3>1. call.count \in Nat /\ (i = call.count \/ i \in 1 .. call.count - 1)
      BY <1>2, <2>3, InCall
    <3>2. QED
      BY <1>2, <1>5, <2>3, <3>1 DEF WrittenSoFar
  <2>4. /\ TheCall = call /\ TheCall' = NoCall /\ TheAnswer' = d /\ TheCall # NoCall
        /\ UNCHANGED <<Stored, platter>>
    BY <1>1, <1>2, <1>5, Returned DEF Booting
  <2> HIDE DEF TheCall, TheAnswer
  <2>5. TheCall.op = "read" =>
          TheAnswer' = [i \in 1 .. TheCall.count |-> Stored[TheCall.lba + i - 1]]
    BY <1>5, <2>4
  <2>6. TheCall.op = "write" =>
          \A i \in 1 .. TheCall.count :
             Stored[TheCall.lba + i - 1] = TheCall.data[i] \/ (unheeded /\ i = TheCall.count)
    <3>1. call.op = "write" =>
            \A i \in 1 .. call.count :
              Stored[call.lba + i - 1] = call.data[i] \/ (unheeded /\ i = call.count)
      BY <2>3
    <3>2. TheCall = call
      BY <2>4
    <3>3. QED
      BY <3>1, <3>2
  <2>7. (TheCall.op = "flush" => unheeded \/ cache = <<>>) /\ TheAnswer' # Failed
    BY <1>5, <2>2, <2>4
  <2>8. Promised!Succeed
    BY <2>4, <2>5, <2>6, <2>7, MapSucceed
  <2>9. QED
    BY <2>8 DEF Promised!SSNext
<1>6. CASE PollDone /\ OnAhci /\ ~Booting /\ done + 1 >= call.count
  <2> DEFINE read == IF call.op = "read" THEN Append(got, g_buf) ELSE got
  <2>1. pc = "poll" /\ SlotInv /\ TransferInv /\ SectorDone /\ Return(read)
    BY <1>6 DEF PollDone, AhciInv, TransferInv, AhciPoints
  <2>2. /\ done \in Nat /\ call.count \in Nat /\ call.lba \in Nat /\ done + 1 - 1 = done
        /\ call.op # "flush" => done + 1 = call.count
        /\ call.op \in {"read", "write"} => call.count \in 0 .. NumSectors
    BY <1>2, <1>6, <2>1, InCall DEF TransferInv, AhciPoints, DiskTypeOK
  <2>3. CASE call.op = "read"
    <3>1. Append([i \in 1 .. done |-> Stored[call.lba + i - 1]], Stored[call.lba + done]) =
            [i \in 1 .. done + 1 |-> Stored[call.lba + i - 1]]
      BY <2>2, ReadOneMore
    <3>2. read = [i \in 1 .. call.count |-> Stored[call.lba + i - 1]]
      BY <1>2, <2>1, <2>2, <2>3, <3>1 DEF TransferInv, AhciPoints, ReadSoFar, SectorDone
    <3>3. QED
      BY <1>5, <1>6, <2>1, <2>3, <3>2
  <2>4. CASE call.op = "write"
    <3>1. WrittenSoFar(call.count)
      BY <1>2, <2>1, <2>2, <2>4 DEF TransferInv, AhciPoints, WrittenSoFar, SectorDone
    <3>2. WrittenSoFar(IF unheeded THEN call.count - 1 ELSE call.count)
      BY <2>2, <3>1 DEF WrittenSoFar
    <3>3. QED
      BY <1>2, <1>5, <1>6, <2>1, <2>4, <3>2 DEF TransferInv, AhciPoints, ReadSoFar
  <2>5. QED
    BY <1>2, <1>5, <1>6, <2>1, <2>3, <2>4 DEF TransferInv, AhciPoints, ReadSoFar, SectorDone
<1>7. CASE DataIn /\ machine = "ide" /\ ~Booting /\ done + 1 = call.count
  <2>1. /\ WordsInv /\ AtPoint /\ ReadSoFar /\ call.op = "read" /\ WithinLba28
        /\ call.lba \in Nat /\ done \in Nat /\ call.lba + done \in Sectors
    BY <1>2, <1>7, InCall
       DEF DataIn, AtaInv, AtPoint, PioInv, Settled, Booting, DiskTypeOK, Lawful, Ops
  <2>2. Return(Append(got, Stored[call.lba + done]))
    BY <1>7, <2>1, AddressedWhole DEF DataIn
  <2>3. Append([i \in 1 .. done |-> Stored[call.lba + i - 1]], Stored[call.lba + done]) =
          [i \in 1 .. done + 1 |-> Stored[call.lba + i - 1]]
    BY <2>1, ReadOneMore
  <2>4. Append(got, Stored[call.lba + done]) =
          [i \in 1 .. call.count |-> Stored[call.lba + i - 1]]
    BY <1>2, <1>7, <2>1, <2>3 DEF ReadSoFar
  <2>5. QED
    BY <1>5, <1>7, <2>1, <2>2, <2>4
<1>8. CASE LastBsy /\ machine = "ide" /\ ~Booting
  <2>1. /\ Return(<<>>) /\ words = <<>> /\ (status = "ready" \/ unheeded)
        /\ \/ call.op = "flush" /\ (unheeded \/ cache = <<>>)
           \/ call.op = "write" /\ WrittenSoFar(IF unheeded THEN call.count - 1 ELSE call.count)
    <3>1. WordsInv /\ AtPoint /\ PioInv /\ pc = "last_bsy" /\ ~Busy /\ Return(<<>>)
      BY <1>8 DEF LastBsy, AtaInv
    <3>2. words = <<>> /\ status \in {"ready", "error"} /\ (status = "error" => unheeded)
      BY <3>1 DEF WordsInv, AtPoint, Busy
    <3>3. CASE call.op = "flush"
      BY <3>1, <3>2, <3>3 DEF AtPoint
    <3>4. CASE call.op = "write"
      <4>1. done = call.count /\ (Settled <=> ~unheeded)
        BY <3>1, <3>2, <3>4 DEF AtPoint, Settled
      <4>2. QED
        BY <3>1, <3>2, <3>4, <4>1 DEF PioInv
    <3>5. QED
      BY <3>1, <3>2, <3>3, <3>4 DEF AtPoint
  <2>2. QED
    BY <1>5, <1>8, <2>1
<1>9. (OnAhci /\ AhciStep) \/ (machine = "ide" /\ AtaStep)
  <2>1. phase = "ahci_init" \/ active_driver = "AHCI" => OnAhci
    BY DEF CallInv
  <2>2. pc \in AtaPoints => machine = "ide"
    BY DEF CallInv
  <2>3. AtaStep => pc \in AtaPoints
    BY DEF AtaStep, WaitBsy, NoDrq, DataIn, DataOut, SendFlush, LastBsy, AtaPoints
  <2>4. QED
    BY <2>1, <2>2, <2>3 DEF DriverStep
<1>10. CASE OnAhci /\ AhciStep
  BY <1>3, <1>4, <1>6, <1>10 DEF PollDone, AhciStep, NotBusy, SlotFree, PollError, GiveUp
<1>11. CASE machine = "ide" /\ AtaStep /\ ~Booting
  BY <1>3, <1>4, <1>7, <1>8, <1>11 DEF AtaStep, WaitBsy, NoDrq, DataIn, DataOut, SendFlush
<1>12. QED
  BY <1>3, <1>9, <1>10, <1>11

(* What the drive does lands a sector, settles some, or is not seen.       *)
LEMMA DeviceRefines ==
  ASSUME \A m \in Machines : Lawful(m), DiskInv, DeviceStep
  PROVE  [Promised!SSNext]_(Promised!ssVars)
<1> USE DEF DiskInv, TheCall, TheAnswer
<1>1. /\ UNCHANGED <<call, answer, pc, phase>> /\ Booting' = Booting
      /\ TheCall' = TheCall /\ TheAnswer' = TheAnswer
      /\ pc = "idle" => status # "busy"
      /\ SectorsOK /\ Stored \in [Sectors -> Values]
  BY StoredType DEF DeviceStep, AhciDevice, AtaDevice, callVars, diskVars, Booting, DiskTypeOK,
     AhciInv, SlotInv, AtaInv, AtPoint
<1>2. ASSUME UNCHANGED <<platter, cache>>
      PROVE  UNCHANGED Promised!ssVars
  BY <1>1, <1>2, MapStutter DEF Stored
<1>3. ASSUME FlushCache
      PROVE  Promised!Settle
  BY <1>1, <1>3, FlushStores, MapSettle
<1>4. ASSUME NEW i \in 1 .. call.count, pc # "idle", call.op = "write",
             call.lba + i - 1 \in Sectors, call.data[i] \in Values, platter' = platter,
             Accept(call.lba + i - 1, call.data[i])
      PROVE  Promised!Land
  <2>1. ~Booting /\ call # NoCall
    BY <1>4, InCall, MarksAssumption DEF CallInv
  <2>2. Stored' = [Stored EXCEPT ![call.lba + i - 1] = call.data[i]]
    BY <1>1, <1>4, AcceptStores
  <2>3. QED
    BY <1>1, <1>4, <2>1, <2>2, MapLand
<1>5. CASE OnAhci /\ Complete
  <2>1. /\ pc = "poll" /\ TransferInv /\ order = [op |-> call.op, lba |-> call.lba + done]
    BY <1>5 DEF Complete, AhciInv, SlotInv, TransferInv, AhciPoints
  <2>2. CASE call.op = "write"
    <3>1. /\ done + 1 \in 1 .. call.count /\ call.lba + (done + 1) - 1 = call.lba + done
          /\ g_buf = call.data[done + 1] /\ g_buf \in Values /\ call.lba + done \in Sectors
      BY <2>1, <2>2, InCall DEF TransferInv, AhciPoints, DiskTypeOK
    <3>2. Accept(call.lba + (done + 1) - 1, call.data[done + 1]) /\ platter' = platter
      BY <1>5, <2>1, <2>2, <3>1 DEF Complete
    <3>3. QED
      BY <1>4, <2>1, <2>2, <3>1, <3>2 DEF Promised!SSNext
  <2>3. CASE call.op = "flush"
    BY <1>3, <1>5, <2>1, <2>3 DEF Complete, Promised!SSNext
  <2>4. CASE call.op \notin {"write", "flush"}
    BY <1>2, <1>5, <2>1, <2>4 DEF Complete
  <2>5. QED
    BY <2>2, <2>3, <2>4
<1>6. CASE machine = "ide" /\ Store
  <2>1. /\ call.op = "write" /\ pc # "idle" /\ done \in 1 .. call.count
        /\ order.lba = Addressed(call.lba + done - 1) /\ words[1] = call.data[done]
    BY <1>6 DEF Store, AtaInv, WordsInv
  <2>2. /\ call.lba + done - 1 \in Sectors /\ call.data[done] \in Values
        /\ WithinLba28
    BY <1>6, <2>1, InCall DEF Lawful, DiskTypeOK
  <2>3. Accept(call.lba + done - 1, call.data[done]) /\ platter' = platter
    BY <1>6, <2>1, <2>2, AddressedWhole DEF Store
  <2>4. QED
    BY <1>4, <2>1, <2>2, <2>3 DEF Promised!SSNext
<1>7. CASE Flush
  BY <1>3, <1>7 DEF Flush, Promised!SSNext
<1>8. CASE Offer \/ Refuse \/ Hang \/ Revive
  BY <1>2, <1>8 DEF Offer, Refuse, Hang, Revive
<1>9. QED
  BY <1>5, <1>6, <1>7, <1>8 DEF DeviceStep, AhciDevice, AtaDevice, RefuseSector

(* For every drive, content and size of transfer the two drivers implement *)
(* the store of sectors that disk.hpp promises the file systems: a read    *)
(* that answers true gave what was written, a write that answers false     *)
(* left each sector old or new, and what a flush that answered true found  *)
(* outlives the power.                                                     *)
THEOREM DriversKeepPromise ==
  ASSUME \A m \in Machines : Lawful(m)
  PROVE  DiskSpec => ImplementsSectorStore
<1>1. DiskInit => Promised!SSInit
  <2>1. ASSUME DiskInit
        PROVE  Stored = platter
    BY <2>1 DEF DiskInit, Stored
  <2>2. QED
    BY <2>1 DEF DiskInit, Promised!SSInit, Booting
<1>2. DiskInv /\ [DiskNext]_vars => [Promised!SSNext]_(Promised!ssVars)
  BY AroundRefines, DriverRefines, DeviceRefines DEF DiskNext
<1>3. DiskSpec => []DiskInv
  BY DiskCorrect
<1>4. QED
  BY <1>1, <1>2, <1>3, PTL DEF DiskSpec, ImplementsSectorStore, Promised!SSSpec
=============================================================================
