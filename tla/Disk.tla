-------------------------------- MODULE Disk ---------------------------------
(***************************************************************************)
(* drivers/disk.cpp over its two drivers, from the start of the machine to *)
(* the teardown of shell/commands.cpp: which driver is chosen, what it     *)
(* makes of a call, and what is left on the drive when the machine is      *)
(* reset, switched off or loses power.                                     *)
(***************************************************************************)
EXTENDS Ahci, Ata

CONSTANT Machines     \* how the drive is attached: a subset of AllMachines

(* "floating": nothing answers the legacy ports, which read as 0xFF; where *)
(* they exist and have no drive they read as zero.                         *)
AllMachines == {"ahci", "ahci_floating", "ide", "none", "floating"}
ASSUME MachineAssumption == Machines \subseteq AllMachines

VARIABLES
  machine,
  active_driver,
  present,    \* disk::info.present
  phase       \* "off", "ahci_init", "ata_init", "up", "flush", "stopped"

diskVars == <<machine, active_driver, present, phase>>
vars == <<driveVars, callVars, ahciVars, ataVars, diskVars>>

IdentifyCall == [op |-> "identify", lba |-> 0, data |-> <<>>, count |-> 1]

OnAhci == machine \in {"ahci", "ahci_floating"}
Floats == machine \in {"ahci_floating", "floating"}
AhciPresent == g_ready
Idle == pc = "idle"

DiskInit ==
  /\ machine \in Machines
  /\ platter \in [Sectors -> Values]
  /\ cache = <<>>
  /\ status = "ready"
  /\ order = NoOrder
  /\ call = NoCall /\ pc = "idle" /\ done = 0 /\ got = <<>>
  /\ answer = NoAnswer /\ failed = FALSE
  /\ ci = FALSE /\ g_buf = Identity /\ g_ready = FALSE
  /\ words = <<>> /\ unheeded = FALSE
  /\ active_driver = "NONE" /\ present = FALSE /\ phase = "off"
-----------------------------------------------------------------------------
(* disk::init tries AHCI first: a port with a drive is stopped, which      *)
(* takes back its slot, started and asked for the identity of its drive.   *)
StartAhci ==
  /\ phase = "off"
  /\ OnAhci
  /\ call' = IdentifyCall
  /\ pc' = "not_busy"
  /\ ci' = FALSE
  /\ phase' = "ahci_init"
  /\ UNCHANGED <<driveVars, done, got, answer, failed, g_buf, g_ready, ataVars,
                 machine, active_driver, present>>

AhciIdentified ==
  /\ phase = "ahci_init"
  /\ Idle
  /\ answer # Failed
  /\ g_ready' = TRUE
  /\ active_driver' = "AHCI"
  /\ present' = TRUE
  /\ phase' = "up"
  /\ answer' = NoAnswer
  /\ UNCHANGED <<driveVars, call, pc, done, got, failed, ci, g_buf, ataVars, machine>>

(* Without it, or when its drive does not say what it is, ATA is tried: a  *)
(* status of zero ends the trial, and floating ports read as a drive that  *)
(* is busy, which wait_bsy waits for and no step ends.                     *)
StartAta ==
  /\ \/ phase = "off" /\ ~OnAhci
     \/ phase = "ahci_init" /\ Idle /\ answer = Failed
  /\ \/ /\ machine = "ide"
        /\ order' = [op |-> "identify", lba |-> 0]
        /\ status' = "busy"
        /\ call' = IdentifyCall /\ pc' = "wait_drq" /\ phase' = "ata_init"
     \/ /\ Floats
        /\ call' = IdentifyCall /\ pc' = "floating" /\ phase' = "ata_init"
        /\ UNCHANGED <<order, status>>
     \/ /\ machine \in {"ahci", "none"}
        /\ phase' = "up"
        /\ UNCHANGED <<order, status, call, pc>>
  /\ answer' = NoAnswer
  /\ UNCHANGED <<platter, cache, done, got, failed, ahciVars, ataVars,
                 machine, active_driver, present>>

AtaIdentified ==
  /\ phase = "ata_init"
  /\ Idle
  /\ IF answer # Failed
     THEN active_driver' = "ATA" /\ present' = TRUE
     ELSE UNCHANGED <<active_driver, present>>
  /\ phase' = "up"
  /\ answer' = NoAnswer
  /\ failed' = FALSE
  /\ UNCHANGED <<driveVars, call, pc, done, got, ahciVars, ataVars, machine>>
-----------------------------------------------------------------------------
(* read_sector(s), write_sector(s) and flush go to the active driver.      *)
Dispatch(c) ==
  /\ Idle
  /\ \/ active_driver = "AHCI" /\ AhciPresent /\ AhciStart(c) /\ UNCHANGED ataVars
     \/ active_driver = "ATA" /\ present /\ AtaStart(c) /\ UNCHANGED <<ahciVars, ataVars>>
  /\ UNCHANGED driveVars

Call ==
  /\ phase = "up"
  /\ \E c \in Calls : c.op # "flush" /\ Dispatch(c)
  /\ UNCHANGED diskVars

DriverStep ==
  /\ \/ (phase = "ahci_init" \/ active_driver = "AHCI") /\ AhciStep /\ UNCHANGED ataVars
     \/ (phase = "ata_init" \/ active_driver = "ATA") /\ AtaStep /\ UNCHANGED ahciVars
  /\ UNCHANGED diskVars

DeviceStep ==
  /\ \/ OnAhci /\ AhciDevice /\ UNCHANGED ataVars
     \/ machine = "ide" /\ AtaDevice /\ UNCHANGED ahciVars
  /\ UNCHANGED diskVars

WriteBack ==
  /\ Destage
  /\ UNCHANGED <<callVars, ahciVars, ataVars, diskVars>>
-----------------------------------------------------------------------------
(* shutdown and reboot: caches are flushed, then the driver is stopped;    *)
(* ahci::stop leaves info.present as it is.                                *)
Teardown ==
  /\ phase = "up"
  /\ Idle
  /\ phase' = "flush"
  /\ IF present
     THEN \E c \in Calls : c.op = "flush" /\ Dispatch(c)
     ELSE UNCHANGED <<driveVars, callVars, ahciVars, ataVars>>
  /\ UNCHANGED <<machine, active_driver, present>>

StopBlock ==
  /\ phase = "flush"
  /\ Idle
  /\ phase' = "stopped"
  /\ IF active_driver = "AHCI"
     THEN g_ready' = FALSE /\ ci' = FALSE /\ UNCHANGED present
     ELSE present' = FALSE /\ UNCHANGED <<g_ready, ci>>
  /\ UNCHANGED <<driveVars, callVars, g_buf, ataVars, machine, active_driver>>

(* The machine starts again: after reboot or emerdown with what the drive  *)
(* had, after shutdown or a loss of power with what is on the platter.     *)
Reset ==
  /\ phase' = "off"
  /\ call' = NoCall /\ pc' = "idle" /\ done' = 0 /\ got' = <<>>
  /\ answer' = NoAnswer /\ failed' = FALSE
  /\ g_ready' = FALSE /\ g_buf' = Identity
  /\ active_driver' = "NONE" /\ present' = FALSE
  /\ UNCHANGED machine

Reboot ==
  /\ phase \in {"up", "stopped"}
  /\ Idle
  /\ Reset
  /\ UNCHANGED <<driveVars, ci, ataVars>>

PowerLost ==
  /\ phase # "off"
  /\ Reset
  /\ cache' = <<>>
  /\ status' = "ready"
  /\ order' = NoOrder
  /\ ci' = FALSE
  /\ words' = <<>> /\ unheeded' = FALSE
  /\ UNCHANGED platter

DiskNext ==
  \/ StartAhci \/ AhciIdentified \/ StartAta \/ AtaIdentified
  \/ Call \/ DriverStep \/ DeviceStep \/ WriteBack
  \/ Teardown \/ StopBlock \/ Reboot \/ PowerLost

DiskSpec == DiskInit /\ [][DiskNext]_vars

(* The processor goes on, and the drive answers or hangs.                  *)
FairDiskSpec == DiskSpec /\ WF_vars(DriverStep) /\ WF_vars(DeviceStep)
-----------------------------------------------------------------------------
(* Whatever the drive and the power do, the file systems see a store of    *)
(* sectors: reads give what was written, a failed call leaves each sector  *)
(* old or new, and what a flush that succeeded found outlives the power.   *)
(* Over ATA that is so of a write's last sector, and of a flush, only when *)
(* the drive did not refuse it: ata.cpp:151-153, 196-206 ask no status.    *)
Booting == phase \in {"off", "ahci_init", "ata_init"}
Promised == INSTANCE SectorStore WITH
  stored <- Stored,
  since  <- [s \in Sectors |-> {platter[s], Stored[s]}],
  call   <- IF Booting THEN NoCall ELSE call,
  answer <- IF Booting THEN NoAnswer ELSE answer
ImplementsSectorStore == Promised!SSSpec

(* The command that failed keeps its slot, ahci.cpp:374-378, so no later   *)
(* write overtakes it: once a call has failed the drive keeps what it has. *)
NothingLandsAfterAFailure ==
  [][active_driver = "AHCI" /\ failed /\ phase' # "off" => Stored' = Stored]_vars

(* Every call returns, the identification at start among them, unless      *)
(* ata.cpp:38, which has no bound, waits on floating ports or on a drive   *)
(* that hangs; over AHCI every wait ends.                                  *)
CallsReturn ==
  (~Idle) ~> (Idle \/ pc = "floating" \/ (machine = "ide" /\ status = "hung"))
=============================================================================
