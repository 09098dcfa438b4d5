------------------------------- MODULE MCDisk --------------------------------
(* Disk for TLC: the drive starts out with one value all over.             *)
EXTENDS Disk

MCInit == DiskInit /\ \A s, t \in Sectors : platter[s] = platter[t]

MCSpec == MCInit /\ [][DiskNext]_vars /\ WF_vars(DriverStep) /\ WF_vars(DeviceStep)
=============================================================================
