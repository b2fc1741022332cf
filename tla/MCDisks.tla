------------------------------- MODULE MCDisks -------------------------------
(* A drive that answers nothing and whose node's PVE rejects the type        *)
(* parameter; on another node, a drive behind an HBA and an NVMe drive.      *)
EXTENDS Disks, TLC
CONSTANTS n1, n2, mute, hba, nvme

MCNodeOf == mute :> n1 @@ hba :> n2 @@ nvme :> n2
MCIdent == mute :> "wwn-1" @@ hba :> "wwn-2" @@ nvme :> "eui-3"
MCWears == mute :> {197} @@ hba :> {5, 194} @@ nvme :> {NVMePercentageUsed}
MCSpeaks == mute :> {} @@ hba :> {"sat", "scsi"} @@ nvme :> {"auto"}
MCRejects == mute :> {"sat", "scsi"} @@ hba :> {} @@ nvme :> {}
MCReadings == <<0, 4, 60, 70>>
=============================================================================
