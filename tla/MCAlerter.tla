------------------------------ MODULE MCAlerter ------------------------------
(* Two subjects: a guest, whose rule holds, and a disk, whose rule does not. *)
EXTENDS Alerter, TLC
CONSTANTS guest, disk, HoldTime, GuestCooldown, DiskCooldown

MCKeys == {guest, disk}
MCHeld == {guest}
MCHold == guest :> HoldTime
MCCooldown == guest :> GuestCooldown @@ disk :> DiskCooldown
=============================================================================
