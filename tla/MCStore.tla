------------------------------- MODULE MCStore -------------------------------
(* A node and a disk, and a table between theirs that cannot be pruned. *)
EXTENDS Store

MCTables == <<"node_snapshots", "guest_snapshots", "smart_snapshots">>
MCTableOf == [s \in Subjects |-> IF s \in Disks THEN 3 ELSE 1]
MCRetention == <<1, 1, 2>>
MCWrites == [w \in Writers |-> Subjects]
MCPhase == [s \in Subjects |-> IF s \in Disks THEN 3 ELSE 1]
=============================================================================
