----------------------------- MODULE MCLifecycle -----------------------------
(* A PVE collector and its pool, PBS collectors with and without           *)
(* configured datastores, and the other goroutines of main.                *)
EXTENDS Lifecycle
CONSTANTS cluster, ssh, pbs, named, alerter, req
=============================================================================
