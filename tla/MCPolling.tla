------------------------------ MODULE MCPolling ------------------------------
(* A cluster of two nodes and a single host, sharing one pool. *)
EXTENDS Polling, TLC
CONSTANTS cluster, host, n1, n2, n3, ct, vm

MCInstanceOf == n1 :> cluster @@ n2 :> cluster @@ n3 :> host
MCHome == [g \in Guests |-> cluster]
=============================================================================
