----------------------------- MODULE Temperature -----------------------------
(***************************************************************************)
(* The process that module Startup starts, as far as temperatures go: each *)
(* PVE collector replaces its instance's nodes in the cache at every poll, *)
(* with no temperatures, and each temperature collector runs `sensors` on  *)
(* a node over SSH and writes the answer into the cache later               *)
(* (internal/collector/temperature.go, internal/cache/cache.go).           *)
(***************************************************************************)
EXTENDS Startup

CONSTANTS
  Nodes,   \* nodes, which an instance may be named after
  NodesAt, \* [names of instances -> SUBSET Nodes]
  Temps,   \* temperatures a node may have
  None,    \* Node.Temperature is nil
  MaxInstances \* the longest list of instances that anyone writes

\* The instances of one list: their names tell which nodes they have, and
\* those with an SSH host reach a node by it.
HasNodes(instances) ==
  /\ Len(instances) <= MaxInstances
  /\ \A k \in 1..Len(instances) :
       instances[k].name \in DOMAIN NodesAt /\ instances[k].ssh \in Nodes \cup {""}

ASSUME TemperatureAssumption ==
  /\ Nodes \subseteq STRING
  /\ \A i \in DOMAIN NodesAt : NodesAt[i] \subseteq Nodes
  /\ None \notin Temps
  /\ MaxInstances \in Nat \ {0}
  /\ \A x \in Files \cup Envs : HasNodes(x.pve) /\ HasNodes(x.pbs)

VARIABLES
  real,   \* world: [Nodes -> Temps]
  online, \* world: the nodes that are online
  nodes,  \* Cache.Nodes: [names -> [nodes last listed -> Temps or None]]
  probe   \* [numbers of instances -> what its SSH session has read, or None]

vars == <<vars0, real, online, nodes, probe>>

Names == DOMAIN NodesAt

Init ==
  /\ Init0
  /\ real \in [Nodes -> Temps] /\ online = Nodes
  /\ nodes = [i \in Names |-> [n \in {} |-> None]]
  /\ probe = [k \in 1..MaxInstances |-> None]

NameOf(k) == cfg.pve[k].name

\* A node's temperature changes; a node goes down or comes back.
World(n) ==
  \/ /\ real' \in {[real EXCEPT ![n] = t] : t \in Temps}
     /\ UNCHANGED <<vars0, online, nodes, probe>>
  \/ /\ online' \in {online \cup {n}, online \ {n}}
     /\ UNCHANGED <<vars0, real, nodes, probe>>

\* Mutant: a node that the cache holds keeps its temperature.
PublishKeeps(k, listed) ==
  /\ <<"pve", k>> \in running
  /\ nodes' = [nodes EXCEPT ![NameOf(k)] =
                [n \in listed |-> IF n \in DOMAIN @ THEN @[n] ELSE None]]
  /\ UNCHANGED <<vars0, real, online, probe>>

\* UpdateNodes at the end of a poll that has found the nodes listed: new
\* nodes in place of the old.
Publish(k, listed) ==
  /\ <<"pve", k>> \in running
  /\ nodes' = [nodes EXCEPT ![NameOf(k)] = [n \in listed |-> None]]
  /\ UNCHANGED <<vars0, real, online, probe>>

\* A poll in which every call succeeds, and one in which some fail.
Online(k) == NodesAt[NameOf(k)] \cap online
Poll(k) == Publish(k, Online(k))
PollPartly(k) == \E listed \in SUBSET Online(k) : Publish(k, listed)

\* `sensors -j' answers; nothing bounds how long the answer takes to arrive.
Measure(k) ==
  /\ <<"temp", k>> \in running /\ probe[k] = None
  /\ probe' = [probe EXCEPT ![k] = real[cfg.pve[k].ssh]]
  /\ UNCHANGED <<vars0, real, online, nodes>>

\* Mutant: the node is not looked up first.
DeliverBlindly(k) ==
  /\ <<"temp", k>> \in running /\ probe[k] # None
  /\ LET name == NameOf(k) IN
       nodes' = [nodes EXCEPT ![name] =
                   [n \in DOMAIN @ \cup {name} |-> IF n = name THEN probe[k] ELSE @[n]]]
  /\ probe' = [probe EXCEPT ![k] = None]
  /\ UNCHANGED <<vars0, real, online>>

\* UpdateNodeTemperature: main makes the node's name from the instance's, and
\* a node that the cache does not hold is passed over.
Deliver(k) ==
  /\ <<"temp", k>> \in running /\ probe[k] # None
  /\ LET name == NameOf(k) IN
       nodes' = IF name \in DOMAIN nodes[name]
                THEN [nodes EXCEPT ![name] = [@ EXCEPT ![name] = probe[k]]]
                ELSE nodes
  /\ probe' = [probe EXCEPT ![k] = None]
  /\ UNCHANGED <<vars0, real, online>>

\* The session fails, or its output cannot be parsed: Collect forgets it.
MeasureFails(k) ==
  /\ <<"temp", k>> \in running /\ probe[k] # None
  /\ probe' = [probe EXCEPT ![k] = None]
  /\ UNCHANGED <<vars0, real, online, nodes>>

Collectors == {x[2] : x \in {y \in running : y[1] \in {"pve", "temp"}}}

Next ==
  \/ StartupStep /\ UNCHANGED <<real, online, nodes, probe>>
  \/ \E n \in Nodes : World(n)
  \/ \E k \in Collectors : PollPartly(k) \/ Measure(k) \/ Deliver(k) \/ MeasureFails(k)

\* PVE collectors go on polling, and calls succeed now and then; nobody makes
\* SSH sessions answer.
Spec ==
  /\ Init /\ [][Next]_vars
  /\ \A k \in 1..MaxInstances : WF_vars(Poll(k))

----------------------------------------------------------------------------
\* What an instance's part of Cache.Nodes may be.
NodeMaps == UNION {[listed -> Temps \cup {None}] : listed \in SUBSET Nodes}

\* The values are of their types, and no instance shows a node that is not its
\* own (config.go 23-36, cache.go 20-40).
TypeOK ==
  /\ file \in Files /\ env \in Envs
  /\ stage \in {"load", "open", "pve", "pbs", "alerter", "serve", "running", "exited", "panicked"}
  /\ Loaded => \A r \in Rules : cfg.rules[r] = file.rules[r]
  /\ next \in 1..Len(cfg.pve) + Len(cfg.pbs) + 1
  /\ registered \subseteq {"pve", "pbs"} \X STRING
  /\ running \subseteq {"pve", "temp", "pbs", "pruner", "alerter", "server"} \X (1..MaxInstances)
  /\ DOMAIN rules = Rules /\ chip \in Nat
  /\ real \in [Nodes -> Temps] /\ online \subseteq Nodes
  /\ nodes \in [Names -> NodeMaps]
  /\ \A i \in Names : DOMAIN nodes[i] \subseteq NodesAt[i]
  /\ probe \in [1..MaxInstances -> Temps \cup {None}]

\* Instance k is named after the node that its SSH session runs on.
Matched(k) == k <= Len(cfg.pve) /\ cfg.pve[k].ssh = cfg.pve[k].name

\* Once a node's temperature has settled, what is shown for it is that or
\* nothing, for ever, although sessions hang, fail and answer late, and even
\* when they never answer again: no old value outlives the polls of the
\* collector that keeps replacing the nodes (cache.go 123-127, 167-176).
StaleTemperatureGoes ==
  \A n \in Names \cap Nodes, t \in Temps :
    <>[](real[n] = t /\ stage = "running" /\ \E k \in 1..MaxInstances : Matched(k) /\ NameOf(k) = n)
      => <>[](n \in DOMAIN nodes[n] => nodes[n][n] \in {t, None})
=============================================================================
