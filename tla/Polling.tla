------------------------------- MODULE Polling -------------------------------
(***************************************************************************)
(* The PVE collectors (internal/collector/pve.go), the worker pool they    *)
(* share (collector.go) and the part of the cache they write (cache.go).   *)
(*                                                                         *)
(* Every instance has a collector that polls for ever: ask which nodes are *)
(* online, submit one task per node to the pool, wait for all of them, and *)
(* write what they gathered into the cache, one kind of thing at a time.   *)
(* A task asks its node for its status, its containers, its VMs and, when  *)
(* due, its disks.  Meanwhile guests move, nodes go down and come back,    *)
(* and calls fail.                                                         *)
(***************************************************************************)
EXTENDS Ages, FiniteSets

CONSTANTS
  Instances,   \* PVE instances, one collector each
  Nodes,       \* node names
  InstanceOf,  \* [Nodes -> Instances]
  Guests,      \* guests
  Home,        \* [Guests -> Instances]: the cluster a guest belongs to
  Lxc,         \* those that are containers; the others are VMs
  Nowhere,     \* where a guest is that does not exist
  PoolSize,    \* worker_pool_size
  MaxFaults,   \* bound: calls that fail
  MaxMoves     \* bound: changes of the world

ASSUME PollingAssumption ==
  /\ InstanceOf \in [Nodes -> Instances]
  /\ Home \in [Guests -> Instances]
  /\ Nowhere \notin Nodes
  /\ Lxc \subseteq Guests
  /\ PoolSize \in Nat \ {0}
  /\ MaxFaults \in Nat /\ MaxMoves \in Nat

VARIABLES
  place,       \* world: [Guests -> Nodes \cup {Nowhere}]
  online,      \* world: nodes that are up
  pc,          \* [Instances -> stage of Collect]
  todo,        \* [Instances -> nodes still to submit]
  task,        \* running tasks: node -> [at, found]; each holds a pool slot
  nodeMap,     \* [Instances -> nodes whose status this poll has]
  guestMap,    \* [Instances -> guest -> node it was listed on]
  cacheNodes, cacheGuests,  \* the cache, by instance
  faults, moves,            \* how much has gone wrong, changed
  spotted,     \* history: [Instances -> <<guest, node>> true since discovery]
  steady,      \* history: [Instances -> guests that did not move since then]
  missed       \* history: [Instances -> nodes a call to which failed]

world == <<place, online, moves>>
locals == <<todo, nodeMap, guestMap>>
cache == <<cacheNodes, cacheGuests>>
history == <<spotted, steady, missed>>
vars == <<world, pc, locals, task, cache, faults, history>>

Stages == {"idle", "discover", "submit", "guests", "record"}
Calls == {"status", "lxc", "qemu", "disks"}
Tasks == [at : Calls \cup {"merge", "release"}, found : SUBSET Guests]
NodesOf(i) == {n \in Nodes : InstanceOf[n] = i}
GuestMaps == UNION {[S -> Nodes] : S \in SUBSET Guests}

TypeOK ==
  /\ place \in [Guests -> Nodes \cup {Nowhere}]
  /\ online \subseteq Nodes
  /\ pc \in [Instances -> Stages]
  /\ todo \in [Instances -> SUBSET Nodes]
  /\ DOMAIN task \subseteq Nodes /\ task \in [DOMAIN task -> Tasks]
  /\ nodeMap \in [Instances -> SUBSET Nodes]
  /\ guestMap \in [Instances -> GuestMaps]
  /\ cacheNodes \in [Instances -> SUBSET Nodes]
  /\ cacheGuests \in [Instances -> GuestMaps]
  /\ faults \in 0..MaxFaults /\ moves \in 0..MaxMoves
  /\ spotted \in [Instances -> SUBSET (Guests \X Nodes)]
  /\ steady \in [Instances -> SUBSET Guests]
  /\ missed \in [Instances -> SUBSET Nodes]

Init ==
  /\ place \in {p \in [Guests -> Nodes \cup {Nowhere}] :
                  \A g \in Guests : p[g] \in NodesOf(Home[g]) \cup {Nowhere}}
  /\ online = Nodes
  /\ pc = [i \in Instances |-> "idle"]
  /\ todo = [i \in Instances |-> {}]
  /\ task = EmptyMap
  /\ nodeMap = [i \in Instances |-> {}]
  /\ guestMap = [i \in Instances |-> EmptyMap]
  /\ cacheNodes = [i \in Instances |-> {}]
  /\ cacheGuests = [i \in Instances |-> EmptyMap]
  /\ faults = 0 /\ moves = 0
  /\ spotted = [i \in Instances |-> {}]
  /\ steady = [i \in Instances |-> {}]
  /\ missed = [i \in Instances |-> {}]

-----------------------------------------------------------------------------
(* The world the collectors look at.                                       *)

\* A guest appears, disappears or migrates within its cluster.
Move(g, n) ==
  /\ moves < MaxMoves /\ moves' = moves + 1
  /\ place[g] # n
  /\ n \in NodesOf(Home[g]) \cup {Nowhere}
  /\ place' = [place EXCEPT ![g] = n]
  /\ spotted' = [i \in Instances |->
       IF pc[i] \in {"idle", "discover"} THEN {} ELSE spotted[i] \cup ({<<g, n>>} \cap (Guests \X Nodes))]
  /\ steady' = [i \in Instances |-> steady[i] \ {g}]
  /\ UNCHANGED <<online, pc, locals, task, cache, faults, missed>>

\* A node goes down or comes back.
Flip(n) ==
  /\ moves < MaxMoves /\ moves' = moves + 1
  /\ online' = (online \ {n}) \cup ({n} \ online)
  /\ UNCHANGED <<place, pc, locals, task, cache, faults, history>>

\* A call to an online node may fail; one to a node that is down does.
Fails(n) ==
  IF n \in online THEN faults < MaxFaults /\ faults' = faults + 1
                  ELSE UNCHANGED faults

-----------------------------------------------------------------------------
(* Collect, in its own goroutine.                                          *)

Begin(i) ==
  /\ pc[i] = "idle"
  /\ pc' = [pc EXCEPT ![i] = "discover"]
  /\ UNCHANGED <<world, locals, task, cache, faults, history>>

\* discoverNodes fails: the poll ends, the cache keeps what it has.
DiscoverFails(i) ==
  /\ pc[i] = "discover"
  /\ faults < MaxFaults /\ faults' = faults + 1
  /\ pc' = [pc EXCEPT ![i] = "idle"]
  /\ UNCHANGED <<world, locals, task, cache, history>>

\* discoverNodes answers: the nodes online now are the ones to visit.
DiscoverNodes(i) ==
  /\ pc[i] = "discover"
  /\ pc' = [pc EXCEPT ![i] = "submit"]
  /\ todo' = [todo EXCEPT ![i] = NodesOf(i) \cap online]
  /\ spotted' = [spotted EXCEPT ![i] = {x \in Guests \X Nodes : place[x[1]] = x[2]}]
  /\ steady' = [steady EXCEPT ![i] = Guests]
  /\ UNCHANGED <<world, nodeMap, guestMap, task, cache, faults, missed>>

\* Submit waits for a slot and starts the node's task.
Submit(i, n) ==
  /\ pc[i] = "submit" /\ n \in todo[i]
  /\ n \notin DOMAIN task
  /\ Cardinality(DOMAIN task) < PoolSize
  /\ todo' = [todo EXCEPT ![i] = @ \ {n}]
  /\ task' = Put(task, n, [at |-> "status", found |-> {}])
  /\ UNCHANGED <<world, pc, nodeMap, guestMap, cache, faults, history>>

\* Mutant: the wait covers what is submitted, not what is done.
WaitedForSubmits(i) == todo[i] = {}

\* wg.Wait: every submitted task has called wg.Done.
Waited(i) ==
  /\ todo[i] = {}
  /\ \A n \in DOMAIN task : InstanceOf[n] = i => task[n].at = "release"

\* The last wait is over: UpdateNodes.
UpdateNodes(i) ==
  /\ pc[i] = "submit" /\ Waited(i)
  /\ cacheNodes' = [cacheNodes EXCEPT ![i] = nodeMap[i]]
  /\ pc' = [pc EXCEPT ![i] = "guests"]
  /\ UNCHANGED <<world, locals, task, cacheGuests, faults, history>>

\* Mutant: guests are merged into the map of the last poll, like disks.
UpdateGuestsMerges(i) ==
  /\ pc[i] = "guests"
  /\ cacheGuests' = [cacheGuests EXCEPT ![i] =
       [g \in DOMAIN @ \cup DOMAIN guestMap[i] |->
          IF g \in DOMAIN guestMap[i] THEN guestMap[i][g] ELSE @[g]]]
  /\ pc' = [pc EXCEPT ![i] = "record"]
  /\ UNCHANGED <<world, locals, task, cacheNodes, faults, history>>

UpdateGuests(i) ==
  /\ pc[i] = "guests"
  /\ cacheGuests' = [cacheGuests EXCEPT ![i] = guestMap[i]]
  /\ pc' = [pc EXCEPT ![i] = "record"]
  /\ UNCHANGED <<world, locals, task, cacheNodes, faults, history>>

\* Mutant: the poll's maps are the collector's, and outlive the poll.
RecordKeepsMaps(i) ==
  /\ pc[i] = "record"
  /\ pc' = [pc EXCEPT ![i] = "idle"]
  /\ UNCHANGED <<world, locals, task, cache, faults, history>>

\* The disks go to the cache (module Disks), the rows to the store (module
\* Store), and SetLastPoll ends the poll; its maps end with it.
Record(i) ==
  /\ pc[i] = "record"
  /\ pc' = [pc EXCEPT ![i] = "idle"]
  /\ nodeMap' = [nodeMap EXCEPT ![i] = {}]
  /\ guestMap' = [guestMap EXCEPT ![i] = EmptyMap]
  /\ spotted' = [spotted EXCEPT ![i] = {}]
  /\ steady' = [steady EXCEPT ![i] = {}]
  /\ missed' = [missed EXCEPT ![i] = {}]
  /\ UNCHANGED <<world, todo, task, cache, faults>>

-----------------------------------------------------------------------------
(* One node's task, in a goroutine of the pool.                            *)

\* The task of node n goes on to stage s, having found the guests f too.
GoOn(n, s, f) ==
  task' = [task EXCEPT ![n] = [at |-> s, found |-> @.found \cup f]]

Miss(n) ==
  missed' = [missed EXCEPT ![InstanceOf[n]] = @ \cup {n}]

\* Mutant: a node whose status cannot be read is asked for its guests.
NodeStatusGoesOn(n) ==
  /\ n \in DOMAIN task /\ task[n].at = "status"
  /\ \/ /\ n \in online
        /\ nodeMap' = [nodeMap EXCEPT ![InstanceOf[n]] = @ \cup {n}]
        /\ GoOn(n, "lxc", {})
        /\ UNCHANGED <<faults, missed>>
     \/ Fails(n) /\ Miss(n) /\ GoOn(n, "lxc", {}) /\ UNCHANGED nodeMap
  /\ UNCHANGED <<world, pc, todo, guestMap, cache, spotted, steady>>

NodeStatus(n) ==
  /\ n \in DOMAIN task /\ task[n].at = "status"
  /\ \/ /\ n \in online
        /\ nodeMap' = [nodeMap EXCEPT ![InstanceOf[n]] = @ \cup {n}]
        /\ GoOn(n, "lxc", {})
        /\ UNCHANGED <<faults, missed>>
     \/ Fails(n) /\ Miss(n) /\ GoOn(n, "release", {}) /\ UNCHANGED nodeMap
  /\ UNCHANGED <<world, pc, todo, guestMap, cache, spotted, steady>>

\* collectGuestType: a failed list is logged and counts as an empty one.
GuestType(n, type, next) ==
  /\ n \in DOMAIN task /\ task[n].at = type
  /\ \/ /\ n \in online
        /\ GoOn(n, next, {g \in Guests : place[g] = n /\ (g \in Lxc <=> type = "lxc")})
        /\ UNCHANGED <<faults, missed>>
     \/ Fails(n) /\ Miss(n) /\ GoOn(n, next, {})
  /\ UNCHANGED <<world, pc, locals, cache, spotted, steady>>

\* Mutant: a guest is put on the node it is on when the lists are merged.
MergeGuestsLate(n) ==
  LET i == InstanceOf[n] IN
  /\ n \in DOMAIN task /\ task[n].at = "merge"
  /\ guestMap' = [guestMap EXCEPT ![i] =
       [g \in DOMAIN @ \cup task[n].found |-> IF g \in task[n].found THEN place[g] ELSE @[g]]]
  /\ GoOn(n, "disks", {}) \/ GoOn(n, "release", {})
  /\ UNCHANGED <<world, pc, todo, nodeMap, cache, faults, history>>

\* The guests found go into the poll's map, over what other nodes reported;
\* the disks follow if they are due, which module Disks decides.
MergeGuests(n) ==
  LET i == InstanceOf[n] IN
  /\ n \in DOMAIN task /\ task[n].at = "merge"
  /\ guestMap' = [guestMap EXCEPT ![i] =
       [g \in DOMAIN @ \cup task[n].found |-> IF g \in task[n].found THEN n ELSE @[g]]]
  /\ GoOn(n, "disks", {}) \/ GoOn(n, "release", {})
  /\ UNCHANGED <<world, pc, todo, nodeMap, cache, faults, history>>

\* collectDisks, with its calls for every disk; a failure is only logged.
CollectDisks(n) ==
  /\ n \in DOMAIN task /\ task[n].at = "disks"
  /\ GoOn(n, "release", {})
  /\ UNCHANGED faults \/ Fails(n)
  /\ UNCHANGED <<world, pc, locals, cache, history>>

\* Mutant: a task that found nothing returns without giving the slot back.
ReleaseUnlessEmpty(n) ==
  /\ n \in DOMAIN task /\ task[n].at = "release" /\ task[n].found # {}
  /\ task' = Drop(task, n)
  /\ UNCHANGED <<world, pc, locals, cache, faults, history>>

\* wg.Done has been called; the slot is given back.
Release(n) ==
  /\ n \in DOMAIN task /\ task[n].at = "release"
  /\ task' = Drop(task, n)
  /\ UNCHANGED <<world, pc, locals, cache, faults, history>>

-----------------------------------------------------------------------------
Poll(i) ==
  \/ Begin(i) \/ DiscoverFails(i) \/ DiscoverNodes(i)
  \/ UpdateNodes(i) \/ UpdateGuests(i) \/ Record(i)

Task(n) ==
  \/ NodeStatus(n)
  \/ GuestType(n, "lxc", "qemu")
  \/ GuestType(n, "qemu", "merge")
  \/ MergeGuests(n)
  \/ CollectDisks(n)
  \/ Release(n)

Next ==
  \/ \E i \in Instances : Poll(i)
  \/ \E i \in Instances, n \in Nodes : Submit(i, n)
  \/ \E n \in Nodes : Task(n) \/ Flip(n)
  \/ \E g \in Guests, n \in Nodes \cup {Nowhere} : Move(g, n)

Spec == Init /\ [][Next]_vars

\* Every call returns (its client times out after 30 s), every goroutine runs,
\* and senders blocked on the pool's channel are served in order.
Fairness ==
  /\ \A i \in Instances : WF_vars(Poll(i))
  /\ \A n \in Nodes : WF_vars(Task(n))
  /\ \A n \in Nodes : SF_vars(Submit(InstanceOf[n], n))

FairSpec == Spec /\ Fairness
-----------------------------------------------------------------------------
\* Instance i publishes the guests of its poll.
Publishes(i) == pc[i] = "guests" /\ pc'[i] # "guests"

\* The cache never gets a guest that was not, during the poll, where the cache
\* says it is: nothing survives from an earlier poll (Collect's fresh maps).
NoGhostGuests ==
  [][\A i \in Instances : Publishes(i) =>
       \A g \in DOMAIN cacheGuests'[i] : <<g, cacheGuests'[i][g]>> \in spotted[i]]_vars

\* A guest that stayed on one node, all of whose calls were answered, is
\* published there, whatever happened to other nodes and guests (Collect's
\* wait for all tasks, collectGuests' tolerance of failed lists).
SteadyGuestsPublished ==
  [][\A i \in Instances : Publishes(i) =>
       \A g \in steady[i] : place[g] \in nodeMap[i] \ missed[i] =>
         g \in DOMAIN cacheGuests'[i] /\ cacheGuests'[i][g] = place[g]]_vars

\* Once the world rests and calls succeed, the cache shows what is there, and
\* keeps showing it (Collect, UpdateNodes, UpdateGuests).
CacheConverges ==
  <>[](\A i \in Instances :
         /\ cacheNodes[i] = NodesOf(i) \cap online
         /\ DOMAIN cacheGuests[i] = {g \in Guests : place[g] \in NodesOf(i) \cap online}
         /\ \A g \in DOMAIN cacheGuests[i] : cacheGuests[i][g] = place[g])

\* No collector waits for ever for the pool they share: every one of them goes
\* on completing polls (Submit, Run).
EveryInstancePolled == \A i \in Instances : []<>(pc[i] = "record")

\* Except between UpdateNodes and UpdateGuests of its own poll, an instance's
\* guests are on nodes of the cache: a dashboard page groups guests under their
\* nodes, whichever nodes and calls have failed (pve.go 85-104, 146-147).
GuestsHaveNodes ==
  \A i \in Instances : pc[i] # "guests" =>
    \A g \in DOMAIN cacheGuests[i] : cacheGuests[i][g] \in cacheNodes[i]
=============================================================================
