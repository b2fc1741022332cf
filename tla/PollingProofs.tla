---------------------------- MODULE PollingProofs ----------------------------
(* Proofs about the PVE collectors, for all clusters, guests and pools. *)
EXTENDS Polling, TLAPS

USE PollingAssumption

-----------------------------------------------------------------------------
(* Type correctness.                                                       *)

LEMMA GuestMapType ==
  ASSUME NEW f
  PROVE  f \in GuestMaps <=> DOMAIN f \subseteq Guests /\ f \in [DOMAIN f -> Nodes]
BY DEF GuestMaps

LEMMA EmptyGuestMap == EmptyMap \in GuestMaps /\ DOMAIN EmptyMap = {}
<1>1. DOMAIN EmptyMap = {} /\ EmptyMap \in [{} -> Nodes]
  BY DEF EmptyMap
<1> QED BY <1>1, GuestMapType

\* One task goes on: the others are as they were (Collect's submitted function).
LEMMA GoOnTask ==
  ASSUME TypeOK, NEW n \in DOMAIN task, NEW s \in Calls \cup {"merge", "release"},
         NEW f \in SUBSET Guests, GoOn(n, s, f)
  PROVE  /\ DOMAIN task' = DOMAIN task
         /\ task' \in [DOMAIN task -> Tasks]
         /\ task'[n] = [at |-> s, found |-> task[n].found \cup f]
         /\ \A x \in DOMAIN task \ {n} : task'[x] = task[x]
<1>1. task \in [DOMAIN task -> Tasks]
  BY DEF TypeOK
<1>2. [at |-> s, found |-> task[n].found \cup f] \in Tasks
  BY <1>1 DEF Tasks
<1> QED BY <1>1, <1>2 DEF GoOn

LEMMA InitTypes == Init => TypeOK
<1> SUFFICES ASSUME Init PROVE TypeOK
  OBVIOUS
<1>1. task \in [DOMAIN task -> Tasks] /\ DOMAIN task \subseteq Nodes
  BY DEF Init, EmptyMap
<1> QED BY <1>1, EmptyGuestMap DEF Init, TypeOK, Stages

LEMMA WorldTypes ==
  ASSUME TypeOK,
         \/ \E n \in Nodes : Flip(n)
         \/ \E g \in Guests, n \in Nodes \cup {Nowhere} : Move(g, n)
  PROVE  TypeOK'
<1>1. ASSUME NEW n \in Nodes, Flip(n) PROVE TypeOK'
  BY <1>1 DEF Flip, TypeOK, locals, cache, history
<1>2. ASSUME NEW g \in Guests, NEW n \in Nodes \cup {Nowhere}, Move(g, n) PROVE TypeOK'
  <2>1. place' \in [Guests -> Nodes \cup {Nowhere}]
    BY <1>2 DEF Move, TypeOK
  <2>2. spotted' \in [Instances -> SUBSET (Guests \X Nodes)]
    <3>1. \A i \in Instances :
            (IF pc[i] \in {"idle", "discover"} THEN {}
             ELSE spotted[i] \cup ({<<g, n>>} \cap (Guests \X Nodes))) \in SUBSET (Guests \X Nodes)
      BY DEF TypeOK
    <3> QED BY <1>2, <3>1 DEF Move
  <2>3. steady' \in [Instances -> SUBSET Guests]
    BY <1>2 DEF Move, TypeOK
  <2> QED BY <1>2, <2>1, <2>2, <2>3 DEF Move, TypeOK, locals, cache
<1> QED BY <1>1, <1>2

LEMMA CollectTypes ==
  ASSUME TypeOK, NEW i \in Instances, Poll(i) \/ \E n \in Nodes : Submit(i, n)
  PROVE  TypeOK'
<1>1. CASE Begin(i)
  BY <1>1 DEF Begin, TypeOK, Stages, world, locals, cache, history
<1>2. CASE DiscoverFails(i)
  BY <1>2 DEF DiscoverFails, TypeOK, Stages, world, locals, cache, history
<1>3. CASE DiscoverNodes(i)
  <2>1. {x \in Guests \X Nodes : place[x[1]] = x[2]} \subseteq Guests \X Nodes
    OBVIOUS
  <2>2. NodesOf(i) \cap online \subseteq Nodes
    BY DEF NodesOf
  <2> QED BY <1>3, <2>1, <2>2 DEF DiscoverNodes, TypeOK, Stages, world, cache
<1>4. ASSUME NEW n \in Nodes, Submit(i, n) PROVE TypeOK'
  <2>1. task' \in [DOMAIN task' -> Tasks] /\ DOMAIN task' \subseteq Nodes
    <3>1. [at |-> "status", found |-> {}] \in Tasks
      BY DEF Tasks, Calls
    <3> QED BY <1>4, <3>1 DEF Submit, Put, TypeOK
  <2> QED BY <1>4, <2>1 DEF Submit, TypeOK, world, cache, history
<1>5. CASE UpdateNodes(i)
  BY <1>5 DEF UpdateNodes, TypeOK, Stages, world, locals, history
<1>6. CASE UpdateGuests(i)
  BY <1>6 DEF UpdateGuests, TypeOK, Stages, world, locals, history
<1>7. CASE Record(i)
  BY <1>7, EmptyGuestMap DEF Record, TypeOK, Stages, world, cache
<1> QED BY <1>1, <1>2, <1>3, <1>4, <1>5, <1>6, <1>7 DEF Poll

LEMMA FaultsType ==
  ASSUME TypeOK, NEW n \in Nodes, Fails(n)
  PROVE  faults' \in 0..MaxFaults
BY DEF Fails, TypeOK

LEMMA MissType ==
  ASSUME TypeOK, NEW n \in Nodes, Miss(n) \/ UNCHANGED missed
  PROVE  missed' \in [Instances -> SUBSET Nodes]
BY DEF Miss, TypeOK

LEMMA TaskTypes ==
  ASSUME TypeOK, NEW n \in Nodes, Task(n)
  PROVE  TypeOK'
<1> USE DEF Calls
<1> DEFINE Goes == \E s \in Calls \cup {"merge", "release"}, f \in SUBSET Guests :
                     n \in DOMAIN task /\ GoOn(n, s, f)
<1>1. Goes => task' \in [DOMAIN task' -> Tasks] /\ DOMAIN task' \subseteq Nodes
  <2> SUFFICES ASSUME n \in DOMAIN task, NEW s \in Calls \cup {"merge", "release"},
                      NEW f \in SUBSET Guests, GoOn(n, s, f)
               PROVE  task' \in [DOMAIN task' -> Tasks] /\ DOMAIN task' \subseteq Nodes
    OBVIOUS
  <2> QED BY GoOnTask DEF TypeOK
<1>2. CASE NodeStatus(n)
  <2>1. Goes
    BY <1>2 DEF NodeStatus
  <2>2. nodeMap' \in [Instances -> SUBSET Nodes]
    BY <1>2 DEF NodeStatus, TypeOK
  <2>3. faults' \in 0..MaxFaults /\ missed' \in [Instances -> SUBSET Nodes]
    BY <1>2, FaultsType, MissType DEF NodeStatus, TypeOK
  <2> QED BY <1>1, <1>2, <2>1, <2>2, <2>3 DEF NodeStatus, TypeOK, world, cache
<1>3. ASSUME NEW type \in {"lxc", "qemu"}, NEW next \in {"qemu", "merge"}, GuestType(n, type, next)
      PROVE  TypeOK'
  <2>1. Goes
    <3>1. {g \in Guests : place[g] = n /\ (g \in Lxc <=> type = "lxc")} \in SUBSET Guests
      OBVIOUS
    <3> QED BY <1>3, <3>1 DEF GuestType
  <2>3. faults' \in 0..MaxFaults /\ missed' \in [Instances -> SUBSET Nodes]
    BY <1>3, FaultsType, MissType DEF GuestType, TypeOK
  <2> QED BY <1>1, <1>3, <2>1, <2>3 DEF GuestType, TypeOK, world, cache, locals
<1>4. CASE MergeGuests(n)
  <2>1. Goes
    BY <1>4 DEF MergeGuests
  <2>2. guestMap' \in [Instances -> GuestMaps]
    <3> DEFINE i == InstanceOf[n]
               merged == [g \in DOMAIN guestMap[i] \cup task[n].found |->
                            IF g \in task[n].found THEN n ELSE guestMap[i][g]]
    <3>1. n \in DOMAIN task /\ task[n].found \subseteq Guests /\ guestMap[i] \in GuestMaps
      BY <1>4 DEF MergeGuests, TypeOK, Tasks
    <3>2. merged \in GuestMaps
      BY <3>1, GuestMapType
    <3> QED BY <1>4, <3>2 DEF MergeGuests, TypeOK
  <2> QED BY <1>1, <1>4, <2>1, <2>2 DEF MergeGuests, TypeOK, world, cache, history
<1>5. CASE CollectDisks(n)
  <2>1. Goes
    BY <1>5 DEF CollectDisks
  <2>2. faults' \in 0..MaxFaults
    BY <1>5, FaultsType DEF CollectDisks, TypeOK
  <2> QED BY <1>1, <1>5, <2>1, <2>2 DEF CollectDisks, TypeOK, world, locals, cache, history
<1>6. CASE Release(n)
  <2>1. task' \in [DOMAIN task' -> Tasks] /\ DOMAIN task' \subseteq Nodes
    BY <1>6 DEF Release, Drop, Restrict, TypeOK
  <2> QED BY <1>6, <2>1 DEF Release, TypeOK, world, locals, cache, history
<1> QED BY <1>2, <1>3, <1>4, <1>5, <1>6 DEF Task

LEMMA StepTypes ==
  ASSUME TypeOK, [Next]_vars
  PROVE  TypeOK'
<1>1. CASE UNCHANGED vars
  BY <1>1 DEF vars, world, locals, cache, history, TypeOK
<1> QED BY <1>1, WorldTypes, CollectTypes, TaskTypes DEF Next

\* The collectors' variables keep their types, for all clusters and pools.
THEOREM TypeCorrect == Spec => []TypeOK
<1>1. TypeOK /\ [Next]_vars => TypeOK'
  BY StepTypes
<1> QED BY <1>1, InitTypes, PTL DEF Spec

-----------------------------------------------------------------------------
(* Guests are on nodes of the cache, but for the instant between updates.  *)

\* A collector submits its own nodes.
OwnTodo == \A i \in Instances : todo[i] \subseteq NodesOf(i)

\* Only while it submits and waits do tasks of a poll do anything.
Quiet ==
  \A i \in Instances : pc[i] # "submit" =>
    \A n \in DOMAIN task : InstanceOf[n] = i => task[n].at = "release"

\* A task asks for guests only when the node's status is known.
Listed ==
  \A n \in DOMAIN task : task[n].at \notin {"status", "release"} => n \in nodeMap[InstanceOf[n]]

MapOnNodes == \A i \in Instances : \A g \in DOMAIN guestMap[i] : guestMap[i][g] \in nodeMap[i]

Between == \A i \in Instances : pc[i] = "guests" => cacheNodes[i] = nodeMap[i]

Grouped == OwnTodo /\ Quiet /\ Listed /\ MapOnNodes /\ Between /\ GuestsHaveNodes

LEMMA InitGrouped == Init => Grouped
BY DEF Init, Grouped, OwnTodo, Quiet, Listed, MapOnNodes, Between, GuestsHaveNodes, EmptyMap

LEMMA CollectGrouped ==
  ASSUME TypeOK, Grouped, NEW i \in Instances, Poll(i) \/ \E n \in Nodes : Submit(i, n)
  PROVE  Grouped'
<1> USE DEF Grouped, OwnTodo, Quiet, Listed, MapOnNodes, Between, GuestsHaveNodes
<1>1. CASE Begin(i)
  BY <1>1 DEF Begin, TypeOK, locals, cache
<1>2. CASE DiscoverFails(i)
  BY <1>2 DEF DiscoverFails, TypeOK, locals, cache
<1>3. CASE DiscoverNodes(i)
  <2>1. OwnTodo'
    BY <1>3 DEF DiscoverNodes, TypeOK, NodesOf
  <2> QED BY <1>3, <2>1 DEF DiscoverNodes, TypeOK, cache
<1>4. ASSUME NEW n \in Nodes, Submit(i, n) PROVE Grouped'
  <2>1. InstanceOf[n] = i /\ pc[i] = "submit"
    BY <1>4 DEF Submit, NodesOf
  <2>2. /\ DOMAIN task' = DOMAIN task \cup {n} /\ task'[n].at = "status"
        /\ \A x \in DOMAIN task : task'[x] = task[x]
    BY <1>4 DEF Submit, Put
  <2>3. OwnTodo'
    BY <1>4 DEF Submit, TypeOK, NodesOf
  <2>4. Quiet' /\ Listed'
    BY <1>4, <2>1, <2>2 DEF Submit, world
  <2> QED BY <1>4, <2>3, <2>4 DEF Submit, cache
<1>5. CASE UpdateNodes(i)
  <2>1. Quiet'
    BY <1>5 DEF UpdateNodes, TypeOK, Waited
  <2>2. Between' /\ GuestsHaveNodes'
    BY <1>5 DEF UpdateNodes, TypeOK, locals
  <2> QED BY <1>5, <2>1, <2>2 DEF UpdateNodes, locals
<1>6. CASE UpdateGuests(i)
  <2>1. Quiet' /\ Between'
    BY <1>6 DEF UpdateGuests, TypeOK, locals
  <2>2. GuestsHaveNodes'
    BY <1>6 DEF UpdateGuests, TypeOK
  <2> QED BY <1>6, <2>1, <2>2 DEF UpdateGuests, locals
<1>7. CASE Record(i)
  <2>1. Quiet' /\ Between' /\ GuestsHaveNodes' /\ OwnTodo'
    BY <1>7 DEF Record, TypeOK, cache
  <2>2. Listed'
    BY <1>7 DEF Record, TypeOK
  <2>3. MapOnNodes'
    BY <1>7, EmptyGuestMap DEF Record, TypeOK
  <2> QED BY <2>1, <2>2, <2>3
<1> QED BY <1>1, <1>2, <1>3, <1>4, <1>5, <1>6, <1>7 DEF Poll

\* While a task does anything, its collector submits or waits.
LEMMA TaskIsCollected ==
  ASSUME Grouped, NEW n \in Nodes, n \in DOMAIN task, task[n].at # "release"
  PROVE  InstanceOf[n] \in Instances /\ pc[InstanceOf[n]] = "submit"
BY DEF Grouped, Quiet

LEMMA GoOnGrouped ==
  ASSUME TypeOK, Quiet, Listed, NEW n \in DOMAIN task, NEW s \in Calls \cup {"merge", "release"},
         NEW f \in SUBSET Guests, GoOn(n, s, f),
         pc' = pc, pc[InstanceOf[n]] = "submit" \/ s = "release",
         \A i \in Instances : nodeMap[i] \subseteq nodeMap'[i],
         s = "release" \/ n \in nodeMap'[InstanceOf[n]]
  PROVE  Quiet' /\ Listed'
<1>1. /\ DOMAIN task' = DOMAIN task /\ task'[n].at = s
      /\ \A x \in DOMAIN task \ {n} : task'[x] = task[x]
  <2>1. task'[n] = [at |-> s, found |-> task[n].found \cup f]
    BY GoOnTask
  <2> QED BY <2>1, GoOnTask
<1>2. \A x \in DOMAIN task : InstanceOf[x] \in Instances
  BY DEF TypeOK
<1>3. Quiet'
  BY <1>1 DEF Quiet
<1>4. Listed'
  <2> SUFFICES ASSUME NEW x \in DOMAIN task, task'[x].at \notin {"status", "release"}
               PROVE  x \in nodeMap'[InstanceOf[x]]
    BY <1>1 DEF Listed
  <2>1. CASE x = n
    BY <1>1, <2>1
  <2>2. CASE x # n
    BY <1>1, <1>2, <2>2 DEF Listed
  <2> QED BY <2>1, <2>2
<1> QED BY <1>3, <1>4

LEMMA TaskGrouped ==
  ASSUME TypeOK, Grouped, NEW n \in Nodes, Task(n)
  PROVE  Grouped'
<1> USE DEF Grouped, OwnTodo, Quiet, Listed, MapOnNodes, Between, GuestsHaveNodes, Calls
<1> DEFINE i == InstanceOf[n]
<1>1. CASE NodeStatus(n)
  <2>1. i \in Instances /\ pc[i] = "submit" /\ n \in DOMAIN task
    BY <1>1, TaskIsCollected DEF NodeStatus
  <2>2. \/ nodeMap' = [nodeMap EXCEPT ![i] = @ \cup {n}] /\ GoOn(n, "lxc", {})
        \/ nodeMap' = nodeMap /\ GoOn(n, "release", {})
    BY <1>1 DEF NodeStatus
  <2>3. \A j \in Instances : nodeMap[j] \subseteq nodeMap'[j]
    BY <2>2 DEF TypeOK
  <2>4. Quiet' /\ Listed'
    <3>1. pc' = pc /\ nodeMap \in [Instances -> SUBSET Nodes]
      BY <1>1 DEF NodeStatus, TypeOK
    <3>2. CASE nodeMap' = [nodeMap EXCEPT ![i] = @ \cup {n}] /\ GoOn(n, "lxc", {})
      <4>1. n \in nodeMap'[i]
        BY <2>1, <3>1, <3>2
      <4> QED BY <2>1, <2>3, <3>1, <3>2, <4>1, GoOnGrouped
    <3>3. CASE nodeMap' = nodeMap /\ GoOn(n, "release", {})
      BY <2>1, <2>3, <3>1, <3>3, GoOnGrouped
    <3> QED BY <2>2, <3>2, <3>3
  <2>5. MapOnNodes'
    BY <1>1, <2>3 DEF NodeStatus
  <2>6. Between'
    BY <1>1, <2>1, <2>2 DEF NodeStatus, cache, TypeOK
  <2> QED BY <1>1, <2>4, <2>5, <2>6 DEF NodeStatus, cache
<1>2. ASSUME NEW type \in {"lxc", "qemu"}, NEW next \in {"qemu", "merge"}, GuestType(n, type, next)
      PROVE  Grouped'
  <2>1. i \in Instances /\ pc[i] = "submit" /\ n \in DOMAIN task /\ n \in nodeMap[i]
    BY <1>2, TaskIsCollected DEF GuestType
  <2>2. \E f \in SUBSET Guests : GoOn(n, next, f)
    <3>1. {g \in Guests : place[g] = n /\ (g \in Lxc <=> type = "lxc")} \in SUBSET Guests
      OBVIOUS
    <3> QED BY <1>2, <3>1 DEF GuestType
  <2>3. Quiet' /\ Listed'
    BY <1>2, <2>1, <2>2, GoOnGrouped DEF GuestType, locals
  <2> QED BY <1>2, <2>3 DEF GuestType, cache, locals
<1>3. CASE MergeGuests(n)
  <2>1. i \in Instances /\ pc[i] = "submit" /\ n \in DOMAIN task /\ n \in nodeMap[i]
    BY <1>3, TaskIsCollected DEF MergeGuests
  <2>2. \E s \in {"disks", "release"} : GoOn(n, s, {})
    BY <1>3 DEF MergeGuests
  <2>3. Quiet' /\ Listed'
    BY <1>3, <2>1, <2>2, GoOnGrouped DEF MergeGuests
  <2>4. MapOnNodes'
    BY <1>3, <2>1 DEF MergeGuests, TypeOK
  <2> QED BY <1>3, <2>3, <2>4 DEF MergeGuests, cache
<1>4. CASE CollectDisks(n)
  <2>1. n \in DOMAIN task /\ GoOn(n, "release", {})
    BY <1>4 DEF CollectDisks
  <2>2. Quiet' /\ Listed'
    BY <1>4, <2>1, GoOnGrouped DEF CollectDisks, locals
  <2> QED BY <1>4, <2>2 DEF CollectDisks, cache, locals
<1>5. CASE Release(n)
  <2>1. DOMAIN task' \subseteq DOMAIN task /\ \A x \in DOMAIN task' : task'[x] = task[x]
    BY <1>5 DEF Release, Drop, Restrict
  <2>2. Quiet' /\ Listed'
    BY <1>5, <2>1 DEF Release, locals
  <2> QED BY <1>5, <2>2 DEF Release, cache, locals
<1> QED BY <1>1, <1>2, <1>3, <1>4, <1>5 DEF Task

LEMMA StepGrouped ==
  ASSUME TypeOK, Grouped, [Next]_vars
  PROVE  Grouped'
<1> USE DEF Grouped, OwnTodo, Quiet, Listed, MapOnNodes, Between, GuestsHaveNodes
<1>1. CASE \E n \in Nodes : Flip(n)
  BY <1>1 DEF Flip, locals, cache
<1>2. CASE \E g \in Guests, n \in Nodes \cup {Nowhere} : Move(g, n)
  BY <1>2 DEF Move, locals, cache
<1>3. CASE UNCHANGED vars
  BY <1>3 DEF vars, locals, cache
<1> QED BY <1>1, <1>2, <1>3, CollectGrouped, TaskGrouped DEF Next

\* Between polls, and during them but for one instant, every guest the cache
\* holds is on a node it holds, whatever fails or moves (pve.go 85-147).
THEOREM GuestsOnNodes == Spec => []GuestsHaveNodes
<1>1. TypeOK /\ Grouped /\ [Next]_vars => Grouped'
  BY StepGrouped
<1>2. Grouped => GuestsHaveNodes
  BY DEF Grouped
<1> QED BY <1>1, <1>2, InitGrouped, TypeCorrect, PTL DEF Spec

-----------------------------------------------------------------------------
(* What a poll publishes was true while it ran, and is complete for guests *)
(* and nodes that gave it no trouble.                                      *)

Polled(i) == pc[i] \notin {"idle", "discover"}

\* Nothing is left of the last poll when the next begins.
Fresh == \A i \in Instances : ~Polled(i) => nodeMap[i] = {} /\ guestMap[i] = EmptyMap

OwnNodes == \A i \in Instances : nodeMap[i] \subseteq NodesOf(i)

\* The history of a poll holds where guests are, and for the steady ones
\* nothing else.
Seen ==
  \A i \in Instances : Polled(i) =>
    \A g \in Guests : place[g] \in Nodes => <<g, place[g]>> \in spotted[i]

OnePlace ==
  \A i \in Instances : Polled(i) =>
    \A g \in steady[i], n \in Nodes : <<g, n>> \in spotted[i] => n = place[g]

FoundSeen ==
  \A n \in DOMAIN task : task[n].at # "release" =>
    \A g \in task[n].found : <<g, n>> \in spotted[InstanceOf[n]]

MapSeen ==
  \A i \in Instances : \A g \in DOMAIN guestMap[i] : <<g, guestMap[i][g]>> \in spotted[i]

\* The task of node n has guest g, or has still to ask for it.
OnItsWay(n, g) ==
  /\ n \in DOMAIN task
  /\ \/ task[n].at = "lxc"
     \/ task[n].at = "qemu" /\ (g \in Lxc => g \in task[n].found)
     \/ task[n].at = "merge" /\ g \in task[n].found

Mapped(i, g) == g \in DOMAIN guestMap[i] /\ guestMap[i][g] = place[g]

Covered ==
  \A i \in Instances : \A g \in steady[i] :
    place[g] \in nodeMap[i] \ missed[i] => OnItsWay(place[g], g) \/ Mapped(i, g)

Truthful == Fresh /\ OwnNodes /\ Seen /\ OnePlace /\ FoundSeen /\ MapSeen /\ Covered

LEMMA InitTruthful == Init => Truthful
BY DEF Init, Truthful, Fresh, OwnNodes, Seen, OnePlace, FoundSeen, MapSeen, Covered, Polled, EmptyMap

LEMMA WorldTruthful ==
  ASSUME TypeOK, Grouped, Truthful,
         \/ \E n \in Nodes : Flip(n)
         \/ \E g \in Guests, n \in Nodes \cup {Nowhere} : Move(g, n)
  PROVE  Truthful'
<1>1. ASSUME NEW n \in Nodes, Flip(n) PROVE Truthful'
  BY <1>1 DEF Flip, locals, cache, history, Truthful, Fresh, OwnNodes, Seen, OnePlace, FoundSeen,
     MapSeen, Covered, Polled, OnItsWay, Mapped
<1>2. ASSUME NEW g \in Guests, NEW n \in Nodes \cup {Nowhere}, Move(g, n) PROVE Truthful'
  <2>1. /\ pc' = pc /\ nodeMap' = nodeMap /\ guestMap' = guestMap /\ task' = task
        /\ missed' = missed
        /\ place' = [place EXCEPT ![g] = n]
        /\ \A i \in Instances : steady'[i] = steady[i] \ {g}
        /\ \A i \in Instances : Polled(i) =>
              spotted'[i] = spotted[i] \cup ({<<g, n>>} \cap (Guests \X Nodes))
    BY <1>2 DEF Move, locals, Polled, TypeOK
  <2>2. place \in [Guests -> Nodes \cup {Nowhere}] /\ \A i \in Instances : steady[i] \subseteq Guests
    BY DEF TypeOK
  <2>3. Fresh' /\ OwnNodes'
    BY <2>1 DEF Truthful, Fresh, OwnNodes, Polled
  <2>4. Seen'
    BY <2>1, <2>2 DEF Truthful, Seen, Polled
  <2>5. OnePlace'
    BY <2>1, <2>2 DEF Truthful, OnePlace, Polled
  <2>6. FoundSeen'
    <3> SUFFICES ASSUME NEW x \in DOMAIN task, task[x].at # "release", NEW h \in task[x].found
                 PROVE  <<h, x>> \in spotted'[InstanceOf[x]]
      BY <2>1 DEF FoundSeen
    <3>1. x \in Nodes
      BY DEF TypeOK
    <3>2. InstanceOf[x] \in Instances /\ Polled(InstanceOf[x])
      BY <3>1, TaskIsCollected DEF Polled
    <3> QED BY <2>1, <3>2 DEF Truthful, FoundSeen
  <2>7. MapSeen'
    <3> SUFFICES ASSUME NEW i \in Instances, NEW h \in DOMAIN guestMap[i]
                 PROVE  <<h, guestMap[i][h]>> \in spotted'[i]
      BY <2>1 DEF MapSeen
    <3>1. Polled(i)
      BY EmptyGuestMap DEF Truthful, Fresh
    <3> QED BY <2>1, <3>1 DEF Truthful, MapSeen
  <2>8. Covered'
    <3>1. \A h \in Guests \ {g} : place'[h] = place[h]
      BY <2>1, <2>2
    <3> SUFFICES ASSUME NEW i \in Instances, NEW h \in steady'[i],
                        place'[h] \in nodeMap'[i] \ missed'[i]
                 PROVE  (OnItsWay(place[h], h) \/ Mapped(i, h))'
      BY DEF Covered
    <3>2. h \in steady[i] /\ place'[h] = place[h]
      BY <2>1, <2>2, <3>1
    <3>3. OnItsWay(place[h], h) \/ Mapped(i, h)
      BY <2>1, <3>2 DEF Truthful, Covered
    <3> QED BY <2>1, <3>2, <3>3 DEF OnItsWay, Mapped
  <2> QED BY <2>3, <2>4, <2>5, <2>6, <2>7, <2>8 DEF Truthful
<1> QED BY <1>1, <1>2

LEMMA CollectTruthful ==
  ASSUME TypeOK, Grouped, Truthful, NEW i \in Instances, Poll(i) \/ \E n \in Nodes : Submit(i, n)
  PROVE  Truthful'
<1> USE DEF Truthful, Fresh, OwnNodes, Seen, OnePlace, FoundSeen, MapSeen, Covered, Polled
<1>1. CASE Begin(i)
  BY <1>1 DEF Begin, TypeOK, world, locals, history, OnItsWay, Mapped
<1>2. CASE DiscoverFails(i)
  BY <1>2 DEF DiscoverFails, TypeOK, world, locals, history, OnItsWay, Mapped
<1>3. CASE DiscoverNodes(i)
  <2>1. /\ nodeMap' = nodeMap /\ guestMap' = guestMap /\ task' = task /\ missed' = missed
        /\ place' = place
        /\ spotted'[i] = {x \in Guests \X Nodes : place[x[1]] = x[2]} /\ steady'[i] = Guests
        /\ pc'[i] = "submit" /\ pc[i] = "discover"
        /\ \A j \in Instances \ {i} :
              spotted'[j] = spotted[j] /\ steady'[j] = steady[j] /\ pc'[j] = pc[j]
    BY <1>3 DEF DiscoverNodes, TypeOK, world
  <2>2. nodeMap[i] = {} /\ guestMap[i] = EmptyMap
    BY <2>1
  <2>3. Fresh' /\ OwnNodes' /\ Seen' /\ OnePlace'
    BY <2>1
  <2>4. FoundSeen'
    <3>1. \A n \in DOMAIN task : task[n].at # "release" => InstanceOf[n] \in Instances \ {i}
      BY <2>1, TaskIsCollected DEF TypeOK
    <3> QED BY <2>1, <3>1
  <2>5. MapSeen'
    BY <2>1, <2>2, EmptyGuestMap
  <2>6. Covered'
    BY <2>1, <2>2 DEF OnItsWay, Mapped
  <2> QED BY <2>3, <2>4, <2>5, <2>6
<1>4. ASSUME NEW n \in Nodes, Submit(i, n) PROVE Truthful'
  <2>1. /\ n \notin DOMAIN task
        /\ DOMAIN task' = DOMAIN task \cup {n} /\ task'[n].found = {}
        /\ \A x \in DOMAIN task : task'[x] = task[x]
    BY <1>4 DEF Submit, Put
  <2>2. /\ nodeMap' = nodeMap /\ guestMap' = guestMap /\ missed' = missed
        /\ place' = place /\ spotted' = spotted /\ steady' = steady /\ pc' = pc
    BY <1>4 DEF Submit, world, history
  <2>3. Fresh' /\ OwnNodes' /\ Seen' /\ OnePlace' /\ MapSeen'
    BY <2>2
  <2>4. FoundSeen'
    BY <2>1, <2>2
  <2>5. Covered'
    BY <2>1, <2>2 DEF OnItsWay, Mapped
  <2> QED BY <2>3, <2>4, <2>5
<1>5. CASE UpdateNodes(i) \/ UpdateGuests(i)
  <2>1. /\ nodeMap' = nodeMap /\ guestMap' = guestMap /\ missed' = missed /\ task' = task
        /\ place' = place /\ spotted' = spotted /\ steady' = steady
        /\ \A j \in Instances : Polled(j)' <=> Polled(j)
    BY <1>5 DEF UpdateNodes, UpdateGuests, world, locals, history, TypeOK
  <2> QED BY <2>1 DEF OnItsWay, Mapped
<1>6. CASE Record(i)
  <2>1. /\ nodeMap'[i] = {} /\ guestMap'[i] = EmptyMap /\ steady'[i] = {} /\ pc'[i] = "idle"
        /\ pc[i] = "record" /\ task' = task /\ place' = place
        /\ \A j \in Instances \ {i} :
              /\ nodeMap'[j] = nodeMap[j] /\ guestMap'[j] = guestMap[j] /\ pc'[j] = pc[j]
              /\ spotted'[j] = spotted[j] /\ steady'[j] = steady[j] /\ missed'[j] = missed[j]
    BY <1>6 DEF Record, TypeOK, world
  <2>2. Fresh' /\ OwnNodes' /\ Seen' /\ OnePlace'
    BY <2>1
  <2>3. FoundSeen'
    <3>1. \A n \in DOMAIN task : task[n].at # "release" => InstanceOf[n] \in Instances \ {i}
      BY <2>1, TaskIsCollected DEF TypeOK
    <3> QED BY <2>1, <3>1
  <2>4. MapSeen'
    BY <2>1, EmptyGuestMap
  <2>5. Covered'
    BY <2>1 DEF OnItsWay, Mapped
  <2> QED BY <2>2, <2>3, <2>4, <2>5
<1> QED BY <1>1, <1>2, <1>3, <1>4, <1>5, <1>6 DEF Poll

\* A task that goes on has found only what it was told (collectGuestType).
LEMMA GoOnFound ==
  ASSUME TypeOK, FoundSeen, NEW n \in DOMAIN task, task[n].at # "release",
         NEW s \in Calls \cup {"merge", "release"}, NEW f \in SUBSET Guests, GoOn(n, s, f),
         spotted' = spotted, \A g \in f : <<g, n>> \in spotted[InstanceOf[n]]
  PROVE  FoundSeen'
<1>1. task'[n] = [at |-> s, found |-> task[n].found \cup f]
      /\ DOMAIN task' = DOMAIN task /\ \A x \in DOMAIN task \ {n} : task'[x] = task[x]
  BY GoOnTask
<1>2. task'[n].found = task[n].found \cup f
  BY <1>1
<1> SUFFICES ASSUME NEW x \in DOMAIN task, task'[x].at # "release", NEW g \in task'[x].found
             PROVE  <<g, x>> \in spotted[InstanceOf[x]]
  BY <1>1 DEF FoundSeen
<1>3. CASE x = n
  BY <1>2, <1>3 DEF FoundSeen
<1>4. CASE x # n
  BY <1>1, <1>4 DEF FoundSeen
<1> QED BY <1>3, <1>4

\* What one node's task does about the guests of its node is all that counts.
LEMMA GoOnCovered ==
  ASSUME TypeOK, Truthful, NEW n \in Nodes, n \in DOMAIN task,
         NEW s \in Calls \cup {"merge", "release"}, NEW f \in SUBSET Guests, GoOn(n, s, f),
         place' = place, steady' = steady,
         \A i \in Instances : nodeMap'[i] \subseteq NodesOf(i),
         \A i \in Instances : (nodeMap'[i] \ missed'[i]) \subseteq (nodeMap[i] \ missed[i]) \cup {n},
         \A i \in Instances : \A g \in steady[i] : place[g] # n /\ Mapped(i, g) => Mapped(i, g)',
         \A g \in steady[InstanceOf[n]] :
           place[g] = n /\ n \in nodeMap'[InstanceOf[n]] \ missed'[InstanceOf[n]]
             => OnItsWay(n, g)' \/ Mapped(InstanceOf[n], g)'
  PROVE  Covered'
<1>1. DOMAIN task' = DOMAIN task /\ \A x \in DOMAIN task \ {n} : task'[x] = task[x]
  BY GoOnTask
<1> SUFFICES ASSUME NEW i \in Instances, NEW g \in steady[i], place[g] \in nodeMap'[i] \ missed'[i]
             PROVE  (OnItsWay(place[g], g) \/ Mapped(i, g))'
  BY DEF Covered
<1>2. CASE place[g] = n
  <2>1. i = InstanceOf[n]
    BY <1>2 DEF NodesOf
  <2> QED BY <1>2, <2>1 DEF OnItsWay
<1>3. CASE place[g] # n
  <2>1. OnItsWay(place[g], g) \/ Mapped(i, g)
    BY <1>3 DEF Truthful, Covered
  <2>2. OnItsWay(place[g], g) => OnItsWay(place[g], g)'
    BY <1>1, <1>3 DEF OnItsWay
  <2> QED BY <1>3, <2>1, <2>2
<1> QED BY <1>2, <1>3

LEMMA NodeStatusTruthful ==
  ASSUME TypeOK, Grouped, Truthful, NEW n \in Nodes, NodeStatus(n)
  PROVE  Truthful'
<1> DEFINE i == InstanceOf[n]
<1>1. n \in DOMAIN task /\ task[n].at = "status" /\ i \in Instances /\ pc[i] = "submit"
  BY TaskIsCollected DEF NodeStatus
<1>2. /\ pc' = pc /\ place' = place /\ spotted' = spotted /\ steady' = steady
      /\ guestMap' = guestMap
  BY DEF NodeStatus, world
<1>3. \/ /\ nodeMap' = [nodeMap EXCEPT ![i] = @ \cup {n}] /\ missed' = missed
         /\ GoOn(n, "lxc", {})
      \/ /\ nodeMap' = nodeMap /\ missed' = [missed EXCEPT ![i] = @ \cup {n}]
         /\ GoOn(n, "release", {})
  BY DEF NodeStatus, Miss
<1>4. nodeMap \in [Instances -> SUBSET Nodes] /\ missed \in [Instances -> SUBSET Nodes]
  BY DEF TypeOK
<1>5. OwnNodes'
  BY <1>1, <1>3, <1>4 DEF Truthful, OwnNodes, NodesOf
<1>6. Fresh'
  BY <1>1, <1>2, <1>3, <1>4 DEF Truthful, Fresh, Polled
<1>7. Seen' /\ OnePlace' /\ MapSeen'
  BY <1>2 DEF Truthful, Seen, OnePlace, MapSeen, Polled
<1>8. FoundSeen'
  BY <1>1, <1>2, <1>3, GoOnFound DEF Truthful, Calls
<1>9. Covered'
  <2>1. \A j \in Instances : nodeMap'[j] \subseteq NodesOf(j)
    BY <1>5 DEF OwnNodes, NodesOf
  <2>2. \A j \in Instances : (nodeMap'[j] \ missed'[j]) \subseteq (nodeMap[j] \ missed[j]) \cup {n}
    BY <1>3, <1>4
  <2>3. \A j \in Instances : \A g \in steady[j] : place[g] # n /\ Mapped(j, g) => Mapped(j, g)'
    BY <1>2 DEF Mapped
  <2>4. CASE nodeMap' = nodeMap /\ missed' = [missed EXCEPT ![i] = @ \cup {n}]
             /\ GoOn(n, "release", {})
    <3>1. n \in missed'[i]
      BY <1>1, <1>4, <2>4
    <3> QED BY <1>1, <1>2, <2>1, <2>2, <2>3, <2>4, <3>1, GoOnCovered DEF Calls
  <2>5. CASE nodeMap' = [nodeMap EXCEPT ![i] = @ \cup {n}] /\ missed' = missed
             /\ GoOn(n, "lxc", {})
    <3>1. n \in DOMAIN task' /\ task'[n].at = "lxc"
      <4>1. DOMAIN task' = DOMAIN task /\ task'[n] = [at |-> "lxc", found |-> task[n].found \cup {}]
        BY <1>1, <2>5, GoOnTask DEF Calls
      <4> QED BY <1>1, <4>1
    <3>2. \A g \in steady[i] : OnItsWay(n, g)'
      BY <3>1 DEF OnItsWay
    <3> QED BY <1>1, <1>2, <2>1, <2>2, <2>3, <2>5, <3>2, GoOnCovered DEF Calls
  <2> QED BY <1>3, <2>4, <2>5
<1> QED BY <1>5, <1>6, <1>7, <1>8, <1>9 DEF Truthful

LEMMA GuestTypeTruthful ==
  ASSUME TypeOK, Grouped, Truthful, NEW n \in Nodes, NEW type, NEW next, GuestType(n, type, next),
         \/ type = "lxc" /\ next = "qemu"
         \/ type = "qemu" /\ next = "merge"
  PROVE  Truthful'
<1> DEFINE i == InstanceOf[n]
           none == {}
           answer == {g \in Guests : place[g] = n /\ (g \in Lxc <=> type = "lxc")}
<1>1. n \in DOMAIN task /\ task[n].at = type /\ i \in Instances /\ pc[i] = "submit"
  BY TaskIsCollected DEF GuestType
<1>2. /\ pc' = pc /\ place' = place /\ spotted' = spotted /\ steady' = steady
      /\ guestMap' = guestMap /\ nodeMap' = nodeMap
  BY DEF GuestType, world, locals
<1>3. \/ missed' = missed /\ GoOn(n, next, answer)
      \/ missed' = [missed EXCEPT ![i] = @ \cup {n}] /\ GoOn(n, next, none)
  BY DEF GuestType, Miss
<1>4. missed \in [Instances -> SUBSET Nodes] /\ steady \in [Instances -> SUBSET Guests]
      /\ task \in [DOMAIN task -> Tasks] /\ next \in Calls \cup {"merge", "release"}
      /\ answer \in SUBSET Guests /\ none \in SUBSET Guests
  BY DEF TypeOK, Calls
<1>5. Fresh' /\ OwnNodes' /\ Seen' /\ OnePlace' /\ MapSeen'
  BY <1>2 DEF Truthful, Fresh, OwnNodes, Seen, OnePlace, MapSeen, Polled
<1>6. FoundSeen'
  <2>1. \A g \in answer : <<g, n>> \in spotted[i]
    BY <1>1 DEF Truthful, Seen, Polled
  <2>0. \A g \in none : <<g, n>> \in spotted[i]
    OBVIOUS
  <2> HIDE DEF answer, none
  <2>2. task[n].at # "release" /\ FoundSeen
    BY <1>1 DEF Truthful
  <2>3. CASE GoOn(n, next, answer)
    BY <1>1, <1>2, <1>4, <2>1, <2>2, <2>3, GoOnFound
  <2>4. CASE GoOn(n, next, none)
    BY <1>1, <1>2, <1>4, <2>0, <2>2, <2>4, GoOnFound
  <2> QED BY <1>3, <2>3, <2>4
<1>7. Covered'
  <2>1. \A j \in Instances : nodeMap'[j] \subseteq NodesOf(j)
    BY <1>2 DEF Truthful, OwnNodes
  <2>2. \A j \in Instances : (nodeMap'[j] \ missed'[j]) \subseteq (nodeMap[j] \ missed[j]) \cup {n}
    BY <1>2, <1>3, <1>4
  <2>3. \A j \in Instances : \A g \in steady[j] : Mapped(j, g) => Mapped(j, g)'
    BY <1>2 DEF Mapped
  <2>4. CASE missed' = [missed EXCEPT ![i] = @ \cup {n}] /\ GoOn(n, next, none)
    <3>1. n \in missed'[i]
      BY <1>1, <1>4, <2>4
    <3> HIDE DEF none
    <3> QED BY <1>1, <1>2, <1>4, <2>1, <2>2, <2>3, <2>4, <3>1, GoOnCovered
  <2>5. CASE missed' = missed /\ GoOn(n, next, answer)
    <3>1. n \in DOMAIN task' /\ task'[n].at = next /\ task'[n].found = task[n].found \cup answer
      <4> HIDE DEF answer
      <4>1. DOMAIN task' = DOMAIN task
            /\ task'[n] = [at |-> next, found |-> task[n].found \cup answer]
        BY <1>1, <1>4, <2>5, GoOnTask
      <4> QED BY <1>1, <4>1
    <3>2. ASSUME NEW g \in steady[i], place[g] = n, n \in nodeMap'[i] \ missed'[i]
          PROVE  OnItsWay(n, g)' \/ Mapped(i, g)'
      <4>1. g \in Guests /\ (OnItsWay(n, g) \/ Mapped(i, g))
        BY <1>1, <1>2, <1>4, <2>5, <3>2 DEF Truthful, Covered
      <4>2. CASE OnItsWay(n, g)
        <5>1. (g \in Lxc <=> type = "lxc") => g \in task'[n].found
          BY <3>1, <3>2, <4>1
        <5>2. g \in task[n].found => g \in task'[n].found
          BY <3>1
        <5> QED BY <1>1, <3>1, <4>2, <5>1, <5>2 DEF OnItsWay
      <4>3. CASE Mapped(i, g)
        BY <1>1, <2>3, <4>3
      <4> QED BY <4>1, <4>2, <4>3
    <3> HIDE DEF answer
    <3> QED BY <1>1, <1>2, <1>4, <2>1, <2>2, <2>3, <2>5, <3>2, GoOnCovered
  <2> QED BY <1>3, <2>4, <2>5
<1> QED BY <1>5, <1>6, <1>7 DEF Truthful

LEMMA MergeGuestsTruthful ==
  ASSUME TypeOK, Grouped, Truthful, NEW n \in Nodes, MergeGuests(n)
  PROVE  Truthful'
<1> DEFINE i == InstanceOf[n]
           found == task[n].found
<1>1. n \in DOMAIN task /\ task[n].at = "merge" /\ i \in Instances /\ pc[i] = "submit"
  BY TaskIsCollected DEF MergeGuests
<1>2. /\ pc' = pc /\ place' = place /\ spotted' = spotted /\ steady' = steady
      /\ nodeMap' = nodeMap /\ missed' = missed
      /\ \E s \in {"disks", "release"} : GoOn(n, s, {})
  BY DEF MergeGuests, world, history
<1>3. /\ \A j \in Instances \ {i} : guestMap'[j] = guestMap[j]
      /\ guestMap'[i] = [g \in DOMAIN guestMap[i] \cup found |->
                           IF g \in found THEN n ELSE guestMap[i][g]]
  BY <1>1 DEF MergeGuests, TypeOK
<1>4. \A g \in found : <<g, n>> \in spotted[i]
  BY <1>1 DEF Truthful, FoundSeen
<1>5. OwnNodes' /\ Seen' /\ OnePlace'
  BY <1>2 DEF Truthful, OwnNodes, Seen, OnePlace, Polled
<1>6. Fresh'
  BY <1>1, <1>2, <1>3 DEF Truthful, Fresh, Polled
<1>7. MapSeen'
  BY <1>2, <1>3, <1>4 DEF Truthful, MapSeen
<1>8. FoundSeen'
  BY <1>1, <1>2, GoOnFound DEF Truthful, Calls
<1>9. Covered'
  <2>1. \A j \in Instances : nodeMap'[j] \subseteq NodesOf(j)
    BY <1>2 DEF Truthful, OwnNodes
  <2>2. ASSUME NEW j \in Instances, NEW g \in steady[j], Mapped(j, g) PROVE Mapped(j, g)'
    <3>1. CASE j # i
      BY <1>2, <1>3, <2>2, <3>1 DEF Mapped
    <3>2. CASE j = i
      <4>1. g \in found => n = place[g]
        BY <1>1, <1>4, <2>2, <3>2 DEF Truthful, OnePlace, Polled
      <4> QED BY <1>2, <1>3, <2>2, <3>2, <4>1 DEF Mapped
    <3> QED BY <3>1, <3>2
  <2>3. ASSUME NEW g \in steady[i], place[g] = n, n \in nodeMap'[i] \ missed'[i]
        PROVE  Mapped(i, g)'
    <3>1. OnItsWay(n, g) \/ Mapped(i, g)
      BY <1>1, <1>2, <2>3 DEF Truthful, Covered
    <3>2. OnItsWay(n, g) => g \in found
      BY <1>1 DEF OnItsWay
    <3>3. g \in found => Mapped(i, g)'
      BY <1>2, <1>3, <2>3 DEF Mapped
    <3> QED BY <1>1, <2>2, <3>1, <3>2, <3>3
  <2> QED BY <1>1, <1>2, <2>1, <2>2, <2>3, GoOnCovered DEF Calls
<1> QED BY <1>5, <1>6, <1>7, <1>8, <1>9 DEF Truthful

LEMMA TaskTruthful ==
  ASSUME TypeOK, Grouped, Truthful, NEW n \in Nodes, Task(n)
  PROVE  Truthful'
<1>1. CASE CollectDisks(n)
  <2>1. /\ n \in DOMAIN task /\ task[n].at = "disks" /\ GoOn(n, "release", {})
        /\ pc' = pc /\ place' = place /\ spotted' = spotted /\ steady' = steady
        /\ nodeMap' = nodeMap /\ guestMap' = guestMap /\ missed' = missed
    BY <1>1 DEF CollectDisks, world, locals, history
  <2>2. FoundSeen'
    BY <2>1, GoOnFound DEF Truthful, Calls
  <2>3. \A g \in Guests : ~OnItsWay(n, g)
    BY <2>1 DEF OnItsWay
  <2>4. Covered'
    <3>1. ASSUME NEW i \in Instances, NEW g \in steady[i], Mapped(i, g) PROVE Mapped(i, g)'
      BY <2>1, <3>1 DEF Mapped
    <3>2. ASSUME NEW g \in steady[InstanceOf[n]], place[g] = n,
                 n \in nodeMap[InstanceOf[n]] \ missed[InstanceOf[n]]
          PROVE  Mapped(InstanceOf[n], g)
      BY <2>3, <3>2 DEF Truthful, Covered, TypeOK
    <3>3. InstanceOf[n] \in Instances
      OBVIOUS
    <3>4. \A i \in Instances : nodeMap'[i] \subseteq NodesOf(i)
      BY <2>1 DEF Truthful, OwnNodes
    <3> QED BY <2>1, <3>1, <3>2, <3>3, <3>4, GoOnCovered DEF Calls
  <2> QED BY <2>1, <2>2, <2>4 DEF Truthful, Fresh, OwnNodes, Seen, OnePlace, MapSeen, Polled
<1>2. CASE Release(n)
  <2>1. /\ pc' = pc /\ place' = place /\ spotted' = spotted /\ steady' = steady
        /\ nodeMap' = nodeMap /\ guestMap' = guestMap /\ missed' = missed
        /\ task[n].at = "release"
        /\ DOMAIN task' = DOMAIN task \ {n} /\ \A x \in DOMAIN task \ {n} : task'[x] = task[x]
    BY <1>2 DEF Release, Drop, Restrict, world, locals, history
  <2>2. Covered'
    BY <2>1 DEF Truthful, Covered, OnItsWay, Mapped
  <2> QED BY <2>1, <2>2 DEF Truthful, Fresh, OwnNodes, Seen, OnePlace, FoundSeen, MapSeen, Polled
<1>3. CASE GuestType(n, "lxc", "qemu")
  BY <1>3, GuestTypeTruthful, Zenon
<1>4. CASE GuestType(n, "qemu", "merge")
  BY <1>4, GuestTypeTruthful, Zenon
<1> QED BY <1>1, <1>2, <1>3, <1>4, NodeStatusTruthful, MergeGuestsTruthful DEF Task

LEMMA StepTruthful ==
  ASSUME TypeOK, Grouped, Truthful, [Next]_vars
  PROVE  Truthful'
<1>1. CASE UNCHANGED vars
  BY <1>1 DEF vars, world, locals, history, Truthful, Fresh, OwnNodes, Seen, OnePlace, FoundSeen,
     MapSeen, Covered, Polled, OnItsWay, Mapped
<1> QED BY <1>1, WorldTruthful, CollectTruthful, TaskTruthful DEF Next

LEMMA PublishIsUpdate ==
  ASSUME TypeOK, [Next]_vars, NEW i \in Instances, Publishes(i)
  PROVE  pc[i] = "guests" /\ cacheGuests'[i] = guestMap[i]
<1>1. pc[i] = "guests" /\ pc'[i] # "guests"
  BY DEF Publishes
<1>2. UpdateGuests(i)
  BY <1>1 DEF Next, Poll, Task, Begin, DiscoverFails, DiscoverNodes, Submit, UpdateNodes, UpdateGuests,
     Record, NodeStatus, GuestType, MergeGuests, CollectDisks, Release, Flip, Move, vars, TypeOK
<1> QED BY <1>1, <1>2 DEF UpdateGuests, TypeOK

LEMMA AlwaysTruthful == Spec => [](TypeOK /\ Grouped /\ Truthful)
<1>1. TypeOK /\ Grouped /\ [Next]_vars => Grouped'
  BY StepGrouped
<1>2. TypeOK /\ Grouped /\ Truthful /\ [Next]_vars => Truthful'
  BY StepTruthful
<1> QED BY <1>1, <1>2, InitGrouped, InitTruthful, TypeCorrect, PTL DEF Spec

\* No poll publishes a guest on a node where it was not during the poll.
THEOREM NoGhosts == Spec => NoGhostGuests
<1>1. TypeOK /\ Truthful /\ [Next]_vars =>
        [\A i \in Instances : Publishes(i) =>
           \A g \in DOMAIN cacheGuests'[i] : <<g, cacheGuests'[i][g]>> \in spotted[i]]_vars
  BY PublishIsUpdate DEF Truthful, MapSeen
<1> QED BY <1>1, AlwaysTruthful, PTL DEF Spec, NoGhostGuests

\* A poll publishes every guest that stayed on a node which answered all
\* calls, whatever other guests and nodes did (pve.go 98-147).
THEOREM SteadyPublished == Spec => SteadyGuestsPublished
<1>1. TypeOK /\ Grouped /\ Truthful /\ [Next]_vars =>
        [\A i \in Instances : Publishes(i) =>
           \A g \in steady[i] : place[g] \in nodeMap[i] \ missed[i] =>
             g \in DOMAIN cacheGuests'[i] /\ cacheGuests'[i][g] = place[g]]_vars
  <2> SUFFICES ASSUME TypeOK, Grouped, Truthful, [Next]_vars, NEW i \in Instances, Publishes(i),
                      NEW g \in steady[i], place[g] \in nodeMap[i] \ missed[i]
               PROVE  g \in DOMAIN cacheGuests'[i] /\ cacheGuests'[i][g] = place[g]
    OBVIOUS
  <2>1. pc[i] = "guests" /\ cacheGuests'[i] = guestMap[i]
    BY PublishIsUpdate
  <2>2. OnItsWay(place[g], g) \/ Mapped(i, g)
    BY DEF Truthful, Covered
  <2>3. place[g] \in Nodes /\ InstanceOf[place[g]] = i
    BY DEF Truthful, OwnNodes, NodesOf
  <2>4. ~OnItsWay(place[g], g)
    BY <2>1, <2>3 DEF Grouped, Quiet, OnItsWay
  <2> QED BY <2>1, <2>2, <2>4 DEF Mapped
<1> QED BY <1>1, AlwaysTruthful, PTL DEF Spec, SteadyGuestsPublished
=============================================================================
