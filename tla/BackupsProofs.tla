---------------------------- MODULE BackupsProofs ----------------------------
(* Proofs about the PBS collector, for all datastores, groups and bounds. *)
EXTENDS Backups, TLAPS

USE BackupsAssumption

-----------------------------------------------------------------------------
(* Type correctness.                                                       *)

LEMMA AgedType ==
  ASSUME NEW a \in 0..Old
  PROVE  Aged(a) \in 0..Old /\ a <= Aged(a)
BY DEF Aged

LEMMA AgedMonotone ==
  ASSUME NEW a \in 0..Old, NEW b \in 0..Old, a <= b
  PROVE  Aged(a) <= Aged(b)
BY DEF Aged

LEMMA SnapshotFields ==
  ASSUME NEW s \in Snapshots
  PROVE  /\ s.id \in Ids /\ s.age \in 0..Old
         /\ [s EXCEPT !.age = Aged(@)] \in Snapshots
         /\ [s EXCEPT !.age = Aged(@)].age = Aged(s.age)
         /\ [s EXCEPT !.age = Aged(@)].id = s.id
<1>1. PICK g \in Groups, a \in 0..Old : s = [type |-> g[1], id |-> g[2], age |-> a]
  BY DEF Snapshots
<1>2. [s EXCEPT !.age = Aged(@)] = [type |-> g[1], id |-> g[2], age |-> Aged(a)]
  BY <1>1
<1> QED BY <1>1, <1>2, AgedType DEF Snapshots, Ids

LEMMA SnapshotAge == \A s \in Snapshots : s.age \in 0..Old
BY SnapshotFields

LEMMA NewSnapshot ==
  ASSUME NEW g \in Groups
  PROVE  [type |-> g[1], id |-> g[2], age |-> 0] \in Snapshots /\ g[2] \in Ids
BY DEF Snapshots, Ids

LEMMA NewestFacts ==
  ASSUME TypeOK, NEW d \in Datastores, NEW i, NEW s \in Newest(d, i)
  PROVE  /\ s \in world[d] /\ s \in Snapshots /\ s.id = i
         /\ \A o \in world[d] : o.id = i => s.age <= o.age
BY DEF Newest, TypeOK

LEMMA NothingType == IsBackupMap(Nothing) /\ IsDatastoreMap(Nothing) /\ DOMAIN Nothing = {}
BY DEF Nothing, IsBackupMap, IsDatastoreMap

LEMMA InitTypes == Init => TypeOK
BY NothingType DEF Init, TypeOK

LEMMA AgedBackups ==
  ASSUME NEW f, IsBackupMap(f)
  PROVE  IsBackupMap([k \in DOMAIN f |-> [f[k] EXCEPT !.age = Aged(@)]])
BY SnapshotFields DEF IsBackupMap

\* Everything gets older, and no task appears or goes.
LEMMA JobsTick ==
  ASSUME TypeOK, Tick
  PROVE  /\ jobs' \in Seq(0..Old) /\ Len(jobs') = Len(jobs) /\ DOMAIN jobs' = DOMAIN jobs
         /\ \A t \in DOMAIN jobs : jobs[t] \in 0..Old /\ jobs'[t] = Aged(jobs[t])
<1>1. jobs \in Seq(0..Old) /\ jobs' = [t \in DOMAIN jobs |-> Aged(jobs[t])]
  BY DEF TypeOK, Tick
<1>2. \A t \in DOMAIN jobs : jobs[t] \in 0..Old /\ jobs'[t] = Aged(jobs[t])
  BY <1>1
<1>3. jobs' \in [1..Len(jobs) -> 0..Old]
  BY <1>1, <1>2, AgedType
<1> QED BY <1>1, <1>2, <1>3

LEMMA WorldTypes ==
  ASSUME TypeOK, World
  PROVE  TypeOK'
<1>1. CASE Tick
  <2>1. world' \in [Datastores -> SUBSET Snapshots]
    <3>1. ASSUME NEW d \in Datastores
          PROVE  {[s EXCEPT !.age = Aged(@)] : s \in world[d]} \in SUBSET Snapshots
      BY SnapshotFields DEF TypeOK
    <3> QED BY <1>1, <3>1 DEF Tick
  <2>2. IsBackupMap(backups') /\ IsBackupMap(cacheBackups')
    BY <1>1, AgedBackups DEF Tick, TypeOK
  <2>3. DOMAIN began' \subseteq Keys /\ \A k \in DOMAIN began' : began'[k] \in 0..Old
    BY <1>1, AgedType DEF Tick, TypeOK
  <2>4. /\ jobs' \in Seq(0..Old) /\ Len(jobs') = Len(jobs) /\ DOMAIN jobs' = DOMAIN jobs
    BY <1>1, JobsTick
  <2> QED BY <1>1, <2>1, <2>2, <2>3, <2>4 DEF Tick, TypeOK
<1>2. ASSUME NEW d \in Datastores, NEW g \in Groups, BackUp(d, g) PROVE TypeOK'
  <2>1. world' \in [Datastores -> SUBSET Snapshots] /\ <<d, g[2]>> \in Keys
    BY <1>2, NewSnapshot DEF BackUp, TypeOK, Keys
  <2>2. jobs' \in Seq(0..Old) /\ Len(jobs') <= MaxBackups /\ DOMAIN jobs \subseteq DOMAIN jobs'
    BY <1>2 DEF BackUp, TypeOK
  <2>3. (tasks' \subseteq DOMAIN jobs' \/ tasks' = NoTasks) /\ cacheTasks' \subseteq DOMAIN jobs'
    BY <1>2, <2>2 DEF BackUp, TypeOK, poll, cache
  <2> QED BY <1>2, <2>1, <2>2, <2>3 DEF BackUp, TypeOK, poll, cache, IsBackupMap, IsDatastoreMap
<1>3. ASSUME NEW d \in Datastores, NEW g \in Groups, Forget(d, g) PROVE TypeOK'
  <2>1. world' \in [Datastores -> SUBSET Snapshots]
    BY <1>3 DEF Forget, TypeOK
  <2>2. DOMAIN began' \subseteq Keys /\ \A k \in DOMAIN began' : began'[k] \in 0..Old
    BY <1>3 DEF Forget, TypeOK
  <2> QED BY <1>3, <2>1, <2>2 DEF Forget, TypeOK, poll, cache, IsBackupMap, IsDatastoreMap
<1>4. ASSUME NEW d \in Datastores, NEW s \in Snapshots, Prune(d, s) PROVE TypeOK'
  <2>1. world' \in [Datastores -> SUBSET Snapshots]
    BY <1>4 DEF Prune, TypeOK
  <2> QED BY <1>4, <2>1 DEF Prune, TypeOK, poll, cache, history, IsBackupMap, IsDatastoreMap
<1> QED BY <1>1, <1>2, <1>3, <1>4 DEF World

\* A poll has no backups of the datastores it has yet to visit.
Unvisited ==
  /\ pc \in {"usage", "status"} => DOMAIN backups = {}
  /\ pc = "snapshots" => \A k \in DOMAIN backups : k[1] \notin todo

\* What collectSnapshots adds are snapshots of the datastore (pbs.go 116-123).
LEMMA LatestType ==
  ASSUME TypeOK, NEW d \in Datastores, \A k \in DOMAIN backups : k[1] # d,
         NEW latest \in [{s.id : s \in world[d]} -> world[d]]
  PROVE  /\ DOMAIN latest = {s.id : s \in world[d]}
         /\ IsBackupMap([k \in DOMAIN backups \cup ({d} \X DOMAIN latest) |->
                           IF k[1] = d THEN latest[k[2]] ELSE backups[k]])
<1>1. world[d] \subseteq Snapshots /\ IsBackupMap(backups)
  BY DEF TypeOK
<1>2. DOMAIN latest = {s.id : s \in world[d]}
  OBVIOUS
<1>3. DOMAIN latest \subseteq Ids
  <2>1. \A s \in world[d] : s.id \in Ids
    BY <1>1, SnapshotFields
  <2> QED BY <1>2, <2>1
<1>4. {d} \X DOMAIN latest \subseteq Keys
  BY <1>3 DEF Keys
<1> QED BY <1>1, <1>2, <1>4 DEF IsBackupMap, Keys

LEMMA BeginTypes ==
  ASSUME TypeOK, Begin
  PROVE  TypeOK' /\ Unvisited'
<1>1. Kept \subseteq Keys /\ Present \subseteq Keys
  BY DEF Kept, Present
<1>2. ASSUME NEW k \in Kept
      PROVE  (CHOOSE s \in Newest(k[1], k[2]) : TRUE).age \in 0..Old
  <2>1. k[1] \in Datastores /\ Newest(k[1], k[2]) # {}
    BY DEF Kept, Keys
  <2>2. (CHOOSE s \in Newest(k[1], k[2]) : TRUE) \in Newest(k[1], k[2])
    BY <2>1
  <2> QED BY <2>1, <2>2, NewestFacts, SnapshotFields
<1>3. DOMAIN began' \subseteq Keys /\ \A k \in DOMAIN began' : began'[k] \in 0..Old
  BY <1>1, <1>2 DEF Begin
<1>4. TypeOK'
  BY <1>1, <1>3, NothingType DEF Begin, TypeOK, cache, IsBackupMap, IsDatastoreMap
<1>5. Unvisited'
  BY NothingType DEF Begin, Unvisited
<1> QED BY <1>4, <1>5

LEMMA StatusTypes ==
  ASSUME TypeOK, Unvisited,
         \/ CollectAllDatastoreUsage \/ UsageFails \/ StatusesRead
         \/ \E d \in Datastores : CollectDatastoreStatus(d) \/ StatusFails(d)
  PROVE  TypeOK' /\ Unvisited'
<1> USE DEF TypeOK, Unvisited, IsBackupMap, IsDatastoreMap, cache, history
<1>1. CASE CollectAllDatastoreUsage
  BY <1>1 DEF CollectAllDatastoreUsage
<1>2. CASE UsageFails
  BY <1>2 DEF UsageFails, Fails, poll
<1>3. CASE StatusesRead
  BY <1>3 DEF StatusesRead
<1>4. ASSUME NEW d \in Datastores, CollectDatastoreStatus(d) PROVE TypeOK' /\ Unvisited'
  BY <1>4 DEF CollectDatastoreStatus
<1>5. ASSUME NEW d \in Datastores, StatusFails(d) PROVE TypeOK' /\ Unvisited'
  BY <1>5 DEF StatusFails, Fails
<1> QED BY <1>1, <1>2, <1>3, <1>4, <1>5

LEMMA SnapshotTypes ==
  ASSUME TypeOK, Unvisited, NEW d \in Datastores, CollectSnapshots(d) \/ SnapshotsFail(d)
  PROVE  TypeOK' /\ Unvisited'
<1>1. CASE CollectSnapshots(d)
  <2>1. PICK latest \in [{s.id : s \in world[d]} -> world[d]] :
          backups' = [k \in DOMAIN backups \cup ({d} \X DOMAIN latest) |->
                        IF k[1] = d THEN latest[k[2]] ELSE backups[k]]
    BY <1>1 DEF CollectSnapshots
  <2>2. \A k \in DOMAIN backups : k[1] # d
    BY <1>1 DEF CollectSnapshots, Unvisited
  <2>3. IsBackupMap(backups')
    BY <2>1, <2>2, LatestType
  <2>4. TypeOK'
    BY <1>1, <2>3 DEF CollectSnapshots, TypeOK, cache, history, IsBackupMap, IsDatastoreMap
  <2>5. Unvisited'
    BY <1>1, <2>1 DEF CollectSnapshots, Unvisited
  <2> QED BY <2>4, <2>5
<1>2. CASE SnapshotsFail(d)
  BY <1>2 DEF SnapshotsFail, Fails, TypeOK, Unvisited, IsBackupMap, IsDatastoreMap, cache
<1> QED BY <1>1, <1>2

LEMMA PublishTypes ==
  ASSUME TypeOK, Unvisited,
         CollectTasks \/ UpdateDatastores \/ UpdateBackups \/ UpdateTasks \/ Record
  PROVE  TypeOK' /\ Unvisited'
<1> USE DEF TypeOK, Unvisited, IsBackupMap, IsDatastoreMap, poll, cache, history
<1>1. CASE CollectTasks
  BY <1>1 DEF CollectTasks, Fails, Recent
<1>2. CASE UpdateDatastores
  BY <1>2 DEF UpdateDatastores
<1>3. CASE UpdateBackups
  BY <1>3 DEF UpdateBackups
<1>4. CASE UpdateTasks
  BY <1>4 DEF UpdateTasks
<1>5. CASE Record
  BY <1>5 DEF Record
<1> QED BY <1>1, <1>2, <1>3, <1>4, <1>5

LEMMA WorldUnvisited ==
  ASSUME TypeOK, Unvisited, World
  PROVE  Unvisited'
<1>1. pc' = pc /\ todo' = todo /\ DOMAIN backups' = DOMAIN backups
  BY DEF World, Tick, BackUp, Forget, Prune, poll
<1> QED BY <1>1 DEF Unvisited

LEMMA StepTypes ==
  ASSUME TypeOK, Unvisited, [Next]_vars
  PROVE  TypeOK' /\ Unvisited'
<1>1. CASE UNCHANGED vars
  BY <1>1 DEF vars, poll, cache, history, TypeOK, Unvisited, IsBackupMap, IsDatastoreMap
<1> QED BY <1>1, WorldTypes, WorldUnvisited, BeginTypes, StatusTypes, SnapshotTypes, PublishTypes
     DEF Next, Collect

\* The collector's variables keep their types, for all servers and tokens; it
\* never asks for the snapshots of a datastore it knows nothing of.
THEOREM TypeCorrect == Spec => [](TypeOK /\ Unvisited)
<1>1. Init => TypeOK /\ Unvisited
  BY InitTypes DEF Init, Unvisited
<1>2. TypeOK /\ Unvisited /\ [Next]_vars => (TypeOK /\ Unvisited)'
  BY StepTypes
<1> QED BY <1>1, <1>2, PTL DEF Spec
-----------------------------------------------------------------------------
(* The task history.                                                       *)

\* Tasks are numbered in the order they started in.
Ordered == \A t, u \in DOMAIN jobs : t <= u => jobs[u] <= jobs[t]

\* A task may leave the history for the list l.
MayLeave(t, l) ==
  \/ jobs[t] > Window
  \/ \E n \in t..Len(jobs) : (n + 1)..(n + Limit) \subseteq l

\* The list that waits to be published lacks none of the tasks published
\* before without a reason: only this collector writes them.
Settled ==
  pc \in {"datastores", "backups", "tasks"} /\ tasks # NoTasks =>
    \A t \in cacheTasks \ tasks : MayLeave(t, tasks)

LEMMA OrderedStep ==
  ASSUME TypeOK, Ordered, [Next]_vars
  PROVE  Ordered'
<1>1. CASE Tick
  <2> SUFFICES ASSUME NEW t \in DOMAIN jobs, NEW u \in DOMAIN jobs, t <= u
               PROVE  Aged(jobs[u]) <= Aged(jobs[t])
    BY <1>1, JobsTick DEF Ordered
  <2>1. jobs[u] \in 0..Old /\ jobs[t] \in 0..Old
    BY <1>1, JobsTick
  <2> QED BY <2>1, AgedMonotone DEF Ordered
<1>2. ASSUME NEW d \in Datastores, NEW g \in Groups, BackUp(d, g) PROVE Ordered'
  <2>1. jobs \in Seq(0..Old) /\ jobs' = Append(jobs, 0)
    BY <1>2 DEF BackUp, TypeOK
  <2>2. /\ DOMAIN jobs' = 1..(Len(jobs) + 1) /\ jobs'[Len(jobs) + 1] = 0
        /\ \A t \in 1..Len(jobs) : jobs'[t] = jobs[t] /\ jobs[t] \in 0..Old
    BY <2>1
  <2> QED BY <2>2 DEF Ordered
<1>3. CASE UNCHANGED jobs
  BY <1>3 DEF Ordered
<1> QED BY <1>1, <1>2, <1>3 DEF Next, World, Collect, Forget, Prune, Begin,
     CollectAllDatastoreUsage, UsageFails, CollectDatastoreStatus, StatusFails, StatusesRead,
     CollectSnapshots, SnapshotsFail, CollectTasks, UpdateDatastores, UpdateBackups, UpdateTasks,
     Record, vars

\* A reason to leave stays one while tasks get older and more.
LEMMA ReasonStays ==
  ASSUME TypeOK, World \/ UNCHANGED jobs, NEW t \in DOMAIN jobs, NEW l, MayLeave(t, l)
  PROVE  \/ jobs'[t] > Window
         \/ \E n \in t..Len(jobs') : (n + 1)..(n + Limit) \subseteq l
<1>1. CASE Tick
  <2>1. Len(jobs') = Len(jobs) /\ jobs[t] \in 0..Old /\ jobs'[t] = Aged(jobs[t])
    BY <1>1, JobsTick
  <2> QED BY <2>1, AgedType DEF MayLeave
<1>2. ASSUME NEW d \in Datastores, NEW g \in Groups, BackUp(d, g)
      PROVE  jobs'[t] = jobs[t] /\ Len(jobs') = Len(jobs) + 1 /\ Len(jobs) \in Nat
  BY <1>2 DEF BackUp, TypeOK
<1>3. CASE \E d \in Datastores, g \in Groups : BackUp(d, g)
  BY <1>2, <1>3 DEF MayLeave
<1>4. CASE UNCHANGED jobs
  BY <1>4 DEF MayLeave
<1> QED BY <1>1, <1>3, <1>4 DEF World, Forget, Prune

\* What is asked for leaves out what is too old, or has Limit newer ones.
LEMMA RecentLeaves ==
  ASSUME TypeOK, Ordered, NEW t \in DOMAIN jobs, t \notin Recent
  PROVE  MayLeave(t, Recent)
<1>1. jobs \in Seq(0..Old) /\ DOMAIN jobs = 1..Len(jobs) /\ Len(jobs) \in Nat
  BY DEF TypeOK
<1>2. \A u \in DOMAIN jobs : jobs[u] \in 0..Old
  BY <1>1
<1>3. CASE jobs[t] <= Window
  <2>1. Len(jobs) - t >= Limit
    BY <1>1, <1>3 DEF Recent
  <2>2. Len(jobs) - Limit \in t..Len(jobs)
    BY <1>1, <2>1
  <2>3. ASSUME NEW u \in (Len(jobs) - Limit + 1)..(Len(jobs) - Limit + Limit)
        PROVE  u \in Recent
    <3>1. u \in DOMAIN jobs /\ t <= u /\ Len(jobs) - u < Limit
      BY <1>1, <2>1
    <3>2. jobs[u] <= Window
      BY <1>2, <1>3, <3>1 DEF Ordered
    <3> QED BY <3>1, <3>2 DEF Recent
  <2> QED BY <2>2, <2>3 DEF MayLeave
<1>4. CASE ~(jobs[t] <= Window)
  BY <1>2, <1>4 DEF MayLeave
<1> QED BY <1>3, <1>4

LEMMA SettledStep ==
  ASSUME TypeOK, Ordered, Settled, [Next]_vars
  PROVE  Settled'
<1> cacheTasks \subseteq DOMAIN jobs
  BY DEF TypeOK
<1>1. CASE \/ Begin \/ CollectAllDatastoreUsage \/ UsageFails \/ StatusesRead \/ UpdateTasks
           \/ Record
  BY <1>1 DEF Begin, CollectAllDatastoreUsage, UsageFails, StatusesRead, UpdateTasks, Record,
              Settled
<1>2. ASSUME NEW d \in Datastores,
             \/ CollectDatastoreStatus(d) \/ StatusFails(d)
             \/ CollectSnapshots(d) \/ SnapshotsFail(d)
      PROVE  Settled'
  BY <1>2 DEF CollectDatastoreStatus, StatusFails, CollectSnapshots, SnapshotsFail, Settled
<1>3. CASE CollectTasks
  <2>1. UNCHANGED <<jobs, cacheTasks>> /\ (tasks' = Recent \/ tasks' = NoTasks)
    BY <1>3 DEF CollectTasks, cache
  <2> QED BY <2>1, RecentLeaves DEF Settled, MayLeave
<1>4. CASE UpdateDatastores \/ UpdateBackups
  BY <1>4 DEF UpdateDatastores, UpdateBackups, Settled, MayLeave, poll
<1>5. CASE World \/ UNCHANGED vars
  <2>1. UNCHANGED <<pc, tasks, cacheTasks>> /\ (World \/ UNCHANGED jobs)
    BY <1>5 DEF World, Tick, BackUp, Forget, Prune, poll, cache, vars
  <2> QED BY <2>1, ReasonStays DEF Settled, MayLeave
<1> QED BY <1>1, <1>2, <1>3, <1>4, <1>5 DEF Next, Collect

LEMMA TasksLeave ==
  ASSUME TypeOK, Settled, [Next]_vars, NEW t \in cacheTasks \ cacheTasks'
  PROVE  \/ jobs'[t] > Window
         \/ \E n \in t..Len(jobs') : (n + 1)..(n + Limit) \subseteq cacheTasks'
<1>1. UpdateTasks
  BY DEF Next, Collect, World, Tick, BackUp, Forget, Prune, Begin, CollectAllDatastoreUsage,
     UsageFails, CollectDatastoreStatus, StatusFails, StatusesRead, CollectSnapshots,
     SnapshotsFail, CollectTasks, UpdateDatastores, UpdateBackups, Record, vars, cache
<1>2. tasks # NoTasks /\ cacheTasks' = tasks /\ pc = "tasks" /\ UNCHANGED jobs
  BY <1>1 DEF UpdateTasks
<1> QED BY <1>2 DEF Settled, MayLeave

\* A task leaves the shown history only when it is too old to be asked for, or
\* when as many newer ones as are asked for are shown: whichever calls fail.
THEOREM HistoryStays == Spec => TasksStay
<1>1. Init => Ordered /\ Settled
  BY DEF Init, Ordered, Settled
<1>2. TypeOK /\ Ordered /\ Settled /\ [Next]_vars => (Ordered /\ Settled)'
  BY OrderedStep, SettledStep
<1>3. TypeOK /\ Settled /\ [Next]_vars =>
        [\A t \in cacheTasks \ cacheTasks' :
           \/ jobs'[t] > Window
           \/ \E n \in t..Len(jobs') : (n + 1)..(n + Limit) \subseteq cacheTasks']_vars
  BY TasksLeave
<1> QED BY <1>1, <1>2, <1>3, TypeCorrect, PTL DEF Spec, TasksStay

-----------------------------------------------------------------------------
(* Backups are of datastores that are shown.                               *)

\* What a poll gathers belongs together, and so does what it publishes, from
\* its second update to the first one of the next poll.
Placed ==
  /\ pc \in {"snapshots", "datastores", "backups"} =>
       \A k \in DOMAIN backups : k[1] \in DOMAIN datastores
  /\ pc = "backups" => cacheDatastores = datastores
  /\ BackupsHaveDatastores

LEMMA PlacedGather ==
  ASSUME TypeOK, Unvisited, Placed,
         \/ Begin \/ CollectAllDatastoreUsage \/ UsageFails \/ StatusesRead \/ CollectTasks
         \/ \E d \in Datastores : CollectDatastoreStatus(d) \/ StatusFails(d)
  PROVE  Placed'
<1> USE DEF Placed, BackupsHaveDatastores, cache
<1>1. CASE Begin \/ CollectAllDatastoreUsage \/ UsageFails
  BY <1>1 DEF Begin, CollectAllDatastoreUsage, UsageFails, poll, Unvisited
<1>2. CASE StatusesRead \/ CollectTasks
  BY <1>2 DEF StatusesRead, CollectTasks, Unvisited
<1>3. ASSUME NEW d \in Datastores, CollectDatastoreStatus(d) \/ StatusFails(d)
      PROVE  Placed'
  BY <1>3 DEF CollectDatastoreStatus, StatusFails
<1> QED BY <1>1, <1>2, <1>3

LEMMA PlacedSnapshots ==
  ASSUME TypeOK, Placed, NEW d \in Datastores, CollectSnapshots(d) \/ SnapshotsFail(d)
  PROVE  Placed'
<1> USE DEF Placed, BackupsHaveDatastores, cache
<1>1. CASE CollectSnapshots(d)
  <2>1. d \in DOMAIN datastores /\ pc = "snapshots" /\ pc' = pc
    BY <1>1 DEF CollectSnapshots, TypeOK
  <2>2. \A k \in DOMAIN backups' : k \in DOMAIN backups \/ k[1] = d
    BY <1>1 DEF CollectSnapshots
  <2> QED BY <1>1, <2>1, <2>2 DEF CollectSnapshots
<1>2. CASE SnapshotsFail(d)
  BY <1>2 DEF SnapshotsFail
<1> QED BY <1>1, <1>2

LEMMA PlacedPublish ==
  ASSUME Placed, UpdateDatastores \/ UpdateBackups \/ UpdateTasks \/ Record
  PROVE  Placed'
<1> USE DEF Placed, BackupsHaveDatastores, poll
<1>1. CASE UpdateDatastores \/ UpdateBackups
  BY <1>1 DEF UpdateDatastores, UpdateBackups
<1>2. CASE UpdateTasks \/ Record
  BY <1>2 DEF UpdateTasks, Record, cache
<1> QED BY <1>1, <1>2

LEMMA PlacedWorld ==
  ASSUME Placed, World \/ UNCHANGED vars
  PROVE  Placed'
<1>1. /\ UNCHANGED <<pc, datastores, cacheDatastores>>
      /\ DOMAIN backups' = DOMAIN backups /\ DOMAIN cacheBackups' = DOMAIN cacheBackups
  BY DEF World, Tick, BackUp, Forget, Prune, vars, poll, cache
<1> QED BY <1>1 DEF Placed, BackupsHaveDatastores

LEMMA PlacedStep ==
  ASSUME TypeOK, Unvisited, Placed, [Next]_vars
  PROVE  Placed'
BY PlacedGather, PlacedSnapshots, PlacedPublish, PlacedWorld DEF Next, Collect

\* Outside the instant between its two updates, the cache shows no backup of a
\* datastore it does not show, whichever calls fail and whatever the token may
\* not read.
THEOREM BackupsArePlaced == Spec => []BackupsHaveDatastores
<1>1. Init => Placed
  BY NothingType DEF Init, Placed, BackupsHaveDatastores
<1>2. TypeOK /\ Unvisited /\ Placed /\ [Next]_vars => Placed'
  BY PlacedStep
<1>3. Placed => BackupsHaveDatastores
  BY DEF Placed
<1> QED BY <1>1, <1>2, <1>3, TypeCorrect, PTL DEF Spec

-----------------------------------------------------------------------------
(* Nothing is hidden.                                                      *)

\* A key that had a backup as the poll began, and was not forgotten since, has
\* one now that is no older: pruning only takes what something newer outlives.
BeganThere == \A k \in DOMAIN began : \E s \in world[k[1]] : s.id = k[2] /\ s.age <= began[k]

Fresh(k) == k \in DOMAIN backups /\ backups[k].age <= began[k]

\* Where the poll stands with the backups of a key, unless a call failed.
Reached ==
  \A k \in DOMAIN began : k[1] \notin missed =>
    /\ pc = "usage" => k[1] \in todo
    /\ pc = "status" => k[1] \in todo \/ k[1] \in DOMAIN datastores
    /\ pc = "snapshots" => k[1] \in todo \/ Fresh(k)
    /\ pc \in {"datastores", "backups"} => Fresh(k)

LEMMA KeyShape ==
  ASSUME TypeOK, NEW k \in DOMAIN began
  PROVE  k[1] \in Datastores /\ k = <<k[1], k[2]>> /\ began[k] \in 0..Old
BY DEF TypeOK, Keys

LEMMA TickKeeps ==
  ASSUME TypeOK, BeganThere, Reached, Tick
  PROVE  BeganThere' /\ Reached'
<1>1. DOMAIN began' = DOMAIN began /\ \A k \in DOMAIN began : began'[k] = Aged(began[k])
  BY DEF Tick
<1>2. ASSUME NEW k \in DOMAIN began
      PROVE  \E s \in world'[k[1]] : s.id = k[2] /\ s.age <= began'[k]
  <2>1. PICK s \in world[k[1]] : s.id = k[2] /\ s.age <= began[k]
    BY DEF BeganThere
  <2>2. k[1] \in Datastores /\ began[k] \in 0..Old /\ s \in Snapshots
    BY KeyShape DEF TypeOK
  <2>3. [s EXCEPT !.age = Aged(@)] \in world'[k[1]]
    BY <2>2 DEF Tick
  <2>4. [s EXCEPT !.age = Aged(@)].id = k[2] /\ [s EXCEPT !.age = Aged(@)].age = Aged(s.age)
    BY <2>1, <2>2, SnapshotFields
  <2>5. Aged(s.age) <= Aged(began[k])
    BY <2>1, <2>2, SnapshotFields, AgedMonotone
  <2> QED BY <1>1, <2>3, <2>4, <2>5
<1>3. BeganThere'
  BY <1>1, <1>2 DEF BeganThere
<1>4. ASSUME NEW k \in DOMAIN began, Fresh(k) PROVE Fresh(k)'
  <2>1. backups[k] \in Snapshots /\ began[k] \in 0..Old
    BY <1>4, KeyShape DEF TypeOK, Fresh, IsBackupMap
  <2>2. k \in DOMAIN backups' /\ backups'[k] = [backups[k] EXCEPT !.age = Aged(@)]
    BY <1>4 DEF Fresh, Tick
  <2>3. [backups[k] EXCEPT !.age = Aged(@)].age = Aged(backups[k].age)
    BY <2>1, SnapshotFields
  <2>4. Aged(backups[k].age) <= Aged(began[k])
    BY <1>4, <2>1, SnapshotFields, AgedMonotone DEF Fresh
  <2> QED BY <1>1, <2>2, <2>3, <2>4 DEF Fresh
<1>5. Reached'
  BY <1>1, <1>4 DEF Reached, Tick
<1> QED BY <1>3, <1>5

LEMMA WorldKeeps ==
  ASSUME TypeOK, BeganThere, Reached, World
  PROVE  BeganThere' /\ Reached'
<1>1. CASE Tick
  BY <1>1, TickKeeps
<1>2. ASSUME NEW d \in Datastores, NEW g \in Groups, BackUp(d, g) PROVE BeganThere' /\ Reached'
  <2>1. \A e \in Datastores : world[e] \subseteq world'[e]
    BY <1>2 DEF BackUp, TypeOK
  <2>2. BeganThere'
    BY <1>2, <2>1, KeyShape DEF BackUp, BeganThere
  <2> QED BY <1>2, <2>2 DEF BackUp, Reached, Fresh, poll
<1>3. ASSUME NEW d \in Datastores, NEW g \in Groups, Forget(d, g) PROVE BeganThere' /\ Reached'
  <2>1. /\ DOMAIN began' = DOMAIN began \ {<<d, g[2]>>}
        /\ \A k \in DOMAIN began' : began'[k] = began[k]
    BY <1>3 DEF Forget
  <2>2. ASSUME NEW k \in DOMAIN began'
        PROVE  \E s \in world'[k[1]] : s.id = k[2] /\ s.age <= began'[k]
    <3>1. PICK s \in world[k[1]] : s.id = k[2] /\ s.age <= began[k]
      BY <2>1 DEF BeganThere
    <3>2. k[1] \in Datastores /\ k = <<k[1], k[2]>>
      BY <2>1, KeyShape
    <3>3. k[1] # d \/ s.id # g[2]
      BY <2>1, <3>1, <3>2
    <3>4. s \in world'[k[1]]
      BY <1>3, <3>2, <3>3 DEF Forget, TypeOK
    <3> QED BY <2>1, <3>1, <3>4
  <2>3. BeganThere'
    BY <2>2 DEF BeganThere
  <2> QED BY <1>3, <2>1, <2>3 DEF Forget, Reached, Fresh, poll
<1>4. ASSUME NEW d \in Datastores, NEW s \in Snapshots, Prune(d, s) PROVE BeganThere' /\ Reached'
  <2>1. PICK o \in world[d] : o.type = s.type /\ o.id = s.id /\ o.age < s.age
    BY <1>4 DEF Prune
  <2>2. ASSUME NEW k \in DOMAIN began
        PROVE  \E t \in world'[k[1]] : t.id = k[2] /\ t.age <= began[k]
    <3>1. PICK t \in world[k[1]] : t.id = k[2] /\ t.age <= began[k]
      BY DEF BeganThere
    <3>2. k[1] \in Datastores /\ began[k] \in 0..Old
      BY KeyShape
    <3>3. CASE k[1] = d /\ t = s
      <4>1. o.age \in 0..Old /\ s.age \in 0..Old /\ o \in Snapshots
        BY <2>1, SnapshotFields DEF TypeOK
      <4>2. o # s /\ o.age <= began[k] /\ o.id = k[2]
        BY <2>1, <3>1, <3>2, <3>3, <4>1
      <4>3. o \in world'[d]
        BY <1>4, <2>1, <4>2 DEF Prune, TypeOK
      <4> QED BY <3>3, <4>2, <4>3
    <3>4. CASE ~(k[1] = d /\ t = s)
      <4>1. t \in world'[k[1]]
        BY <1>4, <3>1, <3>2, <3>4 DEF Prune, TypeOK
      <4> QED BY <3>1, <4>1
    <3> QED BY <3>3, <3>4
  <2>3. BeganThere'
    BY <1>4, <2>2 DEF Prune, BeganThere, history
  <2> QED BY <1>4, <2>3 DEF Prune, Reached, Fresh, poll, history
<1> QED BY <1>1, <1>2, <1>3, <1>4 DEF World

LEMMA BeginKeeps ==
  ASSUME TypeOK, Begin
  PROVE  BeganThere' /\ Reached'
<1>1. \A k \in Kept : k[1] \in Datastores
  BY DEF Kept, Keys
<1>2. ASSUME NEW k \in Kept
      PROVE  \E s \in world[k[1]] : s.id = k[2] /\ s.age <= began'[k]
  <2>1. k[1] \in Datastores /\ Newest(k[1], k[2]) # {}
    BY DEF Kept, Keys
  <2>2. PICK s : s = (CHOOSE t \in Newest(k[1], k[2]) : TRUE)
    OBVIOUS
  <2>3. s \in Newest(k[1], k[2]) /\ began'[k] = s.age
    BY <2>1, <2>2 DEF Begin
  <2>4. s \in world[k[1]] /\ s.id = k[2] /\ s.age \in 0..Old
    <3>1. s \in world[k[1]] /\ s \in Snapshots /\ s.id = k[2]
      BY <2>1, <2>3, NewestFacts
    <3> QED BY <3>1, SnapshotAge
  <2>5. s.age <= began'[k]
    BY <2>3, <2>4
  <2> QED BY <2>4, <2>5
<1>3. DOMAIN began' = Kept /\ world' = world
  BY DEF Begin
<1>4. BeganThere'
  BY <1>2, <1>3 DEF BeganThere
<1>5. Reached'
  BY <1>1, <1>3 DEF Begin, Reached
<1> QED BY <1>4, <1>5

LEMMA SnapshotsKeep ==
  ASSUME TypeOK, Unvisited, BeganThere, Reached, NEW d \in Datastores, CollectSnapshots(d)
  PROVE  Reached'
<1>1. PICK latest \in [{s.id : s \in world[d]} -> world[d]] :
        /\ \A i \in DOMAIN latest : latest[i] \in Newest(d, i)
        /\ backups' = [k \in DOMAIN backups \cup ({d} \X DOMAIN latest) |->
                         IF k[1] = d THEN latest[k[2]] ELSE backups[k]]
  BY DEF CollectSnapshots
<1>2. UNCHANGED <<pc, began, missed>> /\ pc = "snapshots" /\ todo' = todo \ {d}
  BY DEF CollectSnapshots, history
<1>3. ASSUME NEW k \in DOMAIN began, k[1] = d PROVE Fresh(k)'
  <2>1. PICK s \in world[d] : s.id = k[2] /\ s.age <= began[k]
    BY <1>3 DEF BeganThere
  <2>2. k[2] \in DOMAIN latest
    BY <2>1
  <2>3. latest[k[2]] \in Newest(d, k[2])
    BY <1>1, <2>2
  <2>4. latest[k[2]].age <= s.age /\ latest[k[2]] \in Snapshots /\ s \in Snapshots
    BY <2>1, <2>3, NewestFacts DEF TypeOK
  <2>5. k = <<d, k[2]>> /\ began[k] \in 0..Old
    BY <1>3, KeyShape
  <2>6. k \in DOMAIN backups' /\ backups'[k] = latest[k[2]]
    BY <1>1, <1>3, <2>2, <2>5
  <2>7. latest[k[2]].age <= began[k]
    <3>1. latest[k[2]].age \in 0..Old /\ s.age \in 0..Old
      BY <2>4, SnapshotAge
    <3> QED BY <2>1, <2>4, <2>5, <3>1
  <2>8. began'[k] = began[k]
    BY <1>2
  <2>9. backups'[k].age <= began'[k]
    BY <2>6, <2>7, <2>8
  <2> QED BY <2>6, <2>9 DEF Fresh
<1>4. ASSUME NEW k \in DOMAIN began, k[1] # d, Fresh(k) PROVE Fresh(k)'
  BY <1>1, <1>2, <1>4 DEF Fresh
<1> QED BY <1>2, <1>3, <1>4 DEF Reached

LEMMA FreshStep ==
  ASSUME TypeOK, Unvisited, BeganThere, Reached, [Next]_vars
  PROVE  BeganThere' /\ Reached'
<1>1. CASE World
  BY <1>1, WorldKeeps
<1>2. CASE Begin
  BY <1>2, BeginKeeps
<1>3. CASE Collect /\ ~Begin
  <2>1. world' = world /\ began' = began
    BY <1>3 DEF Collect, CollectAllDatastoreUsage, UsageFails, CollectDatastoreStatus, StatusFails,
         StatusesRead, CollectSnapshots, SnapshotsFail, CollectTasks, UpdateDatastores,
         UpdateBackups, UpdateTasks, Record, history
  <2>2. BeganThere'
    BY <2>1 DEF BeganThere
  <2>3. CASE \E d \in Datastores : CollectSnapshots(d)
    BY <2>2, <2>3, SnapshotsKeep
  <2>4. CASE \/ CollectAllDatastoreUsage \/ UsageFails \/ StatusesRead
             \/ CollectTasks \/ UpdateDatastores \/ UpdateBackups \/ UpdateTasks \/ Record
    <3>1. Reached'
      BY <2>4, KeyShape DEF Reached, Fresh, CollectAllDatastoreUsage, UsageFails, StatusesRead,
           CollectTasks, UpdateDatastores, UpdateBackups, UpdateTasks, Record, poll, history
    <3> QED BY <2>2, <3>1
  <2>5. ASSUME NEW d \in Datastores, CollectDatastoreStatus(d) \/ StatusFails(d) \/ SnapshotsFail(d)
        PROVE  Reached'
    BY <2>5 DEF Reached, Fresh, CollectDatastoreStatus, StatusFails, SnapshotsFail, history
  <2> QED BY <1>3, <2>2, <2>3, <2>4, <2>5 DEF Collect
<1>4. CASE UNCHANGED vars
  BY <1>4 DEF vars, poll, history, BeganThere, Reached, Fresh
<1> QED BY <1>1, <1>2, <1>3, <1>4 DEF Next

\* A poll publishes a backup of every key that had one when it began, no older
\* than that one, unless a call for its datastore failed: whatever is made,
\* pruned or forgotten meanwhile, and however the poll learns of datastores.
THEOREM NothingIsHidden == Spec => NothingHidden
<1>1. Init => BeganThere /\ Reached
  BY NothingType DEF Init, BeganThere, Reached
<1>2. TypeOK /\ Unvisited /\ BeganThere /\ Reached /\ [Next]_vars => (BeganThere /\ Reached)'
  BY FreshStep
<1>3. Reached /\ UpdateBackups =>
        \A k \in DOMAIN began : k[1] \notin missed =>
          k \in DOMAIN cacheBackups' /\ cacheBackups'[k].age <= began[k]
  BY DEF Reached, Fresh, UpdateBackups
<1> QED BY <1>1, <1>2, <1>3, TypeCorrect, PTL DEF Spec, NothingHidden
-----------------------------------------------------------------------------
(* Nothing is invented.                                                    *)

\* What a poll may find, and what it has found, existed during the poll.
FromPoll ==
  pc # "idle" =>
    /\ \A d \in Datastores : \A s \in world[d] : <<d, s.id>> \in existed
    /\ DOMAIN backups \subseteq existed

LEMMA FromPollWorld ==
  ASSUME TypeOK, FromPoll, World
  PROVE  FromPoll'
<1>1. CASE Tick
  <2>1. ASSUME NEW d \in Datastores, NEW t \in world'[d]
        PROVE  \E s \in world[d] : s.id = t.id
    <3>1. PICK s \in world[d] : t = [s EXCEPT !.age = Aged(@)]
      BY <1>1, <2>1 DEF Tick
    <3>2. s \in Snapshots
      BY DEF TypeOK
    <3> QED BY <3>1, <3>2, SnapshotFields
  <2>2. pc' = pc /\ existed' = existed /\ DOMAIN backups' = DOMAIN backups
    BY <1>1 DEF Tick
  <2>3. ASSUME pc # "idle", NEW d \in Datastores, NEW t \in world'[d]
        PROVE  <<d, t.id>> \in existed
    BY <2>1, <2>3 DEF FromPoll
  <2> QED BY <2>2, <2>3 DEF FromPoll
<1>2. ASSUME NEW d \in Datastores, NEW g \in Groups, BackUp(d, g) PROVE FromPoll'
  <2>1. \A e \in Datastores : \A t \in world'[e] :
          t \in world[e] \/ (e = d /\ t.id = g[2])
    BY <1>2 DEF BackUp, TypeOK
  <2> QED BY <1>2, <2>1 DEF BackUp, FromPoll, poll
<1>3. ASSUME NEW d \in Datastores, NEW g \in Groups, Forget(d, g) PROVE FromPoll'
  <2>1. \A e \in Datastores : world'[e] \subseteq world[e]
    BY <1>3 DEF Forget, TypeOK
  <2> QED BY <1>3, <2>1 DEF Forget, FromPoll, poll
<1>4. ASSUME NEW d \in Datastores, NEW s \in Snapshots, Prune(d, s) PROVE FromPoll'
  <2>1. \A e \in Datastores : world'[e] \subseteq world[e]
    BY <1>4 DEF Prune, TypeOK
  <2> QED BY <1>4, <2>1 DEF Prune, FromPoll, poll, history
<1> QED BY <1>1, <1>2, <1>3, <1>4 DEF World

LEMMA FromPollStep ==
  ASSUME TypeOK, FromPoll, [Next]_vars
  PROVE  FromPoll'
<1>1. CASE World
  BY <1>1, FromPollWorld
<1>2. CASE Begin
  <2>1. ASSUME NEW d \in Datastores, NEW s \in world[d] PROVE <<d, s.id>> \in Present
    <3>1. s.id \in Ids
      BY SnapshotFields DEF TypeOK
    <3> QED BY <3>1 DEF Present, Keys
  <2> QED BY <1>2, <2>1, NothingType DEF Begin, FromPoll
<1>3. ASSUME NEW d \in Datastores, CollectSnapshots(d) PROVE FromPoll'
  <2>1. PICK latest \in [{s.id : s \in world[d]} -> world[d]] :
          backups' = [k \in DOMAIN backups \cup ({d} \X DOMAIN latest) |->
                        IF k[1] = d THEN latest[k[2]] ELSE backups[k]]
    BY <1>3 DEF CollectSnapshots
  <2>2. DOMAIN latest = {s.id : s \in world[d]}
    OBVIOUS
  <2>3. {d} \X DOMAIN latest \subseteq existed
    BY <1>3, <2>2 DEF CollectSnapshots, FromPoll
  <2>4. DOMAIN backups' \subseteq existed
    BY <1>3, <2>1, <2>3 DEF CollectSnapshots, FromPoll
  <2> QED BY <1>3, <2>4 DEF CollectSnapshots, FromPoll, history
<1>4. ASSUME NEW d \in Datastores, CollectDatastoreStatus(d) \/ StatusFails(d) \/ SnapshotsFail(d)
      PROVE  FromPoll'
  BY <1>4 DEF FromPoll, CollectDatastoreStatus, StatusFails, SnapshotsFail, history
<1>5. CASE \/ CollectAllDatastoreUsage \/ UsageFails \/ StatusesRead
           \/ CollectTasks \/ UpdateDatastores \/ UpdateBackups \/ UpdateTasks \/ Record
  BY <1>5 DEF FromPoll, CollectAllDatastoreUsage, UsageFails, StatusesRead, CollectTasks,
       UpdateDatastores, UpdateBackups, UpdateTasks, Record, poll, history
<1>6. CASE UNCHANGED vars
  BY <1>6 DEF vars, poll, history, FromPoll
<1> QED BY <1>1, <1>2, <1>3, <1>4, <1>5, <1>6 DEF Next, Collect

\* A poll publishes no backup that was forgotten before it began, however the
\* polls before it ended.
THEOREM NothingIsInvented == Spec => NothingInvented
<1>1. Init => FromPoll
  BY DEF Init, FromPoll
<1>2. TypeOK /\ FromPoll /\ [Next]_vars => FromPoll'
  BY FromPollStep
<1>3. FromPoll /\ UpdateBackups => DOMAIN cacheBackups' \subseteq existed
  BY DEF FromPoll, UpdateBackups
<1> QED BY <1>1, <1>2, <1>3, TypeCorrect, PTL DEF Spec, NothingInvented
=============================================================================
