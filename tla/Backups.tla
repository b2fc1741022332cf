------------------------------- MODULE Backups -------------------------------
(***************************************************************************)
(* The collector of one Proxmox Backup Server (internal/collector/pbs.go): *)
(* which datastores, backups and tasks a poll publishes while backups are  *)
(* made, pruned and forgotten, permissions are missing and calls fail.     *)
(*                                                                         *)
(* Times are ages, as the staleness alert sees them; an age stops at Old,  *)
(* beyond which a backup is stale and no task is asked for any more.       *)
(***************************************************************************)
EXTENDS Integers, Sequences

CONSTANTS
  Datastores,  \* those configured, or those the server has
  NoAudit,     \* those whose status the token may not read (403)
  Groups,      \* backup groups, <<type, id>>
  Window,      \* collectTasks' `since': tasks no older than that (7 days)
  Limit,       \* collectTasks' `limit': that many, the newest (200)
  Old,         \* an age above backup_stale's max_age and above Window
  MaxBackups,  \* bound: backups made
  MaxFaults    \* bound: calls that fail

ASSUME BackupsAssumption ==
  /\ NoAudit \subseteq Datastores
  /\ Window \in Nat /\ Limit \in Nat \ {0}
  /\ Old \in Nat /\ Old > Window /\ MaxBackups \in Nat /\ MaxFaults \in Nat

Types == {g[1] : g \in Groups}
Ids == {g[2] : g \in Groups}
Keys == Datastores \X Ids   \* "datastore/backup id"
Snapshots == {[type |-> g[1], id |-> g[2], age |-> a] : g \in Groups, a \in 0..Old}

VARIABLES
  world,       \* world: the snapshots in each datastore
  jobs,        \* world: ages of the tasks, oldest first; a task is its number
  configured,  \* config.Datastores names them; or it is empty
  pc,          \* where Collect is
  todo,        \* datastores its loop has yet to visit
  datastores, backups, tasks,                \* what it has gathered; tasks may be NoTasks
  cacheDatastores, cacheBackups, cacheTasks, \* what the cache holds of the instance
  existed,     \* history: keys with a snapshot at some time during the poll
  began,       \* history: age of the newest snapshot each key had as the poll began
  missed,      \* history: datastores with a failed call in this poll
  faults

poll == <<todo, datastores, backups, tasks>>
cache == <<cacheDatastores, cacheBackups, cacheTasks>>
history == <<existed, began, missed>>
vars == <<world, jobs, configured, pc, poll, cache, history, faults>>

Nothing == [x \in {} |-> 0]

\* nil: the call for the tasks has failed.  No task has the number 0.
NoTasks == {0}

\* The snapshots of a key that no other of its snapshots is newer than.
Newest(d, i) ==
  {s \in world[d] : s.id = i /\ \A o \in world[d] : o.id = i => s.age <= o.age}

Present == {k \in Keys : \E s \in world[k[1]] : s.id = k[2]}

Kept == {k \in Keys : Newest(k[1], k[2]) # {}}

IsBackupMap(f) == DOMAIN f \subseteq Keys /\ \A k \in DOMAIN f : f[k] \in Snapshots
IsDatastoreMap(f) == DOMAIN f \subseteq Datastores /\ \A d \in DOMAIN f : f[d] \in {"usage", "stub"}

TypeOK ==
  /\ world \in [Datastores -> SUBSET Snapshots]
  /\ jobs \in Seq(0..Old) /\ Len(jobs) <= MaxBackups /\ configured \in BOOLEAN
  /\ pc \in {"idle", "usage", "status", "snapshots", "datastores", "backups", "tasks", "record"}
  /\ todo \subseteq Datastores
  /\ pc = "snapshots" => todo \subseteq DOMAIN datastores
  /\ IsDatastoreMap(datastores) /\ IsDatastoreMap(cacheDatastores)
  /\ IsBackupMap(backups) /\ IsBackupMap(cacheBackups)
  /\ tasks \subseteq DOMAIN jobs \/ tasks = NoTasks
  /\ cacheTasks \subseteq DOMAIN jobs
  /\ existed \subseteq Keys /\ DOMAIN began \subseteq Keys
  /\ \A k \in DOMAIN began : began[k] \in 0..Old
  /\ missed \subseteq Datastores
  /\ faults \in 0..MaxFaults

Init ==
  /\ world = [d \in Datastores |-> {}] /\ jobs = <<>>
  /\ configured \in BOOLEAN
  /\ pc = "idle" /\ todo = {}
  /\ datastores = Nothing /\ backups = Nothing /\ tasks = NoTasks
  /\ cacheDatastores = Nothing /\ cacheBackups = Nothing /\ cacheTasks = {}
  /\ existed = {} /\ began = Nothing /\ missed = {}
  /\ faults = 0

-----------------------------------------------------------------------------
(* The backup server                                                       *)

Aged(a) == IF a = Old THEN Old ELSE a + 1

\* Everything gets older, whoever knows of it.
Tick ==
  /\ world' = [d \in Datastores |-> {[s EXCEPT !.age = Aged(@)] : s \in world[d]}]
  /\ jobs' = [t \in DOMAIN jobs |-> Aged(jobs[t])]
  /\ backups' = [k \in DOMAIN backups |-> [backups[k] EXCEPT !.age = Aged(@)]]
  /\ cacheBackups' = [k \in DOMAIN cacheBackups |-> [cacheBackups[k] EXCEPT !.age = Aged(@)]]
  /\ began' = [k \in DOMAIN began |-> Aged(began[k])]
  /\ UNCHANGED <<configured, pc, todo, datastores, tasks, cacheDatastores, cacheTasks,
                 existed, missed, faults>>

\* A backup job: a snapshot, and a task.
BackUp(d, g) ==
  /\ Len(jobs) < MaxBackups /\ jobs' = Append(jobs, 0)
  /\ world' = [world EXCEPT ![d] = @ \cup {[type |-> g[1], id |-> g[2], age |-> 0]}]
  /\ existed' = existed \cup {<<d, g[2]>>}
  /\ UNCHANGED <<configured, pc, poll, cache, began, missed, faults>>

\* Prune jobs keep the newest snapshot of every group.
Prune(d, s) ==
  /\ s \in world[d]
  /\ \E o \in world[d] : o.type = s.type /\ o.id = s.id /\ o.age < s.age
  /\ world' = [world EXCEPT ![d] = @ \ {s}]
  /\ UNCHANGED <<jobs, configured, pc, poll, cache, history, faults>>

\* An administrator forgets a whole group.
Forget(d, g) ==
  /\ \E s \in world[d] : s.type = g[1] /\ s.id = g[2]
  /\ world' = [world EXCEPT ![d] = {s \in @ : s.type # g[1] \/ s.id # g[2]}]
  /\ began' = [k \in DOMAIN began \ {<<d, g[2]>>} |-> began[k]]
  /\ UNCHANGED <<jobs, configured, pc, poll, cache, existed, missed, faults>>

-----------------------------------------------------------------------------
(* Collect                                                                 *)

Fails == faults < MaxFaults /\ faults' = faults + 1

Begin ==
  /\ pc = "idle"
  /\ pc' = IF configured THEN "status" ELSE "usage"
  /\ todo' = Datastores
  /\ datastores' = Nothing /\ backups' = Nothing /\ tasks' = NoTasks
  /\ existed' = Present /\ missed' = {}
  /\ began' = [k \in Kept |-> (CHOOSE s \in Newest(k[1], k[2]) : TRUE).age]
  /\ UNCHANGED <<world, jobs, configured, cache, faults>>

\* collectAllDatastoreUsage: one call for all, and the poll ends if it fails.
CollectAllDatastoreUsage ==
  /\ pc = "usage"
  /\ datastores' = [d \in Datastores |-> "usage"]
  /\ pc' = "snapshots"
  /\ UNCHANGED <<world, jobs, configured, todo, backups, tasks, cache, history, faults>>

UsageFails ==
  /\ pc = "usage" /\ Fails
  /\ pc' = "idle"
  /\ UNCHANGED <<world, jobs, configured, poll, cache, history>>

\* Mutant: a 403 is an error like any other.
CollectDatastoreStatusAudited(d) ==
  /\ pc = "status" /\ d \in todo
  /\ datastores' = IF d \in NoAudit THEN datastores
                   ELSE [e \in DOMAIN datastores \cup {d} |-> "usage"]
  /\ todo' = todo \ {d}
  /\ UNCHANGED <<world, jobs, configured, pc, backups, tasks, cache, history, faults>>

\* collectDatastoreStatus of one datastore; a 403 leaves a stub.
CollectDatastoreStatus(d) ==
  /\ pc = "status" /\ d \in todo
  /\ datastores' = [e \in DOMAIN datastores \cup {d} |->
                      IF e \in NoAudit THEN "stub" ELSE "usage"]
  /\ todo' = todo \ {d}
  /\ UNCHANGED <<world, jobs, configured, pc, backups, tasks, cache, history, faults>>

\* Any other error: the datastore is left out of this poll.
StatusFails(d) ==
  /\ pc = "status" /\ d \in todo /\ Fails
  /\ todo' = todo \ {d} /\ missed' = missed \cup {d}
  /\ UNCHANGED <<world, jobs, configured, pc, datastores, backups, tasks, cache, existed, began>>

\* Mutant: the snapshots of all configured datastores are asked for.
StatusesReadAll ==
  /\ pc = "status" /\ todo = {}
  /\ pc' = "snapshots" /\ todo' = Datastores
  /\ UNCHANGED <<world, jobs, configured, datastores, backups, tasks, cache, history, faults>>

StatusesRead ==
  /\ pc = "status" /\ todo = {}
  /\ pc' = "snapshots" /\ todo' = DOMAIN datastores
  /\ UNCHANGED <<world, jobs, configured, datastores, backups, tasks, cache, history, faults>>

\* Mutant: the first snapshot of a key is kept, not the newest.
CollectSnapshotsFirst(d) ==
  /\ pc = "snapshots" /\ d \in todo
  /\ \E latest \in [{s.id : s \in world[d]} -> world[d]] :
       /\ \A i \in DOMAIN latest : latest[i].id = i
       /\ backups' = [k \in DOMAIN backups \cup ({d} \X DOMAIN latest) |->
                        IF k[1] = d THEN latest[k[2]] ELSE backups[k]]
  /\ todo' = todo \ {d}
  /\ UNCHANGED <<world, jobs, configured, pc, datastores, tasks, cache, history, faults>>

\* collectSnapshots, and the newest of every key; any of those equally new.
CollectSnapshots(d) ==
  /\ pc = "snapshots" /\ d \in todo
  /\ \E latest \in [{s.id : s \in world[d]} -> world[d]] :
       /\ \A i \in DOMAIN latest : latest[i] \in Newest(d, i)
       /\ backups' = [k \in DOMAIN backups \cup ({d} \X DOMAIN latest) |->
                        IF k[1] = d THEN latest[k[2]] ELSE backups[k]]
  /\ todo' = todo \ {d}
  /\ UNCHANGED <<world, jobs, configured, pc, datastores, tasks, cache, history, faults>>

SnapshotsFail(d) ==
  /\ pc = "snapshots" /\ d \in todo /\ Fails
  /\ todo' = todo \ {d} /\ missed' = missed \cup {d}
  /\ UNCHANGED <<world, jobs, configured, pc, datastores, backups, tasks, cache, existed, began>>

\* The tasks asked for: no older than Window, and of those, which the server
\* lists newest first, Limit.
Recent == {t \in DOMAIN jobs : jobs[t] <= Window /\ Len(jobs) - t < Limit}

CollectTasks ==
  /\ pc = "snapshots" /\ todo = {}
  /\ \/ tasks' = Recent /\ UNCHANGED faults
     \/ tasks' = NoTasks /\ Fails
  /\ pc' = "datastores"
  /\ UNCHANGED <<world, jobs, configured, todo, datastores, backups, cache, history>>

UpdateDatastores ==
  /\ pc = "datastores"
  /\ cacheDatastores' = datastores
  /\ pc' = "backups"
  /\ UNCHANGED <<world, jobs, configured, poll, cacheBackups, cacheTasks, history, faults>>

\* Mutant: the new backups are merged into the old ones, as disks are.
UpdateBackupsMerges ==
  /\ pc = "backups"
  /\ cacheBackups' = [k \in DOMAIN backups \cup DOMAIN cacheBackups |->
                        IF k \in DOMAIN backups THEN backups[k] ELSE cacheBackups[k]]
  /\ pc' = "tasks"
  /\ UNCHANGED <<world, jobs, configured, poll, cacheDatastores, cacheTasks, history, faults>>

UpdateBackups ==
  /\ pc = "backups"
  /\ cacheBackups' = backups
  /\ pc' = "tasks"
  /\ UNCHANGED <<world, jobs, configured, poll, cacheDatastores, cacheTasks, history, faults>>

\* Mutant: a failed call empties the tasks.
UpdateTasksAlways ==
  /\ pc = "tasks"
  /\ cacheTasks' = tasks \ NoTasks
  /\ pc' = "record"
  /\ UNCHANGED <<world, jobs, configured, poll, cacheDatastores, cacheBackups, history, faults>>

UpdateTasks ==
  /\ pc = "tasks"
  /\ cacheTasks' = IF tasks # NoTasks THEN tasks ELSE cacheTasks
  /\ pc' = "record"
  /\ UNCHANGED <<world, jobs, configured, poll, cacheDatastores, cacheBackups, history, faults>>

\* The rows for the store, and the time of the last poll.
Record ==
  /\ pc = "record"
  /\ pc' = "idle"
  /\ UNCHANGED <<world, jobs, configured, poll, cache, history, faults>>

-----------------------------------------------------------------------------
Collect ==
  \/ Begin \/ CollectAllDatastoreUsage \/ UsageFails
  \/ \E d \in Datastores : CollectDatastoreStatus(d) \/ StatusFails(d)
  \/ StatusesRead
  \/ \E d \in Datastores : CollectSnapshots(d) \/ SnapshotsFail(d)
  \/ CollectTasks \/ UpdateDatastores \/ UpdateBackups \/ UpdateTasks \/ Record

World ==
  \/ Tick
  \/ \E d \in Datastores, g \in Groups : BackUp(d, g) \/ Forget(d, g)
  \/ \E d \in Datastores, s \in Snapshots : Prune(d, s)

Next == Collect \/ World

Spec == Init /\ [][Next]_vars

\* Polls are repeated and calls return, after 30 s at the latest.
FairSpec == Spec /\ WF_vars(Collect)
-----------------------------------------------------------------------------
\* A poll publishes a backup of every key that had one when it began, no older
\* than that one: only a failed call may hide a datastore's backups, and only
\* that datastore's (Collect, its loop over datastores and its `latest' test).
NothingHidden ==
  [][UpdateBackups =>
       \A k \in DOMAIN began : k[1] \notin missed =>
         k \in DOMAIN cacheBackups' /\ cacheBackups'[k].age <= began[k]]_vars

\* A poll publishes no backup that was forgotten before it began, however the
\* polls before it ended (UpdateBackups).
NothingInvented == [][UpdateBackups => DOMAIN cacheBackups' \subseteq existed]_vars

\* Outside the instant between its two updates, the cache never shows a backup
\* of a datastore it does not show: a datastore whose status failed, and
\* which is gone from the new map, takes its old backups with it (Collect asks
\* only the datastores it gathered; UpdateBackups replaces the whole map).
BackupsHaveDatastores ==
  pc # "backups" => \A k \in DOMAIN cacheBackups : k[1] \in DOMAIN cacheDatastores

\* A task leaves the shown history only because it is older than what is asked
\* for, or because as many newer ones as are asked for are shown instead: not
\* because its call failed, the one that permissions forbid most often, nor
\* because the list waited for the other updates while backups went on
\* (collectTasks, Collect's `tasks != nil' before UpdateTasks).
TasksStay ==
  [][\A t \in cacheTasks \ cacheTasks' :
       \/ jobs'[t] > Window
       \/ \E n \in t..Len(jobs') : (n + 1)..(n + Limit) \subseteq cacheTasks']_vars

\* Once calls succeed and the server rests, the cache holds the newest backup
\* of every key, every datastore, whatever the token may not read, and the
\* tasks that are asked for (the 403 stub of Collect; collectTasks).
CacheConverges ==
  <>[](/\ DOMAIN cacheDatastores = Datastores
       /\ DOMAIN cacheBackups = Kept
       /\ \A k \in Kept : cacheBackups[k] \in Newest(k[1], k[2])
       /\ cacheTasks = Recent)
=============================================================================
