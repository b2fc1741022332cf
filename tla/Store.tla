-------------------------------- MODULE Store --------------------------------
(***************************************************************************)
(* The SQLite tables that keep measurements (internal/store): the rows     *)
(* that collectors write at the end of their polls, the pruner that        *)
(* deletes the old ones every hour, and the process around them, which may *)
(* crash anywhere and start again.                                         *)
(*                                                                         *)
(* Time is seen from the present, as in module Ages: a row's age is the    *)
(* difference between now and its ts.  An age stops at Old, above all that *)
(* rows are compared with.  A statement of SQLite is atomic and lasting.   *)
(***************************************************************************)
EXTENDS Integers, Sequences

CONSTANTS
  Subjects,     \* what rows are about: a node, a guest, a disk, ...
  Disks,        \* those subjects that are disks, known by their WWN
  Tables,       \* the tables with a ts column, in the pruner's order
  TableOf,      \* [Subjects -> 1..Len(Tables)]
  Retention,    \* [1..Len(Tables) -> Nat]: RetentionConfig
  Writers,      \* the collectors
  Writes,       \* [Writers -> SUBSET Subjects]: what their polls may find
  Phase,        \* [Subjects -> Nat]: nodes are written first, then guests, disks
  HistoryHours, \* history_hours
  PruneEvery,   \* Pruner.interval
  Broken,       \* tables a DELETE from which always fails
  Old,          \* where ages stop
  MaxLag,       \* bound: how long the writing of a poll, or a prune, takes
  MaxFaults,    \* bound: statements that fail
  MaxCrashes    \* bound: crashes

ASSUME StoreAssumption ==
  /\ Tables \in Seq(STRING) /\ Len(Tables) > 0
  /\ TableOf \in [Subjects -> 1..Len(Tables)]
  /\ Retention \in [1..Len(Tables) -> Nat]
  /\ Disks \subseteq Subjects /\ Broken \subseteq 1..Len(Tables)
  /\ Writes \in [Writers -> SUBSET Subjects]
  /\ Phase \in [Subjects -> Nat]
  /\ HistoryHours \in Nat /\ PruneEvery \in Nat \ {0}
  /\ MaxLag \in Nat /\ MaxFaults \in Nat /\ MaxCrashes \in Nat
  \* the shortest retention, 48 h, is long beside what polls and prunes take
  /\ \A t \in 1..Len(Tables) : MaxLag <= Retention[t]
  /\ Old \in Nat /\ HistoryHours < Old
  /\ \A t \in 1..Len(Tables) : Retention[t] + MaxLag < Old

VARIABLES
  rows,     \* [subject, age]: the primary keys in the tables
  known,    \* the disks in table disks
  refused,  \* history: disks whose UpsertDisk has only ever failed
  up,       \* the process runs
  pending,  \* [Writers -> subjects whose rows are still to be written]
  upserted, \* [Writers -> the disk whose UpsertDisk was just tried, if any]
  lag,      \* [Writers -> time since the `now' of the poll being written]
  prune,    \* the table the running prune visits next; 0 between prunes
  pruneLag, \* time since its `now'
  rest,     \* time until the pruner's ticker fires
  faults, crashes

tables == <<rows, known, refused>>
writing == <<pending, upserted, lag>>
pruning == <<prune, pruneLag, rest>>
vars == <<tables, up, writing, pruning, faults, crashes>>

RetentionOf == [s \in Subjects |-> Retention[TableOf[s]]]

\* Mutant: ages without end.
AgedOn(r) == [r EXCEPT !.age = @ + 1]

Aged(r) == [r EXCEPT !.age = IF @ = Old THEN Old ELSE @ + 1]

Idle == [w \in Writers |-> {}]
NoLag == [w \in Writers |-> 0]

\* A process about to prune, as Run does once before its ticker.
Init ==
  /\ rows = {} /\ known = {} /\ refused = {}
  /\ up = TRUE
  /\ pending = Idle /\ upserted = Idle /\ lag = NoLag
  /\ prune = 0 /\ pruneLag = 0 /\ rest = 0
  /\ faults = 0 /\ crashes = 0

----------------------------------------------------------------------------
(* The end of a collector's poll. *)

\* Collect has its results; their ts is the `now' of its start.
Begin(w) ==
  /\ up /\ pending[w] = {}
  /\ \E found \in SUBSET Writes[w] : pending' = [pending EXCEPT ![w] = found]
  /\ lag' = [lag EXCEPT ![w] = 0]
  /\ UNCHANGED <<tables, up, upserted, pruning, faults, crashes>>

\* The loops run over nodes, then guests, then disks, one row at a time.
Due(w, s) ==
  /\ up /\ s \in pending[w]
  /\ \A x \in pending[w] : Phase[s] <= Phase[x]
  /\ upserted[w] \subseteq {s}

\* Mutant: the row is written before the disk.
RowFirst(w, s) == Due(w, s) /\ (s \in Disks => upserted[w] = {})

\* In the loop over disks each row comes after the disk's own.
RowDue(w, s) == Due(w, s) /\ (s \in Disks => upserted[w] = {s})

Written(w, s) ==
  /\ pending' = [pending EXCEPT ![w] = @ \ {s}]
  /\ upserted' = [upserted EXCEPT ![w] = {}]
  /\ UNCHANGED <<known, refused, up, lag, pruning, crashes>>

UpsertDisk(w, s) ==
  /\ Due(w, s) /\ s \in Disks /\ upserted[w] = {}
  /\ upserted' = [upserted EXCEPT ![w] = {s}]
  /\ \/ /\ known' = known \cup {s} /\ refused' = refused \ {s}
        /\ UNCHANGED faults
     \/ /\ faults < MaxFaults /\ faults' = faults + 1
        /\ refused' = refused \cup ({s} \ known)
        /\ UNCHANGED known
  /\ UNCHANGED <<rows, up, pending, lag, pruning, crashes>>

\* INSERT OR REPLACE: the key is the ts and the subject.
Insert(w, s) ==
  /\ RowDue(w, s)
  /\ rows' = rows \cup {[subject |-> s, age |-> lag[w]]}
  /\ Written(w, s)
  /\ UNCHANGED faults

\* An error is logged, and only its own row is lost.
InsertFails(w, s) ==
  /\ RowDue(w, s)
  /\ faults < MaxFaults /\ faults' = faults + 1
  /\ Written(w, s)
  /\ UNCHANGED rows

----------------------------------------------------------------------------
(* The pruner. *)

\* At start-up and at every tick; all cutoffs come from one `now'.
BeginPrune ==
  /\ up /\ prune = 0 /\ rest = 0
  /\ prune' = 1 /\ pruneLag' = 0 /\ rest' = PruneEvery
  /\ UNCHANGED <<tables, up, writing, faults, crashes>>

NextTable == prune' = IF prune = Len(Tables) THEN 0 ELSE prune + 1

\* Mutant: <= instead of <.
ExpiredAtOnce(r) ==
  /\ TableOf[r.subject] = prune
  /\ r.age - pruneLag >= Retention[prune]

\* DELETE FROM t WHERE ts < now - retention
Expired(r) ==
  /\ TableOf[r.subject] = prune
  /\ r.age - pruneLag > Retention[prune]

DeleteOld ==
  /\ up /\ prune # 0 /\ prune \notin Broken
  /\ rows' = {r \in rows : ~Expired(r)}
  /\ NextTable
  /\ UNCHANGED <<known, refused, up, writing, pruneLag, rest, faults, crashes>>

\* Mutant: the first error ends the prune.
DeleteGivesUp ==
  /\ up /\ prune # 0
  /\ \/ prune \in Broken /\ UNCHANGED faults
     \/ faults < MaxFaults /\ faults' = faults + 1
  /\ prune' = 0
  /\ UNCHANGED <<tables, up, writing, pruneLag, rest, crashes>>

\* An error is logged, and the next table is visited all the same.
DeleteFails ==
  /\ up /\ prune # 0
  /\ \/ prune \in Broken /\ UNCHANGED faults
     \/ faults < MaxFaults /\ faults' = faults + 1
  /\ NextTable
  /\ UNCHANGED <<tables, up, writing, pruneLag, rest, crashes>>

----------------------------------------------------------------------------
(* The process and time. *)

\* The tables stay; polls and prunes that were under way are forgotten.
Crash ==
  /\ up /\ crashes < MaxCrashes
  /\ up' = FALSE /\ crashes' = crashes + 1
  /\ pending' = Idle /\ upserted' = Idle /\ lag' = NoLag
  /\ prune' = 0 /\ pruneLag' = 0 /\ rest' = 0
  /\ UNCHANGED <<tables, faults>>

\* store.New creates only what is not there yet.
Start ==
  /\ ~up /\ up' = TRUE
  /\ UNCHANGED <<tables, writing, pruning, faults, crashes>>

\* Time passes while nobody exceeds MaxLag and the pruner's tick is not due.
Tick ==
  /\ \A w \in Writers : pending[w] # {} => lag[w] < MaxLag
  /\ prune # 0 => pruneLag < MaxLag
  /\ up => rest > 0 \/ prune # 0
  /\ rows' = {Aged(r) : r \in rows}
  /\ lag' = [w \in Writers |-> IF pending[w] = {} THEN 0 ELSE lag[w] + 1]
  /\ pruneLag' = IF prune = 0 THEN 0 ELSE pruneLag + 1
  /\ rest' = IF rest = 0 THEN 0 ELSE rest - 1
  /\ UNCHANGED <<known, refused, up, pending, upserted, prune, faults, crashes>>

Write(w) ==
  \E s \in Writes[w] : UpsertDisk(w, s) \/ Insert(w, s) \/ InsertFails(w, s)

Prune == BeginPrune \/ DeleteOld \/ DeleteFails

Next ==
  \/ \E w \in Writers : Begin(w) \/ Write(w)
  \/ Prune
  \/ Crash \/ Start \/ Tick

Safety == Init /\ [][Next]_vars

\* A goroutine with a statement to execute executes it, a crashed process is
\* restarted (docker-compose.yml: unless-stopped), and time goes on.
Spec ==
  /\ Safety
  /\ \A w \in Writers : WF_vars(Write(w))
  /\ WF_vars(Prune) /\ WF_vars(Start) /\ WF_vars(Tick)

----------------------------------------------------------------------------
(* Properties. *)

\* The values are of their types; the poll and the prune being written are
\* at most MaxLag old (pve.go 158-224, pruner.go 63-100).
TypeOK ==
  /\ rows \subseteq [subject : Subjects, age : 0..Old]
  /\ known \subseteq Disks /\ refused \subseteq Disks
  /\ up \in BOOLEAN
  /\ pending \in [Writers -> SUBSET Subjects]
  /\ upserted \in [Writers -> SUBSET Disks]
  /\ lag \in [Writers -> 0..MaxLag]
  /\ prune \in 0..Len(Tables)
  /\ pruneLag \in 0..MaxLag
  /\ rest \in 0..PruneEvery
  /\ faults \in 0..MaxFaults
  /\ crashes \in 0..MaxCrashes

\* A row that was stored is there until it exceeds its table's retention:
\* neither the pruner, with cutoffs taken before it began to delete, nor a
\* failed statement, nor a crash loses it sooner (pruner.go 63-90).
Promise == INSTANCE HistoryPromise WITH
  Kept <- RetentionOf,
  Delay <- MaxLag,
  samples <- {r \in rows : r.age <= RetentionOf[r.subject]}

KeepsHistory == Promise!Spec

\* A disk's SMART rows are there without the disk's own only as long as every
\* statement for the disk itself has failed: UpsertDisk comes first, a crash
\* falls between whole statements, and neither other statements that fail nor
\* the pruner part the two (pve.go 211-218).
SmartRowsHaveDisk ==
  \A r \in rows : r.subject \in Disks => r.subject \in known \cup refused

\* A table does not grow for ever: again and again it is free of rows beyond
\* its retention, although other tables cannot be pruned, statements fail and
\* the process crashes (pruner.go 79-90).
OldRowsGo ==
  \A t \in 1..Len(Tables) \ Broken :
    []<>(\A r \in rows : TableOf[r.subject] = t => r.age <= Retention[t] + MaxLag)

\* The longest time from one prune's `now' to the next one's.
Period == IF PruneEvery < MaxLag THEN MaxLag ELSE PruneEvery

\* How far a table does grow: as long as the process lives, no row outlives its
\* retention by more than a period for the wait, one for each statement that
\* has failed, and the duration of a prune, whatever becomes of the tables
\* visited before its own (pruner.go 46-61, 79-90).
TablesBounded ==
  crashes = 0 =>
    \A r \in rows : TableOf[r.subject] \notin Broken =>
      r.age <= RetentionOf[r.subject] + (faults + 1) * Period + MaxLag

\* docs/configuration.md:32 "Hours of metric history to retain for sparkline
\* charts" (history_hours): no row as young as that is ever deleted.  The
\* pruner is built with DefaultRetention and never reads it (main.go 268).
HistoryHoursKept ==
  [][\A r \in rows : r.age < HistoryHours => r \in rows' \/ Aged(r) \in rows']_rows
=============================================================================
