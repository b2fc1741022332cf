----------------------------- MODULE StoreProofs -----------------------------
(* Proofs about the store, for all tables, retentions, writers and faults. *)
EXTENDS Store, TLAPS

LEMMA ConstantTypes ==
  /\ Len(Tables) \in Nat \ {0}
  /\ Retention \in [1..Len(Tables) -> Nat]
  /\ TableOf \in [Subjects -> 1..Len(Tables)]
  /\ Disks \subseteq Subjects
  /\ Writes \in [Writers -> SUBSET Subjects]
  /\ Old \in Nat /\ MaxLag \in Nat /\ PruneEvery \in Nat \ {0}
  /\ MaxFaults \in Nat /\ MaxCrashes \in Nat
BY StoreAssumption

LEMMA RetentionBounds ==
  ASSUME NEW s \in Subjects
  PROVE  /\ RetentionOf[s] \in Nat /\ RetentionOf[s] = Retention[TableOf[s]]
         /\ MaxLag <= RetentionOf[s] /\ RetentionOf[s] + MaxLag < Old
<1>1. TableOf[s] \in 1..Len(Tables)
  BY ConstantTypes
<1> QED BY <1>1, ConstantTypes, StoreAssumption DEF RetentionOf

-----------------------------------------------------------------------------
(* Type correctness.                                                       *)

\* Rows get older within the bound, whatever their subject (pruner.go 84).
LEMMA AgedRow ==
  ASSUME NEW r \in [subject : Subjects, age : 0..Old]
  PROVE  /\ Aged(r) \in [subject : Subjects, age : 0..Old]
         /\ Aged(r).subject = r.subject
         /\ Aged(r).age = IF r.age = Old THEN Old ELSE r.age + 1
<1>1. r.age \in 0..Old /\ Old \in Nat
  BY ConstantTypes
<1>2. r = [subject |-> r.subject, age |-> r.age] /\ r.subject \in Subjects
  OBVIOUS
<1>3. Aged(r) = [subject |-> r.subject, age |-> IF r.age = Old THEN Old ELSE r.age + 1]
  BY <1>2 DEF Aged
<1> QED BY <1>1, <1>2, <1>3

LEMMA InitTypes == Init => TypeOK
BY ConstantTypes DEF Init, TypeOK, Idle, NoLag

LEMMA WriteTypes ==
  ASSUME TypeOK, NEW w \in Writers, Begin(w) \/ Write(w)
  PROVE  TypeOK'
<1> USE ConstantTypes
<1>1. CASE Begin(w)
  BY <1>1 DEF Begin, TypeOK, tables, pruning
<1>2. ASSUME NEW s \in Writes[w], UpsertDisk(w, s) PROVE TypeOK'
  <2>1. s \in Disks
    BY <1>2 DEF UpsertDisk
  <2>2. upserted' \in [Writers -> SUBSET Disks] /\ known' \subseteq Disks /\ faults' \in 0..MaxFaults
    BY <1>2, <2>1 DEF UpsertDisk, TypeOK
  <2> QED BY <1>2, <2>2 DEF UpsertDisk, TypeOK, pruning
<1>3. ASSUME NEW s \in Writes[w], Written(w, s)
      PROVE  /\ pending' \in [Writers -> SUBSET Subjects]
             /\ upserted' \in [Writers -> SUBSET Disks]
  BY <1>3 DEF Written, TypeOK
<1>4. ASSUME NEW s \in Writes[w], Insert(w, s) PROVE TypeOK'
  <2>1. s \in Subjects /\ lag[w] \in 0..Old
    BY RetentionBounds DEF TypeOK
  <2>2. rows' \subseteq [subject : Subjects, age : 0..Old]
    BY <1>4, <2>1 DEF Insert, TypeOK
  <2> QED BY <1>3, <1>4, <2>2 DEF Insert, Written, TypeOK, pruning
<1>5. ASSUME NEW s \in Writes[w], InsertFails(w, s) PROVE TypeOK'
  BY <1>3, <1>5 DEF InsertFails, Written, TypeOK, pruning
<1> QED BY <1>1, <1>2, <1>4, <1>5 DEF Write

LEMMA PruneTypes ==
  ASSUME TypeOK, Prune
  PROVE  TypeOK'
<1> USE ConstantTypes DEF TypeOK, tables, writing
<1>1. CASE BeginPrune
  <2>1. prune' \in 0..Len(Tables)
    BY <1>1 DEF BeginPrune
  <2> QED BY <1>1, <2>1 DEF BeginPrune
<1>2. CASE DeleteOld
  BY <1>2 DEF DeleteOld, NextTable
<1>3. CASE DeleteFails
  BY <1>3 DEF DeleteFails, NextTable
<1> QED BY <1>1, <1>2, <1>3 DEF Prune

LEMMA ProcessTypes ==
  ASSUME TypeOK, Crash \/ Start \/ Tick
  PROVE  TypeOK'
<1> USE ConstantTypes
<1>1. CASE Crash
  <2>1. Idle \in [Writers -> SUBSET Subjects] /\ Idle \in [Writers -> SUBSET Disks]
        /\ NoLag \in [Writers -> 0..MaxLag]
    BY DEF Idle, NoLag
  <2>2. crashes' \in 0..MaxCrashes
    BY <1>1 DEF Crash, TypeOK
  <2>3. pending' = Idle /\ upserted' = Idle /\ lag' = NoLag /\ up' = FALSE
        /\ prune' = 0 /\ pruneLag' = 0 /\ rest' = 0
        /\ rows' = rows /\ known' = known /\ refused' = refused /\ faults' = faults
    BY <1>1 DEF Crash, tables
  <2>4. 0 \in 0..Len(Tables) /\ 0 \in 0..MaxLag /\ 0 \in 0..PruneEvery
    OBVIOUS
  <2> QED BY <2>1, <2>2, <2>3, <2>4 DEF TypeOK
<1>2. CASE Start
  BY <1>2 DEF Start, TypeOK, tables, writing, pruning
<1>3. CASE Tick
  <2>1. rows' \subseteq [subject : Subjects, age : 0..Old]
    BY <1>3, AgedRow DEF Tick, TypeOK
  <2>2. lag' \in [Writers -> 0..MaxLag]
    <3>1. ASSUME NEW w \in Writers
          PROVE  (IF pending[w] = {} THEN 0 ELSE lag[w] + 1) \in 0..MaxLag
      <4>1. lag[w] \in 0..MaxLag /\ (pending[w] # {} => lag[w] < MaxLag)
        BY <1>3 DEF Tick, TypeOK
      <4> QED BY <4>1
    <3> QED BY <1>3, <3>1 DEF Tick
  <2>3. pruneLag' \in 0..MaxLag
    <3>1. pruneLag \in 0..MaxLag /\ (prune # 0 => pruneLag < MaxLag)
          /\ pruneLag' = IF prune = 0 THEN 0 ELSE pruneLag + 1
      BY <1>3 DEF Tick, TypeOK
    <3> QED BY <3>1
  <2>4. rest' \in 0..PruneEvery
    <3>1. rest \in 0..PruneEvery /\ rest' = IF rest = 0 THEN 0 ELSE rest - 1
      BY <1>3 DEF Tick, TypeOK
    <3> QED BY <3>1
  <2> QED BY <1>3, <2>1, <2>2, <2>3, <2>4 DEF Tick, TypeOK
<1> QED BY <1>1, <1>2, <1>3

LEMMA StepTypes ==
  ASSUME TypeOK, [Next]_vars
  PROVE  TypeOK'
<1>1. CASE UNCHANGED vars
  BY <1>1 DEF vars, tables, writing, pruning, TypeOK
<1> QED BY <1>1, WriteTypes, PruneTypes, ProcessTypes DEF Next

\* The store's variables keep their types; what a poll or a prune under way
\* compares its rows with is never more than MaxLag old.
THEOREM TypeCorrect == Spec => []TypeOK
<1>1. Init => TypeOK
  BY InitTypes
<1>2. TypeOK /\ [Next]_vars => TypeOK'
  BY StepTypes
<1> QED BY <1>1, <1>2, PTL DEF Spec, Safety

-----------------------------------------------------------------------------
(* A disk's rows are there without the disk only for want of its own.      *)

\* The disk whose row comes next has been tried already, and so have those
\* whose rows are there.
DisksFirst ==
  /\ \A r \in rows : r.subject \in Disks => r.subject \in known \cup refused
  /\ \A w \in Writers : upserted[w] \subseteq known \cup refused

LEMMA DisksFirstStep ==
  ASSUME TypeOK, DisksFirst, [Next]_vars
  PROVE  DisksFirst'
<1>1. upserted \in [Writers -> SUBSET Disks]
  BY DEF TypeOK
<1>2. ASSUME NEW w \in Writers, NEW s \in Writes[w], UpsertDisk(w, s) PROVE DisksFirst'
  <2>1. rows' = rows /\ upserted' = [upserted EXCEPT ![w] = {s}]
    BY <1>2 DEF UpsertDisk
  <2>2. known \cup refused \cup {s} \subseteq known' \cup refused'
    BY <1>2 DEF UpsertDisk
  <2> QED BY <1>1, <2>1, <2>2 DEF DisksFirst
<1>3. ASSUME NEW w \in Writers, NEW s \in Writes[w], Insert(w, s) PROVE DisksFirst'
  <2>1. s \in Disks => s \in known \cup refused
    BY <1>3 DEF Insert, RowDue, DisksFirst
  <2>2. /\ rows' = rows \cup {[subject |-> s, age |-> lag[w]]}
        /\ upserted' = [upserted EXCEPT ![w] = {}] /\ UNCHANGED <<known, refused>>
    BY <1>3 DEF Insert, Written
  <2> QED BY <1>1, <2>1, <2>2 DEF DisksFirst
<1>4. ASSUME NEW w \in Writers, NEW s \in Writes[w], InsertFails(w, s) PROVE DisksFirst'
  BY <1>1, <1>4 DEF InsertFails, Written, DisksFirst
<1>5. CASE \E w \in Writers : Begin(w)
  BY <1>5 DEF Begin, tables, DisksFirst
<1>6. CASE Prune
  BY <1>6 DEF Prune, BeginPrune, DeleteOld, DeleteFails, tables, writing, DisksFirst
<1>7. CASE Crash
  BY <1>7 DEF Crash, tables, Idle, DisksFirst
<1>8. CASE Start
  BY <1>8 DEF Start, tables, writing, DisksFirst
<1>9. CASE Tick
  <2>1. \A r \in rows : Aged(r).subject = r.subject
    BY AgedRow DEF TypeOK
  <2> QED BY <1>9, <2>1 DEF Tick, DisksFirst
<1>10. CASE UNCHANGED vars
  BY <1>10 DEF vars, tables, writing, DisksFirst
<1> QED BY <1>2, <1>3, <1>4, <1>5, <1>6, <1>7, <1>8, <1>9, <1>10 DEF Next, Write

\* SMART rows lack their disk only if all its own statements have failed,
\* whatever else fails and wherever the process crashes: UpsertDisk is the
\* first of the two (pve.go 211-218).
THEOREM DisksAreKnown == Spec => []SmartRowsHaveDisk
<1>1. Init => DisksFirst
  BY DEF Init, DisksFirst, Idle
<1>2. TypeOK /\ DisksFirst /\ [Next]_vars => DisksFirst'
  BY DisksFirstStep
<1>3. DisksFirst => SmartRowsHaveDisk
  BY DEF DisksFirst, SmartRowsHaveDisk
<1> QED BY <1>1, <1>2, <1>3, TypeCorrect, PTL DEF Spec, Safety

-----------------------------------------------------------------------------
(* The tables implement HistoryPromise.                                    *)

Young == {r \in rows : r.age <= RetentionOf[r.subject]}

LEMMA RowFacts ==
  ASSUME TypeOK, NEW r \in rows
  PROVE  /\ r.subject \in Subjects /\ r.age \in 0..Old
         /\ r = [subject |-> r.subject, age |-> r.age]
BY DEF TypeOK

\* A row that is written is young: its poll began at most MaxLag ago.
LEMMA InsertRecords ==
  ASSUME TypeOK, NEW w \in Writers, NEW s \in Writes[w], Insert(w, s)
  PROVE  Promise!Record(s, lag[w])
<1>1. s \in Subjects /\ lag[w] \in 0..MaxLag
  BY ConstantTypes DEF TypeOK
<1>2. lag[w] <= RetentionOf[s]
  BY <1>1, RetentionBounds, ConstantTypes
<1>3. rows' = rows \cup {[subject |-> s, age |-> lag[w]]}
  BY DEF Insert
<1> QED BY <1>2, <1>3 DEF Promise!Record

\* What the pruner deletes has been too old for a while (pruner.go 84).
LEMMA DeleteOldSpares ==
  ASSUME TypeOK, DeleteOld
  PROVE  Young' = Young
<1>1. rows' = {r \in rows : ~Expired(r)}
  BY DEF DeleteOld
<1>2. ASSUME NEW r \in rows, Expired(r) PROVE ~(r.age <= RetentionOf[r.subject])
  <2>1. r.age - pruneLag > Retention[prune] /\ TableOf[r.subject] = prune
    BY <1>2 DEF Expired
  <2>2. RetentionOf[r.subject] = Retention[prune] /\ RetentionOf[r.subject] \in Nat
    BY <2>1, RowFacts, RetentionBounds
  <2>3. pruneLag \in Nat /\ r.age \in Nat
    BY RowFacts, ConstantTypes DEF TypeOK
  <2> QED BY <2>1, <2>2, <2>3
<1> QED BY <1>1, <1>2 DEF Young

\* Ages stop at Old only beyond every retention: young rows get older one by
\* one, and leave when they are too old.
LEMMA TickPasses ==
  ASSUME TypeOK, Tick
  PROVE  Young' = {[x EXCEPT !.age = @ + 1] : x \in {y \in Young : y.age < RetentionOf[y.subject]}}
<1>1. rows' = {Aged(r) : r \in rows}
  BY DEF Tick
<1>2. ASSUME NEW r \in rows
      PROVE  /\ Aged(r).subject = r.subject
             /\ Aged(r).age <= RetentionOf[r.subject] <=> r.age < RetentionOf[r.subject]
             /\ r.age < RetentionOf[r.subject] => Aged(r) = [r EXCEPT !.age = @ + 1]
  <2>1. r.subject \in Subjects /\ r.age \in 0..Old /\ Old \in Nat /\ MaxLag \in Nat
    BY RowFacts, ConstantTypes
  <2>2. RetentionOf[r.subject] \in Nat /\ RetentionOf[r.subject] < Old
    BY <2>1, RetentionBounds
  <2>3. /\ Aged(r).subject = r.subject
        /\ Aged(r).age = IF r.age = Old THEN Old ELSE r.age + 1
    BY AgedRow DEF TypeOK
  <2>4. r.age # Old => Aged(r) = [r EXCEPT !.age = @ + 1]
    BY RowFacts DEF Aged
  <2> QED BY <2>1, <2>2, <2>3, <2>4
<1>3. Young' = {x \in {Aged(r) : r \in rows} : x.age <= RetentionOf[x.subject]}
  BY <1>1 DEF Young
<1>4. {y \in Young : y.age < RetentionOf[y.subject]} = {y \in rows : y.age < RetentionOf[y.subject]}
  <2>1. ASSUME NEW r \in rows, r.age < RetentionOf[r.subject] PROVE r.age <= RetentionOf[r.subject]
    BY <2>1, RowFacts, RetentionBounds
  <2> QED BY <2>1 DEF Young
<1>5. {x \in {Aged(r) : r \in rows} : x.age <= RetentionOf[x.subject]}
        = {Aged(r) : r \in {y \in rows : y.age < RetentionOf[y.subject]}}
  BY <1>2
<1>6. {Aged(r) : r \in {y \in rows : y.age < RetentionOf[y.subject]}}
        = {[x EXCEPT !.age = @ + 1] : x \in {y \in rows : y.age < RetentionOf[y.subject]}}
  BY <1>2
<1> QED BY <1>3, <1>4, <1>5, <1>6

LEMMA PromiseStep ==
  ASSUME TypeOK, [Next]_vars
  PROVE  [Promise!Next]_Young
<1>1. ASSUME NEW w \in Writers, NEW s \in Writes[w], Insert(w, s) PROVE Promise!Next
  <2>1. s \in Subjects /\ lag[w] \in 0..MaxLag
    BY ConstantTypes DEF TypeOK
  <2>2. Promise!Record(s, lag[w])
    BY <1>1, InsertRecords
  <2>3. \E x \in Subjects, a \in 0..MaxLag : Promise!Record(x, a)
    BY <2>1, <2>2 DEF Promise!Record
  <2> QED BY <2>3 DEF Promise!Next, Promise!Record
<1>2. CASE DeleteOld
  BY <1>2, DeleteOldSpares
<1>3. CASE Tick
  <2>1. Promise!Pass
    BY <1>3, TickPasses DEF Promise!Pass, Young
  <2> QED BY <2>1 DEF Promise!Next
<1>4. ASSUME rows' = rows PROVE Young' = Young
  BY <1>4 DEF Young
<1>5. ASSUME NEW w \in Writers, NEW s \in Writes[w], UpsertDisk(w, s) \/ InsertFails(w, s)
      PROVE  rows' = rows
  BY <1>5 DEF UpsertDisk, InsertFails
<1>6. CASE \E w \in Writers : Begin(w)
  BY <1>4, <1>6 DEF Begin, tables
<1>7. CASE BeginPrune \/ DeleteFails \/ Crash \/ Start \/ UNCHANGED vars
  BY <1>4, <1>7 DEF BeginPrune, DeleteFails, Crash, Start, vars, tables
<1> QED BY <1>1, <1>2, <1>3, <1>4, <1>5, <1>6, <1>7 DEF Next, Write, Prune

\* The store implements HistoryPromise: whatever crashes, fails or is pruned
\* meanwhile, a stored row is there until its retention is over.
THEOREM HistoryKept == Spec => KeepsHistory
<1>1. Init => Promise!Init
  BY DEF Init, Promise!Init
<1>2. TypeOK /\ [Next]_vars => [Promise!Next]_Young
  BY PromiseStep
<1>3. Young = {r \in rows : r.age <= RetentionOf[r.subject]}
  BY DEF Young
<1> QED BY <1>1, <1>2, <1>3, TypeCorrect, PTL DEF Spec, Safety, KeepsHistory, Promise!Spec, Young

-----------------------------------------------------------------------------
(* How far a table grows.                                                  *)

\* What failed statements may have cost so far.
Delayed == faults * Period

\* How old a row of table t may be, kept for `kept', while the pruner is at
\* table p with lag q, rests for n, and failures may have cost w: a table that
\* the running prune has passed waits for the next; one that it has yet to
\* visit, or none, waits for a prune that is due in at most a period.
ReachOf(kept, t, p, q, n, w) ==
  IF p = 0 THEN kept + w + Period - n
  ELSE IF t < p THEN kept + w + q
  ELSE kept + w + Period + q

Reach(t) == ReachOf(Retention[t], t, prune, pruneLag, rest, Delayed)

WithinReach ==
  crashes = 0 =>
    /\ up
    /\ prune # 0 => pruneLag + rest <= Period
    /\ \A r \in rows : TableOf[r.subject] \notin Broken => r.age <= Reach(TableOf[r.subject])

\* Another failure is worth another period.
LEMMA Periods ==
  ASSUME NEW f \in Nat
  PROVE  /\ Period \in Nat /\ PruneEvery <= Period /\ MaxLag <= Period
         /\ f * Period \in Nat
         /\ (f + 1) * Period = f * Period + Period
<1>1. Period \in Nat /\ PruneEvery <= Period /\ MaxLag <= Period
  BY ConstantTypes DEF Period
<1>2. ASSUME NEW p \in Nat PROVE f * p \in Nat /\ (f + 1) * p = f * p + p
  OBVIOUS
<1> QED BY <1>1, <1>2

LEMMA CrashesGrow ==
  ASSUME TypeOK, [Next]_vars, crashes' = 0
  PROVE  crashes = 0
<1>1. crashes \in Nat
  BY ConstantTypes DEF TypeOK
<1> QED BY <1>1 DEF Next, Begin, Write, UpsertDisk, Insert, InsertFails, Written, Prune,
     BeginPrune, DeleteOld, DeleteFails, Crash, Start, Tick, vars, pruning, tables, writing

\* The numbers that Reach adds up.
LEMMA ReachTyped ==
  ASSUME TypeOK
  PROVE  /\ Delayed \in Nat /\ pruneLag \in 0..MaxLag /\ rest \in 0..PruneEvery
         /\ prune \in 0..Len(Tables)
         /\ \A r \in rows : TableOf[r.subject] \in 1..Len(Tables) /\ r.age \in Nat
<1>1. faults \in Nat
  BY ConstantTypes DEF TypeOK
<1>2. Delayed \in Nat
  BY <1>1, Periods DEF Delayed
<1>3. \A r \in rows : TableOf[r.subject] \in 1..Len(Tables) /\ r.age \in Nat
  BY RowFacts, ConstantTypes
<1> QED BY <1>2, <1>3 DEF TypeOK

LEMMA FailuresDelay ==
  ASSUME TypeOK, faults' \in {faults, faults + 1}
  PROVE  Delayed' = IF faults' = faults THEN Delayed ELSE Delayed + Period
<1>1. faults \in Nat
  BY ConstantTypes DEF TypeOK
<1> QED BY <1>1, Periods DEF Delayed

LEMMA PeriodTyped ==
  /\ Period \in Nat /\ PruneEvery \in Nat /\ MaxLag \in Nat /\ PruneEvery <= Period /\ MaxLag <= Period
  /\ \A t \in 1..Len(Tables) : t \in Nat /\ Retention[t] \in Nat /\ MaxLag <= Retention[t]
  /\ Len(Tables) \in Nat \ {0}
<1>1. Period \in Nat /\ PruneEvery <= Period /\ MaxLag <= Period
  <2>1. 0 \in Nat
    OBVIOUS
  <2> QED BY <2>1, Periods
<1>2. \A t \in 1..Len(Tables) : t \in Nat /\ Retention[t] \in Nat /\ MaxLag <= Retention[t]
  BY ConstantTypes, StoreAssumption
<1> QED BY <1>1, <1>2, ConstantTypes

\* The arithmetic of ReachOf: where it lies, and what the end of a prune and
\* the beginning of the next do to it.
LEMMA ReachSums ==
  ASSUME NEW kept \in Nat, NEW t \in Nat, NEW p \in Nat, NEW q \in Nat, NEW n \in Nat, NEW w \in Nat,
         MaxLag <= kept, n <= Period
  PROVE  /\ ReachOf(kept, t, p, q, n, w) \in Int
         /\ MaxLag <= ReachOf(kept, t, p, q, n, w)
         /\ p # 0 /\ t <= p /\ q + n <= Period =>
              ReachOf(kept, t, 0, q, n, w) >= ReachOf(kept, t, p + 1, q, n, w)
BY PeriodTyped DEF ReachOf

LEMMA ReachGrows ==
  ASSUME NEW kept \in Nat, NEW t \in Nat, NEW p \in Nat, NEW q \in Nat, NEW n \in Nat, NEW w \in Nat
  PROVE  ReachOf(kept, t, p, q, n, w) <= ReachOf(kept, t, p, q, n, w + Period)
<1>1. Period \in Nat
  BY PeriodTyped
<1>2. CASE p = 0
  BY <1>1, <1>2 DEF ReachOf
<1>3. CASE p # 0 /\ t < p
  BY <1>1, <1>3 DEF ReachOf
<1>4. CASE p # 0 /\ ~(t < p)
  BY <1>1, <1>4 DEF ReachOf
<1> QED BY <1>2, <1>3, <1>4

LEMMA ReachOfTable ==
  ASSUME TypeOK, NEW t \in 1..Len(Tables)
  PROVE  /\ Retention[t] \in Nat /\ MaxLag <= Retention[t] /\ t \in Nat /\ t # 0
         /\ prune \in Nat /\ pruneLag \in Nat /\ rest \in Nat /\ Delayed \in Nat /\ rest <= Period
         /\ Reach(t) \in Int /\ MaxLag <= Reach(t)
<1>1. /\ Retention[t] \in Nat /\ MaxLag <= Retention[t] /\ t \in Nat /\ t # 0
      /\ prune \in Nat /\ pruneLag \in Nat /\ rest \in Nat /\ Delayed \in Nat /\ rest <= Period
  BY ReachTyped, PeriodTyped
<1> QED BY <1>1, ReachSums DEF Reach

\* A step that leaves the pruner alone and deletes nothing.
LEMMA WritesWithinReach ==
  ASSUME TypeOK, WithinReach, crashes = 0, up' = up, UNCHANGED pruning,
         faults' \in {faults, faults + 1},
         \A r \in rows' : r \in rows \/ (r.age \in 0..MaxLag /\ r.subject \in Subjects)
  PROVE  WithinReach'
<1>1. pruneLag' = pruneLag /\ rest' = rest /\ prune' = prune
  BY DEF pruning
<1>2. ASSUME NEW t \in 1..Len(Tables)
      PROVE  Reach(t) <= Reach(t)' /\ MaxLag <= Reach(t)' /\ Reach(t) \in Int /\ Reach(t)' \in Int
  <2>1. Reach(t)' = ReachOf(Retention[t], t, prune, pruneLag, rest, Delayed')
    BY <1>1 DEF Reach
  <2>2. Delayed' \in {Delayed, Delayed + Period} /\ Delayed + Period \in Nat
    BY FailuresDelay, ReachTyped, PeriodTyped
  <2>3. Reach(t) <= Reach(t)' /\ Reach(t)' \in Int
    <3>1. CASE Delayed' = Delayed
      <4>1. Reach(t)' = Reach(t)
        BY <2>1, <3>1 DEF Reach
      <4> QED BY <4>1, ReachOfTable
    <3>2. CASE Delayed' = Delayed + Period
      <4>1. /\ Retention[t] \in Nat /\ MaxLag <= Retention[t] /\ t \in Nat /\ prune \in Nat
            /\ pruneLag \in Nat /\ rest \in Nat /\ Delayed \in Nat /\ rest <= Period
            /\ Delayed + Period \in Nat
        BY <2>2, ReachOfTable
      <4>2. Reach(t)' = ReachOf(Retention[t], t, prune, pruneLag, rest, Delayed + Period)
        BY <2>1, <3>2
      <4>3. Reach(t)' \in Int
        <5>1. ReachOf(Retention[t], t, prune, pruneLag, rest, Delayed + Period) \in Int
          BY <4>1, ReachSums
        <5> QED BY <4>2, <5>1
      <4>4. Reach(t) <= Reach(t)'
        BY <4>1, <4>2, ReachGrows DEF Reach
      <4> QED BY <4>3, <4>4
    <3> QED BY <2>2, <3>1, <3>2
  <2> QED BY <2>3, ReachOfTable, PeriodTyped
<1>3. ASSUME NEW r \in rows', TableOf[r.subject] \notin Broken
      PROVE  r.age <= Reach(TableOf[r.subject])'
  <2>1. CASE r \in rows
    <3>1. TableOf[r.subject] \in 1..Len(Tables) /\ r.age \in Nat
      BY <2>1, ReachTyped
    <3>2. r.age <= Reach(TableOf[r.subject])
      BY <1>3, <2>1 DEF WithinReach
    <3> QED BY <3>1, <3>2, <1>2
  <2>2. CASE r.age \in 0..MaxLag /\ r.subject \in Subjects
    <3>1. TableOf[r.subject] \in 1..Len(Tables)
      BY <2>2, ConstantTypes
    <3>2. MaxLag <= Reach(TableOf[r.subject])' /\ Reach(TableOf[r.subject])' \in Int
      BY <3>1, <1>2
    <3> QED BY <2>2, <3>2, ConstantTypes
  <2> QED BY <1>3, <2>1, <2>2
<1> QED BY <1>1, <1>3 DEF WithinReach

\* A table is passed: its rows are fresh, or a failure is to blame.
LEMMA TablePassed ==
  ASSUME TypeOK, WithinReach, crashes = 0,
         UNCHANGED <<up, pruneLag, rest>>, prune # 0, NextTable,
         faults' \in {faults, faults + 1}, rows' \subseteq rows,
         \A r \in rows' : TableOf[r.subject] = prune /\ prune \notin Broken /\ faults' = faults
            => r.age - pruneLag <= Retention[prune]
  PROVE  WithinReach'
<1>1. up /\ pruneLag + rest <= Period
  BY DEF WithinReach
<1>2. ASSUME NEW r \in rows', TableOf[r.subject] \notin Broken
      PROVE  r.age <= Reach(TableOf[r.subject])'
  <2> DEFINE t == TableOf[r.subject]
             passed == ReachOf(Retention[t], t, prune + 1, pruneLag, rest, Delayed')
  <2>1. t \in 1..Len(Tables) /\ r.age \in Nat /\ r.age <= Reach(t)
    BY <1>2, ReachTyped DEF WithinReach
  <2>2. t \notin Broken
    BY <1>2
  <2>3. t = prune /\ faults' = faults => r.age - pruneLag <= Retention[t]
    BY <1>2, <2>2
  <2>4. Delayed' = (IF faults' = faults THEN Delayed ELSE Delayed + Period) /\ Delayed + Period \in Nat
    BY FailuresDelay, ReachTyped, PeriodTyped
  <2>5. Reach(t)' = IF prune = Len(Tables) THEN ReachOf(Retention[t], t, 0, pruneLag, rest, Delayed')
                    ELSE passed
    BY DEF Reach, NextTable
  <2>6. Reach(t) = ReachOf(Retention[t], t, prune, pruneLag, rest, Delayed)
    BY DEF Reach
  <2> HIDE DEF t
  <2>7. /\ Retention[t] \in Nat /\ MaxLag <= Retention[t] /\ t \in Nat /\ t # 0
        /\ prune \in Nat /\ pruneLag \in Nat /\ rest \in Nat /\ Delayed \in Nat /\ rest <= Period
        /\ Period \in Nat /\ prune + 1 \in Nat
    BY <2>1, ReachOfTable, PeriodTyped
  <2>8. Delayed' \in Nat
    BY <2>4, <2>7
  <2>9. passed \in Int /\ r.age <= passed
    <3>1. passed \in Int
      BY <2>7, <2>8, ReachSums
    <3>2. CASE t # prune
      <4>1. passed = ReachOf(Retention[t], t, prune, pruneLag, rest, Delayed')
        BY <2>7, <2>8, <3>2, PeriodTyped DEF ReachOf
      <4>2. passed >= Reach(t)
        <5>1. CASE Delayed' = Delayed
          BY <2>1, <2>6, <4>1, <5>1, ReachOfTable
        <5>2. CASE Delayed' = Delayed + Period
          BY <2>6, <2>7, <4>1, <5>2, PeriodTyped DEF ReachOf
        <5> QED BY <2>4, <5>1, <5>2
      <4>3. Reach(t) \in Int
        BY <2>1, ReachOfTable
      <4> QED BY <2>1, <3>1, <4>2, <4>3
    <3>3. CASE t = prune /\ faults' = faults
      <4>1. passed = Retention[t] + Delayed' + pruneLag
        BY <2>7, <2>8, <3>3, PeriodTyped DEF ReachOf
      <4>2. r.age - pruneLag <= Retention[t]
        BY <2>3, <3>3
      <4> HIDE DEF passed
      <4> QED BY <2>1, <2>7, <2>8, <3>1, <4>1, <4>2
    <3>4. CASE t = prune /\ faults' # faults
      <4>1. passed = ReachOf(Retention[t], t, prune, pruneLag, rest, Delayed)
        BY <2>4, <2>7, <3>4, PeriodTyped DEF ReachOf
      <4> QED BY <2>1, <2>6, <3>1, <4>1
    <3> QED BY <3>2, <3>3, <3>4
  <2>10. CASE prune = Len(Tables)
    <3>1. t <= prune
      BY <2>1, <2>10, PeriodTyped
    <3>2. ReachOf(Retention[t], t, 0, pruneLag, rest, Delayed') >= passed
      BY <1>1, <2>7, <2>8, <3>1, ReachSums
    <3>3. ReachOf(Retention[t], t, 0, pruneLag, rest, Delayed') \in Int
      BY <2>7, <2>8, ReachSums
    <3>4. r.age <= Reach(t)'
      BY <2>1, <2>5, <2>9, <2>10, <3>2, <3>3
    <3> QED BY <3>4 DEF t
  <2>11. CASE prune # Len(Tables)
    <3>1. r.age <= Reach(t)'
      BY <2>5, <2>9, <2>11
    <3> QED BY <3>1 DEF t
  <2> QED BY <2>10, <2>11
<1> QED BY <1>1, <1>2 DEF WithinReach

\* A prune that begins, and one that passes a table.
LEMMA PruneWithinReach ==
  ASSUME TypeOK, WithinReach, crashes = 0, Prune
  PROVE  WithinReach'
<1>1. CASE BeginPrune
  <2>1. /\ prune = 0 /\ rest = 0 /\ prune' = 1 /\ pruneLag' = 0 /\ rest' = PruneEvery
        /\ rows' = rows /\ up /\ up' = up /\ faults' = faults
    BY <1>1 DEF BeginPrune, tables
  <2>2. Delayed' = Delayed
    BY <2>1 DEF Delayed
  <2>3. ASSUME NEW t \in 1..Len(Tables) PROVE Reach(t)' = Reach(t)
    BY <2>1, <2>2, ReachOfTable, PeriodTyped DEF Reach, ReachOf
  <2>4. \A r \in rows : TableOf[r.subject] \in 1..Len(Tables)
    BY ReachTyped
  <2> QED BY <2>1, <2>3, <2>4, PeriodTyped DEF WithinReach
<1>2. CASE DeleteOld
  <2>1. ASSUME NEW r \in rows', TableOf[r.subject] = prune
        PROVE  r.age - pruneLag <= Retention[prune]
    <3>1. r \in rows /\ ~Expired(r)
      BY <1>2 DEF DeleteOld
    <3>2. ~(r.age - pruneLag > Retention[prune])
      BY <2>1, <3>1 DEF Expired
    <3>3. r.age \in Nat /\ pruneLag \in Nat /\ Retention[prune] \in Nat
      BY <2>1, <3>1, ReachTyped, PeriodTyped
    <3> QED BY <3>2, <3>3
  <2> QED BY <1>2, <2>1, TablePassed DEF DeleteOld
<1>3. CASE DeleteFails
  <2>1. UNCHANGED <<up, pruneLag, rest, rows>> /\ prune # 0 /\ NextTable
        /\ ((prune \in Broken /\ faults' = faults) \/ faults' = faults + 1)
    BY <1>3 DEF DeleteFails, tables
  <2>2. faults' # faults \/ prune \in Broken
    <3>1. faults \in Nat
      BY ConstantTypes DEF TypeOK
    <3> QED BY <2>1, <3>1
  <2>3. faults' \in {faults, faults + 1} /\ rows' \subseteq rows
    BY <2>1
  <2>4. ~(prune \notin Broken /\ faults' = faults)
    BY <2>2
  <2> QED BY <2>1, <2>3, <2>4, TablePassed
<1> QED BY <1>1, <1>2, <1>3 DEF Prune

\* Time brings the next prune as much nearer as it makes the rows older.
LEMMA TickWithinReach ==
  ASSUME TypeOK, WithinReach, crashes = 0, Tick
  PROVE  WithinReach'
<1>1. /\ up /\ prune # 0 => pruneLag + rest <= Period
      /\ rest > 0 \/ prune # 0
      /\ prune # 0 => pruneLag < MaxLag
      /\ rows' = {Aged(r) : r \in rows}
      /\ pruneLag' = IF prune = 0 THEN 0 ELSE pruneLag + 1
      /\ rest' = IF rest = 0 THEN 0 ELSE rest - 1
      /\ prune' = prune /\ up' = up /\ faults' = faults
  BY DEF Tick, WithinReach
<1>2. Delayed' = Delayed
  BY <1>1 DEF Delayed
<1>3. prune' # 0 => pruneLag' + rest' <= Period
  <2>1. /\ prune \in Nat /\ pruneLag \in Nat /\ rest \in Nat /\ Period \in Nat
        /\ MaxLag <= Period /\ MaxLag \in Nat
    BY ReachTyped, PeriodTyped
  <2>2. ASSUME prune # 0, rest = 0 PROVE pruneLag' + rest' <= Period
    <3>1. pruneLag' = pruneLag + 1 /\ rest' = 0 /\ pruneLag < MaxLag
      BY <1>1, <2>2
    <3> QED BY <2>1, <3>1
  <2>3. ASSUME prune # 0, rest # 0 PROVE pruneLag' + rest' <= Period
    <3>1. pruneLag' = pruneLag + 1
      BY <2>3 DEF Tick
    <3>2. rest' = rest - 1
      BY <2>3 DEF Tick
    <3>3. pruneLag + rest <= Period
      BY <2>3 DEF WithinReach
    <3> QED BY <2>1, <3>1, <3>2, <3>3
  <2>4. prune' = prune
    BY <1>1
  <2> QED BY <2>2, <2>3, <2>4
<1>4. ASSUME NEW t \in 1..Len(Tables) PROVE Reach(t)' = Reach(t) + 1 /\ Reach(t) \in Int
  <2>1. Reach(t)' = ReachOf(Retention[t], t, prune, pruneLag', rest', Delayed)
    BY <1>1, <1>2 DEF Reach
  <2>2. /\ Retention[t] \in Nat /\ MaxLag <= Retention[t] /\ t \in Nat
        /\ prune \in Nat /\ pruneLag \in Nat /\ rest \in Nat /\ Delayed \in Nat /\ rest <= Period
    BY ReachOfTable
  <2>3. rest' \in Nat /\ pruneLag' \in Nat
    BY <1>1, <2>2
  <2>4. CASE prune = 0
    <3>1. rest' = rest - 1 /\ rest > 0
      BY <1>1, <2>2, <2>4
    <3>2. Reach(t) = Retention[t] + Delayed + Period - rest
      BY <2>4 DEF Reach, ReachOf
    <3>3. Reach(t)' = Retention[t] + Delayed + Period - (rest - 1)
      BY <2>1, <2>4, <3>1 DEF ReachOf
    <3>4. Period \in Nat
      BY PeriodTyped
    <3> QED BY <2>2, <3>2, <3>3, <3>4
  <2>5. CASE prune # 0
    <3>1. pruneLag' = pruneLag + 1
      BY <1>1, <2>5
    <3>2. Reach(t)' = Reach(t) + 1
      BY <2>1, <2>2, <2>3, <2>5, <3>1, PeriodTyped DEF Reach, ReachOf
    <3> QED BY <3>2, ReachOfTable
  <2> QED BY <2>4, <2>5
<1>5. ASSUME NEW r \in rows, TableOf[Aged(r).subject] \notin Broken
      PROVE  Aged(r).age <= Reach(TableOf[Aged(r).subject])'
  <2>1. /\ Aged(r).subject = r.subject
        /\ Aged(r).age = IF r.age = Old THEN Old ELSE r.age + 1
        /\ r.age \in Nat /\ TableOf[r.subject] \in 1..Len(Tables)
    BY AgedRow, RowFacts, ReachTyped DEF TypeOK
  <2>2. r.age <= Reach(TableOf[r.subject])
    BY <1>5, <2>1 DEF WithinReach
  <2> QED BY <2>1, <2>2, <1>4
<1> QED BY <1>1, <1>3, <1>5 DEF WithinReach

\* Every step keeps the rows within reach.
LEMMA ReachStep ==
  ASSUME TypeOK, TypeOK', WithinReach, [Next]_vars
  PROVE  WithinReach'
<1> SUFFICES ASSUME crashes' = 0 PROVE WithinReach'
  BY DEF WithinReach
<1>0. crashes = 0 /\ up
  BY CrashesGrow DEF WithinReach
<1>1. ASSUME NEW w \in Writers, Begin(w) PROVE WithinReach'
  BY <1>0, <1>1, WritesWithinReach DEF Begin, tables
<1>2. ASSUME NEW w \in Writers, NEW s \in Writes[w], UpsertDisk(w, s) PROVE WithinReach'
  BY <1>0, <1>2, WritesWithinReach DEF UpsertDisk
<1>3. ASSUME NEW w \in Writers, NEW s \in Writes[w], Insert(w, s) PROVE WithinReach'
  <2>1. s \in Subjects /\ lag[w] \in 0..MaxLag
    BY ConstantTypes DEF TypeOK
  <2>2. rows' = rows \cup {[subject |-> s, age |-> lag[w]]}
    BY <1>3 DEF Insert
  <2>3. \A r \in rows' : r \in rows \/ (r.age \in 0..MaxLag /\ r.subject \in Subjects)
    BY <2>1, <2>2
  <2> QED BY <1>0, <1>3, <2>3, WritesWithinReach DEF Insert, Written
<1>4. ASSUME NEW w \in Writers, NEW s \in Writes[w], InsertFails(w, s) PROVE WithinReach'
  BY <1>0, <1>4, WritesWithinReach DEF InsertFails, Written
<1>5. CASE Prune
  BY <1>0, <1>5, PruneWithinReach
<1>6. CASE Tick
  BY <1>0, <1>6, TickWithinReach
<1>7. ~Crash /\ ~Start
  <2>1. crashes \in Nat
    BY <1>0
  <2> QED BY <1>0, <2>1 DEF Crash, Start
<1>8. CASE UNCHANGED vars
  BY <1>0, <1>8, WritesWithinReach DEF vars, tables
<1> QED BY <1>1, <1>2, <1>3, <1>4, <1>5, <1>6, <1>7, <1>8 DEF Next, Write

\* No table outgrows its retention by more than the wait for the next prune,
\* one more for each failed statement and the prune's own duration, for all
\* tables, retentions and failures, as long as the process lives (prune, Run).
THEOREM TablesAreBounded == Spec => []TablesBounded
<1>1. Init => WithinReach
  BY DEF Init, WithinReach
<1>2. TypeOK /\ TypeOK' /\ WithinReach /\ [Next]_vars => WithinReach'
  BY ReachStep
<1>3. TypeOK /\ WithinReach => TablesBounded
  <2> SUFFICES ASSUME TypeOK, WithinReach, crashes = 0, NEW r \in rows, TableOf[r.subject] \notin Broken
               PROVE  r.age <= RetentionOf[r.subject] + (faults + 1) * Period + MaxLag
    BY DEF TablesBounded
  <2> DEFINE t == TableOf[r.subject]
  <2>1. r.age \in Nat /\ t \in 1..Len(Tables) /\ r.age <= Reach(t)
    BY ReachTyped DEF WithinReach
  <2>2. faults \in Nat
    BY ConstantTypes DEF TypeOK
  <2>3. (faults + 1) * Period = Delayed + Period
    BY <2>2, Periods DEF Delayed
  <2>4. RetentionOf[r.subject] = Retention[t]
    BY RowFacts, RetentionBounds
  <2>5. Reach(t) <= Retention[t] + Delayed + Period + MaxLag
    <3> HIDE DEF t
    <3>1. pruneLag \in 0..MaxLag
      BY ReachTyped
    <3>2. Retention[t] \in Nat /\ Delayed \in Nat /\ Period \in Nat /\ MaxLag \in Nat
      BY <2>1, ReachOfTable, PeriodTyped
    <3>3. rest \in Nat
      BY ReachTyped
    <3> HIDE DEF Delayed
    <3> QED BY <3>1, <3>2, <3>3 DEF Reach, ReachOf
  <2>6. Reach(t) \in Int /\ Retention[t] \in Nat /\ Delayed \in Nat /\ Period \in Nat /\ MaxLag \in Nat
    BY <2>1, ReachOfTable, PeriodTyped
  <2>7. r.age <= Retention[t] + (Delayed + Period) + MaxLag
    BY <2>1, <2>5, <2>6
  <2> QED BY <2>3, <2>4, <2>7
<1> QED BY <1>1, <1>2, <1>3, TypeCorrect, PTL DEF Spec, Safety
=============================================================================
