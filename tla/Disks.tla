-------------------------------- MODULE Disks --------------------------------
(***************************************************************************)
(* The disks of one PVE collector (internal/collector/pve.go): every       *)
(* DiskPollInterval each node's disks are listed and each disk is queried  *)
(* through a cascade of fallbacks, judged (module Smart) and merged into   *)
(* the cache, while the drives wear out.                                   *)
(*                                                                         *)
(* Nodes are visited one at a time, in any order: their tasks share only   *)
(* the list they append their disks to at the end.                         *)
(***************************************************************************)
EXTENDS Smart, Views, Sequences

CONSTANTS
  Nodes,      \* nodes of the instance
  Drives,     \* physical drives
  NodeOf,     \* [Drives -> Nodes]
  Ident,      \* drive -> WWN, serial or device path
  Nvme,       \* those whose path begins with /dev/nvme; the others are "ata"
  Wears,      \* [Drives -> ids of the attributes that tell the drive's wear]
  Speaks,     \* [Drives -> SUBSET QueryTypes]: queries that yield data
  Rejects,    \* [Drives -> SUBSET {"sat", "scsi"}]: types answered with a 400
  Readings,   \* raw values of the attribute as the drive wears out
  Interval,   \* DiskPollInterval, in polls
  MaxFaults   \* bound: calls that fail, answers that cannot be parsed

QueryTypes == {"auto", "sat", "scsi"}  \* "auto" is "" in the code
Statuses == {"FailedSmart", "WarnScrutiny", "FailedScrutiny", "InternalError"}
Idents == {Ident[d] : d \in Drives}

ASSUME DisksAssumption ==
  /\ NodeOf \in [Drives -> Nodes]
  /\ Nvme \subseteq Drives
  /\ Speaks \in [Drives -> SUBSET QueryTypes]
  /\ Rejects \in [Drives -> SUBSET {"sat", "scsi"}]
  /\ \A d, e \in Drives : NodeOf[d] = NodeOf[e] /\ Ident[d] = Ident[e] => d = e
  /\ Interval \in Nat \ {0} /\ MaxFaults \in Nat

\* What makes NeverBetter true: a drive's raw value never falls.
ASSUME ReadingsAssumption ==
  /\ Readings \in Seq(0..Huge) /\ Readings # <<>>
  /\ \A i \in 1..Len(Readings) - 1 : Readings[i] <= Readings[i + 1]

VARIABLES
  wear,    \* world: [Drives -> DOMAIN Readings]
  age,     \* polls since lastDiskPoll, up to Interval
  polling, \* a poll that disks are due in is running
  todo,    \* nodes it has yet to visit
  node,    \* node being visited, or {}
  queue,   \* its drives that are still to be queried
  ask,     \* <<>>, or <<drive, type>>: the query under way
  health,  \* what the cascade has found of Disk.Health so far
  found,   \* the disks of the node
  list,    \* diskList, by identity
  cache,   \* Cache.Disks
  failing, \* history: drives that failed their own test as the poll began
  faults

visit == <<node, queue, ask, health, found>>
vars == <<wear, age, polling, todo, visit, list, cache, failing, faults>>

Nothing == [i \in {} |-> 0]
\* g over f, as maps.Copy does.
Over(f, g) == [x \in DOMAIN f \cup DOMAIN g |-> IF x \in DOMAIN g THEN g[x] ELSE f[x]]

\* A disk as the cache holds it; `how' is history: how its query ended.
Disks == [drive : Drives, health : {"", "PASSED", "FAILED"}, status : SUBSET Statuses,
          how : {"read", "unread", "garbled", "failed", "silent"}]

IsDiskMap(f) == DOMAIN f \subseteq Idents /\ \A i \in DOMAIN f : f[i] \in Disks

TypeOK ==
  /\ wear \in [Drives -> DOMAIN Readings]
  /\ age \in 0..Interval /\ polling \in BOOLEAN
  /\ todo \subseteq Nodes
  /\ node \subseteq Nodes /\ queue \subseteq Drives
  /\ ask \in {<<>>} \cup (Drives \X QueryTypes)
  /\ health \in {"", "PASSED", "FAILED"}
  /\ IsDiskMap(found) /\ IsDiskMap(list) /\ IsDiskMap(cache)
  /\ failing \subseteq Drives
  /\ faults \in 0..MaxFaults

\* lastDiskPoll is the zero time: disks are due at once.
Init ==
  /\ wear = [d \in Drives |-> 1]
  /\ age = Interval /\ polling = FALSE
  /\ todo = {} /\ node = {} /\ queue = {}
  /\ ask = <<>> /\ health = ""
  /\ found = Nothing /\ list = Nothing /\ cache = Nothing
  /\ failing = {} /\ faults = 0

-----------------------------------------------------------------------------
(* The drives                                                              *)

WearOut(d) ==
  /\ wear[d] < Len(Readings)
  /\ wear' = [wear EXCEPT ![d] = @ + 1]
  /\ UNCHANGED <<failing, age, polling, todo, visit, list, cache, faults>>

\* A drive at its last reading fails its manufacturer's test.
Failing(d) == wear[d] = Len(Readings)
Health(d) == IF Failing(d) THEN "FAILED" ELSE "PASSED"

\* What a query of type t reads of drive d, once parsed.
Attributes(d, t) ==
  IF d \notin Nvme /\ t = "scsi"
  THEN {[id |-> SCSITemperature, value |-> 0, threshold |-> 0, raw |-> 40]}
  ELSE {[id |-> i, raw |-> Readings[wear[d]],
         threshold |-> IF d \in Nvme THEN 0 ELSE 10,
         value |-> IF d \in Nvme THEN 0 ELSE IF Failing(d) THEN 10 ELSE 100] : i \in Wears[d]}

-----------------------------------------------------------------------------
(* Collect, as far as disks go                                             *)

\* Mutant: the comparison with the interval is lost.
WaitForEver ==
  /\ ~polling
  /\ age' = age + 1
  /\ UNCHANGED <<wear, failing, polling, todo, visit, list, cache, faults>>

\* A poll in which disks are not due.
Wait ==
  /\ ~polling /\ age < Interval
  /\ age' = age + 1
  /\ UNCHANGED <<wear, failing, polling, todo, visit, list, cache, faults>>

\* A poll in which they are due begins.
Begin ==
  /\ ~polling /\ age = Interval
  /\ polling' = TRUE
  /\ todo' = Nodes
  /\ failing' = {d \in Drives : Failing(d)}
  /\ UNCHANGED <<wear, age, visit, list, cache, faults>>

Visit(n) ==
  /\ node = {} /\ n \in todo
  /\ node' = {n}
  /\ queue' = {d \in Drives : NodeOf[d] = n}
  /\ found' = Nothing
  /\ UNCHANGED <<wear, failing, age, polling, todo, ask, health, list, cache, faults>>

\* The node's status or its list of disks cannot be had: the poll goes on.
VisitFails(n) ==
  /\ node = {} /\ n \in todo
  /\ faults < MaxFaults /\ faults' = faults + 1
  /\ todo' = todo \ {n}
  /\ UNCHANGED <<wear, failing, age, polling, visit, list, cache>>

AskFor(d) ==
  /\ ask = <<>> /\ d \in queue
  /\ ask' = <<d, "auto">>
  /\ health' = ""
  /\ UNCHANGED <<wear, failing, age, polling, todo, node, queue, found, list, cache, faults>>

\* The cascade is over for the drive asked for.
Judge(h, status, how) ==
  LET d == ask[1] IN
  /\ found' = Over(found, [i \in {Ident[d]} |->
                 [drive |-> d, health |-> h, status |-> status, how |-> how]])
  /\ queue' = queue \ {d}
  /\ ask' = <<>> /\ health' = ""
  /\ UNCHANGED <<wear, failing, age, polling, todo, node, list, cache>>

\* Mutant: every query starts with a fresh disk.
RetryForgets(t, h) ==
  /\ ask' = <<ask[1], t>> /\ health' = ""
  /\ UNCHANGED <<wear, failing, age, polling, todo, node, queue, found, list, cache, faults>>

\* The next query of the cascade.
Retry(t, h) ==
  /\ ask' = <<ask[1], t>> /\ health' = h
  /\ UNCHANGED <<wear, failing, age, polling, todo, node, queue, found, list, cache, faults>>

\* A query fails for good: collectDisks overrides the status, not the health,
\* that earlier ones left; after the first query there is neither.
QueryFails ==
  /\ ask # <<>>
  /\ faults < MaxFaults /\ faults' = faults + 1
  /\ Judge(health, {"InternalError"}, IF ask[2] = "auto" THEN "silent" ELSE "failed")

\* PVE rejects the type parameter: scsi after sat, and nothing after scsi.
QueryRejected ==
  /\ ask # <<>> /\ ask[2] \in Rejects[ask[1]]
  /\ \/ ask[2] = "sat" /\ Retry("scsi", health)
     \/ ask[2] = "scsi" /\ Judge(health, {}, "unread") /\ UNCHANGED faults

\* PVE answers with data.
QueryRead ==
  /\ ask # <<>> /\ ask[2] \in Speaks[ask[1]] \ Rejects[ask[1]]
  /\ Judge(Health(ask[1]), EvaluateDisk(Attributes(ask[1], ask[2])), "read")
  /\ UNCHANGED faults

\* It answers with data that ParseATAAttributes or ParseNVMeText refuses:
\* there are no attributes to judge.
QueryGarbled ==
  /\ ask # <<>> /\ ask[2] \in Speaks[ask[1]] \ Rejects[ask[1]]
  /\ ask[2] # "scsi"
  /\ faults < MaxFaults /\ faults' = faults + 1
  /\ Judge(Health(ask[1]), EvaluateDisk({}), "garbled")

\* Mutant: the cascade goes straight to scsi.
QueryEmptySkipsSat ==
  /\ ask # <<>> /\ ask[2] \notin Speaks[ask[1]] \cup Rejects[ask[1]]
  /\ \/ ask[1] \notin Nvme /\ ask[2] \in {"auto", "sat"} /\ Retry("scsi", Health(ask[1]))
     \/ /\ ask[1] \in Nvme \/ ask[2] = "scsi"
        /\ Judge(Health(ask[1]), EvaluateDisk({}), "unread")
        /\ UNCHANGED faults

\* Mutant: an answer without data is taken as final.
QueryEmptyGivesUp ==
  /\ ask # <<>> /\ ask[2] \notin Speaks[ask[1]] \cup Rejects[ask[1]]
  /\ Judge(Health(ask[1]), EvaluateDisk({}), "unread")
  /\ UNCHANGED faults

\* It answers without: sat after auto, scsi after sat, for ATA drives.
QueryEmpty ==
  /\ ask # <<>> /\ ask[2] \notin Speaks[ask[1]] \cup Rejects[ask[1]]
  /\ \/ ask[1] \notin Nvme /\ ask[2] = "auto" /\ Retry("sat", Health(ask[1]))
     \/ ask[1] \notin Nvme /\ ask[2] = "sat" /\ Retry("scsi", Health(ask[1]))
     \/ /\ ask[1] \in Nvme \/ ask[2] = "scsi"
        /\ Judge(Health(ask[1]), EvaluateDisk({}), "unread")
        /\ UNCHANGED faults

\* The node's task appends its disks.
Leave ==
  /\ node # {} /\ queue = {} /\ ask = <<>>
  /\ list' = Over(list, found)
  /\ todo' = todo \ node /\ node' = {}
  /\ found' = Nothing
  /\ UNCHANGED <<wear, failing, age, polling, queue, ask, health, cache, faults>>

\* Mutant: the disks of the poll replace those of the cache, as guests do.
UpdateDisksReplaces ==
  /\ polling /\ todo = {} /\ node = {}
  /\ cache' = list
  /\ age' = 0 /\ polling' = FALSE /\ list' = Nothing
  /\ failing' = {}
  /\ UNCHANGED <<wear, todo, visit, faults>>

\* All tasks are done: UpdateDisks, and lastDiskPoll, whatever has failed.
UpdateDisks ==
  /\ polling /\ todo = {} /\ node = {}
  /\ cache' = Over(cache, list)
  /\ age' = 0 /\ polling' = FALSE /\ list' = Nothing
  /\ failing' = {}
  /\ UNCHANGED <<wear, todo, visit, faults>>

-----------------------------------------------------------------------------
Query == QueryFails \/ QueryRejected \/ QueryRead \/ QueryGarbled \/ QueryEmpty

Poll ==
  \/ Wait \/ Begin
  \/ \E n \in Nodes : Visit(n) \/ VisitFails(n)
  \/ \E d \in Drives : AskFor(d)
  \/ Query \/ Leave \/ UpdateDisks

Next == Poll \/ \E d \in Drives : WearOut(d)

Spec == Init /\ [][Next]_vars

\* The collector goes on polling; calls end after 30 s at the latest.
FairSpec == Spec /\ WF_vars(Poll)
-----------------------------------------------------------------------------
\* The first query of the cascade that drive d answers with data.
BestQuery(d) ==
  IF "auto" \in Speaks[d] THEN "auto"
  ELSE IF "sat" \in Speaks[d] \ Rejects[d] THEN "sat"
  ELSE "scsi"

Readable(d) ==
  IF d \in Nvme THEN "auto" \in Speaks[d] ELSE Speaks[d] \ Rejects[d] # {}

\* Once calls succeed, every readable drive is shown for what it is, and stays
\* so: by the best of the queries it answers, although a poll that failed
\* counts as one, so that its drives wait a whole interval (Collect's
\* lastDiskPoll, collectSMARTWithType, UpdateDisks).
CacheConverges ==
  <>[](\A d \in Drives : Readable(d) =>
         /\ Ident[d] \in DOMAIN cache
         /\ cache[Ident[d]] = [drive |-> d, health |-> Health(d), how |-> "read",
                              status |-> EvaluateDisk(Attributes(d, BestQuery(d)))])

\* A drive that only wears out never looks better from one reading to the next
\* (EvaluateAttribute, FindBucket, the table, the order of the cascade).
NeverBetter ==
  [][\A i \in DOMAIN cache :
       cache[i].how = "read" /\ cache'[i].how = "read" /\ cache[i].drive = cache'[i].drive
         => Severity(cache[i].status) <= Severity(cache'[i].status)]_vars

\* A disk the cache knows is not lost when a node or its list cannot be had
\* (UpdateDisks).
DisksStay == [][DOMAIN cache \subseteq DOMAIN cache']_vars

\* No failure is kept from the alerter, when its disk rule is set.  A drive
\* that failed its own test as the poll began, and that answered any of the
\* poll's queries, is alerted for as failed, whether the cascade then ended
\* with a reading, with none, with text that cannot be parsed or with an error
\* that overrides the bits; and whatever fault the chip or the widget shows,
\* some alert is sent for.  The converse is not so: the views look at the bits
\* alone, and show a drive that fails its test but has no bad attribute as
\* healthy (collectSMARTWithType keeps Health along the cascade, evaluate;
\* helpers.go 92, handlers.go 457).
NoFaultUnalerted ==
  [][UpdateDisks =>
       \A i \in DOMAIN list :
         LET disk == cache'[i]
             alerts == DiskAlerts(disk.health, disk.status) IN
         /\ disk.drive \in failing /\ disk.how # "silent" => "disk_smart_failed" \in alerts
         /\ DiskStatusClass(disk.status) = "crit" => alerts # {}
         /\ WidgetCategory(disk.status) \in {"Failed", "Warning"} => alerts # {}]_vars

\* A drive that gave no reading, which the views count among the healthy ones,
\* is one that has none to give: no query that would have read it was left
\* out, whatever PVE rejected or answered without data before, and whatever
\* failed elsewhere (the cascade of collectSMARTWithType, collectDisks).
UnreadAreUnreadable ==
  \A i \in DOMAIN cache : cache[i].how = "unread" => ~Readable(cache[i].drive)

\* docs/architecture.md: Glint "applies NVMe-specific thresholds" to NVMe
\* drives.  The failure rates of the ATA attributes are no NVMe thresholds.
AtaRatesForAtaOnly ==
  \A i \in DOMAIN cache :
    cache[i].drive \in Nvme => cache[i].status \cap {"WarnScrutiny", "FailedScrutiny"} = {}
=============================================================================
