----------------------------- MODULE DisksProofs -----------------------------
(***************************************************************************)
(* What the cache shows of a drive never gets better while the drive wears *)
(* out, whatever drives there are, whatever queries they answer, and       *)
(* however polls fail; and no disk the cache knows is lost.                *)
(***************************************************************************)
EXTENDS Disks, SmartProofs

\* The attribute i that a query reads of drive d at wear w.
Reading(d, w, i) ==
  [id |-> i, raw |-> Readings[w],
   threshold |-> IF d \in Nvme THEN 0 ELSE 10,
   value |-> IF d \in Nvme THEN 0 ELSE IF w = Len(Readings) THEN 10 ELSE 100]

\* What the best query of drive d reads at wear w, and how bad that is.
BestReading(d, w) ==
  IF d \notin Nvme /\ BestQuery(d) = "scsi"
  THEN {[id |-> SCSITemperature, value |-> 0, threshold |-> 0, raw |-> 40]}
  ELSE {Reading(d, w, i) : i \in Wears[d]}

Badness(d, w) == Severity(EvaluateDisk(BestReading(d, w)))

\* A query is made only when every better one has given nothing.
Cascade ==
  ask # <<>> =>
    /\ ask[2] \in {"sat", "scsi"} => ask[1] \notin Nvme /\ "auto" \notin Speaks[ask[1]]
    /\ ask[2] = "scsi" => "sat" \notin Speaks[ask[1]] \ Rejects[ask[1]]

\* Nothing in f looks worse than its drive is.
NotWorse(f) ==
  \A i \in DOMAIN f :
    f[i].how = "read" => Severity(f[i].status) <= Badness(f[i].drive, wear[f[i].drive])

\* What a poll has read is no better than what the cache shows.
NotBetter(f) ==
  \A i \in DOMAIN f \cap DOMAIN cache :
    f[i].how = "read" /\ cache[i].how = "read" /\ f[i].drive = cache[i].drive
      => Severity(cache[i].status) <= Severity(f[i].status)

\* Nothing in f is without a reading that its drive would have given.
NoneMissed(f) ==
  \A i \in DOMAIN f : f[i].how = "unread" => ~Readable(f[i].drive)

\* While no node is visited there is nothing of one.
BetweenNodes == node = {} => found = Nothing /\ queue = {} /\ ask = <<>>

IInv ==
  /\ TypeOK
  /\ Cascade
  /\ NotWorse(found) /\ NotWorse(list) /\ NotWorse(cache)
  /\ NotBetter(found) /\ NotBetter(list)
  /\ NoneMissed(found) /\ NoneMissed(list) /\ NoneMissed(cache)
  /\ BetweenNodes

-----------------------------------------------------------------------------
(* Reading and judging                                                     *)

LEMMA StatusTyped == \A a : EvaluateAttribute(a) \subseteq Statuses
<1> SUFFICES ASSUME NEW a PROVE EvaluateAttribute(a) \subseteq Statuses
  OBVIOUS
<1>1. EvaluateRate(a) \subseteq {"FailedScrutiny", "WarnScrutiny"}
  <2>1. \A f, w \in BOOLEAN :
          (IF f THEN {"FailedScrutiny"} ELSE {}) \cup (IF w THEN {"WarnScrutiny"} ELSE {})
             \subseteq {"FailedScrutiny", "WarnScrutiny"}
    OBVIOUS
  <2> QED BY Zenon DEF EvaluateRate
<1> QED BY <1>1 DEF EvaluateAttribute, Statuses

LEMMA DiskStatusTyped == \A as : EvaluateDisk(as) \subseteq Statuses
BY StatusTyped DEF EvaluateDisk

LEMMA SeverityTyped == \A s : Severity(s) \in 0..3
BY DEF Severity

\* What is known of a drive's readings.
LEMMA ReadingsGrow ==
  ASSUME NEW w \in DOMAIN Readings
  PROVE  /\ Len(Readings) \in Nat \ {0} /\ w \in 1..Len(Readings)
         /\ Readings[w] \in 0..Huge
         /\ w < Len(Readings) => /\ w + 1 \in DOMAIN Readings
                               /\ Readings[w] <= Readings[w + 1]
<1> QED BY HugeIsLarge, ReadingsAssumption

LEMMA BadnessTyped == \A d, w : Badness(d, w) \in 0..3 /\ Badness(d, w) <= Badness(d, w)
BY SeverityTyped DEF Badness

LEMMA SeverityReflexive == \A s : Severity(s) <= Severity(s)
BY SeverityTyped

\* Attributes each of which is matched by a worse one are no worse together.
LEMMA SeverityOfAll ==
  ASSUME NEW S, NEW T,
         \A a \in S : \E b \in T :
            Severity(EvaluateAttribute(a)) <= Severity(EvaluateAttribute(b))
  PROVE  Severity(EvaluateDisk(S)) <= Severity(EvaluateDisk(T))
<1>1. \A U, bit : bit \in EvaluateDisk(U) <=> \E a \in U : bit \in EvaluateAttribute(a)
  BY DEF EvaluateDisk
<1>2. CASE "FailedSmart" \in EvaluateDisk(S)
  <2>1. PICK a \in S : "FailedSmart" \in EvaluateAttribute(a)
    BY <1>1, <1>2
  <2>2. PICK b \in T : Severity(EvaluateAttribute(b)) = 3
    <3>1. Severity(EvaluateAttribute(a)) = 3
      BY <2>1 DEF Severity
    <3> QED BY <3>1, SeverityTyped
  <2>3. "FailedSmart" \in EvaluateDisk(T)
    <3>1. "FailedSmart" \in EvaluateAttribute(b)
      BY <2>2 DEF Severity
    <3> QED BY <3>1, <1>1
  <2> QED BY <2>3, SeverityTyped DEF Severity
<1>3. CASE "FailedSmart" \notin EvaluateDisk(S) /\ "FailedScrutiny" \in EvaluateDisk(S)
  <2>1. PICK a \in S : "FailedScrutiny" \in EvaluateAttribute(a)
    BY <1>1, <1>3
  <2>2. PICK b \in T : Severity(EvaluateAttribute(b)) >= 2
    <3>1. Severity(EvaluateAttribute(a)) >= 2
      BY <2>1 DEF Severity
    <3> QED BY <3>1, SeverityTyped
  <2>3. EvaluateDisk(T) \cap {"FailedSmart", "FailedScrutiny"} # {}
    <3>1. EvaluateAttribute(b) \cap {"FailedSmart", "FailedScrutiny"} # {}
      BY <2>2 DEF Severity
    <3> QED BY <3>1, <1>1
  <2> QED BY <1>3, <2>3 DEF Severity
<1>4. CASE EvaluateDisk(S) \cap {"FailedSmart", "FailedScrutiny"} = {} /\ "WarnScrutiny" \in EvaluateDisk(S)
  <2>1. PICK a \in S : "WarnScrutiny" \in EvaluateAttribute(a)
    BY <1>1, <1>4
  <2>2. PICK b \in T : Severity(EvaluateAttribute(b)) >= 1
    <3>1. Severity(EvaluateAttribute(a)) >= 1
      BY <2>1 DEF Severity
    <3> QED BY <3>1, SeverityTyped
  <2>3. EvaluateDisk(T) \cap {"FailedSmart", "FailedScrutiny", "WarnScrutiny"} # {}
    <3>1. EvaluateAttribute(b) \cap {"FailedSmart", "FailedScrutiny", "WarnScrutiny"} # {}
      BY <2>2 DEF Severity
    <3> QED BY <3>1, <1>1
  <2> QED BY <1>4, <2>3 DEF Severity
<1>5. CASE EvaluateDisk(S) \cap {"FailedSmart", "FailedScrutiny", "WarnScrutiny"} = {}
  <2>1. Severity(EvaluateDisk(S)) = 0
    BY <1>5 DEF Severity
  <2> QED BY <2>1, SeverityTyped
<1> QED BY <1>2, <1>3, <1>4, <1>5

\* One step of wear makes no attribute look better.
LEMMA ReadingWorsens ==
  ASSUME NEW d \in Drives, NEW w \in DOMAIN Readings, w + 1 \in DOMAIN Readings, NEW i
  PROVE  Severity(EvaluateAttribute(Reading(d, w, i)))
           <= Severity(EvaluateAttribute(Reading(d, w + 1, i)))
<1> DEFINE a == Reading(d, w, i)  b == Reading(d, w + 1, i)
<1>0. w # Len(Readings) /\ Readings[w] \in 0..Huge /\ Readings[w + 1] \in 0..Huge
        /\ Readings[w] <= Readings[w + 1]
  BY ReadingsGrow
<1>1. a.id = b.id /\ a.raw = Readings[w] /\ b.raw = Readings[w + 1]
  BY DEF Reading
<1>2. Severity(EvaluateRate(a)) <= Severity(EvaluateRate(b))
  <2>1. a.raw \in 0..Huge /\ b.raw \in 0..Huge /\ a.raw <= b.raw
    BY <1>0, <1>1
  <2> QED BY <1>1, <2>1, RateGrows
<1>3. EvaluateAttribute(a) = EvaluateRate(a)
  <2>1. a.threshold = 0 \/ (a.threshold = 10 /\ a.value = 100)
    BY <1>0 DEF Reading
  <2> QED BY <2>1, SMT DEF EvaluateAttribute
<1>4. EvaluateAttribute(b) \in {{"FailedSmart"}, EvaluateRate(b)}
  BY Zenon DEF EvaluateAttribute
<1>5. Severity({"FailedSmart"}) = 3
  BY DEF Severity
<1> HIDE DEF a, b
<1> QED BY <1>2, <1>3, <1>4, <1>5, SeverityTyped DEF a, b

\* Nor any drive.
LEMMA BadnessGrows ==
  ASSUME NEW d \in Drives, NEW w \in DOMAIN Readings, w + 1 \in DOMAIN Readings
  PROVE  Badness(d, w) <= Badness(d, w + 1)
<1>1. CASE d \notin Nvme /\ BestQuery(d) = "scsi"
  BY <1>1, SeverityTyped DEF Badness, BestReading
<1>2. CASE ~(d \notin Nvme /\ BestQuery(d) = "scsi")
  <2>1. BestReading(d, w) = {Reading(d, w, i) : i \in Wears[d]}
        /\ BestReading(d, w + 1) = {Reading(d, w + 1, i) : i \in Wears[d]}
    BY <1>2 DEF BestReading
  <2>2. \A a \in BestReading(d, w) : \E b \in BestReading(d, w + 1) :
           Severity(EvaluateAttribute(a)) <= Severity(EvaluateAttribute(b))
    BY <2>1, ReadingWorsens
  <2> QED BY <2>2, SeverityOfAll DEF Badness
<1> QED BY <1>1, <1>2

-----------------------------------------------------------------------------
(* Maps of disks                                                           *)

\* An entry of Over comes from one of the two maps.
LEMMA OverIs ==
  ASSUME NEW f, NEW g
  PROVE  /\ DOMAIN Over(f, g) = DOMAIN f \cup DOMAIN g
         /\ \A i \in DOMAIN Over(f, g) :
              (Over(f, g)[i] = f[i] /\ i \in DOMAIN f) \/ (Over(f, g)[i] = g[i] /\ i \in DOMAIN g)
BY DEF Over

LEMMA OverTyped ==
  ASSUME NEW f, NEW g, IsDiskMap(f), IsDiskMap(g)
  PROVE  IsDiskMap(Over(f, g))
<1> DEFINE h == Over(f, g)
<1>1. DOMAIN h = DOMAIN f \cup DOMAIN g
  BY OverIs
<1>2. \A i \in DOMAIN h : (h[i] = f[i] /\ i \in DOMAIN f) \/ (h[i] = g[i] /\ i \in DOMAIN g)
  BY OverIs
<1> HIDE DEF h
<1> QED BY <1>1, <1>2 DEF IsDiskMap, h

LEMMA NothingTyped == IsDiskMap(Nothing) /\ DOMAIN Nothing = {}
BY DEF IsDiskMap, Nothing

\* Over keeps what holds of each entry of both maps.
LEMMA OverNotWorse ==
  ASSUME NEW f, NEW g, NotWorse(f), NotWorse(g)
  PROVE  NotWorse(Over(f, g))
<1> DEFINE h == Over(f, g)
<1>1. \A i \in DOMAIN h : (h[i] = f[i] /\ i \in DOMAIN f) \/ (h[i] = g[i] /\ i \in DOMAIN g)
  BY OverIs
<1> HIDE DEF h
<1>2. NotWorse(h)
  BY <1>1 DEF NotWorse
<1> QED BY <1>2 DEF h

LEMMA OverNotBetter ==
  ASSUME NEW f, NEW g, NotBetter(f), NotBetter(g)
  PROVE  NotBetter(Over(f, g))
<1> DEFINE h == Over(f, g)
<1>1. \A i \in DOMAIN h : (h[i] = f[i] /\ i \in DOMAIN f) \/ (h[i] = g[i] /\ i \in DOMAIN g)
  BY OverIs
<1> HIDE DEF h
<1>2. NotBetter(h)
  BY <1>1 DEF NotBetter
<1> QED BY <1>2 DEF h

LEMMA OverNoneMissed ==
  ASSUME NEW f, NEW g, NoneMissed(f), NoneMissed(g)
  PROVE  NoneMissed(Over(f, g))
<1> DEFINE h == Over(f, g)
<1>1. \A i \in DOMAIN h : (h[i] = f[i] /\ i \in DOMAIN f) \/ (h[i] = g[i] /\ i \in DOMAIN g)
  BY OverIs
<1> HIDE DEF h
<1>2. NoneMissed(h)
  BY <1>1 DEF NoneMissed
<1> QED BY <1>2 DEF h

-----------------------------------------------------------------------------
(* The steps                                                               *)

\* The invariant holds before the first poll.
LEMMA InitInv == Init => IInv
<1> SUFFICES ASSUME Init PROVE IInv
  OBVIOUS
<1>1. 1 \in DOMAIN Readings
  BY ReadingsAssumption
<1>2. TypeOK
  <2>1. wear \in [Drives -> DOMAIN Readings]
    BY <1>1 DEF Init
  <2>2. age \in 0..Interval /\ faults \in 0..MaxFaults
    <3>1. Interval \in Nat \ {0} /\ MaxFaults \in Nat
      BY DisksAssumption
    <3>2. age = Interval /\ faults = 0
      BY DEF Init
    <3> QED BY <3>1, <3>2
  <2> QED BY <2>1, <2>2, NothingTyped DEF Init, TypeOK
<1>3. NotWorse(Nothing) /\ NotBetter(Nothing) /\ NoneMissed(Nothing)
  BY NothingTyped DEF NotWorse, NotBetter, NoneMissed
<1> QED BY <1>2, <1>3 DEF Init, IInv, Cascade, BetweenNodes

\* A step that touches neither drives nor disks.
LEMMA Quiet ==
  ASSUME IInv, UNCHANGED <<wear, found, list, cache>>
  PROVE  /\ NotWorse(found)' /\ NotWorse(list)' /\ NotWorse(cache)'
         /\ NotBetter(found)' /\ NotBetter(list)'
        /\ NoneMissed(found)' /\ NoneMissed(list)' /\ NoneMissed(cache)'
BY DEF IInv, NotWorse, NotBetter, NoneMissed

\* Wear only makes drives worse than what was read of them.
LEMMA WearOutInv ==
  ASSUME IInv, NEW d \in Drives, WearOut(d)
  PROVE  IInv'
<1>1. wear[d] + 1 \in DOMAIN Readings /\ wear \in [Drives -> DOMAIN Readings]
  BY ReadingsGrow DEF IInv, TypeOK, WearOut
<1>2. TypeOK'
  BY <1>1 DEF IInv, TypeOK, WearOut, visit
<1>3. \A e \in Drives : Badness(e, wear[e]) <= Badness(e, wear'[e])
  <2> SUFFICES ASSUME NEW e \in Drives PROVE Badness(e, wear[e]) <= Badness(e, wear'[e])
    OBVIOUS
  <2>1. CASE e = d
    BY <1>1, <2>1, BadnessGrows DEF WearOut
  <2>2. CASE e # d
    <3>1. wear'[e] = wear[e] /\ Badness(e, wear[e]) \in 0..3
      BY <1>1, <2>2, SeverityTyped DEF WearOut, Badness
    <3> QED BY <3>1
  <2> QED BY <2>1, <2>2
<1>4. ASSUME NEW f, IsDiskMap(f), NotWorse(f)
      PROVE  \A i \in DOMAIN f : f[i].how = "read"
               => Severity(f[i].status) <= Badness(f[i].drive, wear'[f[i].drive])
  <2> SUFFICES ASSUME NEW i \in DOMAIN f, f[i].how = "read"
               PROVE  Severity(f[i].status) <= Badness(f[i].drive, wear'[f[i].drive])
    OBVIOUS
  <2> DEFINE e == f[i].drive
  <2>1. e \in Drives
    BY <1>4 DEF IsDiskMap, Disks
  <2>2. Severity(f[i].status) <= Badness(e, wear[e])
    BY <1>4 DEF NotWorse
  <2>3. Badness(e, wear[e]) \in 0..3 /\ Badness(e, wear'[e]) \in 0..3
          /\ Severity(f[i].status) \in 0..3
    BY SeverityTyped DEF Badness
  <2> QED BY <2>1, <2>2, <2>3, <1>3
<1>5. UNCHANGED <<found, list, cache, ask, node, queue>>
  BY DEF WearOut, visit
<1>6. NotWorse(found)' /\ NotWorse(list)' /\ NotWorse(cache)'
  BY <1>4, <1>5 DEF IInv, TypeOK, NotWorse
<1>7. NotBetter(found)' /\ NotBetter(list)' /\ Cascade' /\ BetweenNodes'
  BY <1>5 DEF IInv, NotBetter, Cascade, BetweenNodes
<1>8. NoneMissed(found)' /\ NoneMissed(list)' /\ NoneMissed(cache)'
  BY <1>5 DEF IInv, NoneMissed
<1> QED BY <1>2, <1>6, <1>7, <1>8 DEF IInv

\* The result of a cascade is filed: it is no worse than the drive is, and a
\* reading made now is no better than any made before.
LEMMA JudgeInv ==
  ASSUME IInv, ask # <<>>,
         NEW h \in {"", "PASSED", "FAILED"}, NEW status \in SUBSET Statuses,
         NEW how \in {"read", "unread", "garbled", "failed", "silent"},
         how = "read" => Severity(status) = Badness(ask[1], wear[ask[1]]),
         how = "unread" => ~Readable(ask[1]),
         Judge(h, status, how), faults' \in 0..MaxFaults, node # {}
  PROVE  IInv'
<1> DEFINE d == ask[1]
           e == [drive |-> d, health |-> h, status |-> status, how |-> how]
           g == [i \in {Ident[d]} |-> e]
<1>1. d \in Drives /\ Ident[d] \in Idents
  BY DEF IInv, TypeOK, Idents
<1>2. e \in Disks
  BY <1>1 DEF Disks
<1>3. IsDiskMap(g)
  BY <1>1, <1>2 DEF IsDiskMap
<1>4. found' = Over(found, g)
  BY DEF Judge
<1>5. TypeOK'
  <2>1. IsDiskMap(found')
    BY <1>3, <1>4, OverTyped DEF IInv, TypeOK
  <2> QED BY <2>1 DEF IInv, TypeOK, Judge
<1>6. NotWorse(g)
  <2>1. how = "read" => Severity(status) <= Badness(d, wear[d])
    <3>1. Badness(d, wear[d]) <= Badness(d, wear[d])
      BY BadnessTyped
    <3> QED BY <3>1
  <2> QED BY <2>1 DEF NotWorse
<1>7. NotBetter(g)
  <2> SUFFICES ASSUME Ident[d] \in DOMAIN cache, how = "read",
                      cache[Ident[d]].how = "read", cache[Ident[d]].drive = d
               PROVE  Severity(cache[Ident[d]].status) <= Severity(status)
    BY DEF NotBetter
  <2> QED BY DEF IInv, NotWorse
<1>8. NotWorse(found') /\ NotBetter(found') /\ NoneMissed(found')
  <2>1. NoneMissed(g)
    BY DEF NoneMissed
  <2> QED BY <1>4, <1>6, <1>7, <2>1, OverNotWorse, OverNotBetter, OverNoneMissed DEF IInv
<1> HIDE DEF g, e
<1>9. NotWorse(found)' /\ NotWorse(list)' /\ NotWorse(cache)' /\ NotBetter(found)' /\ NotBetter(list)'
  BY <1>8 DEF IInv, NotWorse, NotBetter, Judge
<1>10. NoneMissed(found)' /\ NoneMissed(list)' /\ NoneMissed(cache)'
  BY <1>8 DEF IInv, NoneMissed, Judge
<1>11. Cascade' /\ BetweenNodes'
  BY DEF Cascade, BetweenNodes, Judge
<1> QED BY <1>5, <1>9, <1>10, <1>11 DEF IInv

\* What a query reads is what the drive's best query reads.
LEMMA ReadIsBest ==
  ASSUME IInv, ask # <<>>, ask[2] \in Speaks[ask[1]] \ Rejects[ask[1]]
  PROVE  Severity(EvaluateDisk(Attributes(ask[1], ask[2]))) = Badness(ask[1], wear[ask[1]])
<1> DEFINE d == ask[1]  t == ask[2]
<1>1. d \in Drives /\ t \in QueryTypes
  BY DEF IInv, TypeOK
<1>2. d \in Nvme \/ t = BestQuery(d)
  <2>1. CASE t = "auto"
    BY <2>1 DEF BestQuery
  <2>2. CASE t = "sat"
    BY <2>2 DEF BestQuery, IInv, Cascade
  <2>3. CASE t = "scsi"
    BY <2>3 DEF BestQuery, IInv, Cascade
  <2> QED BY <1>1, <2>1, <2>2, <2>3 DEF QueryTypes
<1>3. Attributes(d, t) = BestReading(d, wear[d])
  BY <1>2 DEF Attributes, BestReading, Reading, Failing
<1> QED BY <1>3 DEF Badness

\* The cascade ends without a reading only for drives that have none.
LEMMA EndsUnread ==
  ASSUME IInv, ask # <<>>, ask[2] \notin Speaks[ask[1]] \ Rejects[ask[1]],
         ask[1] \in Nvme \/ ask[2] = "scsi"
  PROVE  ~Readable(ask[1])
<1>1. /\ ask[1] \in Drives /\ ask[2] \in QueryTypes
      /\ ask[2] \in {"sat", "scsi"} => ask[1] \notin Nvme /\ "auto" \notin Speaks[ask[1]]
      /\ ask[2] = "scsi" => "sat" \notin Speaks[ask[1]] \ Rejects[ask[1]]
  BY DEF IInv, TypeOK, Cascade
<1>2. Speaks[ask[1]] \subseteq QueryTypes /\ "auto" \notin Rejects[ask[1]]
  BY <1>1, DisksAssumption
<1>3. CASE ask[1] \in Nvme
  BY <1>1, <1>2, <1>3 DEF Readable, QueryTypes
<1>4. CASE ask[1] \notin Nvme
  BY <1>1, <1>2, <1>4 DEF Readable, QueryTypes
<1> QED BY <1>3, <1>4

\* The steps of the cascade.
LEMMA QueryInv ==
  ASSUME IInv, Query
  PROVE  IInv'
<1>0. ask # <<>> /\ ask[1] \in Drives /\ ask[2] \in QueryTypes /\ node # {}
  BY DEF IInv, BetweenNodes, TypeOK, Query, QueryFails, QueryRejected, QueryRead, QueryGarbled, QueryEmpty
<1>1. faults' \in 0..MaxFaults
  <2>1. faults' = faults \/ (faults < MaxFaults /\ faults' = faults + 1)
    BY DEF Query, QueryFails, QueryRejected, QueryRead, QueryGarbled, QueryEmpty, Retry
  <2>2. MaxFaults \in Nat
    BY DisksAssumption
  <2>3. faults \in 0..MaxFaults
    BY DEF IInv, TypeOK
  <2> QED BY <2>1, <2>2, <2>3
<1>2. ASSUME NEW t \in {"sat", "scsi"}, NEW h \in {"", "PASSED", "FAILED"}, Retry(t, h),
             ask[1] \notin Nvme, "auto" \notin Speaks[ask[1]],
             t = "scsi" => "sat" \notin Speaks[ask[1]] \ Rejects[ask[1]]
      PROVE  IInv'
  <2>1. TypeOK'
    BY <1>0, <1>2 DEF IInv, TypeOK, Retry, QueryTypes
  <2>2. Cascade' /\ BetweenNodes'
    BY <1>0, <1>2 DEF IInv, Cascade, BetweenNodes, Retry
  <2> QED BY <2>1, <2>2, <1>2, Quiet DEF IInv, Retry
<1>3. Health(ask[1]) \in {"PASSED", "FAILED"} /\ health \in {"", "PASSED", "FAILED"}
  BY DEF Health, IInv, TypeOK
<1>4. {"InternalError"} \in SUBSET Statuses /\ {} \in SUBSET Statuses
  BY DEF Statuses
<1>5. \A as : EvaluateDisk(as) \in SUBSET Statuses
  BY DiskStatusTyped
<1>6. CASE QueryFails
  BY <1>0, <1>1, <1>3, <1>4, <1>6, JudgeInv DEF QueryFails
<1>7. CASE QueryRejected
  <2>1. CASE ask[2] = "sat" /\ Retry("scsi", health)
    BY <1>0, <1>2, <1>3, <1>7, <2>1 DEF QueryRejected, IInv, Cascade
  <2>2. CASE Judge(health, {}, "unread")
    <3>1. ~Readable(ask[1])
      <4>1. ask[2] = "scsi" \/ Retry("scsi", health)
        BY <1>7 DEF QueryRejected
      <4>2. ask' = <<>>
        BY <2>2 DEF Judge
      <4>3. ask[2] = "scsi"
        BY <4>1, <4>2 DEF Retry
      <4> QED BY <1>0, <1>7, <4>3, EndsUnread DEF QueryRejected
    <3> QED BY <1>0, <1>1, <1>3, <1>4, <2>2, <3>1, JudgeInv
  <2> QED BY <1>7, <2>1, <2>2 DEF QueryRejected
<1>8. CASE QueryRead
  BY <1>0, <1>1, <1>3, <1>5, <1>8, ReadIsBest, JudgeInv DEF QueryRead
<1>9. CASE QueryGarbled
  BY <1>0, <1>1, <1>3, <1>5, <1>9, JudgeInv DEF QueryGarbled
<1>10. CASE QueryEmpty
  <2>1. CASE ask[1] \notin Nvme /\ ask[2] = "auto" /\ Retry("sat", Health(ask[1]))
    <3>1. "auto" \notin Speaks[ask[1]]
      <4>1. "auto" \notin Rejects[ask[1]]
        BY <1>0, DisksAssumption
      <4> QED BY <1>10, <2>1 DEF QueryEmpty
    <3> QED BY <1>2, <1>3, <2>1, <3>1
  <2>2. CASE ask[1] \notin Nvme /\ ask[2] = "sat" /\ Retry("scsi", Health(ask[1]))
    <3>1. "auto" \notin Speaks[ask[1]] /\ "sat" \notin Speaks[ask[1]] \ Rejects[ask[1]]
      BY <1>0, <1>10, <2>2 DEF QueryEmpty, IInv, Cascade
    <3> QED BY <1>2, <1>3, <2>2, <3>1
  <2>3. CASE (ask[1] \in Nvme \/ ask[2] = "scsi") /\ Judge(Health(ask[1]), EvaluateDisk({}), "unread")
    <3>1. ~Readable(ask[1])
      BY <1>0, <1>10, <2>3, EndsUnread DEF QueryEmpty
    <3> QED BY <1>0, <1>1, <1>3, <1>5, <2>3, <3>1, JudgeInv
  <2> QED BY <1>10, <2>1, <2>2, <2>3 DEF QueryEmpty
<1> QED BY <1>6, <1>7, <1>8, <1>9, <1>10 DEF Query

\* The steps of a poll other than its queries.
LEMMA PollInv ==
  ASSUME IInv, Poll
  PROVE  IInv'
<1>0. NotWorse(Nothing) /\ NotBetter(Nothing) /\ NoneMissed(Nothing) /\ IsDiskMap(Nothing)
  BY NothingTyped DEF NotWorse, NotBetter, NoneMissed
<1>n. Interval \in Nat \ {0} /\ MaxFaults \in Nat
  BY DisksAssumption
<1>t. age \in 0..Interval /\ faults \in 0..MaxFaults /\ TypeOK
  BY DEF IInv, TypeOK
<1>1. CASE Wait
  <2>1. age' \in 0..Interval
    <3>1. age' = age + 1 /\ age < Interval
      BY <1>1 DEF Wait
    <3> QED BY <3>1, <1>n, <1>t
  <2>2. TypeOK' /\ Cascade' /\ BetweenNodes'
    BY <1>1, <2>1 DEF IInv, TypeOK, Cascade, BetweenNodes, Wait, visit
  <2> QED BY <1>1, <2>2, Quiet DEF IInv, Wait, visit
<1>2. CASE Begin
  <2>1. TypeOK' /\ Cascade' /\ BetweenNodes'
    BY <1>2 DEF IInv, TypeOK, Cascade, BetweenNodes, Begin, visit
  <2> QED BY <1>2, <2>1, Quiet DEF IInv, Begin, visit
<1>3. ASSUME NEW n \in Nodes, Visit(n) PROVE IInv'
  <2>1. TypeOK' /\ Cascade' /\ BetweenNodes'
    BY <1>0, <1>3 DEF IInv, TypeOK, Cascade, BetweenNodes, Visit
  <2>2. found = Nothing /\ found' = Nothing
    BY <1>3 DEF IInv, BetweenNodes, Visit
  <2> QED BY <1>3, <2>1, <2>2, Quiet DEF IInv, Visit
<1>4. ASSUME NEW n \in Nodes, VisitFails(n) PROVE IInv'
  <2>1. faults' \in 0..MaxFaults
    <3>1. faults' = faults + 1 /\ faults < MaxFaults
      BY <1>4 DEF VisitFails
    <3> QED BY <3>1, <1>n, <1>t
  <2>2. TypeOK' /\ Cascade' /\ BetweenNodes'
    BY <1>4, <2>1 DEF IInv, TypeOK, Cascade, BetweenNodes, VisitFails, visit
  <2> QED BY <1>4, <2>2, Quiet DEF IInv, VisitFails, visit
<1>5. ASSUME NEW d \in Drives, AskFor(d) PROVE IInv'
  <2>1. TypeOK' /\ Cascade' /\ BetweenNodes'
    BY <1>5 DEF IInv, TypeOK, Cascade, BetweenNodes, AskFor, QueryTypes
  <2> QED BY <1>5, <2>1, Quiet DEF IInv, AskFor
<1>6. CASE Leave
  <2>1. list' = Over(list, found) /\ found' = Nothing /\ UNCHANGED <<wear, cache>>
    BY <1>6 DEF Leave
  <2>2. IsDiskMap(list') /\ NotWorse(list') /\ NotBetter(list')
    BY <2>1, OverTyped, OverNotWorse, OverNotBetter DEF IInv, TypeOK
  <2>3. TypeOK' /\ Cascade' /\ BetweenNodes'
    BY <1>0, <1>6, <2>2 DEF IInv, TypeOK, Cascade, BetweenNodes, Leave
  <2>4. NotWorse(list)' /\ NotBetter(list)' /\ NotWorse(cache)' /\ NotWorse(found)' /\ NotBetter(found)'
    BY <1>0, <2>1, <2>2 DEF IInv, NotWorse, NotBetter
  <2>5. NoneMissed(list)' /\ NoneMissed(cache)' /\ NoneMissed(found)'
    <3>1. NoneMissed(list') /\ NoneMissed(found')
      BY <1>0, <2>1, OverNoneMissed DEF IInv
    <3> QED BY <2>1, <3>1 DEF IInv, NoneMissed
  <2> QED BY <2>3, <2>4, <2>5 DEF IInv
<1>7. CASE UpdateDisks
  <2>1. cache' = Over(cache, list) /\ list' = Nothing /\ found = Nothing /\ found' = Nothing /\ wear' = wear
    BY <1>7 DEF UpdateDisks, visit, IInv, BetweenNodes
  <2>2. IsDiskMap(cache') /\ NotWorse(cache')
    BY <2>1, OverTyped, OverNotWorse DEF IInv, TypeOK
  <2>3. age' \in 0..Interval
    BY <1>7, <1>n DEF UpdateDisks
  <2>4. TypeOK' /\ Cascade' /\ BetweenNodes'
    BY <1>0, <1>7, <2>2, <2>3 DEF IInv, TypeOK, Cascade, BetweenNodes, UpdateDisks, visit
  <2>5. NotWorse(cache)'
    BY <2>1, <2>2 DEF NotWorse
  <2>6. NotWorse(list)' /\ NotWorse(found)' /\ NotBetter(list)' /\ NotBetter(found)'
    BY <2>1, NothingTyped DEF NotWorse, NotBetter
  <2>7. NoneMissed(list)' /\ NoneMissed(found)' /\ NoneMissed(cache)'
    <3>1. NoneMissed(cache')
      BY <2>1, OverNoneMissed DEF IInv
    <3> QED BY <1>0, <2>1, <3>1 DEF IInv, NoneMissed
  <2> QED BY <2>4, <2>5, <2>6, <2>7 DEF IInv
<1>8. CASE Query
  BY <1>8, QueryInv
<1> QED BY <1>1, <1>2, <1>3, <1>4, <1>5, <1>6, <1>7, <1>8 DEF Poll

\* Every step keeps the invariant.
LEMMA StepInv == IInv /\ [Next]_vars => IInv'
<1> SUFFICES ASSUME IInv, [Next]_vars PROVE IInv'
  OBVIOUS
<1>1. CASE Next
  BY <1>1, PollInv, WearOutInv DEF Next
<1>2. CASE UNCHANGED vars
  <2>1. TypeOK' /\ Cascade' /\ BetweenNodes'
    BY <1>2 DEF IInv, TypeOK, Cascade, BetweenNodes, vars, visit
  <2> QED BY <1>2, <2>1, Quiet DEF IInv, vars, visit
<1> QED BY <1>1, <1>2

LEMMA Inv == Spec => []IInv
BY InitInv, StepInv, PTL DEF Spec

\* The variables of the disk poll keep their types, for all drives, nodes,
\* queries answered and faults (collectDisks, collectSMARTWithType).
THEOREM TypeCorrect == Spec => []TypeOK
<1>1. IInv => TypeOK
  BY DEF IInv
<1> QED BY <1>1, Inv, PTL

\* A drive goes without a reading only if it answers no query of the cascade,
\* for all drives and all that PVE may reject (collectSMARTWithType).
THEOREM NoReadingMissed == Spec => []UnreadAreUnreadable
<1>1. IInv => UnreadAreUnreadable
  BY DEF IInv, NoneMissed, UnreadAreUnreadable
<1> QED BY <1>1, Inv, PTL

\* Only UpdateDisks touches the cache.
LEMMA CacheSteps ==
  ASSUME [Next]_vars
  PROVE  cache' = cache \/ cache' = Over(cache, list)
BY DEF Next, Poll, Wait, Begin, Visit, VisitFails, AskFor, Query, QueryFails, QueryRejected,
       QueryRead, QueryGarbled, QueryEmpty, Judge, Retry, Leave, UpdateDisks, WearOut, vars

\* From one reading to the next no drive is shown in a better state, whatever
\* the cascade went through in between (collectSMARTWithType, EvaluateAttribute,
\* FindBucket, UpdateDisks).
THEOREM NeverShownBetter == Spec => NeverBetter
<1> DEFINE Step ==
      \A i \in DOMAIN cache :
        cache[i].how = "read" /\ cache'[i].how = "read" /\ cache[i].drive = cache'[i].drive
          => Severity(cache[i].status) <= Severity(cache'[i].status)
<1>1. ASSUME IInv, [Next]_vars PROVE Step
  <2> SUFFICES ASSUME NEW i \in DOMAIN cache, cache[i].how = "read", cache'[i].how = "read",
                      cache[i].drive = cache'[i].drive
               PROVE  Severity(cache[i].status) <= Severity(cache'[i].status)
    OBVIOUS
  <2>1. CASE cache'[i] = cache[i]
    BY <2>1, SeverityReflexive
  <2>2. CASE cache'[i] = list[i] /\ i \in DOMAIN list
    <3>1. list[i].how = "read" /\ list[i].drive = cache[i].drive
      BY <2>2
    <3>2. Severity(cache[i].status) <= Severity(list[i].status)
      BY <1>1, <2>2, <3>1 DEF IInv, NotBetter
    <3> QED BY <2>2, <3>2
  <2>3. cache'[i] = cache[i] \/ (cache'[i] = list[i] /\ i \in DOMAIN list)
    <3>1. CASE cache' = Over(cache, list)
      BY <3>1 DEF Over
    <3>2. cache' = cache \/ cache' = Over(cache, list)
      BY <1>1, CacheSteps
    <3>3. CASE cache' = cache
      BY <3>3
    <3> QED BY <3>1, <3>2, <3>3
  <2> QED BY <2>1, <2>2, <2>3
<1>2. IInv /\ [Next]_vars => [Step]_vars
  BY <1>1
<1>3. Spec => [][Step]_vars
  BY <1>2, Inv, PTL DEF Spec
<1> QED BY <1>3 DEF NeverBetter

\* No disk the cache knows is lost, whatever fails during a poll (UpdateDisks).
THEOREM NothingLost == Spec => DisksStay
<1>1. [Next]_vars => [DOMAIN cache \subseteq DOMAIN cache']_vars
  <2> SUFFICES ASSUME [Next]_vars PROVE DOMAIN cache \subseteq DOMAIN cache'
    OBVIOUS
  <2>1. CASE cache' = Over(cache, list)
    BY <2>1 DEF Over
  <2>2. cache' = cache \/ cache' = Over(cache, list)
    BY CacheSteps
  <2>3. CASE cache' = cache
    BY <2>3
  <2> QED BY <2>1, <2>2, <2>3
<1>2. Spec => [][DOMAIN cache \subseteq DOMAIN cache']_vars
  BY <1>1, PTL DEF Spec
<1> QED BY <1>2 DEF DisksStay
-----------------------------------------------------------------------------
(* No fault is kept from the alerter.                                      *)

\* An answer of a failing drive has left its health on the disk.
Told(f) ==
  \A i \in DOMAIN f : f[i].drive \in failing /\ f[i].how # "silent" => f[i].health = "FAILED"

\* What the running poll has heard of the drives that were failing when it
\* began, which they still are; between polls there is nothing of one.
Heard ==
  /\ failing \subseteq Drives /\ \A d \in failing : Failing(d)
  /\ ask # <<>> /\ ask[1] \in failing /\ ask[2] # "auto" => health = "FAILED"
  /\ Told(found) /\ Told(list)
  /\ ~polling => todo = {} /\ node = {} /\ list = Nothing

\* A drive fails its test for good: its wear never falls.
LEMMA StillFailing ==
  ASSUME TypeOK, Heard, UNCHANGED failing,
         UNCHANGED wear \/ \E d \in Drives : WearOut(d)
  PROVE  \A e \in failing' : Failing(e)'
<1>1. CASE UNCHANGED wear
  BY <1>1 DEF Heard, Failing
<1>2. ASSUME NEW d \in Drives, WearOut(d) PROVE \A e \in failing' : Failing(e)'
  <2>1. d \notin failing
    <3>1. wear[d] < Len(Readings) /\ wear[d] \in 1..Len(Readings)
      BY <1>2, ReadingsGrow DEF WearOut, TypeOK
    <3>2. ~Failing(d)
      BY <3>1, ReadingsAssumption DEF Failing
    <3> QED BY <3>2 DEF Heard
  <2> QED BY <1>2, <2>1 DEF WearOut, Heard, Failing, TypeOK
<1> QED BY <1>1, <1>2

\* Steps that leave the poll's findings alone.
LEMMA HeardQuiet ==
  ASSUME TypeOK, Heard, UNCHANGED <<failing, ask, health, found, list>>,
         UNCHANGED wear \/ \E d \in Drives : WearOut(d),
         ~polling' => todo' = {} /\ node' = {} /\ list' = Nothing
  PROVE  Heard'
<1>1. \A e \in failing' : Failing(e)'
  BY StillFailing
<1> QED BY <1>1 DEF Heard, Told

LEMMA HeardQuery ==
  ASSUME IInv, Heard, Query
  PROVE  Heard'
<1>1. ask # <<>> /\ UNCHANGED <<wear, failing, list, polling, todo, node>>
  BY DEF Query, QueryFails, QueryRejected, QueryRead, QueryGarbled, QueryEmpty, Judge, Retry
<1>2. \A e \in failing' : Failing(e)'
  BY <1>1, StillFailing DEF IInv
<1>3. Told(list)' /\ Told(found)
  BY <1>1 DEF Heard, Told
<1>4. ask[1] \in failing => Health(ask[1]) = "FAILED"
  BY DEF Heard, Health
<1>5. ask[1] \in failing /\ ask[2] # "auto" => health = "FAILED"
  BY <1>1 DEF Heard
<1>6. ASSUME NEW h, NEW status, NEW how, Judge(h, status, how),
             ask[1] \in failing /\ how # "silent" => h = "FAILED"
      PROVE  Heard'
  <2> DEFINE g == [i \in {Ident[ask[1]]} |->
                     [drive |-> ask[1], health |-> h, status |-> status, how |-> how]]
  <2>1. found' = Over(found, g) /\ ask' = <<>>
    BY <1>6 DEF Judge
  <2>2. Told(g)
    BY <1>6 DEF Told
  <2> HIDE DEF g
  <2>3. \A i \in DOMAIN Over(found, g) :
          \/ Over(found, g)[i] = found[i] /\ i \in DOMAIN found
          \/ Over(found, g)[i] = g[i] /\ i \in DOMAIN g
    BY OverIs
  <2>4. Told(found)'
    BY <1>1, <1>3, <2>1, <2>2, <2>3 DEF Told
  <2> QED BY <1>1, <1>2, <1>3, <2>1, <2>4 DEF Heard
<1>7. ASSUME NEW t, NEW h, Retry(t, h), ask[1] \in failing => h = "FAILED"
      PROVE  Heard'
  <2>1. ask' = <<ask[1], t>> /\ health' = h /\ found' = found
    BY <1>7 DEF Retry
  <2>2. Told(found)'
    BY <1>1, <1>3, <2>1 DEF Told
  <2> QED BY <1>1, <1>2, <1>3, <1>7, <2>1, <2>2 DEF Heard
<1>8. CASE QueryFails
  BY <1>5, <1>6, <1>8 DEF QueryFails
<1>9. CASE QueryRejected
  <2>1. ask[2] # "auto"
    BY <1>1, <1>9, DisksAssumption DEF QueryRejected, IInv, TypeOK
  <2> QED BY <1>5, <1>6, <1>7, <1>9, <2>1 DEF QueryRejected
<1>10. CASE QueryRead \/ QueryGarbled
  BY <1>4, <1>6, <1>10 DEF QueryRead, QueryGarbled
<1>11. CASE QueryEmpty
  BY <1>4, <1>6, <1>7, <1>11 DEF QueryEmpty
<1> QED BY <1>8, <1>9, <1>10, <1>11 DEF Query

LEMMA HeardStep ==
  ASSUME IInv, Heard, [Next]_vars
  PROVE  Heard'
<1>1. TypeOK /\ (node = {} => found = Nothing /\ queue = {} /\ ask = <<>>)
  BY DEF IInv, BetweenNodes
<1>2. CASE \/ Wait \/ UNCHANGED vars \/ \E d \in Drives : WearOut(d)
           \/ \E n \in Nodes : VisitFails(n)
  <2>1. UNCHANGED <<failing, polling, ask, health, found, list, node>>
    BY <1>2 DEF Wait, vars, visit, WearOut, VisitFails
  <2>2. UNCHANGED wear \/ \E d \in Drives : WearOut(d)
    BY <1>2 DEF Wait, vars, VisitFails
  <2>3. todo' \subseteq todo
    BY <1>2 DEF Wait, vars, visit, WearOut, VisitFails
  <2> QED BY <1>1, <2>1, <2>2, <2>3, HeardQuiet DEF Heard
<1>3. CASE Begin
  <2>1. /\ failing' = {d \in Drives : Failing(d)} /\ polling' /\ UNCHANGED wear
        /\ ask' = <<>> /\ found' = Nothing /\ list' = Nothing
    BY <1>1, <1>3 DEF Begin, Heard, visit
  <2> QED BY <2>1, NothingTyped DEF Heard, Told, Failing
<1>4. ASSUME NEW n \in Nodes, Visit(n) PROVE Heard'
  <2>1. polling /\ polling' /\ found' = found /\ UNCHANGED <<failing, wear, ask, health, list>>
    BY <1>1, <1>4 DEF Visit, Heard, TypeOK
  <2> QED BY <1>1, <2>1, HeardQuiet
<1>5. ASSUME NEW d \in Drives, AskFor(d) PROVE Heard'
  <2>1. ask' = <<d, "auto">> /\ UNCHANGED <<failing, wear, found, list, polling, todo, node>>
    BY <1>5 DEF AskFor
  <2>2. Told(found)' /\ Told(list)' /\ \A e \in failing' : Failing(e)'
    BY <2>1 DEF Heard, Told, Failing
  <2> QED BY <2>1, <2>2 DEF Heard
<1>6. CASE Query
  BY <1>6, HeardQuery
<1>7. CASE Leave
  <2>1. /\ list' = Over(list, found) /\ found' = Nothing
        /\ UNCHANGED <<failing, wear, ask, health, polling>>
    BY <1>7 DEF Leave
  <2>2. \A i \in DOMAIN Over(list, found) :
          \/ Over(list, found)[i] = list[i] /\ i \in DOMAIN list
          \/ Over(list, found)[i] = found[i] /\ i \in DOMAIN found
    BY OverIs
  <2>3. Told(list)' /\ Told(found)'
    BY <2>1, <2>2, NothingTyped DEF Heard, Told
  <2>4. polling
    BY <1>7 DEF Leave, Heard
  <2> QED BY <2>1, <2>3, <2>4 DEF Heard, Failing
<1>8. CASE UpdateDisks
  <2>1. /\ failing' = {} /\ todo' = {} /\ node' = {} /\ list' = Nothing
    BY <1>8 DEF UpdateDisks, visit
  <2> QED BY <2>1 DEF Heard, Told
<1> QED BY <1>2, <1>3, <1>4, <1>5, <1>6, <1>7, <1>8 DEF Next, Poll

\* What the views find fault with is alerted for, by the bits alone.
LEMMA ShownIsAlerted ==
  ASSUME NEW h, NEW status,
         DiskStatusClass(status) = "crit" \/ WidgetCategory(status) \in {"Failed", "Warning"}
  PROVE  DiskAlerts(h, status) # {}
<1>1. \E bit \in {"FailedSmart", "FailedScrutiny", "WarnScrutiny"} : bit \in status
  BY DEF DiskStatusClass, WidgetCategory, ScrutinyFailures
<1> QED BY <1>1 DEF DiskAlerts

\* A drive that fails its own test and answers at all is alerted for, however
\* the cascade of its queries ends, for all drives, queries answered, rejected
\* or failed; and so is every fault that the chip or the widget shows.
THEOREM FaultsAlerted == Spec => NoFaultUnalerted
<1> DEFINE Step ==
      UpdateDisks =>
        \A i \in DOMAIN list :
          LET disk == cache'[i]
              alerts == DiskAlerts(disk.health, disk.status) IN
          /\ disk.drive \in failing /\ disk.how # "silent" => "disk_smart_failed" \in alerts
          /\ DiskStatusClass(disk.status) = "crit" => alerts # {}
          /\ WidgetCategory(disk.status) \in {"Failed", "Warning"} => alerts # {}
<1>1. Init => Heard
  BY NothingTyped DEF Init, Heard, Told
<1>2. IInv /\ Heard /\ [Next]_vars => Heard'
  BY HeardStep
<1>3. ASSUME Heard PROVE Step
  <2> SUFFICES ASSUME UpdateDisks, NEW i \in DOMAIN list,
                      NEW disk, disk = cache'[i]
               PROVE  LET alerts == DiskAlerts(disk.health, disk.status) IN
                      /\ disk.drive \in failing /\ disk.how # "silent"
                           => "disk_smart_failed" \in alerts
                      /\ DiskStatusClass(disk.status) = "crit" => alerts # {}
                      /\ WidgetCategory(disk.status) \in {"Failed", "Warning"} => alerts # {}
    BY Zenon
  <2>1. disk = list[i]
    BY DEF UpdateDisks, Over
  <2>2. disk.drive \in failing /\ disk.how # "silent" => disk.health = "FAILED"
    BY <1>3, <2>1 DEF Heard, Told
  <2> QED BY <2>2, ShownIsAlerted DEF DiskAlerts
<1>4. Heard => [Step]_vars
  BY <1>3
<1>5. Spec => [][Step]_vars
  BY <1>1, <1>2, <1>4, Inv, PTL DEF Spec
<1> QED BY <1>5 DEF NoFaultUnalerted
=============================================================================
