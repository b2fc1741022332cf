-------------------------------- MODULE Smart --------------------------------
(***************************************************************************)
(* How SMART attributes are judged (internal/smart): the manufacturer's    *)
(* threshold first, then the annual failure rate of the bucket the raw     *)
(* value falls into.  A status, a bit field in the code, is the set of its *)
(* bits; the empty one is StatusPassed.  Rates are in thousandths.         *)
(***************************************************************************)
EXTENDS Integers, FiniteSetsExt

Huge == 2000000000   \* stands for 1<<62 - 1; no raw value here is as large

\* Rows <<attribute id, buckets>> of the table; a bucket is <<low, high, rate>>.
ThresholdRows ==
  { <<5,   <<<<0, 0, 25>>, <<1, 4, 27>>, <<4, 16, 75>>, <<16, 70, 236>>, <<70, Huge, 500>>>>>>,
    <<10,  <<<<0, 0, 25>>, <<1, 3, 150>>, <<3, Huge, 350>>>>>>,
    <<187, <<<<0, 0, 15>>, <<1, 10, 50>>, <<10, 50, 150>>, <<50, Huge, 400>>>>>>,
    <<188, <<<<0, 0, 15>>, <<1, 100, 30>>, <<100, 1000, 80>>, <<1000, Huge, 200>>>>>>,
    <<196, <<<<0, 0, 25>>, <<1, 5, 50>>, <<5, Huge, 250>>>>>>,
    <<197, <<<<0, 0, 25>>, <<1, 5, 100>>, <<5, Huge, 350>>>>>>,
    <<198, <<<<0, 0, 25>>, <<1, 5, 100>>, <<5, Huge, 350>>>>>>,
    <<1,   <<<<0, 0, 20>>, <<1, 1000, 30>>, <<1000, 100000, 80>>, <<100000, Huge, 150>>>>>>,
    <<9,   <<<<0, 10000, 20>>, <<10000, 20000, 25>>, <<20000, 40000, 30>>, <<40000, Huge, 60>>>>>>,
    <<194, <<<<0, 35, 20>>, <<35, 45, 25>>, <<45, 55, 50>>, <<55, Huge, 120>>>>>>,
    <<199, <<<<0, 0, 25>>, <<1, 100, 30>>, <<100, Huge, 100>>>>>>,
    <<200, <<<<0, 0, 20>>, <<1, 100, 50>>, <<100, Huge, 150>>>>>> }

ThresholdTable ==
  [id \in {row[1] : row \in ThresholdRows} |->
     (CHOOSE row \in ThresholdRows : row[1] = id)[2]]

CriticalAttributes == {5, 10, 187, 188, 196, 197, 198}

\* Pseudo attributes that the text parsers make of fields of other protocols.
NVMePercentageUsed == 5
SCSITemperature == 300

\* Mutant: the upper end of a bucket is excluded, as the type's comment says.
FindBucketExclusive(t, raw) ==
  LET fits == {i \in DOMAIN t : t[i][1] <= raw /\ raw < t[i][2]}
  IN IF fits = {} THEN 0 ELSE Min(fits)

\* The first bucket that holds raw, both its ends included; 0 if there is none.
FindBucket(t, raw) ==
  LET fits == {i \in DOMAIN t : t[i][1] <= raw /\ raw <= t[i][2]}
  IN IF fits = {} THEN 0 ELSE Min(fits)

\* The statistical half of EvaluateAttribute.
EvaluateRate(a) ==
  IF a.id \notin DOMAIN ThresholdTable THEN {}
  ELSE LET t == ThresholdTable[a.id]
           b == FindBucket(t, a.raw)
           critical == a.id \in CriticalAttributes
           fails == b # 0 /\ t[b][3] >= (IF critical THEN 100 ELSE 200)
           warns == IF b = 0 THEN critical ELSE ~critical /\ t[b][3] \in 100..199
       IN (IF fails THEN {"FailedScrutiny"} ELSE {}) \cup (IF warns THEN {"WarnScrutiny"} ELSE {})

\* EvaluateAttribute; the protocol it is given is not looked at.
EvaluateAttribute(a) ==
  IF a.threshold > 0 /\ a.value > 0 /\ a.value <= a.threshold THEN {"FailedSmart"}
  ELSE EvaluateRate(a)

EvaluateDisk(attributes) == UNION {EvaluateAttribute(a) : a \in attributes}

\* How bad a status is, for those that EvaluateDisk gives.
Severity(status) ==
  IF "FailedSmart" \in status THEN 3
  ELSE IF "FailedScrutiny" \in status THEN 2
  ELSE IF "WarnScrutiny" \in status THEN 1
  ELSE 0
=============================================================================
