----------------------------- MODULE SmartProofs -----------------------------
(***************************************************************************)
(* The table of failure rates and its lookup: every raw value falls into a *)
(* bucket, and a larger raw value is never judged more mildly.             *)
(***************************************************************************)
EXTENDS Smart, TLAPS

Fits(t, i, raw) == i \in DOMAIN t /\ t[i][1] <= raw /\ raw <= t[i][2]

\* What the lookup needs of a row of the table: the buckets cover 0..Huge in
\* ascending order, and their rates grow.
Ordered(t) ==
  /\ DOMAIN t \subseteq 1..5
  /\ \A i \in DOMAIN t : t[i][1] \in 0..Huge /\ t[i][2] \in 0..Huge /\ t[i][3] \in Nat
  /\ \A i, j \in DOMAIN t : i <= j => t[i][1] <= t[j][1] /\ t[i][3] <= t[j][3]
  /\ \A raw \in 0..Huge : \E i \in DOMAIN t : Fits(t, i, raw)

\* No row of the table has more than five buckets.
LEMMA MinOfFew ==
  ASSUME NEW S \in SUBSET (1..5), S # {}
  PROVE  Min(S) \in S /\ \A x \in S : Min(S) <= x
<1>1. \E m \in S : \A x \in S : m <= x
  <2>1. CASE 1 \in S
    BY <2>1
  <2>2. CASE 1 \notin S /\ 2 \in S
    BY <2>2
  <2>3. CASE 1 \notin S /\ 2 \notin S /\ 3 \in S
    BY <2>3
  <2>4. CASE 1 \notin S /\ 2 \notin S /\ 3 \notin S /\ 4 \in S
    BY <2>4
  <2>5. CASE 1 \notin S /\ 2 \notin S /\ 3 \notin S /\ 4 \notin S
    <3>1. \A x \in S : x = 5
      BY <2>5
    <3>2. PICK m \in S : TRUE
      OBVIOUS
    <3>3. \A x \in S : m <= x
      BY <3>1
    <3> QED BY <3>3
  <2> QED BY <2>1, <2>2, <2>3, <2>4, <2>5
<1> QED BY <1>1 DEF Min

\* Huge is only known to exceed every bound of the table.
LEMMA HugeIsLarge == Huge \in Nat /\ Huge > 1000000
BY SMT DEF Huge

\* FindBucket returns the first bucket that holds the value.
LEMMA BucketFits ==
  ASSUME NEW t, Ordered(t), NEW raw \in 0..Huge
  PROVE  /\ Fits(t, FindBucket(t, raw), raw)
         /\ \A i \in DOMAIN t : Fits(t, i, raw) => FindBucket(t, raw) <= i
<1> DEFINE fits == {i \in DOMAIN t : t[i][1] <= raw /\ raw <= t[i][2]}
<1>1. fits \in SUBSET (1..5) /\ fits # {}
  BY DEF Ordered, Fits
<1>2. FindBucket(t, raw) = Min(fits)
  BY <1>1 DEF FindBucket
<1> QED BY <1>1, <1>2, MinOfFew DEF Fits

\* A larger value falls into no earlier bucket, shared ends included.
LEMMA BucketsAscend ==
  ASSUME NEW t, Ordered(t), NEW r \in 0..Huge, NEW s \in 0..Huge, r <= s
  PROVE  FindBucket(t, r) <= FindBucket(t, s)
<1> DEFINE i == FindBucket(t, r)  j == FindBucket(t, s)
<1> HIDE DEF i, j
<1>1. Fits(t, i, r) /\ Fits(t, j, s) /\ \A k \in DOMAIN t : Fits(t, k, r) => i <= k
  BY BucketFits DEF i, j
<1>2. i \in Nat /\ j \in Nat
  BY <1>1 DEF Ordered, Fits
<1>3. ASSUME j < i PROVE FALSE
  <2>1. t[j][1] <= t[i][1] /\ t[i][1] <= r
    BY <1>1, <1>2, <1>3 DEF Ordered, Fits
  <2>2. Fits(t, j, r)
    BY <1>1, <2>1, HugeIsLarge DEF Ordered, Fits
  <2> QED BY <1>1, <1>2, <1>3, <2>2 DEF Fits
<1> QED BY <1>2, <1>3 DEF i, j

\* Every row of the table is what the lookup needs.
LEMMA RowsOrdered == \A row \in ThresholdRows : Ordered(row[2])
<1> SUFFICES ASSUME NEW row \in ThresholdRows PROVE Ordered(row[2])
  OBVIOUS
<1> DEFINE t == row[2]
<1>2. DOMAIN t \in {1..3, 1..4, 1..5}
  BY SMT DEF ThresholdRows
<1>3. \A i, j \in DOMAIN t : i <= j => t[i][1] <= t[j][1] /\ t[i][3] <= t[j][3]
  BY HugeIsLarge, SMTT(30) DEF ThresholdRows
<1>4. \A i \in DOMAIN t : t[i][1] \in 0..Huge /\ t[i][2] \in 0..Huge /\ t[i][3] \in Nat
  BY HugeIsLarge, SMTT(30) DEF ThresholdRows
<1>5. \A raw \in 0..Huge : \E i \in DOMAIN t : Fits(t, i, raw)
  BY HugeIsLarge, SMTT(30) DEF ThresholdRows, Fits
<1> QED BY <1>2, <1>3, <1>4, <1>5 DEF Ordered

\* Every raw value falls into a bucket, and a larger one is judged no better
\* (EvaluateAttribute, FindBucket, thresholdTable).
THEOREM RateGrows ==
  ASSUME NEW a, NEW b, a.id = b.id, a.raw \in 0..Huge, b.raw \in 0..Huge, a.raw <= b.raw
  PROVE  Severity(EvaluateRate(a)) <= Severity(EvaluateRate(b))
<1>1. CASE a.id \notin DOMAIN ThresholdTable
  BY <1>1 DEF EvaluateRate, Severity
<1>2. CASE a.id \in DOMAIN ThresholdTable
  <2> DEFINE t == ThresholdTable[a.id]
             i == FindBucket(t, a.raw)
             j == FindBucket(t, b.raw)
             critical == a.id \in CriticalAttributes
             limit == IF critical THEN 100 ELSE 200
             Fails(k) == k # 0 /\ t[k][3] >= limit
             Warns(k) == IF k = 0 THEN critical ELSE ~critical /\ t[k][3] \in 100..199
             Rate(k) == (IF Fails(k) THEN {"FailedScrutiny"} ELSE {})
                          \cup (IF Warns(k) THEN {"WarnScrutiny"} ELSE {})
  <2>1. Ordered(t)
    <3>1. DOMAIN ThresholdTable = {row[1] : row \in ThresholdRows}
      BY DEF ThresholdTable
    <3>2. PICK row \in ThresholdRows : row[1] = a.id
      BY <1>2, <3>1
    <3>3. (CHOOSE r \in ThresholdRows : r[1] = a.id) \in ThresholdRows
      BY <3>2
    <3>4. t = (CHOOSE r \in ThresholdRows : r[1] = a.id)[2]
      BY <1>2, <3>1 DEF ThresholdTable
    <3> QED BY <3>3, <3>4, RowsOrdered
  <2> HIDE DEF t
  <2>2. Fits(t, i, a.raw) /\ Fits(t, j, b.raw) /\ i <= j
    BY <2>1, BucketFits, BucketsAscend
  <2>3. EvaluateRate(a) = Rate(i) /\ EvaluateRate(b) = Rate(j)
    BY <1>2 DEF EvaluateRate, t
  <2> HIDE DEF i, j, critical
  <2>4. i # 0 /\ j # 0 /\ t[i][3] \in Nat /\ t[j][3] \in Nat /\ t[i][3] <= t[j][3]
    BY <2>1, <2>2 DEF Ordered, Fits
  <2>5. (Fails(i) => Fails(j)) /\ (Warns(i) => Warns(j) \/ Fails(j))
    BY <2>4
  <2> HIDE DEF Fails, Warns
  <2>6. Severity(Rate(i)) <= Severity(Rate(j))
    BY <2>5 DEF Severity
  <2> QED BY <2>3, <2>6
<1> QED BY <1>1, <1>2
=============================================================================
